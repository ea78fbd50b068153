--------------------------- MODULE CanNet_proofs ---------------------------
(***************************************************************************)
(* Theorems about CanNet.  The type invariant and what putting a message   *)
(* together from its frames relies on hold for every value of the          *)
(* constants: any messages, any frames on the bus, with or without driver  *)
(* errors, late ticks and stale confirmations.  The theorems about sending *)
(* (the memory of a message's context, the order on the bus, each message  *)
(* answered once, the promise of MsgService) name the conditions they      *)
(* need: Prompt, Orderly, Apart, RefusedAlone.  The first of them hold for *)
(* a driver that reports errors too.                                       *)
(***************************************************************************)
EXTENDS CanNet, SequenceTheorems, FiniteSetTheorems, WellFoundedInduction, TLAPS

-----------------------------------------------------------------------------
(* Lemmas about the operators the model is built from.                     *)

(* A set of natural numbers that is not empty has a least element.         *)
LEMMA LeastExists ==
  ASSUME NEW S, S \subseteq Nat, S # {}
  PROVE  \E x \in S : \A y \in S : x <= y
<1>1. \E x \in S : \A y \in S : <<y, x>> \notin OpToRel(<, Nat)
  BY NatLessThanWellFounded, WFMin
<1>2. ASSUME NEW x \in Nat, NEW y \in Nat, <<y, x>> \notin OpToRel(<, Nat)
      PROVE  x <= y
  BY <1>2 DEF OpToRel
<1> QED
  BY <1>1, <1>2

LEMMA MinIsLeast ==
  ASSUME NEW S, S \subseteq Nat, S # {}
  PROVE  Min(S) \in S /\ \A y \in S : Min(S) <= y
BY LeastExists DEF Min

(* FindAtom finds an atom of the key when there is one.                    *)
LEMMA FindAtomFinds ==
  ASSUME NEW S, NEW list \in Seq(S), NEW k
  PROVE  /\ FindAtom(list, k) \in 0 .. Len(list)
         /\ FindAtom(list, k) # 0 => KeyOf(list[FindAtom(list, k)]) = k
         /\ FindAtom(list, k) = 0 => \A i \in 1 .. Len(list) : KeyOf(list[i]) # k
<1> DEFINE n == Len(list)
           I == {i \in 1 .. n : KeyOf(list[i]) = k}
<1>1. FindAtom(list, k) = IF I # {} THEN Min(I) ELSE 0
  BY DEF FindAtom, SelectInSeq
<1>2. n \in Nat
  BY LenProperties
<1> HIDE DEF n
<1>3. I \subseteq Nat
  BY <1>2
<1>4. CASE I = {}
  <2>1. FindAtom(list, k) = 0
    BY <1>1, <1>4
  <2>2. \A i \in 1 .. n : KeyOf(list[i]) # k
    BY <1>4
  <2> QED
    BY <1>2, <2>1, <2>2 DEF n
<1>5. CASE I # {}
  <2>1. Min(I) \in I
    BY <1>3, <1>5, MinIsLeast
  <2>2. FindAtom(list, k) = Min(I)
    BY <1>1, <1>5
  <2>3. FindAtom(list, k) \in 1 .. n /\ KeyOf(list[FindAtom(list, k)]) = k
    BY <2>1, <2>2
  <2>4. FindAtom(list, k) # 0 /\ FindAtom(list, k) \in 0 .. n
    BY <1>2, <2>3
  <2> QED
    BY <2>3, <2>4 DEF n
<1> QED
  BY <1>4, <1>5

LEMMA RemoveAtProperties ==
  ASSUME NEW S, NEW s \in Seq(S), NEW i \in 1 .. Len(s)
  PROVE  /\ RemoveAt(s, i) \in Seq(S)
         /\ Len(RemoveAt(s, i)) = Len(s) - 1
         /\ \A j \in 1 .. Len(s) - 1 :
              RemoveAt(s, i)[j] = IF j < i THEN s[j] ELSE s[j + 1]
<1>1. Len(s) \in Nat /\ \A j \in 1 .. Len(s) : s[j] \in S
  BY LenProperties
<1> DEFINE l == SubSeq(s, 1, i - 1)
           r == SubSeq(s, i + 1, Len(s))
<1>2. /\ l \in Seq(S) /\ Len(l) = i - 1
      /\ \A j \in 1 .. i - 1 : l[j] = s[j]
  <2>1. \A j \in 1 .. i - 1 : s[j] \in S
    BY <1>1
  <2> QED
    BY <1>1, <2>1, SubSeqProperties
<1>3. /\ r \in Seq(S) /\ Len(r) = Len(s) - i
      /\ \A j \in 1 .. Len(s) - i : r[j] = s[i + j]
  <2>1. \A j \in i + 1 .. Len(s) : s[j] \in S
    BY <1>1
  <2> QED
    BY <1>1, <2>1, SubSeqProperties
<1>4. RemoveAt(s, i) = l \o r
  BY DEF RemoveAt
<1> HIDE DEF l, r
<1>5. /\ l \o r \in Seq(S) /\ Len(l \o r) = Len(l) + Len(r)
      /\ \A j \in 1 .. Len(l) + Len(r) :
           (l \o r)[j] = IF j <= Len(l) THEN l[j] ELSE r[j - Len(l)]
  BY <1>2, <1>3, ConcatProperties
<1>6. Len(l) + Len(r) = Len(s) - 1
  BY <1>1, <1>2, <1>3
<1>7. ASSUME NEW j \in 1 .. Len(s) - 1
      PROVE  (l \o r)[j] = IF j < i THEN s[j] ELSE s[j + 1]
  <2>1. CASE j < i
    BY <1>1, <1>2, <1>5, <1>6, <2>1
  <2>2. CASE ~ (j < i)
    <3>1. j - (i - 1) \in 1 .. Len(s) - i /\ i + (j - (i - 1)) = j + 1
      BY <1>1, <2>2
    <3> QED
      BY <1>1, <1>2, <1>3, <1>5, <1>6, <2>2, <3>1
  <2> QED
    BY <2>1, <2>2
<1> QED
  BY <1>4, <1>5, <1>6, <1>7

(* get_atom_wtrace: the list is the same but for a fresh atom at its end,  *)
(* and it has an atom of the key.                                          *)
LEMMA GetAtomHas ==
  ASSUME NEW list \in Seq(Atom), NEW k \in Nat \X Ids
  PROVE  /\ FreshAtom(k) \in Atom
         /\ GetAtom(list, k) \in Seq(Atom)
         /\ Len(GetAtom(list, k)) >= Len(list)
         /\ \A i \in 1 .. Len(list) : GetAtom(list, k)[i] = list[i]
         /\ \A i \in 1 .. Len(GetAtom(list, k)) :
              i \in 1 .. Len(list) \/ GetAtom(list, k)[i] = FreshAtom(k)
         /\ FindAtom(GetAtom(list, k), k) \in 1 .. Len(GetAtom(list, k))
         /\ KeyOf(GetAtom(list, k)[FindAtom(GetAtom(list, k), k)]) = k
<1>1. Len(list) \in Nat
  BY LenProperties
<1>2. FreshAtom(k) \in Atom
  BY WidthAssumption DEF FreshAtom, Atom, Piece
<1>3. KeyOf(FreshAtom(k)) = k
  BY DEF FreshAtom, KeyOf
<1>4. CASE FindAtom(list, k) = 0
  <2>1. GetAtom(list, k) = Append(list, FreshAtom(k))
    BY <1>4 DEF GetAtom
  <2>2. /\ Append(list, FreshAtom(k)) \in Seq(Atom)
        /\ Len(Append(list, FreshAtom(k))) = Len(list) + 1
        /\ \A i \in 1 .. Len(list) : Append(list, FreshAtom(k))[i] = list[i]
        /\ Append(list, FreshAtom(k))[Len(list) + 1] = FreshAtom(k)
    BY <1>1, <1>2, AppendProperties
  <2> DEFINE new == Append(list, FreshAtom(k))
  <2>3. /\ FindAtom(new, k) \in 0 .. Len(new)
        /\ FindAtom(new, k) # 0 => KeyOf(new[FindAtom(new, k)]) = k
        /\ FindAtom(new, k) = 0 => \A i \in 1 .. Len(new) : KeyOf(new[i]) # k
    BY <2>2, FindAtomFinds
  <2>4. Len(list) + 1 \in 1 .. Len(new)
    BY <1>1, <2>2
  <2>5. FindAtom(new, k) # 0
    BY <1>3, <2>2, <2>3, <2>4
  <2> HIDE DEF new
  <2>6. FindAtom(new, k) \in 1 .. Len(new) /\ KeyOf(new[FindAtom(new, k)]) = k
    BY <1>1, <2>2, <2>3, <2>5 DEF new
  <2>7. Len(new) >= Len(list) /\ \A i \in 1 .. Len(new) : i \in 1 .. Len(list) \/ i = Len(list) + 1
    BY <1>1, <2>2 DEF new
  <2> QED
    BY <1>2, <2>1, <2>2, <2>6, <2>7 DEF new
<1>5. CASE FindAtom(list, k) # 0
  <2>1. GetAtom(list, k) = list
    BY <1>5 DEF GetAtom
  <2>2. /\ FindAtom(list, k) \in 0 .. Len(list)
        /\ FindAtom(list, k) # 0 => KeyOf(list[FindAtom(list, k)]) = k
    BY FindAtomFinds
  <2>3. FindAtom(list, k) \in 1 .. Len(list)
    BY <1>1, <1>5, <2>2
  <2> QED
    BY <1>1, <1>2, <1>5, <2>1, <2>2, <2>3
<1> QED
  BY <1>4, <1>5

(* The pass over the waiters exists: an induction on the length of the     *)
(* list, by a least counterexample.                                        *)
LEMMA SurvivorsUnfold ==
  ASSUME NEW ws \in Seq(Waiter)
  PROVE  \E left :
           /\ Survivors(ws) = left[Len(ws)]
           /\ left[0] = <<>>
           /\ \A i \in 1 .. Len(ws) :
                left[i] = IF Expired(ws[i]) THEN left[i - 1]
                          ELSE Append(left[i - 1], [ws[i] EXCEPT !.tics = @ - 1])
<1> DEFINE n == Len(ws)
           Step(i, prev) == IF Expired(ws[i]) THEN prev
                            ELSE Append(prev, [ws[i] EXCEPT !.tics = @ - 1])
           Row(i, f) == IF i = 0 THEN <<>> ELSE Step(i, f[i - 1])
           Pass(j, f) == f = [i \in 0 .. j |-> Row(i, f)]
           left == CHOOSE f : f = [i \in 0 .. n |-> Row(i, f)]
<1>1. n \in Nat
  BY LenProperties
<1>2. Survivors(ws) = left[n]
  BY DEF Survivors
<1>3. \A j \in 0 .. n : \E f : Pass(j, f)
  <2> DEFINE T == {j \in 0 .. n : ~ \E f : Pass(j, f)}
  <2> SUFFICES ASSUME T # {} PROVE FALSE
    OBVIOUS
  <2>1. PICK j \in T : \A y \in T : j <= y
    <3> HIDE DEF Pass
    <3>1. T \subseteq Nat
      BY <1>1
    <3> QED
      BY <3>1, LeastExists
  <2>2. j \in 0 .. n /\ ~ \E f : Pass(j, f)
    OBVIOUS
  <2>3. CASE j = 0
    <3> DEFINE f == [i \in 0 .. 0 |-> <<>>]
    <3>1. Pass(0, f)
      <4>1. \A i \in 0 .. 0 : Row(i, f) = <<>>
        OBVIOUS
      <4> HIDE DEF Row
      <4> QED
        BY <4>1
    <3> QED
      BY <2>2, <2>3, <3>1
  <2>4. CASE j # 0
    <3>1. j - 1 \in 0 .. n /\ ~ (j <= j - 1)
      BY <1>1, <2>2, <2>4
    <3>2. PICK f : Pass(j - 1, f)
      <4> HIDE DEF Pass
      <4> QED
        BY <2>1, <3>1
    <3> DEFINE g == [i \in 0 .. j |-> IF i = j THEN Step(j, f[j - 1]) ELSE f[i]]
    <3>3. ASSUME NEW i \in 0 .. j PROVE g[i] = Row(i, g)
      <4> HIDE DEF Step
      <4>1. CASE i = 0
        <5>1. 0 \in 0 .. j - 1
          BY <1>1, <2>2, <2>4
        <5> QED
          BY <2>4, <3>2, <4>1, <5>1
      <4>2. CASE i = j
        <5>1. j - 1 \in 0 .. j /\ j - 1 # j /\ i \in Int
          BY <1>1, <2>2, <2>4
        <5>2. g[j - 1] = f[j - 1]
          BY <5>1
        <5> QED
          BY <2>4, <4>2, <5>1, <5>2
      <4>3. CASE i # 0 /\ i # j
        <5>1. i \in 0 .. j - 1 /\ i - 1 \in 0 .. j /\ i - 1 # j
          BY <1>1, <2>2, <4>3
        <5>2. g[i] = f[i] /\ g[i - 1] = f[i - 1]
          BY <4>3, <5>1
        <5> HIDE DEF g
        <5> QED
          BY <3>2, <4>3, <5>1, <5>2
      <4> QED
        BY <4>1, <4>2, <4>3
    <3>4. Pass(j, g)
      <4> HIDE DEF Row
      <4> QED
        BY <3>3
    <3> QED
      BY <2>2, <3>4
  <2> QED
    BY <2>3, <2>4
<1>4. left = [i \in 0 .. n |-> Row(i, left)]
  <2> HIDE DEF Row
  <2>1. \E f : f = [i \in 0 .. n |-> Row(i, f)]
    <3>1. n \in 0 .. n
      BY <1>1
    <3> HIDE DEF n
    <3> QED
      BY <1>3, <3>1
  <2> QED
    BY <2>1
<1> HIDE DEF left
<1>5. left[0] = <<>>
  <2>1. 0 \in 0 .. n /\ Row(0, left) = <<>>
    BY <1>1
  <2> HIDE DEF Row
  <2> QED
    BY <1>4, <2>1
<1>6. \A i \in 1 .. n : left[i] = Step(i, left[i - 1])
  <2> SUFFICES ASSUME NEW i \in 1 .. n PROVE left[i] = Step(i, left[i - 1])
    OBVIOUS
  <2>1. i \in 0 .. n /\ i # 0
    BY <1>1
  <2>2. Row(i, left) = Step(i, left[i - 1])
    <3> HIDE DEF Step
    <3> QED
      BY <2>1
  <2> HIDE DEF Row, Step
  <2> QED
    BY <1>4, <2>1, <2>2
<1> QED
  BY <1>2, <1>5, <1>6

(* It leaves a list of waiters.                                            *)
LEMMA SurvivorsType ==
  ASSUME NEW ws \in Seq(Waiter)
  PROVE  Survivors(ws) \in Seq(Waiter)
<1> DEFINE n == Len(ws)
           Step(i, prev) == IF Expired(ws[i]) THEN prev
                            ELSE Append(prev, [ws[i] EXCEPT !.tics = @ - 1])
<1>1. n \in Nat
  BY LenProperties
<1>2. PICK left : /\ Survivors(ws) = left[n]
                  /\ left[0] = <<>>
                  /\ \A i \in 1 .. n : left[i] = Step(i, left[i - 1])
  BY SurvivorsUnfold
<1>3. \A j \in 0 .. n : left[j] \in Seq(Waiter)
  <2> DEFINE T == {j \in 0 .. n : left[j] \notin Seq(Waiter)}
  <2> SUFFICES ASSUME T # {} PROVE FALSE
    OBVIOUS
  <2>1. PICK j \in T : \A y \in T : j <= y
    <3>1. T \subseteq Nat
      BY <1>1
    <3> QED
      BY <3>1, LeastExists
  <2>2. j \in 0 .. n /\ left[j] \notin Seq(Waiter)
    OBVIOUS
  <2>3. j # 0
    BY <1>2, <2>2, EmptySeq
  <2>4. j \in 1 .. n /\ left[j] = Step(j, left[j - 1])
    BY <1>1, <1>2, <2>2, <2>3
  <2>5. j - 1 \in 0 .. n /\ ~ (j <= j - 1) /\ j \in 1 .. Len(ws)
    BY <1>1, <2>2, <2>3
  <2>6. left[j - 1] \in Seq(Waiter)
    BY <2>1, <2>5
  <2>7. ws[j] \in Waiter
    BY <2>5, ElementOfSeq
  <2>8. ~ Expired(ws[j]) => [ws[j] EXCEPT !.tics = @ - 1] \in Waiter
    BY <2>7 DEF Expired, Waiter
  <2>9. Step(j, left[j - 1]) \in Seq(Waiter)
    <3> DEFINE next == [ws[j] EXCEPT !.tics = @ - 1]
    <3> HIDE DEF next
    <3>1. next \in Waiter => Append(left[j - 1], next) \in Seq(Waiter)
      BY <2>6, AppendProperties
    <3> QED
      BY <2>6, <2>8, <3>1 DEF next
  <2> QED
    BY <2>2, <2>4, <2>9
<1> QED
  BY <1>1, <1>2, <1>3

-----------------------------------------------------------------------------
(* The type invariant.                                                     *)

LEMMA KeysTyped ==
  /\ \A k \in Keys : k \in Nat \X Ids
  /\ \A m \in Msgs : /\ KeyOf(Msg[m]) \in Keys
                      /\ KeyOf(Msg[m]) \in Nat \X Ids
                      /\ Msg[m].frames \in Nat
  /\ \A f \in PeerFrames : /\ KeyOf(f) \in Nat \X Ids
                            /\ f.num \in Nat /\ f.lfb \in BOOLEAN /\ f.src \in STRING
<1>1. \A h \in Hwas : h \in Nat
  BY HwasAssumption
<1>2. \A f \in PeerFrames : f \in BusFrame
  BY FramesAssumption
<1> QED
  BY <1>1, <1>2, MsgsAssumption DEF Keys, KeyOf, MsgInfo, BusFrame

LEMMA AppendTyped ==
  ASSUME NEW S, NEW s \in Seq(S), NEW e \in S
  PROVE  Append(s, e) \in Seq(S)
BY AppendProperties

LEMMA CountsTyped ==
  ASSUME NEW n \in 0 .. SendingMod - 1
  PROVE  CountUp(n) \in 0 .. SendingMod - 1 /\ CountDown(n) \in 0 .. SendingMod - 1
BY WidthAssumption DEF CountUp, CountDown

LEMMA AnsweredTyped ==
  ASSUME NEW ans \in [Msgs -> Seq(RCs)], NEW m, NEW rc \in RCs
  PROVE  Answered(ans, m, rc) \in [Msgs -> Seq(RCs)]
<1>1. m \in Msgs => Append(ans[m], rc) \in Seq(RCs)
  BY AppendTyped
<1> QED
  BY <1>1 DEF Answered

LEMMA DispatchTyped ==
  ASSUME TypeOK, NEW m \in Msgs, NEW out \in Seq(OutFrame), NEW stg \in [Msgs -> Stages],
         NEW ans \in [Msgs -> Seq(RCs)], Dispatch(m, out, stg, ans)
  PROVE  /\ framesOut' \in Seq(OutFrame)
         /\ waiters' \in Seq(Waiter)
         /\ pos' \in [Msgs -> Nat]
         /\ stage' \in [Msgs -> Stages]
         /\ answers' \in [Msgs -> Seq(RCs)]
<1>1. waiters \in Seq(Waiter) /\ pos \in [Msgs -> Nat]
  BY DEF TypeOK
<1>2. CASE Verdict(m) = RC_NORM
  <2>1. /\ framesOut' = Append(out, NextFrame(m))
        /\ waiters' = IF NeedsWaiter(m) THEN Append(waiters, [msg |-> m, tics |-> Tics])
                                        ELSE waiters
        /\ pos' = [pos EXCEPT ![m] = @ + 1]
        /\ stage' = [stg EXCEPT ![m] = "driver"]
        /\ answers' = ans
    BY <1>2, Zenon DEF Dispatch
  <2>2. NextFrame(m) \in OutFrame
    BY <1>1 DEF NextFrame, OutFrame
  <2>3. framesOut' \in Seq(OutFrame)
    BY <2>1, <2>2, AppendTyped, Zenon
  <2>4. [msg |-> m, tics |-> Tics] \in Waiter
    BY WidthAssumption DEF Waiter
  <2>5. waiters' \in Seq(Waiter)
    BY <1>1, <2>1, <2>4, AppendTyped, Zenon
  <2>6. pos' \in [Msgs -> Nat] /\ stage' \in [Msgs -> Stages]
    BY <1>1, <2>1 DEF Stages
  <2> QED
    BY <2>1, <2>3, <2>5, <2>6
<1>3. CASE Verdict(m) # RC_NORM
  <2>1. Verdict(m) \in RCs
    BY DEF Verdict, RCs
  <2>2. answers' \in [Msgs -> Seq(RCs)]
    BY <1>3, <2>1, AnsweredTyped DEF Dispatch
  <2>3. stage' \in [Msgs -> Stages]
    BY <1>3 DEF Dispatch, Stages
  <2> QED
    BY <1>1, <1>3, <2>2, <2>3 DEF Dispatch
<1> QED
  BY <1>2, <1>3

(* An atom of the list is replaced by another, or taken out.               *)
LEMMA ListTyped ==
  ASSUME NEW S, NEW list \in Seq(S), NEW i \in 1 .. Len(list)
  PROVE  /\ \A a \in S : /\ [list EXCEPT ![i] = a] \in Seq(S)
                          /\ Len([list EXCEPT ![i] = a]) = Len(list)
         /\ RemoveAt(list, i) \in Seq(S)
         /\ list[i] \in S
BY ExceptSeq, RemoveAtProperties, ElementOfSeq

LEMMA StartSendingTyped ==
  ASSUME TypeOK, NEW m \in Msgs, StartSending(m)
  PROVE  TypeOK'
<1> DEFINE k == KeyOf(Msg[m])
           list == GetAtom(atoms, k)
           i == FindAtom(list, k)
           n == CountUp(list[i].sending)
<1>1. atoms \in Seq(Atom)
  BY DEF TypeOK
<1>2. list \in Seq(Atom) /\ Len(list) >= Len(atoms) /\ i \in 1 .. Len(list)
  BY <1>1, KeysTyped, GetAtomHas
<1>3. list[i] \in Atom
  BY <1>2, ElementOfSeq
<1>4. n \in 0 .. SendingMod - 1
  BY <1>3, CountsTyped DEF Atom
<1>5. /\ \/ /\ atoms' = [list EXCEPT ![i] = [list[i] EXCEPT !.sending = n, !.queue = Enqueue(@, m)]]
            /\ stage' = [stage EXCEPT ![m] = "queued"]
         \/ /\ atoms' = [list EXCEPT ![i] = [list[i] EXCEPT !.sending = n]]
            /\ stage' = [stage EXCEPT ![m] = "starting"]
      /\ submitted' = Append(submitted, m)
      /\ UNCHANGED <<pos, framesOut, waiters, answers, window, confirms, received>>
  BY Zenon DEF StartSending
<1> HIDE DEF k, list, i, n
<1>6. atoms' \in Seq(Atom) /\ Len(atoms') = Len(list)
  <2> DEFINE a == [list[i] EXCEPT !.sending = n, !.queue = Enqueue(@, m)]
             b == [list[i] EXCEPT !.sending = n]
  <2>1. a \in Atom /\ b \in Atom
    <3>1. list[i].queue \in Seq(Msgs)
      BY <1>3 DEF Atom
    <3>2. Enqueue(list[i].queue, m) \in Seq(Msgs)
      BY <3>1, AppendTyped DEF Enqueue
    <3> QED
      BY <1>3, <1>4, <3>2 DEF Atom
  <2>2. atoms' = [list EXCEPT ![i] = a] \/ atoms' = [list EXCEPT ![i] = b]
    BY <1>5, Zenon
  <2> HIDE DEF a, b
  <2> QED
    <3>1. /\ [list EXCEPT ![i] = a] \in Seq(Atom) /\ Len([list EXCEPT ![i] = a]) = Len(list)
          /\ [list EXCEPT ![i] = b] \in Seq(Atom) /\ Len([list EXCEPT ![i] = b]) = Len(list)
      BY <1>2, <2>1, ExceptSeq
    <3> QED
      BY <2>2, <3>1
<1>7. stage' \in [Msgs -> Stages]
  BY <1>5 DEF TypeOK, Stages
<1>8. submitted' \in Seq(Msgs)
  BY <1>5, AppendTyped DEF TypeOK
<1>9. (window = NoWindow \/ (window \in Window /\ window.at <= Len(atoms)))'
  <2>1. CASE window = NoWindow
    BY <1>5, <2>1 DEF NoWindow
  <2>2. CASE window \in Window /\ window.at <= Len(atoms)
    <3>1. window.at \in Nat /\ Len(atoms) \in Nat /\ Len(list) \in Nat
      BY <1>1, <1>2, <2>2, LenProperties DEF Window
    <3>2. window.at <= Len(list)
      BY <1>2, <2>2, <3>1
    <3> QED
      BY <1>5, <1>6, <2>2, <3>2
  <2> QED
    BY <2>1, <2>2 DEF TypeOK
<1> QED
  BY <1>5, <1>6, <1>7, <1>8, <1>9 DEF TypeOK

LEMMA ProcessFirstTyped ==
  ASSUME TypeOK, NEW m \in Msgs, ProcessFirst(m)
  PROVE  TypeOK'
<1>1. /\ framesOut \in Seq(OutFrame) /\ stage \in [Msgs -> Stages]
      /\ answers \in [Msgs -> Seq(RCs)]
  BY DEF TypeOK
<1>2. /\ Dispatch(m, framesOut, stage, answers)
      /\ UNCHANGED <<atoms, window, confirms, submitted, received>>
  BY DEF ProcessFirst, history
<1> QED
  BY <1>1, <1>2, DispatchTyped DEF TypeOK, NoWindow

LEMMA TailTyped ==
  ASSUME TypeOK, framesOut # <<>>
  PROVE  Tail(framesOut) \in Seq(OutFrame)
BY HeadTailProperties DEF TypeOK

LEMMA WaitersLeft ==
  ASSUME waiters \in Seq(Waiter), NEW k, NEW g, FirstWaiter(k, g) # 0
  PROVE  WithoutWaiter(FirstWaiter(k, g)) \in Seq(Waiter)
<1> DEFINE n == Len(waiters)
           I == {i \in 1 .. n : Meta(waiters[i].msg, g) = k}
<1>1. FirstWaiter(k, g) = IF I # {} THEN Min(I) ELSE 0
  BY DEF FirstWaiter, SelectInSeq
<1>2. n \in Nat
  BY LenProperties
<1> HIDE DEF n
<1>3. I \subseteq Nat
  BY <1>2
<1>4. FirstWaiter(k, g) \in I
  BY <1>1, <1>3, MinIsLeast, Zenon
<1>5. FirstWaiter(k, g) \in 1 .. Len(waiters)
  BY <1>4 DEF n
<1> QED
  BY <1>5, RemoveAtProperties DEF WithoutWaiter

LEMMA DriverSentConfirmTyped ==
  ASSUME TypeOK, DriverSentConfirm
  PROVE  TypeOK'
BY TailTyped DEF TypeOK, DriverSentConfirm, NoWindow, history

LEMMA DriverSentFrameTyped ==
  ASSUME TypeOK, NEW m \in Msgs, DriverSentFrame(m)
  PROVE  TypeOK'
<1>1. stage \in [Msgs -> Stages] /\ answers \in [Msgs -> Seq(RCs)]
  BY DEF TypeOK
<1>2. /\ framesOut # <<>>
      /\ Dispatch(m, Tail(framesOut), stage, answers)
      /\ UNCHANGED <<atoms, window, confirms, submitted, received>>
  BY DEF DriverSentFrame, DriverHolds
<1> QED
  BY <1>1, <1>2, TailTyped, DispatchTyped DEF TypeOK, NoWindow

(* DriverSentLast, once the key under which the handler looks for the atom *)
(* is known.                                                               *)
LEMMA LastReportTyped ==
  ASSUME TypeOK, NEW m \in Msgs, DriverSentLast(m)
  PROVE  TypeOK'
<1>1. PICK k \in {Meta(m, g) : g \in Keys} :
        LET list == GetAtom(atoms, k)
            i == FindAtom(list, k)
            n == CountDown(list[i].sending)
            stg == [stage EXCEPT ![m] = "done"]
            ans == IF IsHeartbeat(k) THEN Answered(answers, m, RC_NORM) ELSE answers
        IN  \/ /\ list[i].queue # <<>>
               /\ atoms' = [list EXCEPT ![i] = [list[i] EXCEPT !.sending = n, !.queue = Tail(@)]]
               /\ Dispatch(Head(list[i].queue), Tail(framesOut), stg, ans)
            \/ /\ list[i].queue = <<>>
               /\ atoms' = IF list[i].receiving
                             THEN [list EXCEPT ![i] = [list[i] EXCEPT !.sending = n]]
                             ELSE RemoveAt(list, i)
               /\ framesOut' = Tail(framesOut)
               /\ stage' = stg
               /\ answers' = ans
               /\ UNCHANGED <<waiters, pos>>
  BY Zenon DEF DriverSentLast
<1> DEFINE list == GetAtom(atoms, k)
           i == FindAtom(list, k)
           n == CountDown(list[i].sending)
           stg == [stage EXCEPT ![m] = "done"]
           ans == IF IsHeartbeat(k) THEN Answered(answers, m, RC_NORM) ELSE answers
<1>2. window = NoWindow /\ window' = window /\ framesOut # <<>> /\ submitted' = submitted
  BY DEF DriverSentLast, DriverHolds
<1>3. confirms' \in Seq(Msgs) /\ received' \in SUBSET Msgs
  <2>1. confirms' = confirms \/ confirms' = Append(confirms, m)
    BY DEF DriverSentLast
  <2>2. received' = received \/ received' = received \cup {m}
    BY DEF DriverSentLast
  <2>3. confirms \in Seq(Msgs) /\ received \subseteq Msgs
    BY DEF TypeOK
  <2>4. confirms' \in Seq(Msgs)
    BY <2>1, <2>3, AppendTyped, Zenon
  <2>5. received' \in SUBSET Msgs
    BY <2>2, <2>3
  <2> QED
    BY <2>4, <2>5
<1>4. k \in Nat \X Ids
  <2>1. PICK g \in Keys : k = Meta(m, g)
    OBVIOUS
  <2> QED
    BY <2>1, KeysTyped DEF Meta
<1>5. list \in Seq(Atom) /\ i \in 1 .. Len(list)
  BY <1>4, GetAtomHas DEF TypeOK
<1>6. list[i] \in Atom
  BY <1>5, ElementOfSeq
<1>7. n \in 0 .. SendingMod - 1
  BY <1>6, CountsTyped DEF Atom
<1>8. stg \in [Msgs -> Stages]
  BY DEF TypeOK, Stages
<1>9. ans \in [Msgs -> Seq(RCs)]
  BY AnsweredTyped DEF TypeOK, RCs
<1>10. Tail(framesOut) \in Seq(OutFrame)
  BY <1>2, TailTyped
<1>11. list[i].queue \in Seq(Msgs)
  BY <1>6 DEF Atom
<1>12. CASE list[i].queue # <<>>
  <2>1. /\ atoms' = [list EXCEPT ![i] = [list[i] EXCEPT !.sending = n, !.queue = Tail(@)]]
        /\ Dispatch(Head(list[i].queue), Tail(framesOut), stg, ans)
    BY <1>1, <1>12, Zenon
  <2> HIDE DEF list, i, n, stg, ans
  <2>2. Head(list[i].queue) \in Msgs /\ Tail(list[i].queue) \in Seq(Msgs)
    <3> DEFINE q == list[i].queue
    <3>1. q \in Seq(Msgs) /\ q # <<>>
      BY <1>11, <1>12
    <3> HIDE DEF q
    <3>2. Head(q) \in Msgs /\ Tail(q) \in Seq(Msgs)
      BY <3>1, HeadTailProperties
    <3> QED
      BY <3>2 DEF q
  <2>3. [list[i] EXCEPT !.sending = n, !.queue = Tail(@)] \in Atom
    BY <1>6, <1>7, <2>2 DEF Atom
  <2>4. atoms' \in Seq(Atom)
    <3> DEFINE a == [list[i] EXCEPT !.sending = n, !.queue = Tail(@)]
    <3> HIDE DEF a
    <3>1. a \in Atom => [list EXCEPT ![i] = a] \in Seq(Atom)
      BY <1>5, ExceptSeq
    <3> QED
      BY <2>1, <2>3, <3>1, Zenon DEF a
  <2>5. /\ framesOut' \in Seq(OutFrame) /\ waiters' \in Seq(Waiter) /\ pos' \in [Msgs -> Nat]
        /\ stage' \in [Msgs -> Stages] /\ answers' \in [Msgs -> Seq(RCs)]
    BY <1>8, <1>9, <1>10, <2>1, <2>2, DispatchTyped
  <2> QED
    BY <1>2, <1>3, <2>4, <2>5 DEF TypeOK, NoWindow
<1>13. CASE list[i].queue = <<>>
  <2>1. /\ atoms' = IF list[i].receiving
                      THEN [list EXCEPT ![i] = [list[i] EXCEPT !.sending = n]]
                      ELSE RemoveAt(list, i)
        /\ framesOut' = Tail(framesOut)
        /\ stage' = stg
        /\ answers' = ans
        /\ UNCHANGED <<waiters, pos>>
    BY <1>1, <1>13, Zenon
  <2> HIDE DEF list, i, n, stg, ans
  <2>2. [list[i] EXCEPT !.sending = n] \in Atom
    BY <1>6, <1>7 DEF Atom
  <2>3. atoms' \in Seq(Atom)
    <3> DEFINE a == [list[i] EXCEPT !.sending = n]
    <3> HIDE DEF a
    <3>1. a \in Atom => [list EXCEPT ![i] = a] \in Seq(Atom)
      BY <1>5, ExceptSeq
    <3>2. RemoveAt(list, i) \in Seq(Atom)
      BY <1>5, RemoveAtProperties
    <3> QED
      BY <2>1, <2>2, <3>1, <3>2, Zenon DEF a
  <2> QED
    BY <1>2, <1>3, <1>8, <1>9, <1>10, <2>1, <2>3 DEF TypeOK, NoWindow
<1> QED
  BY <1>12, <1>13

LEMMA DriverFailedTyped ==
  ASSUME TypeOK, DriverFailed
  PROVE  TypeOK'
<1>1. /\ framesOut # <<>> /\ framesOut' = Tail(framesOut)
      /\ UNCHANGED <<atoms, pos, window, confirms, submitted, received>>
  BY DEF DriverFailed, DriverHolds, history
<1>2. /\ stage' \in [Msgs -> Stages] /\ waiters' \in Seq(Waiter)
      /\ answers' \in [Msgs -> Seq(RCs)]
  <2>1. CASE UNCHANGED <<stage, waiters, answers>>
    BY <2>1 DEF TypeOK
  <2>2. ASSUME NEW m \in Msgs, NEW l \in BOOLEAN, NEW g \in Keys,
               waiters' = IF l /\ ~IsHeartbeat(Meta(m, g)) /\ FirstWaiter(Meta(m, g), g) # 0
                            THEN WithoutWaiter(FirstWaiter(Meta(m, g), g))
                            ELSE waiters,
               answers' = Answered(answers, m, RC_DRIVER_ERR),
               stage' = [stage EXCEPT ![m] = "done"]
        PROVE  /\ stage' \in [Msgs -> Stages] /\ waiters' \in Seq(Waiter)
               /\ answers' \in [Msgs -> Seq(RCs)]
    <3>1. answers' \in [Msgs -> Seq(RCs)]
      BY <2>2, AnsweredTyped DEF TypeOK, RCs
    <3>2. stage' \in [Msgs -> Stages]
      BY <2>2 DEF TypeOK, Stages
    <3>3. waiters' \in Seq(Waiter)
      BY <2>2, WaitersLeft, Zenon DEF TypeOK
    <3> QED
      BY <3>1, <3>2, <3>3
  <2> QED
    BY <2>1, <2>2, Zenon DEF DriverFailed
<1> QED
  BY <1>1, <1>2, TailTyped DEF TypeOK, NoWindow

LEMMA ConfirmsTailTyped ==
  ASSUME TypeOK, confirms # <<>>
  PROVE  Tail(confirms) \in Seq(Msgs)
BY HeadTailProperties DEF TypeOK

LEMMA ReceiveConfirmTyped ==
  ASSUME TypeOK, NEW m \in Msgs, ReceiveConfirm(m)
  PROVE  TypeOK'
<1>1. confirms' \in Seq(Msgs)
  BY ConfirmsTailTyped DEF ReceiveConfirm, TypeOK
<1>2. UNCHANGED <<atoms, stage, pos, framesOut, window, submitted, received>>
  BY DEF ReceiveConfirm, history
<1>3. answers' \in [Msgs -> Seq(RCs)] /\ waiters' \in Seq(Waiter)
  <2>1. PICK g \in Keys :
          \/ /\ FirstWaiter(ConfirmKey(m), g) # 0
             /\ answers' = Answered(answers, waiters[FirstWaiter(ConfirmKey(m), g)].msg, RC_NORM)
             /\ waiters' = WithoutWaiter(FirstWaiter(ConfirmKey(m), g))
          \/ UNCHANGED <<answers, waiters>>
    BY Zenon DEF ReceiveConfirm
  <2>2. waiters \in Seq(Waiter) /\ answers \in [Msgs -> Seq(RCs)] /\ RC_NORM \in RCs
    BY DEF TypeOK, RCs
  <2> QED
    BY <2>1, <2>2, WaitersLeft, AnsweredTyped, Zenon
<1> QED
  BY <1>1, <1>2, <1>3 DEF TypeOK, NoWindow

LEMMA LoseConfirmTyped ==
  ASSUME TypeOK, LoseConfirm
  PROVE  TypeOK'
BY ConfirmsTailTyped DEF LoseConfirm, TypeOK, NoWindow, nodeVars, history

LEMMA CheckConfirmWaitersTyped ==
  ASSUME TypeOK, CheckConfirmWaiters
  PROVE  TypeOK'
<1>1. waiters' \in Seq(Waiter)
  BY SurvivorsType DEF CheckConfirmWaiters, TypeOK
<1>2. answers' \in [Msgs -> Seq(RCs)]
  <2> DEFINE late == {waiters[i].msg : i \in {j \in DOMAIN waiters : Expired(waiters[j])}}
  <2>1. answers' = [m \in Msgs |-> IF m \in late THEN Append(answers[m], RC_CONF_TIMEOUT)
                                                ELSE answers[m]]
    BY DEF CheckConfirmWaiters
  <2> HIDE DEF late
  <2>2. ASSUME NEW m \in Msgs
        PROVE  answers[m] \in Seq(RCs) /\ Append(answers[m], RC_CONF_TIMEOUT) \in Seq(RCs)
    <3>1. answers[m] \in Seq(RCs) /\ RC_CONF_TIMEOUT \in RCs
      BY DEF TypeOK, RCs
    <3> QED
      BY <3>1, AppendTyped
  <2> QED
    BY <2>1, <2>2
<1>3. UNCHANGED <<atoms, stage, pos, framesOut, window, confirms, submitted, received>>
  BY DEF CheckConfirmWaiters, history
<1> QED
  BY <1>1, <1>2, <1>3 DEF TypeOK, NoWindow

LEMMA ClearOnReadTyped ==
  ASSUME NEW a \in Atom
  PROVE  ClearOnRead(a) \in Atom
<1>1. <<>> \in Seq(Piece) /\ -1 \in Int /\ ZeroId \in Ids
  BY IdsAssumption
<1> DEFINE none == <<>>
           minus == -1
<1>2. ClearOnRead(a) = [a EXCEPT !.id = ZeroId, !.last = minus, !.data = none]
  BY DEF ClearOnRead
<1>3. none \in Seq(Piece) /\ minus \in Int
  BY <1>1
<1> HIDE DEF none, minus
<1> QED
  BY <1>1, <1>2, <1>3 DEF Atom

(* The atom of a received frame, before and after the frame is put in it.  *)
LEMMA FrameAtom ==
  ASSUME TypeOK, NEW f \in PeerFrames
  PROVE  LET list == GetAtom(atoms, KeyOf(f))
             i == FindAtom(list, KeyOf(f))
         IN  /\ list \in Seq(Atom) /\ Len(list) \in Nat /\ i \in 1 .. Len(list)
             /\ list[i] \in Atom /\ Opened(list[i], f) \in Atom
<1> DEFINE list == GetAtom(atoms, KeyOf(f))
           i == FindAtom(list, KeyOf(f))
<1>1. list \in Seq(Atom) /\ i \in 1 .. Len(list)
  BY KeysTyped, GetAtomHas DEF TypeOK
<1> HIDE DEF list, i
<1>2. list[i] \in Atom /\ Len(list) \in Nat
  BY <1>1, ElementOfSeq, LenProperties
<1>3. ASSUME NEW a \in Atom
      PROVE  Opened(a, f) \in Atom
  <2> DEFINE b == IF f.num = 0 /\ a.data # <<>> THEN ClearOnRead(a) ELSE a
             piece == [num |-> f.num, src |-> f.src]
  <2>1. b \in Atom
    BY ClearOnReadTyped
  <2>2. piece \in Piece
    BY KeysTyped DEF Piece
  <2>3. b.data \in Seq(Piece) /\ b.receiving \in BOOLEAN
    BY <2>1 DEF Atom
  <2> HIDE DEF piece
  <2>4. Append(b.data, piece) \in Seq(Piece)
    BY <2>2, <2>3, AppendTyped
  <2>5. Opened(a, f) = [b EXCEPT !.receiving = (f.num = 0) \/ @, !.data = Append(@, piece)]
    BY DEF Opened, piece
  <2> HIDE DEF b
  <2>6. ((f.num = 0) \/ b.receiving) \in BOOLEAN
    BY <2>3
  <2> QED
    BY <2>1, <2>4, <2>5, <2>6 DEF Atom
<1> QED
  BY <1>1, <1>2, <1>3 DEF list, i

LEMMA RejectFrameTyped ==
  ASSUME TypeOK, NEW f \in PeerFrames, RejectFrame(f)
  PROVE  TypeOK'
<1> DEFINE list == GetAtom(atoms, KeyOf(f))
           i == FindAtom(list, KeyOf(f))
<1>1. atoms' = RemoveAt(list, i) /\ window = NoWindow
      /\ UNCHANGED <<stage, pos, framesOut, waiters, answers, window, confirms, submitted, received>>
  BY DEF RejectFrame, CanReceive, history
<1>2. list \in Seq(Atom) /\ i \in 1 .. Len(list)
  BY FrameAtom
<1>3. atoms' \in Seq(Atom)
  BY <1>1, <1>2, RemoveAtProperties
<1> QED
  BY <1>1, <1>3 DEF TypeOK, NoWindow

LEMMA AcceptFrameTyped ==
  ASSUME TypeOK, NEW f \in PeerFrames, AcceptFrame(f)
  PROVE  TypeOK'
<1> DEFINE list == GetAtom(atoms, KeyOf(f))
           i == FindAtom(list, KeyOf(f))
           a == [Opened(list[i], f) EXCEPT !.last = f.num]
<1>1. atoms' = [list EXCEPT ![i] = a] /\ window = NoWindow
      /\ UNCHANGED <<stage, pos, framesOut, waiters, answers, window, confirms, submitted, received>>
  BY DEF AcceptFrame, CanReceive, history
<1>2. list \in Seq(Atom) /\ i \in 1 .. Len(list) /\ Opened(list[i], f) \in Atom
  BY FrameAtom
<1>3. a \in Atom
  <2> DEFINE b == Opened(list[i], f)
  <2>1. b \in Atom /\ f.num \in Int
    BY <1>2, KeysTyped
  <2> HIDE DEF b
  <2>2. [b EXCEPT !.last = f.num] \in Atom
    BY <2>1 DEF Atom
  <2> QED
    BY <2>2 DEF b
<1> HIDE DEF a
<1>4. atoms' \in Seq(Atom)
  BY <1>1, <1>2, <1>3, ExceptSeq
<1> QED
  BY <1>1, <1>4 DEF TypeOK, NoWindow

LEMMA AcceptLastFrameTyped ==
  ASSUME TypeOK, NEW f \in PeerFrames, AcceptLastFrame(f)
  PROVE  TypeOK'
<1> DEFINE list == GetAtom(atoms, KeyOf(f))
           i == FindAtom(list, KeyOf(f))
           a == Opened(list[i], f)
           k == <<a.hwa % HwaMod, a.id>>
<1>1. /\ atoms' = [list EXCEPT ![i] = a]
      /\ window' = [at |-> i, hwa |-> k[1], id |-> k[2], size |-> a.last + 2, data |-> a.data]
      /\ framesOut' = IF IsHeartbeat(k) THEN framesOut ELSE Append(framesOut, ConfirmFrame(k))
      /\ UNCHANGED <<stage, pos, waiters, answers, confirms, submitted, received>>
  BY DEF AcceptLastFrame, history
<1>2. list \in Seq(Atom) /\ Len(list) \in Nat /\ i \in 1 .. Len(list) /\ a \in Atom
  BY FrameAtom
<1> HIDE DEF list, i, a
<1>3. atoms' \in Seq(Atom) /\ Len(atoms') = Len(list)
  BY <1>1, <1>2, ExceptSeq
<1>4. a.hwa \in Nat /\ a.id \in Ids /\ a.last \in Int /\ a.data \in Seq(Piece)
  BY <1>2 DEF Atom
<1>5. k[1] \in Nat /\ k[2] \in Ids
  BY <1>4, WidthAssumption
<1>6. framesOut' \in Seq(OutFrame)
  <2>1. ConfirmFrame(k) \in OutFrame
    BY <1>5 DEF ConfirmFrame, OutFrame
  <2>2. framesOut \in Seq(OutFrame)
    BY DEF TypeOK
  <2> HIDE DEF k
  <2> QED
    BY <1>1, <2>1, <2>2, AppendTyped, Zenon
<1>7. (window \in Window /\ window.at <= Len(atoms))'
  <2>1. i \in Nat \ {0} /\ i <= Len(list) /\ a.last + 2 \in Int
    BY <1>2, <1>4
  <2> HIDE DEF k
  <2>2. window' \in Window
    BY <1>1, <1>4, <1>5, <2>1 DEF Window
  <2>3. window'.at = i
    BY <1>1
  <2> QED
    BY <1>3, <2>1, <2>2, <2>3
<1> QED
  BY <1>1, <1>3, <1>6, <1>7 DEF TypeOK

LEMMA FinishReceiveTyped ==
  ASSUME TypeOK, FinishReceive
  PROVE  TypeOK'
<1> DEFINE i == window.at
           a == [ClearOnRead(atoms[i]) EXCEPT !.receiving = FALSE]
<1>1. /\ window # NoWindow /\ window' = NoWindow
      /\ atoms' = IF atoms[i].sending = 0 THEN [atoms EXCEPT ![i] = a] ELSE RemoveAt(atoms, i)
      /\ UNCHANGED <<stage, pos, framesOut, waiters, answers, confirms, submitted, received>>
  BY DEF FinishReceive, history
<1>2. atoms \in Seq(Atom) /\ Len(atoms) \in Nat
  BY LenProperties DEF TypeOK
<1>3. i \in 1 .. Len(atoms)
  BY <1>1, <1>2 DEF TypeOK, Window
<1>4. atoms[i] \in Atom
  BY <1>2, <1>3, ElementOfSeq
<1>5. a \in Atom
  <2> DEFINE b == ClearOnRead(atoms[i])
  <2>1. b \in Atom
    BY <1>4, ClearOnReadTyped
  <2> HIDE DEF b
  <2>2. [b EXCEPT !.receiving = FALSE] \in Atom
    BY <2>1 DEF Atom
  <2> QED
    BY <2>2 DEF b
<1> HIDE DEF i, a
<1>6. atoms' \in Seq(Atom)
  BY <1>1, <1>2, <1>3, <1>5, ExceptSeq, RemoveAtProperties
<1> QED
  BY <1>1, <1>6 DEF TypeOK

(* The state kept by can_net.c, can_net_core.c and can_net_middle.c keeps  *)
(* its types whatever the threads, the driver and the peers do; the atom   *)
(* whose callbacks run is on the list, while data_mutex is given up.       *)
THEOREM TypeCorrect == Spec => []TypeOK
<1>1. Init => TypeOK
  BY DEF Init, TypeOK, Stages, RCs
<1>2. TypeOK /\ [Next]_vars => TypeOK'
  <2> SUFFICES ASSUME TypeOK, [Next]_vars PROVE TypeOK'
    OBVIOUS
  <2>1. ASSUME NEW m \in Msgs, StartSending(m) PROVE TypeOK'
    BY <2>1, StartSendingTyped
  <2>2. ASSUME NEW m \in Msgs, ProcessFirst(m) PROVE TypeOK'
    BY <2>2, ProcessFirstTyped
  <2>3. CASE DriverSent
    BY <2>3, DriverSentConfirmTyped, DriverSentFrameTyped, LastReportTyped DEF DriverSent
  <2>4. CASE DriverFailed
    BY <2>4, DriverFailedTyped
  <2>5. CASE LoseConfirm \/ \E m \in Msgs : ReceiveConfirm(m)
    BY <2>5, LoseConfirmTyped, ReceiveConfirmTyped
  <2>6. CASE CheckConfirmWaiters
    BY <2>6, CheckConfirmWaitersTyped
  <2>7. CASE Receive
    BY <2>7, RejectFrameTyped, AcceptFrameTyped, AcceptLastFrameTyped DEF Receive
  <2>8. CASE FinishReceive
    BY <2>8, FinishReceiveTyped
  <2>9. CASE UNCHANGED vars
    BY <2>9 DEF vars, nodeVars, history, TypeOK, NoWindow
  <2> QED
    BY <2>1, <2>2, <2>3, <2>4, <2>5, <2>6, <2>7, <2>8, <2>9 DEF Next
<1> QED
  BY <1>1, <1>2, PTL DEF Spec

-----------------------------------------------------------------------------
(* What accept_frame relies on when it puts a message together.            *)

(* The atom a buffers frames 0, 1, ...; last_frame_num + extra of them.    *)
Filled(a, extra) ==
  /\ Len(a.data) = a.last + extra
  /\ \A j \in 1 .. Len(a.data) : a.data[j].num = j - 1

(* One, and one more where the callbacks run.                              *)
Extra(w, j) == IF j = w THEN 2 ELSE 1

LEMMA BufferedMeansFilled ==
  ASSUME TypeOK
  PROVE  BufferedInOrder <=> \A j \in 1 .. Len(atoms) : Filled(atoms[j], Extra(window.at, j))
<1>1. atoms \in Seq(Atom)
  BY DEF TypeOK
<1>2. ASSUME NEW j \in 1 .. Len(atoms)
      PROVE  DOMAIN atoms[j].data = 1 .. Len(atoms[j].data)
  <2> DEFINE d == atoms[j].data
  <2>1. d \in Seq(Piece)
    <3>1. atoms[j] \in Atom
      BY <1>1, ElementOfSeq
    <3> QED
      BY <3>1 DEF Atom
  <2> HIDE DEF d
  <2>2. DOMAIN d = 1 .. Len(d)
    BY <2>1
  <2> QED
    BY <2>2 DEF d
<1>3. DOMAIN atoms = 1 .. Len(atoms)
  BY <1>1
<1> QED
  BY <1>2, <1>3, Zenon DEF BufferedInOrder, Filled, Extra

LEMMA WindowAt ==
  ASSUME TypeOK
  PROVE  /\ Len(atoms) \in Nat /\ window.at \in 0 .. Len(atoms)
         /\ window = NoWindow <=> window.at = 0
BY LenProperties DEF TypeOK, NoWindow, Window

(* A fresh atom buffers nothing; the others are as they were.              *)
LEMMA GetAtomFilled ==
  ASSUME TypeOK, BufferedInOrder, NEW k \in Nat \X Ids
  PROVE  \A j \in 1 .. Len(GetAtom(atoms, k)) : Filled(GetAtom(atoms, k)[j], Extra(window.at, j))
<1> DEFINE list == GetAtom(atoms, k)
<1>1. atoms \in Seq(Atom)
  BY DEF TypeOK
<1>2. /\ \A i \in 1 .. Len(atoms) : list[i] = atoms[i]
      /\ \A i \in 1 .. Len(list) : i \in 1 .. Len(atoms) \/ list[i] = FreshAtom(k)
  BY <1>1, GetAtomHas
<1> HIDE DEF list
<1>3. ASSUME NEW j \in 1 .. Len(list), j \in 1 .. Len(atoms)
      PROVE  Filled(list[j], Extra(window.at, j))
  BY <1>2, <1>3, BufferedMeansFilled
<1>4. ASSUME NEW j \in 1 .. Len(list), j \notin 1 .. Len(atoms)
      PROVE  Filled(list[j], Extra(window.at, j))
  <2>1. list[j] = FreshAtom(k)
    BY <1>2, <1>4
  <2>2. Extra(window.at, j) = 1
    BY <1>4, WindowAt DEF Extra
  <2>3. FreshAtom(k).last = -1 /\ FreshAtom(k).data = <<>>
    BY DEF FreshAtom
  <2>4. Filled(FreshAtom(k), 1)
    BY <2>3, EmptySeq DEF Filled
  <2> QED
    BY <2>1, <2>2, <2>4
<1> QED
  BY <1>3, <1>4 DEF list

LEMMA RemovedFilled ==
  ASSUME NEW list \in Seq(Atom), NEW i \in 1 .. Len(list),
         \A j \in 1 .. Len(list) : j # i => Filled(list[j], 1)
  PROVE  \A j \in 1 .. Len(RemoveAt(list, i)) : Filled(RemoveAt(list, i)[j], 1)
<1> DEFINE rest == RemoveAt(list, i)
<1>1. /\ Len(list) \in Nat /\ Len(rest) = Len(list) - 1
      /\ \A j \in 1 .. Len(list) - 1 : rest[j] = IF j < i THEN list[j] ELSE list[j + 1]
  BY RemoveAtProperties, LenProperties
<1> HIDE DEF rest
<1>2. ASSUME NEW j \in 1 .. Len(rest)
      PROVE  Filled(rest[j], 1)
  <2>1. /\ j \in 1 .. Len(list) - 1 /\ j \in 1 .. Len(list) /\ j + 1 \in 1 .. Len(list)
        /\ (j < i => j # i) /\ (~(j < i) => j + 1 # i)
    BY <1>1, <1>2
  <2>2. CASE j < i
    <3>1. rest[j] = list[j] /\ j # i
      BY <1>1, <2>1, <2>2
    <3> QED
      BY <2>1, <3>1
  <2>3. CASE ~(j < i)
    <3>1. rest[j] = list[j + 1] /\ j + 1 # i
      BY <1>1, <2>1, <2>3
    <3> QED
      BY <2>1, <3>1
  <2> QED
    BY <2>2, <2>3
<1> QED
  BY <1>2 DEF rest

(* An atom is replaced by another that is filled, or taken out.            *)
LEMMA ReplacedFilled ==
  ASSUME NEW list \in Seq(Atom), NEW i \in 1 .. Len(list), NEW a, NEW w,
         \A j \in 1 .. Len(list) : j # i => Filled(list[j], Extra(w, j)), Filled(a, Extra(w, i))
  PROVE  LET new == [list EXCEPT ![i] = a]
         IN  \A j \in 1 .. Len(new) : Filled(new[j], Extra(w, j))
<1> DEFINE new == [list EXCEPT ![i] = a]
<1>1. /\ Len(new) = Len(list)
      /\ \A j \in 1 .. Len(list) : new[j] = IF j = i THEN a ELSE list[j]
  OBVIOUS
<1> HIDE DEF new
<1>2. \A j \in 1 .. Len(new) : Filled(new[j], Extra(w, j))
  BY <1>1, Zenon
<1> QED
  BY <1>2 DEF new

(* Sending leaves what the atoms buffer alone.                             *)
LEMMA StartSendingBuffers ==
  ASSUME TypeOK, BufferedInOrder, NEW m \in Msgs, StartSending(m)
  PROVE  \A j \in 1 .. Len(atoms') : Filled(atoms'[j], Extra(window'.at, j))
<1> DEFINE k == KeyOf(Msg[m])
           list == GetAtom(atoms, k)
           i == FindAtom(list, k)
           n == CountUp(list[i].sending)
           a == [list[i] EXCEPT !.sending = n, !.queue = Enqueue(@, m)]
           b == [list[i] EXCEPT !.sending = n]
<1>1. /\ atoms' = [list EXCEPT ![i] = a] \/ atoms' = [list EXCEPT ![i] = b]
      /\ window' = window
  BY Zenon DEF StartSending
<1>2. /\ list \in Seq(Atom) /\ i \in 1 .. Len(list)
      /\ \A j \in 1 .. Len(list) : Filled(list[j], Extra(window.at, j))
  BY KeysTyped, GetAtomHas, GetAtomFilled DEF TypeOK
<1>3. list[i] \in Atom
  BY <1>2, ElementOfSeq
<1> HIDE DEF k, list, i, n
<1>4. /\ a.data = list[i].data /\ a.last = list[i].last
      /\ b.data = list[i].data /\ b.last = list[i].last
  BY <1>3 DEF Atom
<1> HIDE DEF a, b
<1>5. Filled(a, Extra(window.at, i)) /\ Filled(b, Extra(window.at, i))
  BY <1>2, <1>4 DEF Filled
<1> QED
  BY <1>1, <1>2, <1>5, ReplacedFilled

LEMMA DriverSentLastBuffers ==
  ASSUME TypeOK, BufferedInOrder, NEW m \in Msgs, DriverSentLast(m)
  PROVE  \A j \in 1 .. Len(atoms') : Filled(atoms'[j], Extra(window'.at, j))
<1>1. window = NoWindow /\ window' = NoWindow
  BY DEF DriverSentLast, DriverHolds
<1>2. PICK k \in {Meta(m, g) : g \in Keys} :
        LET list == GetAtom(atoms, k)
            i == FindAtom(list, k)
            n == CountDown(list[i].sending)
        IN  \/ atoms' = [list EXCEPT ![i] = [list[i] EXCEPT !.sending = n, !.queue = Tail(@)]]
            \/ atoms' = [list EXCEPT ![i] = [list[i] EXCEPT !.sending = n]]
            \/ atoms' = RemoveAt(list, i)
  BY Zenon DEF DriverSentLast
<1> DEFINE list == GetAtom(atoms, k)
           i == FindAtom(list, k)
           n == CountDown(list[i].sending)
           a == [list[i] EXCEPT !.sending = n, !.queue = Tail(@)]
           b == [list[i] EXCEPT !.sending = n]
<1>3. k \in Nat \X Ids
  <2>1. PICK g \in Keys : k = Meta(m, g)
    OBVIOUS
  <2> QED
    BY <2>1, KeysTyped DEF Meta
<1>4. /\ list \in Seq(Atom) /\ i \in 1 .. Len(list)
      /\ \A j \in 1 .. Len(list) : Filled(list[j], Extra(window.at, j))
  BY <1>3, GetAtomHas, GetAtomFilled DEF TypeOK
<1>5. \/ atoms' = [list EXCEPT ![i] = a]
      \/ atoms' = [list EXCEPT ![i] = b]
      \/ atoms' = RemoveAt(list, i)
  BY <1>2, Zenon
<1>6. list[i] \in Atom
  BY <1>4, ElementOfSeq
<1> HIDE DEF list, i, n
<1>7. /\ a.data = list[i].data /\ a.last = list[i].last
      /\ b.data = list[i].data /\ b.last = list[i].last
  BY <1>6 DEF Atom
<1> HIDE DEF a, b
<1>8. Filled(a, Extra(0, i)) /\ Filled(b, Extra(0, i))
  BY <1>1, <1>4, <1>7 DEF Filled, NoWindow
<1>9. \A j \in 1 .. Len(list) : Filled(list[j], Extra(0, j)) /\ Extra(0, j) = 1
  BY <1>1, <1>4 DEF NoWindow, Extra
<1>10. CASE atoms' = RemoveAt(list, i)
  <2>1. \A j \in 1 .. Len(atoms') : Filled(atoms'[j], 1) /\ Extra(0, j) = 1
    BY <1>4, <1>9, <1>10, RemovedFilled DEF Extra
  <2> QED
    BY <1>1, <2>1 DEF NoWindow
<1>11. CASE atoms' = [list EXCEPT ![i] = a] \/ atoms' = [list EXCEPT ![i] = b]
  <2>1. \A j \in 1 .. Len(atoms') : Filled(atoms'[j], Extra(0, j))
    BY <1>4, <1>8, <1>9, <1>11, ReplacedFilled
  <2> QED
    BY <1>1, <2>1 DEF NoWindow
<1> QED
  BY <1>5, <1>10, <1>11

LEMMA RejectFrameBuffers ==
  ASSUME TypeOK, BufferedInOrder, NEW f \in PeerFrames, RejectFrame(f)
  PROVE  \A j \in 1 .. Len(atoms') : Filled(atoms'[j], Extra(window'.at, j))
<1> DEFINE list == GetAtom(atoms, KeyOf(f))
           i == FindAtom(list, KeyOf(f))
<1>1. window = NoWindow /\ window' = NoWindow /\ atoms' = RemoveAt(list, i)
  BY DEF RejectFrame, CanReceive
<1>2. /\ list \in Seq(Atom) /\ i \in 1 .. Len(list)
      /\ \A j \in 1 .. Len(list) : Filled(list[j], Extra(window.at, j))
  BY FrameAtom, KeysTyped, GetAtomFilled
<1> HIDE DEF list, i
<1>3. \A j \in 1 .. Len(list) : Filled(list[j], 1)
  BY <1>1, <1>2 DEF Extra, NoWindow
<1>4. \A j \in 1 .. Len(atoms') : Filled(atoms'[j], 1) /\ Extra(0, j) = 1
  BY <1>1, <1>2, <1>3, RemovedFilled DEF Extra
<1> QED
  BY <1>1, <1>4 DEF NoWindow

(* The frame that follows the last one makes the run one longer; a first   *)
(* frame starts it anew.                                                   *)
LEMMA OpenedFilled ==
  ASSUME NEW a \in Atom, Filled(a, 1), NEW f \in PeerFrames, InOrder(a, f)
  PROVE  LET b == Opened(a, f)
         IN  /\ b.data \in Seq(Piece)
             /\ Len(b.data) = f.num + 1 /\ Len(b.data) = b.last + 2
             /\ \A j \in 1 .. Len(b.data) : b.data[j].num = j - 1
<1> DEFINE c == IF f.num = 0 /\ a.data # <<>> THEN ClearOnRead(a) ELSE a
           piece == [num |-> f.num, src |-> f.src]
           b == Opened(a, f)
<1>1. f.num \in Nat /\ piece \in Piece /\ piece.num = f.num
  BY KeysTyped DEF Piece
<1>2. a.data \in Seq(Piece) /\ Len(a.data) \in Nat /\ a.last \in Int
  BY DEF Atom
<1>3. c \in Atom
  BY ClearOnReadTyped
<1> HIDE DEF piece
<1>4. b.data = Append(c.data, piece) /\ b.last = c.last
  <2>1. b = [c EXCEPT !.receiving = (f.num = 0) \/ @, !.data = Append(@, piece)]
    BY DEF Opened, piece
  <2> HIDE DEF b, c
  <2> QED
    BY <1>3, <2>1 DEF Atom
<1>5. Filled(c, 1) /\ c.data \in Seq(Piece) /\ Len(c.data) = f.num
  <2>1. CASE f.num = 0 /\ a.data # <<>>
    <3>1. c = ClearOnRead(a) /\ c.last = -1 /\ c.data = <<>>
      BY <2>1 DEF ClearOnRead, Atom
    <3> HIDE DEF c
    <3> QED
      BY <2>1, <3>1, EmptySeq DEF Filled
  <2>2. CASE f.num = 0 /\ a.data = <<>>
    BY <1>2, <2>2, EmptySeq
  <2>3. CASE f.num # 0
    <3>1. f.num - a.last = 1 /\ c = a
      BY <2>3 DEF InOrder
    <3>2. Len(a.data) = a.last + 1
      BY DEF Filled
    <3> QED
      BY <1>1, <1>2, <3>1, <3>2
  <2> QED
    BY <2>1, <2>2, <2>3
<1> HIDE DEF c, b
<1>6. /\ Append(c.data, piece) \in Seq(Piece)
      /\ Len(Append(c.data, piece)) = f.num + 1
      /\ \A j \in 1 .. f.num : Append(c.data, piece)[j] = c.data[j]
      /\ Append(c.data, piece)[f.num + 1] = piece
  <2> DEFINE d == c.data
  <2>1. d \in Seq(Piece) /\ Len(d) = f.num
    BY <1>5
  <2> HIDE DEF d
  <2>2. /\ Append(d, piece) \in Seq(Piece)
        /\ Len(Append(d, piece)) = f.num + 1
        /\ \A j \in 1 .. f.num : Append(d, piece)[j] = d[j]
        /\ Append(d, piece)[f.num + 1] = piece
    BY <1>1, <2>1
  <2> QED
    BY <2>2 DEF d
<1>7. c.last \in Int /\ f.num = c.last + 1 /\ \A j \in 1 .. f.num : c.data[j].num = j - 1
  BY <1>3, <1>5 DEF Filled, Atom
<1>8. Len(b.data) = f.num + 1 /\ Len(b.data) = b.last + 2
  BY <1>1, <1>4, <1>6, <1>7
<1>9. ASSUME NEW j \in 1 .. f.num + 1
      PROVE  b.data[j].num = j - 1
  <2>1. CASE j \in 1 .. f.num
    BY <1>4, <1>6, <1>7, <2>1
  <2>2. CASE j = f.num + 1
    BY <1>1, <1>4, <1>6, <2>2
  <2> QED
    BY <1>1, <1>9, <2>1, <2>2
<1>10. b.data \in Seq(Piece)
  BY <1>4, <1>6
<1>11. \A j \in 1 .. Len(b.data) : b.data[j].num = j - 1
  BY <1>8, <1>9
<1> QED
  BY <1>8, <1>10, <1>11 DEF b

LEMMA AcceptFrameBuffers ==
  ASSUME TypeOK, BufferedInOrder, NEW f \in PeerFrames, AcceptFrame(f)
  PROVE  \A j \in 1 .. Len(atoms') : Filled(atoms'[j], Extra(window'.at, j))
<1> DEFINE list == GetAtom(atoms, KeyOf(f))
           i == FindAtom(list, KeyOf(f))
           b == Opened(list[i], f)
           a == [b EXCEPT !.last = f.num]
<1>1. window = NoWindow /\ window' = NoWindow /\ atoms' = [list EXCEPT ![i] = a] /\ InOrder(list[i], f)
  BY DEF AcceptFrame, CanReceive
<1>2. /\ list \in Seq(Atom) /\ i \in 1 .. Len(list) /\ list[i] \in Atom /\ b \in Atom
      /\ \A j \in 1 .. Len(list) : Filled(list[j], Extra(window.at, j))
  BY FrameAtom, KeysTyped, GetAtomFilled
<1>3. \A j \in 1 .. Len(list) : Filled(list[j], Extra(0, j)) /\ Extra(0, j) = 1
  BY <1>1, <1>2 DEF Extra, NoWindow
<1>4. Len(b.data) = f.num + 1 /\ \A j \in 1 .. Len(b.data) : b.data[j].num = j - 1
  BY <1>1, <1>2, <1>3, OpenedFilled
<1> HIDE DEF list, i, b
<1>5. a.data = b.data /\ a.last = f.num
  BY <1>2 DEF Atom
<1> HIDE DEF a
<1>6. Filled(a, Extra(0, i))
  BY <1>2, <1>3, <1>4, <1>5 DEF Filled
<1> QED
  BY <1>1, <1>2, <1>3, <1>6, ReplacedFilled DEF NoWindow

LEMMA AcceptLastFrameBuffers ==
  ASSUME TypeOK, BufferedInOrder, NEW f \in PeerFrames, AcceptLastFrame(f)
  PROVE  /\ \A j \in 1 .. Len(atoms') : Filled(atoms'[j], Extra(window'.at, j))
         /\ Len(window'.data) = window'.size
<1> DEFINE list == GetAtom(atoms, KeyOf(f))
           i == FindAtom(list, KeyOf(f))
           a == Opened(list[i], f)
<1>1. /\ window = NoWindow /\ atoms' = [list EXCEPT ![i] = a] /\ InOrder(list[i], f)
      /\ window'.at = i /\ window'.size = a.last + 2 /\ window'.data = a.data
  BY DEF AcceptLastFrame, CanReceive
<1>2. /\ list \in Seq(Atom) /\ i \in 1 .. Len(list) /\ list[i] \in Atom
      /\ \A j \in 1 .. Len(list) : Filled(list[j], Extra(window.at, j))
  BY FrameAtom, KeysTyped, GetAtomFilled
<1>3. \A j \in 1 .. Len(list) : Filled(list[j], 1) /\ (j # i => Extra(i, j) = 1)
  BY <1>1, <1>2 DEF Extra, NoWindow
<1>4. Len(a.data) = a.last + 2 /\ \A j \in 1 .. Len(a.data) : a.data[j].num = j - 1
  BY <1>1, <1>2, <1>3, OpenedFilled
<1> HIDE DEF list, i, a
<1>5. Filled(a, Extra(i, i))
  BY <1>4 DEF Filled, Extra
<1>6. \A j \in 1 .. Len(list) : j # i => Filled(list[j], Extra(i, j))
  BY <1>3
<1> QED
  BY <1>1, <1>2, <1>4, <1>5, <1>6, ReplacedFilled

LEMMA FinishReceiveBuffers ==
  ASSUME TypeOK, BufferedInOrder, FinishReceive
  PROVE  \A j \in 1 .. Len(atoms') : Filled(atoms'[j], Extra(window'.at, j))
<1> DEFINE i == window.at
           a == [ClearOnRead(atoms[i]) EXCEPT !.receiving = FALSE]
<1>1. /\ window # NoWindow /\ window' = NoWindow
      /\ atoms' = [atoms EXCEPT ![i] = a] \/ atoms' = RemoveAt(atoms, i)
  BY DEF FinishReceive
<1>2. atoms \in Seq(Atom) /\ i \in 1 .. Len(atoms)
  <2>1. Len(atoms) \in Nat /\ i \in 0 .. Len(atoms) /\ i # 0
    BY <1>1, WindowAt
  <2> QED
    BY <2>1 DEF TypeOK
<1>3. atoms[i] \in Atom
  BY <1>2, ElementOfSeq
<1>4. a.data = <<>> /\ a.last = -1
  BY <1>3 DEF ClearOnRead, Atom
<1>5. \A j \in 1 .. Len(atoms) : Filled(atoms[j], Extra(i, j))
  BY BufferedMeansFilled
<1> HIDE DEF a, i
<1>6. Filled(a, 1)
  BY <1>4, EmptySeq DEF Filled
<1>7. \A j \in 1 .. Len(atoms) : j # i => Filled(atoms[j], 1)
  BY <1>5 DEF Extra
<1>8. \A j : j \in Nat \ {0} => Extra(0, j) = 1
  BY DEF Extra
<1>9. \A j \in 1 .. Len(atoms') : Filled(atoms'[j], 1)
  <2>1. CASE atoms' = RemoveAt(atoms, i)
    BY <1>2, <1>7, <2>1, RemovedFilled
  <2>2. CASE atoms' = [atoms EXCEPT ![i] = a]
    <3>1. /\ Len(atoms') = Len(atoms)
          /\ \A j \in 1 .. Len(atoms) : atoms'[j] = IF j = i THEN a ELSE atoms[j]
      BY <1>2, <2>2
    <3> QED
      BY <1>6, <1>7, <3>1, Zenon
  <2> QED
    BY <1>1, <2>1, <2>2
<1> QED
  BY <1>1, <1>8, <1>9 DEF NoWindow

LEMMA OthersBuffer ==
  ASSUME TypeOK, BufferedInOrder, UNCHANGED <<atoms, window>>
  PROVE  \A j \in 1 .. Len(atoms') : Filled(atoms'[j], Extra(window'.at, j))
BY BufferedMeansFilled

(* Whatever frames arrive, from however many peers and in whatever order:  *)
(* an atom buffers frames 0, 1, ... of one run and last_frame_num counts   *)
(* them, so the buffer accept_frame sizes from last_frame_num is filled    *)
(* exactly by the buffered frames.                                         *)
THEOREM Reassembly == Spec => [](BufferedInOrder /\ AssembledFits)
<1> DEFINE IInv == TypeOK /\ BufferedInOrder /\ AssembledFits
           NowFilled == \A j \in 1 .. Len(atoms) : Filled(atoms[j], Extra(window.at, j))
<1>1. Init => IInv
  <2> SUFFICES ASSUME Init PROVE IInv
    OBVIOUS
  <2>1. TypeOK
    BY DEF Init, TypeOK, Stages, RCs
  <2>2. BufferedInOrder
    BY DEF Init, BufferedInOrder
  <2> QED
    BY <2>1, <2>2 DEF Init, AssembledFits
<1>2. IInv /\ TypeOK' /\ [Next]_vars => IInv'
  <2> SUFFICES ASSUME IInv, TypeOK', [Next]_vars PROVE NowFilled' /\ AssembledFits'
    <3>1. TypeOK' => (BufferedInOrder' <=> NowFilled')
      BY BufferedMeansFilled, PTL
    <3> QED
      BY <3>1
  <2>1. ASSUME UNCHANGED <<atoms, window>> PROVE NowFilled' /\ AssembledFits'
    BY <2>1, OthersBuffer DEF AssembledFits
  <2>2. ASSUME NEW m \in Msgs, StartSending(m) PROVE NowFilled' /\ AssembledFits'
    BY <2>2, StartSendingBuffers DEF AssembledFits, StartSending
  <2>3. ASSUME NEW m \in Msgs, DriverSentLast(m) PROVE NowFilled' /\ AssembledFits'
    BY <2>3, DriverSentLastBuffers DEF AssembledFits, DriverSentLast
  <2>4. ASSUME NEW f \in PeerFrames, RejectFrame(f) PROVE NowFilled' /\ AssembledFits'
    BY <2>4, RejectFrameBuffers DEF AssembledFits, RejectFrame
  <2>5. ASSUME NEW f \in PeerFrames, AcceptFrame(f) PROVE NowFilled' /\ AssembledFits'
    BY <2>5, AcceptFrameBuffers DEF AssembledFits, AcceptFrame
  <2>6. ASSUME NEW f \in PeerFrames, AcceptLastFrame(f) PROVE NowFilled' /\ AssembledFits'
    BY <2>6, AcceptLastFrameBuffers DEF AssembledFits
  <2>7. CASE FinishReceive
    BY <2>7, FinishReceiveBuffers DEF AssembledFits, FinishReceive
  <2>8. ASSUME NEW m \in Msgs, ProcessFirst(m) \/ DriverSentFrame(m) \/ ReceiveConfirm(m)
        PROVE  NowFilled' /\ AssembledFits'
    BY <2>1, <2>8 DEF ProcessFirst, DriverSentFrame, ReceiveConfirm
  <2>9. CASE DriverSentConfirm \/ DriverFailed \/ LoseConfirm \/ CheckConfirmWaiters \/ UNCHANGED vars
    BY <2>1, <2>9 DEF DriverSentConfirm, DriverFailed, LoseConfirm, CheckConfirmWaiters, vars, nodeVars
  <2> HIDE DEF NowFilled
  <2> QED
    BY <2>2, <2>3, <2>4, <2>5, <2>6, <2>7, <2>8, <2>9 DEF Next, DriverSent, Receive
<1> HIDE DEF NowFilled
<1> QED
  BY <1>1, <1>2, TypeCorrect, PTL DEF Spec

(* What an atom buffers is always an unbroken run of frames, the first of  *)
(* them number 0, for any peers and whatever they send                     *)
(* (can_net.c:510-522).                                                    *)
THEOREM UnbrokenRun == Spec => []BufferedInOrder
BY Reassembly, PTL

-----------------------------------------------------------------------------
(* Lists that grow at the end and shrink at the front                      *)

LEMMA Grown ==
  ASSUME NEW S, NEW s \in Seq(S), NEW e \in S, NEW t, t = Append(s, e)
  PROVE  /\ t \in Seq(S) /\ Len(s) \in Nat /\ Len(t) = Len(s) + 1
         /\ \A i \in 1 .. Len(s) : i \in 1 .. Len(t) /\ t[i] = s[i] /\ i < Len(t)
         /\ Len(t) \in 1 .. Len(t) /\ t[Len(t)] = e
         /\ \A i \in 1 .. Len(t) : i \in 1 .. Len(s) \/ i = Len(t)
<1>1. /\ t \in Seq(S) /\ Len(t) = Len(s) + 1
      /\ \A i \in 1 .. Len(s) : t[i] = s[i]
      /\ t[Len(s) + 1] = e
  BY AppendProperties
<1>2. Len(s) \in Nat
  BY LenProperties
<1> QED
  BY <1>1, <1>2

LEMMA Shrunk ==
  ASSUME NEW S, NEW s \in Seq(S), s # <<>>, NEW t, t = Tail(s)
  PROVE  /\ t \in Seq(S) /\ Len(s) \in Nat /\ Len(t) \in Nat /\ Len(t) = Len(s) - 1
         /\ 1 \in 1 .. Len(s) /\ Head(s) = s[1] /\ Head(s) \in S
         /\ \A i \in 1 .. Len(t) : i + 1 \in 1 .. Len(s) /\ t[i] = s[i + 1] /\ i + 1 # 1
         /\ \A i \in 1 .. Len(s) : i # 1 => i - 1 \in 1 .. Len(t) /\ t[i - 1] = s[i]
<1>1. /\ Head(s) \in S /\ t \in Seq(S) /\ Len(t) = Len(s) - 1
      /\ \A i \in 1 .. Len(t) : t[i] = s[i + 1]
  BY HeadTailProperties
<1>2. Len(s) \in Nat \ {0}
  BY EmptySeq
<1>3. Head(s) = s[1]
  OBVIOUS
<1>4. \A i \in 1 .. Len(s) : i # 1 => i - 1 \in 1 .. Len(t) /\ (i - 1) + 1 = i
  BY <1>1, <1>2
<1> QED
  BY <1>1, <1>2, <1>3, <1>4

-----------------------------------------------------------------------------
(* What the three threads keep between them                                *)

(* The driver keeps up with the tics, a confirmation comes once and in     *)
(* time, and an address fits the byte that the peer keeps of it.           *)
Prompt ==
  /\ ~SlowDriver /\ ~StaleConfirms
  /\ \A m \in Msgs : Msg[m].hwa < HwaMod

(* ... and the driver reports no error.                                    *)
Orderly == Prompt /\ ~FaultyDriver

(* bad are the messages of the keys of which the driver has failed a frame *)
(* (none when it reports no error).  A waiter of these may stay behind when *)
(* its message is answered and freed; then it answers for any key.         *)

(* A message is answered only when its context is done; and once, unless   *)
(* it is bad.                                                              *)
Unanswered(stg, ans, bad) ==
  \A m \in Msgs : /\ m \notin bad => Len(ans[m]) <= 1
                  /\ stg[m] # "done" => ans[m] = <<>>

Awaited(ws, m) == \E a \in 1 .. Len(ws) : ws[a].msg = m

(* m waits before n, when both wait.                                       *)
Ahead(ws, m, n) ==
  \A a, b \in 1 .. Len(ws) : ws[a].msg = m /\ ws[b].msg = n => a < b

(* A waiter is of a message whose last frame is with the driver or sent,   *)
(* and that is not answered, unless it is bad; no message has two.         *)
Waiting(ws, stg, ps, ans, bad) ==
  \A a \in 1 .. Len(ws) :
    /\ ws[a].msg \notin bad => ans[ws[a].msg] = <<>>
    /\ stg[ws[a].msg] \in {"driver", "done"}
    /\ Msg[ws[a].msg].id # HeartbeatId
    /\ stg[ws[a].msg] = "driver" => ps[ws[a].msg] = Msg[ws[a].msg].frames
    /\ \A b \in 1 .. Len(ws) : ws[b].msg = ws[a].msg => a = b

IsOf(f, m) == f.kind = "data" /\ f.msg = m

(* The driver holds at most one frame of a message, the latest.            *)
Carried(out, stg, ps) ==
  \A i \in 1 .. Len(out) : out[i].kind = "data" =>
    /\ out[i].msg \in Msgs
    /\ stg[out[i].msg] = "driver"
    /\ out[i].lfb <=> ps[out[i].msg] = Msg[out[i].msg].frames
    /\ \A j \in 1 .. Len(out) : IsOf(out[j], out[i].msg) => i = j

Has(out, m) == \E i \in 1 .. Len(out) : IsOf(out[i], m)

(* The driver has a frame of every message that is with it, but for n.     *)
HeldBut(out, stg, n) == \A m \in Msgs : m # n /\ stg[m] = "driver" => Has(out, m)

Held(out, stg) == \A m \in Msgs : stg[m] = "driver" => Has(out, m)

(* f is a frame after which a confirmation is expected.                    *)
IsLast(f) == f.kind = "data" /\ f.lfb /\ Msg[f.msg].id # HeartbeatId

(* Waiters are in the order of the last frames ...                         *)
InLine(out, ws) ==
  /\ \A i \in 1 .. Len(out) : IsLast(out[i]) => Awaited(ws, out[i].msg)
  /\ \A i, j \in 1 .. Len(out) :
       i < j /\ IsLast(out[i]) /\ IsLast(out[j]) => Ahead(ws, out[i].msg, out[j].msg)

(* ... and before these, of the confirmations that are on their way.       *)
Owed(conf, out, ws, stg, bad) ==
  /\ \A i \in 1 .. Len(conf) :
       stg[conf[i]] = "done" /\ (conf[i] \notin bad => Awaited(ws, conf[i]))
  /\ \A i, j \in 1 .. Len(conf) : i < j => Ahead(ws, conf[i], conf[j])
  /\ \A i \in 1 .. Len(conf), j \in 1 .. Len(out) :
       IsLast(out[j]) => Ahead(ws, conf[i], out[j].msg)

Books(ws, out, conf, stg, ps, ans, bad) ==
  /\ Unanswered(stg, ans, bad) /\ Waiting(ws, stg, ps, ans, bad) /\ Carried(out, stg, ps)
  /\ InLine(out, ws) /\ Owed(conf, out, ws, stg, bad)

-----------------------------------------------------------------------------
(* The driver gives up a frame                                             *)

LEMMA TailBooks ==
  ASSUME NEW bad, NEW out \in Seq(OutFrame), out # <<>>, NEW ws, NEW conf, NEW stg, NEW ps, NEW ans,
         Books(ws, out, conf, stg, ps, ans, bad), Held(out, stg)
  PROVE  /\ Books(ws, Tail(out), conf, stg, ps, ans, bad)
         /\ Head(out).kind # "data" => Held(Tail(out), stg)
         /\ Head(out).kind = "data" =>
              HeldBut(Tail(out), stg, Head(out).msg) /\ ~Has(Tail(out), Head(out).msg)
<1> DEFINE t == Tail(out)
<1>1. /\ t \in Seq(OutFrame) /\ Len(out) \in Nat /\ Len(t) \in Nat /\ Len(t) = Len(out) - 1
      /\ 1 \in 1 .. Len(out) /\ Head(out) = out[1]
      /\ \A i \in 1 .. Len(t) : i + 1 \in 1 .. Len(out) /\ t[i] = out[i + 1] /\ i + 1 # 1
      /\ \A i \in 1 .. Len(out) : i # 1 => i - 1 \in 1 .. Len(t) /\ t[i - 1] = out[i]
  BY Shrunk
<1> HIDE DEF t
<1>2. \A i, j \in 1 .. Len(t) : (i + 1 = j + 1 => i = j) /\ (i < j => i + 1 < j + 1)
  BY <1>1
<1>3. Carried(t, stg, ps)
  <2>1. ASSUME NEW i \in 1 .. Len(t), t[i].kind = "data"
        PROVE  /\ t[i].msg \in Msgs
               /\ stg[t[i].msg] = "driver"
               /\ t[i].lfb <=> ps[t[i].msg] = Msg[t[i].msg].frames
    BY <1>1, <2>1 DEF Carried, Books
  <2>2. ASSUME NEW i \in 1 .. Len(t), t[i].kind = "data",
               NEW j \in 1 .. Len(t), IsOf(t[j], t[i].msg)
        PROVE  i = j
    <3>1. /\ i + 1 \in 1 .. Len(out) /\ out[i + 1] = t[i]
          /\ j + 1 \in 1 .. Len(out) /\ out[j + 1] = t[j]
      BY <1>1
    <3>2. i + 1 = j + 1
      BY <2>2, <3>1 DEF Carried, Books
    <3> QED
      BY <1>2, <3>2
  <2> QED
    BY <2>1, <2>2 DEF Carried
<1>4. InLine(t, ws)
  BY <1>1, <1>2 DEF InLine, Books
<1>5. Owed(conf, t, ws, stg, bad)
  BY <1>1, <1>2 DEF Owed, Books
<1>6. Head(out).kind # "data" => Held(t, stg)
  <2> SUFFICES ASSUME Head(out).kind # "data", NEW m \in Msgs, stg[m] = "driver"
               PROVE  Has(t, m)
    BY DEF Held
  <2>1. PICK i \in 1 .. Len(out) : IsOf(out[i], m)
    BY DEF Held, Has
  <2>2. i # 1
    BY <1>1, <2>1 DEF IsOf
  <2> QED
    BY <1>1, <2>1, <2>2 DEF Has
<1>7. Head(out).kind = "data" => HeldBut(t, stg, Head(out).msg)
  <2> SUFFICES ASSUME Head(out).kind = "data", NEW m \in Msgs, m # Head(out).msg, stg[m] = "driver"
               PROVE  Has(t, m)
    BY DEF HeldBut
  <2>1. PICK i \in 1 .. Len(out) : IsOf(out[i], m)
    BY DEF Held, Has
  <2>2. i # 1
    BY <1>1, <2>1 DEF IsOf
  <2> QED
    BY <1>1, <2>1, <2>2 DEF Has
<1>8. Head(out).kind = "data" => ~Has(t, Head(out).msg)
  <2> SUFFICES ASSUME out[1].kind = "data", NEW i \in 1 .. Len(t), IsOf(t[i], out[1].msg)
               PROVE  FALSE
    BY <1>1 DEF Has
  <2>1. i + 1 \in 1 .. Len(out) /\ IsOf(out[i + 1], out[1].msg) /\ i + 1 # 1
    BY <1>1
  <2> QED
    BY <1>1, <2>1 DEF Carried, Books
<1> QED
  BY <1>3, <1>4, <1>5, <1>6, <1>7, <1>8 DEF Books, t

-----------------------------------------------------------------------------
(* The driver takes a frame                                                *)

(* The frame fr of n, the one after those of out.                          *)
LEMMA CarryOne ==
  ASSUME NEW out \in Seq(OutFrame), NEW fr \in OutFrame, NEW n \in Msgs, IsOf(fr, n),
         NEW stg \in [Msgs -> Stages], NEW ps \in [Msgs -> Nat],
         Carried(out, stg, ps), HeldBut(out, stg, n), ~Has(out, n),
         NEW stg2, stg2 = [stg EXCEPT ![n] = "driver"],
         NEW ps2, ps2 = [ps EXCEPT ![n] = @ + 1],
         fr.lfb <=> ps2[n] = Msg[n].frames,
         NEW out2, out2 = Append(out, fr)
  PROVE  Carried(out2, stg2, ps2) /\ Held(out2, stg2)
<1>1. /\ out2 \in Seq(OutFrame) /\ Len(out) \in Nat /\ Len(out2) = Len(out) + 1
      /\ \A i \in 1 .. Len(out) : i \in 1 .. Len(out2) /\ out2[i] = out[i] /\ i < Len(out2)
      /\ Len(out2) \in 1 .. Len(out2) /\ out2[Len(out2)] = fr
      /\ \A i \in 1 .. Len(out2) : i \in 1 .. Len(out) \/ i = Len(out2)
  BY Grown
<1>2. /\ stg2[n] = "driver" /\ \A m \in Msgs : m # n => stg2[m] = stg[m] /\ ps2[m] = ps[m]
  BY DEF Stages
<1>3. ASSUME NEW i \in 1 .. Len(out2), out2[i].kind = "data"
      PROVE  /\ out2[i].msg \in Msgs
             /\ stg2[out2[i].msg] = "driver"
             /\ out2[i].lfb <=> ps2[out2[i].msg] = Msg[out2[i].msg].frames
             /\ \A j \in 1 .. Len(out2) : IsOf(out2[j], out2[i].msg) => i = j
  <2>1. CASE i \in 1 .. Len(out)
    <3>1. out[i] = out2[i] /\ out[i].kind = "data" /\ out[i].msg # n /\ out[i].msg \in Msgs
      <4>1. out[i] = out2[i] /\ out[i].kind = "data"
        BY <1>1, <1>3, <2>1
      <4>2. out[i].msg \in Msgs
        BY <2>1, <4>1 DEF Carried
      <4>3. ~IsOf(out[i], n)
        BY <2>1 DEF Has
      <4> QED
        BY <4>1, <4>2, <4>3 DEF IsOf
    <3>2. ASSUME NEW j \in 1 .. Len(out2), IsOf(out2[j], out2[i].msg) PROVE i = j
      <4>1. j # Len(out2)
        BY <1>1, <3>1, <3>2 DEF IsOf
      <4>2. j \in 1 .. Len(out) /\ IsOf(out[j], out[i].msg)
        BY <1>1, <3>1, <3>2, <4>1
      <4> QED
        BY <2>1, <3>1, <4>2 DEF Carried
    <3>3. /\ stg[out[i].msg] = "driver"
          /\ out[i].lfb <=> ps[out[i].msg] = Msg[out[i].msg].frames
      BY <2>1, <3>1 DEF Carried
    <3>4. stg2[out[i].msg] = stg[out[i].msg] /\ ps2[out[i].msg] = ps[out[i].msg]
      BY <1>2, <3>1
    <3>5. out2[i].lfb <=> ps2[out2[i].msg] = Msg[out2[i].msg].frames
      BY <3>1, <3>3, <3>4
    <3> QED
      BY <3>1, <3>2, <3>3, <3>4, <3>5
  <2>2. CASE i = Len(out2)
    <3>1. out2[i].msg = n /\ out2[i] = fr
      BY <1>1, <2>2 DEF IsOf
    <3>2. ASSUME NEW j \in 1 .. Len(out2), IsOf(out2[j], n) PROVE i = j
      BY <1>1, <2>2, <3>2 DEF Has
    <3> QED
      BY <1>2, <3>1, <3>2
  <2> QED
    BY <1>1, <2>1, <2>2
<1>4. Carried(out2, stg2, ps2)
  BY <1>3 DEF Carried
<1>5. Held(out2, stg2)
  <2>1. Has(out2, n)
    BY <1>1 DEF Has
  <2>2. \A m \in Msgs : Has(out, m) => Has(out2, m)
    BY <1>1 DEF Has
  <2> QED
    BY <1>2, <2>1, <2>2 DEF Held, HeldBut
<1> QED
  BY <1>4, <1>5

(* A waiter at the end waits behind all the others.                        *)
LEMMA AwaitOne ==
  ASSUME NEW ws \in Seq(Waiter), NEW w \in Waiter, ~Awaited(ws, w.msg),
         NEW ws2, ws2 = Append(ws, w)
  PROVE  /\ Awaited(ws2, w.msg)
         /\ \A m : Awaited(ws, m) => Awaited(ws2, m)
         /\ \A m : m # w.msg => Ahead(ws2, m, w.msg)
         /\ \A m, n : Ahead(ws, m, n) /\ m # w.msg /\ n # w.msg => Ahead(ws2, m, n)
<1>1. /\ ws2 \in Seq(Waiter) /\ Len(ws) \in Nat /\ Len(ws2) = Len(ws) + 1
      /\ \A i \in 1 .. Len(ws) : i \in 1 .. Len(ws2) /\ ws2[i] = ws[i] /\ i < Len(ws2)
      /\ Len(ws2) \in 1 .. Len(ws2) /\ ws2[Len(ws2)] = w
      /\ \A i \in 1 .. Len(ws2) : i \in 1 .. Len(ws) \/ i = Len(ws2)
  BY Grown
<1>2. Awaited(ws2, w.msg)
  BY <1>1 DEF Awaited
<1>3. \A m : Awaited(ws, m) => Awaited(ws2, m)
  BY <1>1 DEF Awaited
<1>3a. ASSUME NEW m, m # w.msg PROVE Ahead(ws2, m, w.msg)
  <2>3. ASSUME NEW a \in 1 .. Len(ws2), NEW b \in 1 .. Len(ws2), ws2[a].msg = m, ws2[b].msg = w.msg
        PROVE  a < b
    <3>1. b = Len(ws2)
      BY <1>1, <2>3 DEF Awaited
    <3>2. a # Len(ws2)
      BY <1>1, <1>3a, <2>3
    <3> QED
      BY <1>1, <3>1, <3>2
  <2> QED
    BY <2>3 DEF Ahead
<1>4. ASSUME NEW m, NEW n, Ahead(ws, m, n), m # w.msg, n # w.msg
      PROVE  Ahead(ws2, m, n)
  <2>2. ASSUME NEW a \in 1 .. Len(ws2), NEW b \in 1 .. Len(ws2), ws2[a].msg = m, ws2[b].msg = n
        PROVE  a < b
    <3>1. a # Len(ws2) /\ b # Len(ws2)
      BY <1>1, <1>4, <2>2
    <3>2. a \in 1 .. Len(ws) /\ b \in 1 .. Len(ws) /\ ws[a].msg = m /\ ws[b].msg = n
      BY <1>1, <2>2, <3>1
    <3> QED
      BY <1>4, <3>2 DEF Ahead
  <2> QED
    BY <2>2 DEF Ahead
<1> QED
  BY <1>2, <1>3, <1>3a, <1>4

(* What Dispatch does to stages and answers: the message is with the       *)
(* driver, or answered with the reason for which it was refused.           *)
Dispatched(n, stg, ans) ==
  /\ stage'[n] \in {"driver", "done"}
  /\ \A m \in Msgs : m # n => stage'[m] = stg[m] /\ answers'[m] = ans[m]
  /\ answers'[n] = <<>> \/ \E rc \in RCs \ {RC_NORM} : answers'[n] = <<rc>>

LEMMA DispatchBooks ==
  ASSUME NEW bad, TypeOK, NEW n \in Msgs, NEW out \in Seq(OutFrame), NEW stg \in [Msgs -> Stages],
         NEW ans \in [Msgs -> Seq(RCs)], NEW conf \in Seq(Msgs),
         Dispatch(n, out, stg, ans),
         Books(waiters, out, conf, stg, pos, ans, bad), HeldBut(out, stg, n), ~Has(out, n),
         stg[n] # "done", ~Awaited(waiters, n)
  PROVE  /\ Books(waiters', framesOut', conf, stage', pos', answers', bad) /\ Held(framesOut', stage')
         /\ Dispatched(n, stg, ans)
<1> USE DEF Books, Dispatched
<1>1. waiters \in Seq(Waiter) /\ pos \in [Msgs -> Nat]
  BY DEF TypeOK
<1>2. ans[n] = <<>>
  BY DEF Unanswered
<1>3. \A i \in 1 .. Len(conf) : conf[i] \in Msgs /\ conf[i] # n
  <2>1. \A i \in 1 .. Len(conf) : conf[i] \in Msgs
    BY ElementOfSeq
  <2> QED
    BY <2>1 DEF Owed
<1>4. \A a \in 1 .. Len(waiters) : waiters[a].msg \in Msgs /\ waiters[a].msg # n
  <2>1. \A a \in 1 .. Len(waiters) : waiters[a] \in Waiter
    BY <1>1, ElementOfSeq
  <2> QED
    BY <2>1 DEF Awaited, Waiter
<1>5. CASE Verdict(n) # RC_NORM
  <2>1. /\ answers' = Answered(ans, n, Verdict(n)) /\ stage' = [stg EXCEPT ![n] = "done"]
        /\ framesOut' = out /\ waiters' = waiters /\ pos' = pos
    BY <1>5 DEF Dispatch
  <2>2. Verdict(n) \in RCs
    BY DEF Verdict, RCs
  <2>3. /\ answers'[n] = <<Verdict(n)>> /\ stage'[n] = "done"
        /\ \A m \in Msgs : m # n => stage'[m] = stg[m] /\ answers'[m] = ans[m]
    BY <1>2, <2>1 DEF Answered
  <2>4. Unanswered(stage', answers', bad)
    <3>1. Len(<<Verdict(n)>>) <= 1
      OBVIOUS
    <3> QED
      BY <2>3, <3>1 DEF Unanswered
  <2>5. Waiting(waiters', stage', pos', answers', bad)
    BY <1>4, <2>1, <2>3 DEF Waiting
  <2>6. Carried(framesOut', stage', pos') /\ Held(framesOut', stage')
    <3>1. \A i \in 1 .. Len(out) : out[i].kind = "data" => out[i].msg \in Msgs /\ out[i].msg # n
      BY DEF Has, IsOf, Carried
    <3>2. Carried(out, stage', pos)
      BY <2>3, <3>1 DEF Carried
    <3>3. Held(out, stage')
      BY <2>3 DEF Held, HeldBut
    <3> QED
      BY <2>1, <3>2, <3>3
  <2>7. InLine(framesOut', waiters') /\ Owed(conf, framesOut', waiters', stage', bad)
    <3>1. \A i \in 1 .. Len(conf) : stage'[conf[i]] = stg[conf[i]]
      BY <1>3, <2>3
    <3>2. Owed(conf, out, waiters, stage', bad)
      BY <3>1 DEF Owed
    <3> QED
      BY <2>1, <3>2
  <2> QED
    BY <1>5, <2>2, <2>3, <2>4, <2>5, <2>6, <2>7
<1>6. CASE Verdict(n) = RC_NORM
  <2> DEFINE fr == NextFrame(n)
             w == [msg |-> n, tics |-> Tics]
  <2>1. /\ framesOut' = Append(out, fr)
        /\ waiters' = IF NeedsWaiter(n) THEN Append(waiters, w) ELSE waiters
        /\ pos' = [pos EXCEPT ![n] = @ + 1]
        /\ stage' = [stg EXCEPT ![n] = "driver"]
        /\ answers' = ans
    BY <1>6, Zenon DEF Dispatch
  <2>2. /\ fr \in OutFrame /\ IsOf(fr, n) /\ w \in Waiter /\ w.msg = n
        /\ fr.lfb <=> pos'[n] = Msg[n].frames
        /\ NeedsWaiter(n) <=> IsLast(fr)
        /\ NeedsWaiter(n) => Msg[n].id # HeartbeatId
    BY <1>1, <2>1, WidthAssumption
       DEF NextFrame, OutFrame, IsOf, Waiter, NeedsWaiter, IsLast, IsHeartbeat, KeyOf
  <2> HIDE DEF fr, w
  <2>3. /\ answers' = ans /\ stage'[n] = "driver" /\ pos'[n] = pos[n] + 1
        /\ \A m \in Msgs : m # n => stage'[m] = stg[m] /\ pos'[m] = pos[m]
    BY <1>1, <2>1
  <2>4. Carried(framesOut', stage', pos') /\ Held(framesOut', stage')
    <3> DEFINE out2 == Append(out, fr)
               stg2 == [stg EXCEPT ![n] = "driver"]
               ps2 == [pos EXCEPT ![n] = @ + 1]
    <3>1. Carried(out, stg, pos) /\ (fr.lfb <=> ps2[n] = Msg[n].frames)
      BY <2>1, <2>2
    <3>2. Carried(out2, stg2, ps2) /\ Held(out2, stg2)
      <4>1. out2 = Append(out, fr) /\ stg2 = [stg EXCEPT ![n] = "driver"] /\ ps2 = [pos EXCEPT ![n] = @ + 1]
        OBVIOUS
      <4>2. pos \in [Msgs -> Nat] /\ fr \in OutFrame /\ IsOf(fr, n)
        BY <1>1, <2>2
      <4>3. n \in Msgs /\ HeldBut(out, stg, n) /\ ~Has(out, n)
        OBVIOUS
      <4> HIDE DEF Books, out2, stg2, ps2
      <4> QED
        BY <3>1, <4>1, <4>2, <4>3, CarryOne
    <3> QED
      BY <2>1, <3>2
  <2>5. Unanswered(stage', answers', bad)
    BY <1>2, <2>3 DEF Unanswered
  <2>6. /\ framesOut' \in Seq(OutFrame) /\ Len(out) \in Nat /\ Len(framesOut') = Len(out) + 1
        /\ \A i \in 1 .. Len(out) : framesOut'[i] = out[i] /\ i < Len(framesOut')
        /\ Len(framesOut') \in 1 .. Len(framesOut') /\ framesOut'[Len(framesOut')] = fr
        /\ \A i \in 1 .. Len(framesOut') : i \in 1 .. Len(out) \/ i = Len(framesOut')
    BY <2>1, <2>2, Grown
  <2>7. CASE ~NeedsWaiter(n)
    <3>1. waiters' = waiters /\ ~IsLast(fr)
      BY <2>1, <2>2, <2>7
    <3>2. Waiting(waiters', stage', pos', answers', bad)
      BY <1>4, <2>3, <3>1 DEF Waiting
    <3>3. \A i \in 1 .. Len(framesOut') : IsLast(framesOut'[i]) =>
            i \in 1 .. Len(out) /\ framesOut'[i] = out[i]
      BY <2>6, <3>1
    <3>4. InLine(framesOut', waiters')
      BY <3>1, <3>3 DEF InLine
    <3>5. Owed(conf, framesOut', waiters', stage', bad)
      BY <1>3, <2>3, <3>1, <3>3 DEF Owed
    <3> QED
      BY <1>2, <2>3, <2>4, <2>5, <3>2, <3>4, <3>5
  <2>8. CASE NeedsWaiter(n)
    <3>1. waiters' = Append(waiters, w)
      BY <2>1, <2>8
    <3>2. /\ Awaited(waiters', n)
          /\ \A m : Awaited(waiters, m) => Awaited(waiters', m)
          /\ \A m : m # n => Ahead(waiters', m, n)
          /\ \A m1, m2 : Ahead(waiters, m1, m2) /\ m1 # n /\ m2 # n => Ahead(waiters', m1, m2)
      BY <1>1, <2>2, <3>1, AwaitOne
    <3>3. /\ waiters' \in Seq(Waiter) /\ Len(waiters) \in Nat /\ Len(waiters') = Len(waiters) + 1
          /\ \A a \in 1 .. Len(waiters) : waiters'[a] = waiters[a] /\ a < Len(waiters')
          /\ Len(waiters') \in 1 .. Len(waiters') /\ waiters'[Len(waiters')] = w
          /\ \A a \in 1 .. Len(waiters') : a \in 1 .. Len(waiters) \/ a = Len(waiters')
      BY <1>1, <2>2, <3>1, Grown
    <3>4. pos'[n] = Msg[n].frames
      BY <2>2, <2>8 DEF IsLast
    <3>5. Waiting(waiters', stage', pos', answers', bad)
      <4>1. ASSUME NEW a \in 1 .. Len(waiters)
            PROVE  /\ waiters[a].msg \notin bad => ans[waiters[a].msg] = <<>>
                   /\ stage'[waiters[a].msg] \in {"driver", "done"}
                   /\ Msg[waiters[a].msg].id # HeartbeatId
                   /\ stage'[waiters[a].msg] = "driver" => pos'[waiters[a].msg] = Msg[waiters[a].msg].frames
        BY <1>4, <2>3 DEF Waiting
      <4>2. ASSUME NEW a \in 1 .. Len(waiters'), NEW b \in 1 .. Len(waiters'),
                   waiters'[b].msg = waiters'[a].msg
            PROVE  a = b
        <5>1. CASE a \in 1 .. Len(waiters) /\ b \in 1 .. Len(waiters)
          BY <3>3, <4>2, <5>1 DEF Waiting
        <5>2. CASE a = Len(waiters') /\ b = Len(waiters')
          BY <5>2
        <5>3. CASE a \in 1 .. Len(waiters) /\ b = Len(waiters')
          BY <1>4, <2>2, <3>3, <4>2, <5>3
        <5>4. CASE a = Len(waiters') /\ b \in 1 .. Len(waiters)
          BY <1>4, <2>2, <3>3, <4>2, <5>4
        <5> QED
          BY <3>3, <5>1, <5>2, <5>3, <5>4
      <4>3. ASSUME NEW a \in 1 .. Len(waiters')
            PROVE  /\ waiters'[a].msg \notin bad => answers'[waiters'[a].msg] = <<>>
                   /\ stage'[waiters'[a].msg] \in {"driver", "done"}
                   /\ Msg[waiters'[a].msg].id # HeartbeatId
                   /\ stage'[waiters'[a].msg] = "driver" => pos'[waiters'[a].msg] = Msg[waiters'[a].msg].frames
        <5>1. CASE a \in 1 .. Len(waiters)
          BY <2>3, <3>3, <4>1, <5>1
        <5>2. CASE a = Len(waiters')
          BY <1>2, <2>2, <2>3, <2>8, <3>3, <3>4, <5>2
        <5> QED
          BY <3>3, <5>1, <5>2
      <4> QED
        BY <4>2, <4>3 DEF Waiting
    <3>6. \A i \in 1 .. Len(out) :
            IsLast(out[i]) => Awaited(waiters, out[i].msg) /\ out[i].msg # n
      BY DEF InLine, IsLast, IsOf, Has
    <3>8. InLine(framesOut', waiters')
      <4>1. ASSUME NEW i \in 1 .. Len(framesOut'), IsLast(framesOut'[i])
            PROVE  Awaited(waiters', framesOut'[i].msg)
        BY <2>2, <2>6, <3>2, <3>6, <4>1 DEF IsOf
      <4>2. ASSUME NEW i \in 1 .. Len(framesOut'), NEW j \in 1 .. Len(framesOut'), i < j,
                   IsLast(framesOut'[i]), IsLast(framesOut'[j])
            PROVE  Ahead(waiters', framesOut'[i].msg, framesOut'[j].msg)
        <5>1. i \in 1 .. Len(out) /\ framesOut'[i] = out[i] /\ out[i].msg # n
          <6>1. i # Len(framesOut')
            BY <2>6, <4>2
          <6>2. i \in 1 .. Len(out) /\ framesOut'[i] = out[i]
            BY <2>6, <6>1
          <6> QED
            BY <3>6, <4>2, <6>2
        <5>2. CASE j = Len(framesOut')
          BY <2>2, <2>6, <3>2, <5>1, <5>2 DEF IsOf
        <5>3. CASE j \in 1 .. Len(out)
          <6>1. framesOut'[j] = out[j] /\ out[j].msg # n
            BY <2>6, <3>6, <4>2, <5>3
          <6>2. Ahead(waiters, out[i].msg, out[j].msg)
            BY <4>2, <5>1, <5>3, <6>1 DEF InLine
          <6> QED
            BY <3>2, <5>1, <6>1, <6>2
        <5> QED
          BY <2>6, <5>2, <5>3
      <4> QED
        BY <4>1, <4>2 DEF InLine
    <3>9. Owed(conf, framesOut', waiters', stage', bad)
      <4>1. ASSUME NEW i \in 1 .. Len(conf)
            PROVE  /\ stage'[conf[i]] = "done"
                   /\ conf[i] \notin bad => Awaited(waiters', conf[i])
        BY <1>3, <2>3, <3>2 DEF Owed
      <4>2. ASSUME NEW i \in 1 .. Len(conf), NEW j \in 1 .. Len(conf), i < j
            PROVE  Ahead(waiters', conf[i], conf[j])
        BY <1>3, <3>2, <4>2 DEF Owed
      <4>3. ASSUME NEW i \in 1 .. Len(conf), NEW j \in 1 .. Len(framesOut'), IsLast(framesOut'[j])
            PROVE  Ahead(waiters', conf[i], framesOut'[j].msg)
        <5>1. CASE j = Len(framesOut')
          BY <1>3, <2>2, <2>6, <3>2, <5>1 DEF IsOf
        <5>2. CASE j \in 1 .. Len(out)
          <6>1. framesOut'[j] = out[j] /\ out[j].msg # n
            BY <2>6, <3>6, <4>3, <5>2
          <6>2. Ahead(waiters, conf[i], out[j].msg)
            BY <4>3, <5>2, <6>1 DEF Owed
          <6> QED
            BY <1>3, <3>2, <6>1, <6>2
        <5> QED
          BY <2>6, <5>1, <5>2
      <4> QED
        BY <4>1, <4>2, <4>3 DEF Owed
    <3> QED
      BY <1>2, <2>3, <2>4, <2>5, <3>5, <3>8, <3>9
  <2> QED
    BY <2>7, <2>8
<1> QED
  BY <1>5, <1>6

-----------------------------------------------------------------------------
(* Waiters leave                                                           *)

(* The waiters of new are some of those of ws, in the same order.          *)
Thinned(ws, new) ==
  \A a, b \in 1 .. Len(new) : \E p, q \in 1 .. Len(ws) :
    /\ ws[p].msg = new[a].msg /\ ws[q].msg = new[b].msg
    /\ p < q => a < b
    /\ p = q => a = b

LEMMA ThinnedKeeps ==
  ASSUME NEW bad, NEW ws, NEW new, Thinned(ws, new)
  PROVE  /\ \A m, n : Ahead(ws, m, n) => Ahead(new, m, n)
         /\ \A m : Awaited(new, m) => Awaited(ws, m)
         /\ \A stg, ps, ans : Waiting(ws, stg, ps, ans, bad) => Waiting(new, stg, ps, ans, bad)
<1> DEFINE Same(a, b, p, q) == /\ ws[p].msg = new[a].msg /\ ws[q].msg = new[b].msg
                               /\ p < q => a < b
                               /\ p = q => a = b
<1>0. \A a, b \in 1 .. Len(new) : \E p, q \in 1 .. Len(ws) : Same(a, b, p, q)
  BY DEF Thinned
<1>1. ASSUME NEW m, NEW n, Ahead(ws, m, n) PROVE Ahead(new, m, n)
  <2> SUFFICES ASSUME NEW a \in 1 .. Len(new), NEW b \in 1 .. Len(new),
                      new[a].msg = m, new[b].msg = n
               PROVE  a < b
    BY DEF Ahead
  <2>1. PICK p \in 1 .. Len(ws), q \in 1 .. Len(ws) : Same(a, b, p, q)
    <3> HIDE DEF Same
    <3> QED
      BY <1>0
  <2>2. p < q
    BY <1>1, <2>1 DEF Ahead
  <2> QED
    BY <2>1, <2>2
<1>2. ASSUME NEW m, Awaited(new, m) PROVE Awaited(ws, m)
  <2>1. PICK a \in 1 .. Len(new) : new[a].msg = m
    BY <1>2 DEF Awaited
  <2>2. PICK p \in 1 .. Len(ws), q \in 1 .. Len(ws) : Same(a, a, p, q)
    <3> HIDE DEF Same
    <3> QED
      BY <1>0
  <2> QED
    BY <2>1, <2>2 DEF Awaited
<1>3. ASSUME NEW stg, NEW ps, NEW ans, Waiting(ws, stg, ps, ans, bad)
      PROVE  Waiting(new, stg, ps, ans, bad)
  <2>1. ASSUME NEW a \in 1 .. Len(new), NEW b \in 1 .. Len(new), new[b].msg = new[a].msg
        PROVE  a = b
    <3>1. PICK p \in 1 .. Len(ws), q \in 1 .. Len(ws) :
            Same(a, b, p, q)
      <4> HIDE DEF Same
      <4> QED
        BY <1>0
    <3>2. p = q
      BY <1>3, <2>1, <3>1 DEF Waiting
    <3> QED
      BY <3>1, <3>2
  <2>2. ASSUME NEW a \in 1 .. Len(new)
        PROVE  \E p \in 1 .. Len(ws) : ws[p].msg = new[a].msg
    <3>1. PICK p \in 1 .. Len(ws), q \in 1 .. Len(ws) : Same(a, a, p, q)
      <4> HIDE DEF Same
      <4> QED
        BY <1>0
    <3> QED
      BY <3>1
  <2>3. ASSUME NEW a \in 1 .. Len(new)
        PROVE  /\ new[a].msg \notin bad => ans[new[a].msg] = <<>>
               /\ stg[new[a].msg] \in {"driver", "done"}
               /\ Msg[new[a].msg].id # HeartbeatId
               /\ stg[new[a].msg] = "driver" => ps[new[a].msg] = Msg[new[a].msg].frames
    <3>1. PICK p \in 1 .. Len(ws) : ws[p].msg = new[a].msg
      BY <2>2
    <3> QED
      BY <1>3, <3>1 DEF Waiting
  <2> QED
    BY <2>1, <2>3 DEF Waiting
<1> QED
  BY <1>1, <1>2, <1>3

(* remove_confirm_waiter                                                   *)
LEMMA RemovedThinned ==
  ASSUME NEW ws \in Seq(Waiter), NEW w \in 1 .. Len(ws), NEW new, new = RemoveAt(ws, w)
  PROVE  /\ Thinned(ws, new)
         /\ \A a \in 1 .. Len(new) : \E p \in 1 .. Len(ws) : p # w /\ ws[p].msg = new[a].msg
         /\ \A p \in 1 .. Len(ws) : p # w => Awaited(new, ws[p].msg)
<1> DEFINE At(a) == IF a < w THEN a ELSE a + 1
<1>1. /\ Len(ws) \in Nat /\ Len(new) = Len(ws) - 1
      /\ \A a \in 1 .. Len(ws) - 1 : new[a] = IF a < w THEN ws[a] ELSE ws[a + 1]
  BY RemoveAtProperties, LenProperties
<1>2. \A a \in 1 .. Len(new) : At(a) \in 1 .. Len(ws) /\ At(a) # w /\ new[a] = ws[At(a)]
  BY <1>1
<1>3. \A a, b \in 1 .. Len(new) : (At(a) < At(b) => a < b) /\ (At(a) = At(b) => a = b)
  BY <1>1
<1>4. ASSUME NEW p \in 1 .. Len(ws), p # w
      PROVE  Awaited(new, ws[p].msg)
  <2>1. CASE p < w
    <3>1. p \in 1 .. Len(new) /\ new[p] = ws[p]
      BY <1>1, <2>1
    <3> QED
      BY <3>1 DEF Awaited
  <2>2. CASE ~(p < w)
    <3>1. p - 1 \in 1 .. Len(new) /\ new[p - 1] = ws[p]
      BY <1>1, <1>4, <2>2
    <3> QED
      BY <3>1 DEF Awaited
  <2> QED
    BY <2>1, <2>2
<1> HIDE DEF At
<1>5. Thinned(ws, new)
  BY <1>2, <1>3 DEF Thinned
<1> QED
  BY <1>2, <1>4, <1>5

(* check_confirm_waiters: those that are left have not expired, and no     *)
(* other is gone.  By induction on the list, as above.                     *)
LEMMA SurvivorsThinned ==
  ASSUME NEW ws \in Seq(Waiter), NEW new, new = Survivors(ws)
  PROVE  /\ Thinned(ws, new)
         /\ \A a \in 1 .. Len(new) : \E p \in 1 .. Len(ws) :
              ~Expired(ws[p]) /\ ws[p].msg = new[a].msg
         /\ \A p \in 1 .. Len(ws) : ~Expired(ws[p]) => Awaited(new, ws[p].msg)
<1> DEFINE n == Len(ws)
<1>1. n \in Nat
  BY LenProperties
<1>2. PICK left : /\ Survivors(ws) = left[n]
                  /\ left[0] = <<>>
                  /\ \A i \in 1 .. n :
                       left[i] = IF Expired(ws[i]) THEN left[i - 1]
                                 ELSE Append(left[i - 1], [ws[i] EXCEPT !.tics = @ - 1])
  BY SurvivorsUnfold
<1> DEFINE From(s, j) == \A a, b \in 1 .. Len(s) : \E p, q \in 1 .. j :
                            /\ ws[p].msg = s[a].msg /\ ws[q].msg = s[b].msg
                            /\ p < q => a < b
                            /\ p = q => a = b
           Alive(s, j) == \A a \in 1 .. Len(s) : \E p \in 1 .. j : ~Expired(ws[p]) /\ ws[p].msg = s[a].msg
           All(s, j) == \A p \in 1 .. j : ~Expired(ws[p]) => Awaited(s, ws[p].msg)
           Good(j) == left[j] \in Seq(Waiter) /\ From(left[j], j) /\ Alive(left[j], j) /\ All(left[j], j)
<1>3. Good(0)
  <2>1. left[0] \in Seq(Waiter) /\ Len(left[0]) = 0
    BY <1>2, EmptySeq
  <2> QED
    BY <2>1
<1>4. ASSUME NEW j \in 1 .. n, Good(j - 1)
      PROVE  Good(j)
  <2> DEFINE prev == left[j - 1]
  <2>1. /\ prev \in Seq(Waiter) /\ From(prev, j - 1) /\ Alive(prev, j - 1) /\ All(prev, j - 1)
        /\ left[j] = IF Expired(ws[j]) THEN prev ELSE Append(prev, [ws[j] EXCEPT !.tics = @ - 1])
    BY <1>2, <1>4
  <2> HIDE DEF prev
  <2>2. j \in 1 .. j /\ \A p \in 1 .. j - 1 : p \in 1 .. j /\ p < j
    BY <1>1
  <2>3. \A p \in 1 .. j : p \in 1 .. j - 1 \/ p = j
    BY <1>1
  <2>4. CASE Expired(ws[j])
    <3>1. left[j] = prev
      BY <2>1, <2>4
    <3>2. From(prev, j)
      BY <2>1, <2>2
    <3>3. Alive(prev, j)
      BY <2>1, <2>2
    <3>4. All(prev, j)
      BY <2>1, <2>3, <2>4
    <3>5. prev \in Seq(Waiter)
      BY <2>1
    <3> HIDE DEF From, Alive, All
    <3> QED
      BY <3>1, <3>2, <3>3, <3>4, <3>5
  <2>5. CASE ~Expired(ws[j])
    <3> DEFINE x == [ws[j] EXCEPT !.tics = @ - 1]
               s == left[j]
    <3>1. ws[j] \in Waiter
      BY ElementOfSeq
    <3>2. x \in Waiter /\ x.msg = ws[j].msg
      BY <2>5, <3>1 DEF Expired, Waiter
    <3>3. s = Append(prev, x)
      BY <2>1, <2>5
    <3> HIDE DEF x, s
    <3>4. /\ s \in Seq(Waiter) /\ Len(prev) \in Nat /\ Len(s) = Len(prev) + 1
          /\ \A i \in 1 .. Len(prev) : i \in 1 .. Len(s) /\ s[i] = prev[i] /\ i < Len(s)
          /\ Len(s) \in 1 .. Len(s) /\ s[Len(s)] = x
          /\ \A i \in 1 .. Len(s) : i \in 1 .. Len(prev) \/ i = Len(s)
      BY <2>1, <3>2, <3>3, Grown
    <3>5. From(s, j)
      <4> SUFFICES ASSUME NEW a \in 1 .. Len(s), NEW b \in 1 .. Len(s)
                   PROVE  \E p, q \in 1 .. j : /\ ws[p].msg = s[a].msg /\ ws[q].msg = s[b].msg
                                               /\ p < q => a < b
                                               /\ p = q => a = b
        OBVIOUS
      <4>1. CASE a \in 1 .. Len(prev) /\ b \in 1 .. Len(prev)
        <5>1. PICK p \in 1 .. j - 1, q \in 1 .. j - 1 :
                /\ ws[p].msg = prev[a].msg /\ ws[q].msg = prev[b].msg
                /\ p < q => a < b
                /\ p = q => a = b
          BY <2>1, <4>1
        <5> QED
          BY <2>2, <3>4, <4>1, <5>1
      <4>2. CASE a \in 1 .. Len(prev) /\ b = Len(s)
        <5>1. PICK p \in 1 .. j - 1 : ws[p].msg = prev[a].msg
          BY <2>1, <4>2
        <5> QED
          BY <2>2, <3>2, <3>4, <4>2, <5>1
      <4>3. CASE a = Len(s) /\ b \in 1 .. Len(prev)
        <5>1. PICK q \in 1 .. j - 1 : ws[q].msg = prev[b].msg
          BY <2>1, <4>3
        <5>2. ~(j < q) /\ j # q /\ q \in 1 .. j
          BY <1>1, <2>2
        <5> QED
          BY <2>2, <3>2, <3>4, <4>3, <5>1, <5>2
      <4>4. CASE a = Len(s) /\ b = Len(s)
        <5>1. ~(j < j)
          BY <1>1
        <5> QED
          BY <2>2, <3>2, <3>4, <4>4, <5>1
      <4> QED
        BY <3>4, <4>1, <4>2, <4>3, <4>4
    <3>6. Alive(s, j)
      <4> SUFFICES ASSUME NEW a \in 1 .. Len(s)
                   PROVE  \E p \in 1 .. j : ~Expired(ws[p]) /\ ws[p].msg = s[a].msg
        OBVIOUS
      <4>1. CASE a \in 1 .. Len(prev)
        <5>1. PICK p \in 1 .. j - 1 : ~Expired(ws[p]) /\ ws[p].msg = prev[a].msg
          BY <2>1, <4>1
        <5> QED
          BY <2>2, <3>4, <4>1, <5>1
      <4>2. CASE a = Len(s)
        BY <2>2, <2>5, <3>2, <3>4, <4>2
      <4> QED
        BY <3>4, <4>1, <4>2
    <3>7. All(s, j)
      <4>1. \A m : Awaited(prev, m) => Awaited(s, m)
        BY <3>4 DEF Awaited
      <4>2. Awaited(s, ws[j].msg)
        BY <3>2, <3>4 DEF Awaited
      <4> QED
        BY <2>1, <2>3, <4>1, <4>2
    <3> QED
      BY <3>4, <3>5, <3>6, <3>7 DEF s
  <2> QED
    BY <2>4, <2>5
<1>5. Good(n)
  <2> DEFINE T == {j \in 0 .. n : ~Good(j)}
  <2> HIDE DEF Good
  <2> SUFFICES ASSUME T # {} PROVE FALSE
    BY <1>1
  <2>1. PICK j \in T : \A y \in T : j <= y
    <3>1. T \subseteq Nat
      BY <1>1
    <3> QED
      BY <3>1, LeastExists
  <2>2. j \in 0 .. n /\ ~Good(j)
    OBVIOUS
  <2>3. j # 0
    BY <1>3, <2>2
  <2>4. j - 1 \in 0 .. n /\ ~(j <= j - 1) /\ j \in 1 .. n
    BY <1>1, <2>2, <2>3
  <2>5. Good(j - 1)
    BY <2>1, <2>4
  <2> QED
    BY <1>4, <2>2, <2>4, <2>5
<1>6. new = left[n]
  BY <1>2
<1>7. From(new, n) /\ Alive(new, n) /\ All(new, n)
  BY <1>5, <1>6
<1>8. Thinned(ws, new)
  BY <1>7 DEF Thinned
<1> QED
  BY <1>7, <1>8

(* The first waiter of a key is the first whose message has the key, or is *)
(* answered and what is read in its place has it.                          *)
LEMMA FirstWaiterFinds ==
  ASSUME waiters \in Seq(Waiter), NEW k, NEW g
  PROVE  /\ FirstWaiter(k, g) # 0 =>
              /\ FirstWaiter(k, g) \in 1 .. Len(waiters)
              /\ Meta(waiters[FirstWaiter(k, g)].msg, g) = k
         /\ \A a \in 1 .. Len(waiters) : Meta(waiters[a].msg, g) = k =>
              FirstWaiter(k, g) # 0 /\ FirstWaiter(k, g) <= a
<1> DEFINE n == Len(waiters)
           I == {i \in 1 .. n : Meta(waiters[i].msg, g) = k}
<1>1. FirstWaiter(k, g) = IF I # {} THEN Min(I) ELSE 0
  BY DEF FirstWaiter, SelectInSeq
<1>2. n \in Nat
  BY LenProperties
<1> HIDE DEF n
<1>3. I \subseteq Nat
  BY <1>2
<1>4. I # {} => Min(I) \in I /\ \A a \in I : Min(I) <= a
  BY <1>3, MinIsLeast
<1>5. ASSUME FirstWaiter(k, g) # 0
      PROVE  FirstWaiter(k, g) \in 1 .. n /\ Meta(waiters[FirstWaiter(k, g)].msg, g) = k
  BY <1>1, <1>4, <1>5
<1>6. ASSUME NEW a \in 1 .. n, Meta(waiters[a].msg, g) = k
      PROVE  FirstWaiter(k, g) # 0 /\ FirstWaiter(k, g) <= a
  <2>1. a \in I
    BY <1>6
  <2>2. Min(I) \in I /\ Min(I) <= a /\ FirstWaiter(k, g) = Min(I)
    BY <1>1, <1>4, <2>1
  <2>3. Min(I) # 0
    BY <2>2
  <2> QED
    BY <2>2, <2>3
<1> QED
  BY <1>5, <1>6 DEF n

-----------------------------------------------------------------------------
(* The queues of the atoms                                                 *)

Position(at, i, j) == i \in 1 .. Len(at) /\ j \in 1 .. Len(at[i].queue)

(* A message that is queued for its turn is queued once, and waits.        *)
Queues(at, stg) ==
  \A i, j \in Nat : Position(at, i, j) =>
    /\ stg[at[i].queue[j]] = "queued"
    /\ \A p, q \in Nat :
         Position(at, p, q) /\ at[p].queue[q] = at[i].queue[j] => p = i /\ q = j

LEMMA QueuedOnce ==
  ASSUME NEW at, NEW stg, Queues(at, stg),
         NEW i \in Nat, NEW j \in Nat, Position(at, i, j),
         NEW p \in Nat, NEW q \in Nat, Position(at, p, q),
         at[p].queue[q] = at[i].queue[j]
  PROVE  p = i /\ q = j
BY DEF Queues

LEMMA QueuesStage ==
  ASSUME NEW at, NEW stg, NEW stg2, Queues(at, stg),
         \A i, j \in Nat : Position(at, i, j) => stg2[at[i].queue[j]] = "queued"
  PROVE  Queues(at, stg2)
BY DEF Queues

(* No atom has a message more than it had.                                 *)
LEMMA QueuesSame ==
  ASSUME NEW at, NEW at2, NEW stg, Queues(at, stg),
         \A i, j \in Nat : Position(at2, i, j) =>
           Position(at, i, j) /\ at2[i].queue[j] = at[i].queue[j]
  PROVE  Queues(at2, stg)
BY DEF Queues

LEMMA QueuesGetAtom ==
  ASSUME NEW at \in Seq(Atom), NEW k \in Nat \X Ids, NEW stg, Queues(at, stg),
         NEW list, list = GetAtom(at, k)
  PROVE  /\ Queues(list, stg)
         /\ \A i, j \in Nat : Position(list, i, j) => Position(at, i, j) /\ list[i] = at[i]
<1>1. /\ \A i \in 1 .. Len(at) : list[i] = at[i]
      /\ \A i \in 1 .. Len(list) : i \in 1 .. Len(at) \/ list[i] = FreshAtom(k)
  BY GetAtomHas
<1>2. Len(FreshAtom(k).queue) = 0
  BY EmptySeq DEF FreshAtom
<1>3. ASSUME NEW i \in Nat, NEW j \in Nat, Position(list, i, j)
      PROVE  Position(at, i, j) /\ list[i] = at[i]
  <2>1. list[i] # FreshAtom(k)
    BY <1>2, <1>3 DEF Position
  <2> QED
    BY <1>1, <1>3, <2>1 DEF Position
<1>4. \A i, j \in Nat : Position(list, i, j) =>
        Position(at, i, j) /\ list[i].queue[j] = at[i].queue[j]
  BY <1>3
<1> QED
  BY <1>3, <1>4, QueuesSame

LEMMA QueuesRemoveAt ==
  ASSUME NEW at \in Seq(Atom), NEW i0 \in 1 .. Len(at), NEW stg, Queues(at, stg)
  PROVE  Queues(RemoveAt(at, i0), stg)
<1> DEFINE new == RemoveAt(at, i0)
           From(i) == IF i < i0 THEN i ELSE i + 1
<1>1. /\ Len(at) \in Nat /\ Len(new) = Len(at) - 1
      /\ \A i \in 1 .. Len(at) - 1 : new[i] = IF i < i0 THEN at[i] ELSE at[i + 1]
  BY RemoveAtProperties, LenProperties
<1> HIDE DEF new
<1>2. \A i \in 1 .. Len(new) : From(i) \in 1 .. Len(at) /\ From(i) \in Nat /\ new[i] = at[From(i)]
  BY <1>1
<1>3. \A i, p \in 1 .. Len(new) : From(i) = From(p) => i = p
  BY <1>1
<1> HIDE DEF From
<1>4. ASSUME NEW i \in Nat, NEW j \in Nat, Position(new, i, j)
      PROVE  Position(at, From(i), j) /\ new[i].queue[j] = at[From(i)].queue[j] /\ From(i) \in Nat
  BY <1>2, <1>4 DEF Position
<1>5. ASSUME NEW i \in Nat, NEW j \in Nat, Position(new, i, j)
      PROVE  /\ stg[new[i].queue[j]] = "queued"
             /\ \A p, q \in Nat :
                  Position(new, p, q) /\ new[p].queue[q] = new[i].queue[j] => p = i /\ q = j
  <2>1. stg[new[i].queue[j]] = "queued"
    BY <1>4, <1>5 DEF Queues
  <2>2. ASSUME NEW p \in Nat, NEW q \in Nat, Position(new, p, q), new[p].queue[q] = new[i].queue[j]
        PROVE  p = i /\ q = j
    <3>1. /\ From(i) \in Nat /\ Position(at, From(i), j)
          /\ new[i].queue[j] = at[From(i)].queue[j]
      BY <1>4, <1>5
    <3>2. /\ From(p) \in Nat /\ Position(at, From(p), q)
          /\ new[p].queue[q] = at[From(p)].queue[q]
      BY <1>4, <2>2
    <3>3. at[From(p)].queue[q] = at[From(i)].queue[j]
      BY <2>2, <3>1, <3>2
    <3>4. From(p) = From(i) /\ q = j
      BY <3>1, <3>2, <3>3, QueuedOnce
    <3> QED
      BY <1>3, <1>5, <2>2, <3>4 DEF Position
  <2> QED
    BY <2>1, <2>2
<1> QED
  BY <1>5 DEF Queues, new

(* The atom a takes the place of the atom at i0, with its queue.           *)
LEMMA QueuesReplace ==
  ASSUME NEW at \in Seq(Atom), NEW i0 \in 1 .. Len(at), NEW a, NEW stg, Queues(at, stg),
         a.queue = at[i0].queue, NEW new, new = [at EXCEPT ![i0] = a]
  PROVE  Queues(new, stg)
<1>1. Len(new) = Len(at) /\ \A i \in 1 .. Len(at) : new[i] = IF i = i0 THEN a ELSE at[i]
  OBVIOUS
<1>2. \A i \in 1 .. Len(at) : new[i].queue = at[i].queue
  BY <1>1
<1>3. \A i, j \in Nat : Position(new, i, j) =>
        Position(at, i, j) /\ new[i].queue[j] = at[i].queue[j]
  BY <1>1, <1>2 DEF Position
<1>4. ASSUME NEW i \in Nat, NEW j \in Nat, Position(new, i, j)
      PROVE  /\ stg[new[i].queue[j]] = "queued"
             /\ \A p, q \in Nat :
                  Position(new, p, q) /\ new[p].queue[q] = new[i].queue[j] => p = i /\ q = j
  <2>1. Position(at, i, j) /\ new[i].queue[j] = at[i].queue[j]
    BY <1>3, <1>4
  <2>2. ASSUME NEW p \in Nat, NEW q \in Nat, Position(new, p, q), new[p].queue[q] = new[i].queue[j]
        PROVE  p = i /\ q = j
    <3>1. Position(at, p, q) /\ at[p].queue[q] = at[i].queue[j]
      BY <1>3, <2>1, <2>2
    <3> QED
      BY <2>1, <3>1, QueuedOnce
  <2>3. stg[at[i].queue[j]] = "queued"
    BY <2>1 DEF Queues
  <2> QED
    BY <2>1, <2>2, <2>3
<1> HIDE DEF Position
<1> QED
  BY <1>4, Zenon DEF Queues

NotQueued(at, m) == \A i, j \in Nat : Position(at, i, j) => at[i].queue[j] # m

LEMMA QueuesTail ==
  ASSUME NEW at \in Seq(Atom), NEW i0 \in 1 .. Len(at), NEW a, NEW stg, Queues(at, stg),
         at[i0].queue # <<>>, a.queue = Tail(at[i0].queue), NEW new, new = [at EXCEPT ![i0] = a]
  PROVE  /\ Queues(new, stg)
         /\ Position(at, i0, 1) /\ Head(at[i0].queue) = at[i0].queue[1]
         /\ NotQueued(new, Head(at[i0].queue))
<1> DEFINE q0 == at[i0].queue
           t0 == a.queue
           To(i, j) == IF i = i0 THEN j + 1 ELSE j
<1>1. Len(new) = Len(at) /\ \A i \in 1 .. Len(at) : new[i] = IF i = i0 THEN a ELSE at[i]
  OBVIOUS
<1>2. q0 \in Seq(Msgs)
  <2>1. at[i0] \in Atom
    BY ElementOfSeq
  <2> QED
    BY <2>1 DEF Atom
<1>3. /\ 1 \in 1 .. Len(q0) /\ Head(q0) = q0[1]
      /\ \A j \in 1 .. Len(t0) : j + 1 \in 1 .. Len(q0) /\ t0[j] = q0[j + 1] /\ j + 1 # 1
  <2>1. q0 # <<>> /\ t0 = Tail(q0)
    OBVIOUS
  <2> HIDE DEF q0, t0
  <2> QED
    BY <1>2, <2>1, Shrunk
<1>4. ASSUME NEW i \in Nat, NEW j \in Nat, Position(new, i, j)
      PROVE  /\ To(i, j) \in Nat /\ Position(at, i, To(i, j))
             /\ new[i].queue[j] = at[i].queue[To(i, j)]
             /\ i = i0 => To(i, j) # 1
  <2>1. CASE i = i0
    <3>1. new[i].queue = t0 /\ j \in 1 .. Len(t0)
      BY <1>1, <1>4, <2>1 DEF Position
    <3>2. j + 1 \in 1 .. Len(q0) /\ t0[j] = q0[j + 1] /\ j + 1 # 1 /\ j + 1 \in Nat
      BY <1>3, <3>1
    <3>3. i \in 1 .. Len(at) /\ at[i].queue = q0 /\ To(i, j) = j + 1
      BY <1>1, <2>1
    <3>4. Position(at, i, j + 1)
      BY <3>2, <3>3 DEF Position
    <3> HIDE DEF q0, t0, To
    <3> QED
      BY <3>1, <3>2, <3>3, <3>4
  <2>2. CASE i # i0
    BY <1>1, <1>4, <2>2 DEF Position
  <2> QED
    BY <2>1, <2>2
<1>5. \A i, j, q \in Nat : To(i, q) = To(i, j) => q = j
  OBVIOUS
<1>6. Position(at, i0, 1) /\ i0 \in Nat /\ 1 \in Nat
  BY <1>3 DEF Position
<1> HIDE DEF To
<1>7. ASSUME NEW i \in Nat, NEW j \in Nat, Position(new, i, j)
      PROVE  /\ stg[new[i].queue[j]] = "queued"
             /\ new[i].queue[j] # at[i0].queue[1]
             /\ \A p, q \in Nat :
                  Position(new, p, q) /\ new[p].queue[q] = new[i].queue[j] => p = i /\ q = j
  <2>1. stg[new[i].queue[j]] = "queued"
    BY <1>4, <1>7 DEF Queues
  <2>4. /\ To(i, j) \in Nat /\ Position(at, i, To(i, j))
        /\ new[i].queue[j] = at[i].queue[To(i, j)]
        /\ i = i0 => To(i, j) # 1
    BY <1>4, <1>7
  <2>2. ASSUME new[i].queue[j] = at[i0].queue[1] PROVE FALSE
    <3>1. i = i0 /\ To(i, j) = 1
      BY <1>6, <2>2, <2>4, QueuedOnce
    <3> QED
      BY <2>4, <3>1
  <2>3. ASSUME NEW p \in Nat, NEW q \in Nat, Position(new, p, q), new[p].queue[q] = new[i].queue[j]
        PROVE  p = i /\ q = j
    <3>1. /\ To(p, q) \in Nat /\ Position(at, p, To(p, q))
          /\ new[p].queue[q] = at[p].queue[To(p, q)]
      BY <1>4, <2>3
    <3>2. at[p].queue[To(p, q)] = at[i].queue[To(i, j)]
      BY <2>3, <2>4, <3>1
    <3>3. p = i /\ To(p, q) = To(i, j)
      BY <2>4, <3>1, <3>2, QueuedOnce
    <3> QED
      BY <1>5, <3>3
  <2> QED
    BY <2>1, <2>2, <2>3
<1>8. Queues(new, stg)
  BY <1>7, Zenon DEF Queues
<1>9. Head(at[i0].queue) = at[i0].queue[1]
  BY <1>3
<1>10. \A i, j \in Nat : Position(new, i, j) => new[i].queue[j] # Head(at[i0].queue)
  <2> SUFFICES ASSUME NEW i \in Nat, NEW j \in Nat, Position(new, i, j)
               PROVE  new[i].queue[j] # at[i0].queue[1]
    BY <1>9, Zenon
  <2> QED
    BY <1>7, Zenon
<1>11. NotQueued(new, Head(at[i0].queue))
  BY <1>10, Zenon DEF NotQueued
<1> QED
  BY <1>6, <1>8, <1>9, <1>11, Zenon

LEMMA QueuesEnqueue ==
  ASSUME NEW at \in Seq(Atom), NEW i0 \in 1 .. Len(at), NEW a, NEW stg \in [Msgs -> Stages],
         Queues(at, stg), NEW m \in Msgs, stg[m] # "queued",
         a.queue = Append(at[i0].queue, m), NEW new, new = [at EXCEPT ![i0] = a]
  PROVE  Queues(new, [stg EXCEPT ![m] = "queued"])
<1> DEFINE q0 == at[i0].queue
           t0 == a.queue
           stg2 == [stg EXCEPT ![m] = "queued"]
<1>1. Len(new) = Len(at) /\ \A i \in 1 .. Len(at) : new[i] = IF i = i0 THEN a ELSE at[i]
  OBVIOUS
<1>2. \A i \in 1 .. Len(at) : at[i].queue \in Seq(Msgs)
  <2>1. \A i \in 1 .. Len(at) : at[i] \in Atom
    BY ElementOfSeq
  <2> QED
    BY <2>1 DEF Atom
<1>3. /\ Len(t0) \in 1 .. Len(t0) /\ t0[Len(t0)] = m
      /\ \A j \in 1 .. Len(t0) : j = Len(t0) \/ (j \in 1 .. Len(q0) /\ t0[j] = q0[j])
  <2>1. q0 \in Seq(Msgs) /\ t0 = Append(q0, m)
    BY <1>2
  <2> HIDE DEF q0, t0
  <2> QED
    BY <2>1, Grown
<1>4. ASSUME NEW i \in Nat, NEW j \in Nat, Position(new, i, j)
      PROVE  \/ i = i0 /\ j = Len(t0) /\ new[i].queue[j] = m
             \/ Position(at, i, j) /\ new[i].queue[j] = at[i].queue[j]
  <2>1. CASE i = i0
    <3>1. new[i].queue = t0 /\ j \in 1 .. Len(t0)
      BY <1>1, <1>4, <2>1 DEF Position
    <3> QED
      BY <1>3, <2>1, <3>1 DEF Position
  <2>2. CASE i # i0
    BY <1>1, <1>4, <2>2 DEF Position
  <2> QED
    BY <2>1, <2>2
<1>5. ASSUME NEW i \in Nat, NEW j \in Nat, Position(at, i, j)
      PROVE  at[i].queue[j] # m /\ stg2[at[i].queue[j]] = "queued"
  <2>1. at[i].queue[j] \in Msgs
    <3> DEFINE q == at[i].queue
    <3>1. q \in Seq(Msgs) /\ j \in 1 .. Len(q)
      BY <1>2, <1>5 DEF Position
    <3> HIDE DEF q
    <3>2. q[j] \in Msgs
      BY <3>1, ElementOfSeq
    <3> QED
      BY <3>2 DEF q
  <2>2. stg[at[i].queue[j]] = "queued"
    BY <1>5 DEF Queues
  <2> QED
    BY <2>1, <2>2
<1>6. stg2[m] = "queued"
  OBVIOUS
<1> HIDE DEF stg2, t0
<1>7. ASSUME NEW i \in Nat, NEW j \in Nat, Position(new, i, j)
      PROVE  /\ stg2[new[i].queue[j]] = "queued"
             /\ \A p, q \in Nat :
                  Position(new, p, q) /\ new[p].queue[q] = new[i].queue[j] => p = i /\ q = j
  <2>1. stg2[new[i].queue[j]] = "queued"
    BY <1>4, <1>5, <1>6, <1>7
  <2>2. ASSUME NEW p \in Nat, NEW q \in Nat, Position(new, p, q), new[p].queue[q] = new[i].queue[j]
        PROVE  p = i /\ q = j
    <3>1. CASE new[i].queue[j] = m
      BY <1>4, <1>5, <1>7, <2>2, <3>1
    <3>2. CASE new[i].queue[j] # m
      <4>1. Position(at, i, j) /\ Position(at, p, q) /\ at[p].queue[q] = at[i].queue[j]
        BY <1>4, <1>7, <2>2, <3>2
      <4> QED
        BY <4>1 DEF Queues
    <3> QED
      BY <3>1, <3>2
  <2> QED
    BY <2>1, <2>2
<1> QED
  BY <1>7 DEF Queues, stg2

-----------------------------------------------------------------------------
(* The steps                                                               *)

AInv(bad) ==
  /\ Books(waiters, framesOut, confirms, stage, pos, answers, bad)
  /\ Held(framesOut, stage)
  /\ Queues(atoms, stage)

LEMMA MessagesTyped ==
  ASSUME TypeOK
  PROVE  /\ \A a \in 1 .. Len(waiters) : waiters[a].msg \in Msgs
         /\ \A i \in 1 .. Len(confirms) : confirms[i] \in Msgs
         /\ \A i, j \in Nat : Position(atoms, i, j) => atoms[i].queue[j] \in Msgs
<1>1. ASSUME NEW a \in 1 .. Len(waiters) PROVE waiters[a].msg \in Msgs
  <2>1. waiters[a] \in Waiter
    BY ElementOfSeq DEF TypeOK
  <2> QED
    BY <2>1 DEF Waiter
<1>2. ASSUME NEW i \in 1 .. Len(confirms) PROVE confirms[i] \in Msgs
  BY ElementOfSeq DEF TypeOK
<1>3. ASSUME NEW i \in Nat, NEW j \in Nat, Position(atoms, i, j)
      PROVE  atoms[i].queue[j] \in Msgs
  <2> DEFINE q == atoms[i].queue
  <2>1. atoms[i] \in Atom
    BY <1>3, ElementOfSeq DEF TypeOK, Position
  <2>2. q \in Seq(Msgs) /\ j \in 1 .. Len(q)
    BY <1>3, <2>1 DEF Position, Atom
  <2> HIDE DEF q
  <2>3. q[j] \in Msgs
    BY <2>2, ElementOfSeq
  <2> QED
    BY <2>3 DEF q
<1> QED
  BY <1>1, <1>2, <1>3

(* A message that is neither with the driver nor done is in no book.       *)
LEMMA OtherStage ==
  ASSUME NEW bad, TypeOK, NEW out, NEW conf \in Seq(Msgs), NEW stg, NEW stg2, NEW ps, NEW ans,
         Books(waiters, out, conf, stg, ps, ans, bad), Held(out, stg),
         \A x \in Msgs : /\ stg[x] \in {"driver", "done"} => stg2[x] = stg[x]
                         /\ stg[x] \notin {"driver", "done"} => stg2[x] \notin {"driver", "done"}
  PROVE  Books(waiters, out, conf, stg2, ps, ans, bad) /\ Held(out, stg2)
<1> USE DEF Books
<1>1. \A a \in 1 .. Len(waiters) : waiters[a].msg \in Msgs
  BY MessagesTyped
<1>2. \A i \in 1 .. Len(conf) : conf[i] \in Msgs
  BY ElementOfSeq
<1>3. Unanswered(stg2, ans, bad)
  BY DEF Unanswered
<1>4. \A a \in 1 .. Len(waiters) : stg2[waiters[a].msg] = stg[waiters[a].msg]
  BY <1>1 DEF Waiting
<1>5. Waiting(waiters, stg2, ps, ans, bad)
  BY <1>4 DEF Waiting
<1>6. \A i \in 1 .. Len(out) : out[i].kind = "data" => stg2[out[i].msg] = "driver"
  BY DEF Carried
<1>7. Carried(out, stg2, ps)
  BY <1>6 DEF Carried
<1>8. \A i \in 1 .. Len(conf) : stg2[conf[i]] = "done"
  BY <1>2 DEF Owed
<1>9. Owed(conf, out, waiters, stg2, bad)
  BY <1>8 DEF Owed
<1>10. Held(out, stg2)
  BY DEF Held
<1> QED
  BY <1>3, <1>5, <1>7, <1>9, <1>10

LEMMA StartSendingBooks ==
  ASSUME NEW bad, TypeOK, AInv(bad), NEW m \in Msgs, StartSending(m)
  PROVE  AInv(bad)'
<1> DEFINE k == KeyOf(Msg[m])
           list == GetAtom(atoms, k)
           i == FindAtom(list, k)
           n == CountUp(list[i].sending)
           a == [list[i] EXCEPT !.sending = n, !.queue = Enqueue(@, m)]
           b == [list[i] EXCEPT !.sending = n]
<1>1. /\ \/ atoms' = [list EXCEPT ![i] = a] /\ stage' = [stage EXCEPT ![m] = "queued"]
         \/ atoms' = [list EXCEPT ![i] = b] /\ stage' = [stage EXCEPT ![m] = "starting"]
      /\ stage[m] = "idle"
      /\ UNCHANGED <<pos, framesOut, waiters, answers, confirms>>
  BY Zenon DEF StartSending
<1>2. /\ list \in Seq(Atom) /\ i \in 1 .. Len(list) /\ Queues(list, stage)
      /\ \A p, q \in Nat : Position(list, p, q) => Position(atoms, p, q) /\ list[p] = atoms[p]
  BY KeysTyped, GetAtomHas, QueuesGetAtom DEF TypeOK, AInv
<1>3. list[i] \in Atom
  BY <1>2, ElementOfSeq
<1>4. stage \in [Msgs -> Stages] /\ confirms \in Seq(Msgs)
  BY DEF TypeOK
<1> HIDE DEF k, list, i, n
<1>5. a.queue = Append(list[i].queue, m) /\ b.queue = list[i].queue
  BY <1>3 DEF Atom, Enqueue
<1> HIDE DEF a, b
<1>6. Books(waiters', framesOut', confirms', stage', pos', answers', bad) /\ Held(framesOut', stage')
  <2>1. \A x \in Msgs : /\ stage[x] \in {"driver", "done"} => stage'[x] = stage[x]
                        /\ stage[x] \notin {"driver", "done"} => stage'[x] \notin {"driver", "done"}
    BY <1>1, <1>4
  <2>2. Books(waiters, framesOut, confirms, stage', pos, answers, bad) /\ Held(framesOut, stage')
    BY <1>4, <2>1, OtherStage DEF AInv
  <2> QED
    BY <1>1, <2>2
<1>7. Queues(atoms', stage')
  <2>1. CASE atoms' = [list EXCEPT ![i] = a] /\ stage' = [stage EXCEPT ![m] = "queued"]
    <3>1. stage[m] # "queued"
      BY <1>1
    <3> QED
      BY <1>2, <1>4, <1>5, <2>1, <3>1, QueuesEnqueue
  <2>2. CASE atoms' = [list EXCEPT ![i] = b] /\ stage' = [stage EXCEPT ![m] = "starting"]
    <3>1. Queues(atoms', stage)
      BY <1>2, <1>5, <2>2, QueuesReplace
    <3>2. Queues(list, stage')
      <4>1. \A p, q \in Nat : Position(list, p, q) => list[p].queue[q] \in Msgs
        BY <1>2, MessagesTyped
      <4>2. \A p, q \in Nat : Position(list, p, q) => stage[list[p].queue[q]] = "queued"
        BY <1>2 DEF Queues
      <4>3. \A p, q \in Nat : Position(list, p, q) => stage'[list[p].queue[q]] = "queued"
        BY <1>1, <1>4, <2>2, <4>1, <4>2
      <4> QED
        BY <1>2, <4>3, QueuesStage
    <3> QED
      BY <1>2, <1>5, <2>2, <3>2, QueuesReplace
  <2> QED
    BY <1>1, <2>1, <2>2
<1> QED
  BY <1>6, <1>7 DEF AInv

(* The queues, when no message of them changes its stage.                  *)
LEMMA QueuesStay ==
  ASSUME TypeOK, Queues(atoms, stage), UNCHANGED atoms,
         \A x \in Msgs : stage[x] = "queued" => stage'[x] = "queued"
  PROVE  Queues(atoms', stage')
<1>1. \A i, j \in Nat : Position(atoms, i, j) => stage'[atoms[i].queue[j]] = "queued"
  BY MessagesTyped DEF Queues
<1> QED
  BY <1>1, QueuesStage

LEMMA ProcessFirstBooks ==
  ASSUME NEW bad, TypeOK, AInv(bad), NEW m \in Msgs, ProcessFirst(m)
  PROVE  AInv(bad)'
<1>1. /\ stage[m] = "starting" /\ Dispatch(m, framesOut, stage, answers)
      /\ UNCHANGED <<atoms, confirms>>
  BY DEF ProcessFirst
<1>2. /\ framesOut \in Seq(OutFrame) /\ stage \in [Msgs -> Stages]
      /\ answers \in [Msgs -> Seq(RCs)] /\ confirms \in Seq(Msgs)
  BY DEF TypeOK
<1>3. ~Has(framesOut, m) /\ ~Awaited(waiters, m) /\ HeldBut(framesOut, stage, m)
  <2>1. ~Has(framesOut, m)
    BY <1>1 DEF AInv, Books, Has, IsOf, Carried
  <2>2. ~Awaited(waiters, m)
    BY <1>1 DEF AInv, Books, Awaited, Waiting
  <2> QED
    BY <2>1, <2>2 DEF AInv, Held, HeldBut
<1>4. /\ Books(waiters', framesOut', confirms, stage', pos', answers', bad) /\ Held(framesOut', stage')
      /\ Dispatched(m, stage, answers)
  BY <1>1, <1>2, <1>3, DispatchBooks DEF AInv
<1>5. Queues(atoms', stage')
  <2>1. \A x \in Msgs : stage[x] = "queued" => stage'[x] = "queued"
    BY <1>1, <1>4 DEF Dispatched
  <2> QED
    BY <1>1, <2>1, QueuesStay DEF AInv
<1> QED
  BY <1>1, <1>4, <1>5 DEF AInv

LEMMA DriverSentConfirmBooks ==
  ASSUME NEW bad, TypeOK, AInv(bad), DriverSentConfirm
  PROVE  AInv(bad)'
<1>1. /\ framesOut # <<>> /\ Head(framesOut).kind # "data" /\ framesOut' = Tail(framesOut)
      /\ UNCHANGED <<atoms, stage, pos, waiters, answers, confirms>>
  BY DEF DriverSentConfirm
<1>2. /\ Books(waiters, Tail(framesOut), confirms, stage, pos, answers, bad)
      /\ Held(Tail(framesOut), stage)
  BY <1>1, TailBooks DEF AInv, TypeOK
<1> QED
  BY <1>1, <1>2 DEF AInv

LEMMA DriverSentFrameBooks ==
  ASSUME NEW bad, TypeOK, AInv(bad), NEW m \in Msgs, DriverSentFrame(m)
  PROVE  AInv(bad)'
<1>1. /\ framesOut # <<>>
      /\ Head(framesOut) = [kind |-> "data", msg |-> m, num |-> pos[m] - 1, lfb |-> FALSE]
      /\ Dispatch(m, Tail(framesOut), stage, answers)
      /\ UNCHANGED <<atoms, confirms>>
  BY DEF DriverSentFrame, DriverHolds
<1>2. /\ framesOut \in Seq(OutFrame) /\ stage \in [Msgs -> Stages]
      /\ answers \in [Msgs -> Seq(RCs)] /\ confirms \in Seq(Msgs)
      /\ Tail(framesOut) \in Seq(OutFrame)
  BY <1>1, TailTyped DEF TypeOK
<1>3. Head(framesOut).kind = "data" /\ Head(framesOut).msg = m /\ Head(framesOut).lfb = FALSE
  BY <1>1
<1>4. /\ Books(waiters, Tail(framesOut), confirms, stage, pos, answers, bad)
      /\ HeldBut(Tail(framesOut), stage, m) /\ ~Has(Tail(framesOut), m)
  <2>1. /\ Books(waiters, Tail(framesOut), confirms, stage, pos, answers, bad)
        /\ HeldBut(Tail(framesOut), stage, Head(framesOut).msg)
        /\ ~Has(Tail(framesOut), Head(framesOut).msg)
    BY <1>1, <1>2, <1>3, TailBooks DEF AInv
  <2> QED
    BY <1>3, <2>1
<1>5. stage[m] = "driver" /\ pos[m] # Msg[m].frames
  <2>1. 1 \in 1 .. Len(framesOut) /\ Head(framesOut) = framesOut[1]
    BY <1>1, <1>2, Shrunk
  <2> QED
    BY <1>3, <2>1 DEF AInv, Books, Carried
<1>6. ~Awaited(waiters, m)
  BY <1>5 DEF AInv, Books, Awaited, Waiting
<1>7. /\ Books(waiters', framesOut', confirms, stage', pos', answers', bad) /\ Held(framesOut', stage')
      /\ Dispatched(m, stage, answers)
  <2> DEFINE out == Tail(framesOut)
  <2>1. Dispatch(m, out, stage, answers) /\ out \in Seq(OutFrame) /\ stage[m] # "done"
    BY <1>1, <1>2, <1>5
  <2>2. /\ Books(waiters, out, confirms, stage, pos, answers, bad)
        /\ HeldBut(out, stage, m) /\ ~Has(out, m)
    BY <1>4
  <2> HIDE DEF out
  <2> QED
    BY <1>2, <1>6, <2>1, <2>2, DispatchBooks
<1>8. Queues(atoms', stage')
  <2>1. \A x \in Msgs : stage[x] = "queued" => stage'[x] = "queued"
    BY <1>5, <1>7 DEF Dispatched
  <2> QED
    BY <1>1, <2>1, QueuesStay DEF AInv
<1> QED
  BY <1>1, <1>7, <1>8 DEF AInv

(* A context that is done stays done.                                      *)
DoneStays == \A x \in Msgs : stage[x] = "done" => stage'[x] = "done"

(* No message but a heartbeat is reported as sent.                         *)
NormsStay ==
  \A x \in Msgs : Msg[x].id # HeartbeatId =>
    (Contains(answers'[x], RC_NORM) <=> Contains(answers[x], RC_NORM))

LEMMA AnswerNoNorm ==
  ASSUME NEW s \in Seq(RCs), NEW rc \in RCs, rc # RC_NORM
  PROVE  Contains(Append(s, rc), RC_NORM) <=> Contains(s, RC_NORM)
<1> DEFINE t == Append(s, rc)
<1>1. /\ \A i \in 1 .. Len(s) : i \in 1 .. Len(t) /\ t[i] = s[i]
      /\ t[Len(t)] = rc
      /\ \A i \in 1 .. Len(t) : i \in 1 .. Len(s) \/ i = Len(t)
  BY Grown
<1> HIDE DEF t
<1>2. Contains(t, RC_NORM) <=> Contains(s, RC_NORM)
  BY <1>1 DEF Contains
<1> QED
  BY <1>2 DEF t

LEMMA DispatchStays ==
  ASSUME NEW n \in Msgs, NEW out, NEW stg \in [Msgs -> Stages], NEW ans \in [Msgs -> Seq(RCs)],
         Dispatch(n, out, stg, ans), stg[n] # "done"
  PROVE  /\ \A x \in Msgs : stg[x] = "done" => stage'[x] = "done"
         /\ \A x \in Msgs : Contains(answers'[x], RC_NORM) <=> Contains(ans[x], RC_NORM)
<1>1. CASE Verdict(n) = RC_NORM
  BY <1>1 DEF Dispatch
<1>2. CASE Verdict(n) # RC_NORM
  <2>1. answers' = [ans EXCEPT ![n] = Append(@, Verdict(n))] /\ stage' = [stg EXCEPT ![n] = "done"]
    BY <1>2 DEF Dispatch, Answered
  <2>2. Verdict(n) \in RCs
    BY DEF Verdict, RCs
  <2>3. Contains(Append(ans[n], Verdict(n)), RC_NORM) <=> Contains(ans[n], RC_NORM)
    BY <1>2, <2>2, AnswerNoNorm
  <2> QED
    BY <2>1, <2>3
<1> QED
  BY <1>1, <1>2

(* The report of the last frame of m, before the next message is           *)
(* dispatched.                                                             *)
LEMMA ReportBooks ==
  ASSUME NEW bad, TypeOK, AInv(bad), NEW m \in Msgs,
         DriverHolds([kind |-> "data", msg |-> m, num |-> pos[m] - 1, lfb |-> TRUE]),
         NEW conf, conf = confirms \/ (conf = Append(confirms, m) /\ Msg[m].id # HeartbeatId),
         NEW ans, ans = IF Msg[m].id = HeartbeatId THEN Answered(answers, m, RC_NORM) ELSE answers,
         NEW stg, stg = [stage EXCEPT ![m] = "done"],
         NEW out, out = Tail(framesOut)
  PROVE  /\ Books(waiters, out, conf, stg, pos, ans, bad) /\ Held(out, stg)
         /\ stage[m] = "driver" /\ answers[m] = <<>>
         /\ out \in Seq(OutFrame) /\ conf \in Seq(Msgs)
<1> USE DEF Books
<1>1. /\ framesOut # <<>> /\ framesOut \in Seq(OutFrame)
      /\ Head(framesOut).kind = "data" /\ Head(framesOut).msg = m /\ Head(framesOut).lfb = TRUE
      /\ stage \in [Msgs -> Stages] /\ answers \in [Msgs -> Seq(RCs)] /\ confirms \in Seq(Msgs)
  BY DEF DriverHolds, TypeOK
<1>2. /\ 1 \in 1 .. Len(framesOut) /\ Head(framesOut) = framesOut[1] /\ out \in Seq(OutFrame)
      /\ Len(framesOut) \in Nat /\ Len(out) = Len(framesOut) - 1
      /\ \A i \in 1 .. Len(out) : i + 1 \in 1 .. Len(framesOut) /\ out[i] = framesOut[i + 1]
  BY <1>1, Shrunk
<1>3. /\ Books(waiters, out, confirms, stage, pos, answers, bad)
      /\ HeldBut(out, stage, m) /\ ~Has(out, m)
  <2>1. /\ Books(waiters, Tail(framesOut), confirms, stage, pos, answers, bad)
        /\ HeldBut(Tail(framesOut), stage, Head(framesOut).msg)
        /\ ~Has(Tail(framesOut), Head(framesOut).msg)
    <3> HIDE DEF Books
    <3> QED
      BY <1>1, TailBooks DEF AInv
  <2> HIDE DEF Books
  <2> QED
    BY <1>1, <2>1
<1>4. stage[m] = "driver"
  BY <1>1, <1>2 DEF AInv, Carried
<1>5. answers[m] = <<>>
  BY <1>4 DEF AInv, Unanswered
<1>6. /\ stg[m] = "done"
      /\ \A x \in Msgs : x # m => stg[x] = stage[x] /\ ans[x] = answers[x]
      /\ Msg[m].id # HeartbeatId => ans = answers
      /\ ans[m] = <<>> \/ ans[m] = <<RC_NORM>>
  BY <1>1, <1>5 DEF Answered
<1>7. Unanswered(stg, ans, bad)
  <2>1. Len(<<RC_NORM>>) <= 1 /\ Len(<<>>) <= 1
    OBVIOUS
  <2> QED
    BY <1>3, <1>6, <2>1 DEF Unanswered
<1>8. Waiting(waiters, stg, pos, ans, bad)
  <2>1. \A a \in 1 .. Len(waiters) : waiters[a].msg \in Msgs
    BY MessagesTyped
  <2>2. ASSUME NEW a \in 1 .. Len(waiters)
        PROVE  /\ waiters[a].msg \notin bad => ans[waiters[a].msg] = <<>>
               /\ stg[waiters[a].msg] \in {"driver", "done"}
               /\ Msg[waiters[a].msg].id # HeartbeatId
               /\ stg[waiters[a].msg] = "driver" => pos[waiters[a].msg] = Msg[waiters[a].msg].frames
    <3>1. CASE waiters[a].msg = m
      BY <1>3, <1>6, <3>1 DEF Waiting
    <3>2. CASE waiters[a].msg # m
      BY <1>3, <1>6, <2>1, <3>2 DEF Waiting
    <3> QED
      BY <3>1, <3>2
  <2> QED
    BY <1>3, <2>2 DEF Waiting
<1>9. Carried(out, stg, pos) /\ Held(out, stg)
  <2>1. \A i \in 1 .. Len(out) : out[i].kind = "data" => out[i].msg \in Msgs /\ out[i].msg # m
    BY <1>3 DEF Has, IsOf, Carried
  <2>2. Carried(out, stg, pos)
    BY <1>3, <1>6, <2>1 DEF Carried
  <2>3. Held(out, stg)
    BY <1>3, <1>6 DEF Held, HeldBut
  <2> QED
    BY <2>2, <2>3
<1>10. InLine(out, waiters)
  BY <1>3
<1>11. /\ \A i \in 1 .. Len(confirms) : confirms[i] \in Msgs
       /\ \A i \in 1 .. Len(confirms) :
            stg[confirms[i]] = "done" /\ (confirms[i] \notin bad => Awaited(waiters, confirms[i]))
  <2>1. \A i \in 1 .. Len(confirms) : confirms[i] \in Msgs
    BY MessagesTyped
  <2>2. \A i \in 1 .. Len(confirms) :
          stage[confirms[i]] = "done" /\ (confirms[i] \notin bad => Awaited(waiters, confirms[i]))
    BY <1>3 DEF Owed
  <2> QED
    BY <1>6, <2>1, <2>2
<1>12. Owed(confirms, out, waiters, stg, bad)
  BY <1>3, <1>11 DEF Owed
<1>13. ASSUME Msg[m].id # HeartbeatId
       PROVE  /\ Awaited(waiters, m)
              /\ \A i \in 1 .. Len(confirms) : Ahead(waiters, confirms[i], m)
              /\ \A j \in 1 .. Len(out) : IsLast(out[j]) => Ahead(waiters, m, out[j].msg)
  <2>1. IsLast(framesOut[1]) /\ framesOut[1].msg = m
    BY <1>1, <1>2, <1>13 DEF IsLast
  <2>2. Awaited(waiters, m)
    BY <1>2, <2>1 DEF AInv, InLine
  <2>3. \A i \in 1 .. Len(confirms) : Ahead(waiters, confirms[i], m)
    BY <1>2, <2>1 DEF AInv, Owed
  <2>4. ASSUME NEW j \in 1 .. Len(out), IsLast(out[j]) PROVE Ahead(waiters, m, out[j].msg)
    <3>1. j + 1 \in 1 .. Len(framesOut) /\ out[j] = framesOut[j + 1] /\ 1 < j + 1
      BY <1>2
    <3>2. \A i, l \in 1 .. Len(framesOut) :
            i < l /\ IsLast(framesOut[i]) /\ IsLast(framesOut[l])
              => Ahead(waiters, framesOut[i].msg, framesOut[l].msg)
      BY DEF AInv, InLine
    <3>3. Ahead(waiters, framesOut[1].msg, framesOut[j + 1].msg)
      BY <1>2, <2>1, <2>4, <3>1, <3>2
    <3> QED
      BY <2>1, <3>1, <3>3
  <2> QED
    BY <2>2, <2>3, <2>4
<1>14. Owed(conf, out, waiters, stg, bad) /\ conf \in Seq(Msgs)
  <2>1. CASE conf = confirms
    BY <1>1, <1>12, <2>1
  <2>2. CASE conf = Append(confirms, m) /\ Msg[m].id # HeartbeatId
    <3>1. /\ conf \in Seq(Msgs) /\ Len(confirms) \in Nat /\ Len(conf) = Len(confirms) + 1
          /\ \A i \in 1 .. Len(confirms) : conf[i] = confirms[i]
          /\ conf[Len(conf)] = m
          /\ \A i \in 1 .. Len(conf) : i \in 1 .. Len(confirms) \/ i = Len(conf)
      BY <1>1, <2>2, Grown
    <3>2. /\ Awaited(waiters, m)
          /\ \A i \in 1 .. Len(confirms) : Ahead(waiters, confirms[i], m)
          /\ \A j \in 1 .. Len(out) : IsLast(out[j]) => Ahead(waiters, m, out[j].msg)
      BY <1>13, <2>2
    <3>3. \A i \in 1 .. Len(conf) :
            stg[conf[i]] = "done" /\ (conf[i] \notin bad => Awaited(waiters, conf[i]))
      BY <1>6, <1>11, <3>1, <3>2
    <3>4. ASSUME NEW i \in 1 .. Len(conf), NEW j \in 1 .. Len(conf), i < j
          PROVE  Ahead(waiters, conf[i], conf[j])
      <4>1. i \in 1 .. Len(confirms) /\ conf[i] = confirms[i]
        <5>1. i # Len(conf)
          BY <3>1, <3>4
        <5> QED
          BY <3>1, <5>1
      <4>2. CASE j = Len(conf)
        BY <3>1, <3>2, <4>1, <4>2
      <4>3. CASE j \in 1 .. Len(confirms)
        BY <1>12, <3>1, <3>4, <4>1, <4>3 DEF Owed
      <4> QED
        BY <3>1, <4>2, <4>3
    <3>5. ASSUME NEW i \in 1 .. Len(conf), NEW j \in 1 .. Len(out), IsLast(out[j])
          PROVE  Ahead(waiters, conf[i], out[j].msg)
      <4>1. CASE i = Len(conf)
        BY <3>1, <3>2, <3>5, <4>1
      <4>2. CASE i \in 1 .. Len(confirms)
        BY <1>12, <3>1, <3>5, <4>2 DEF Owed
      <4> QED
        BY <3>1, <4>1, <4>2
    <3> QED
      BY <3>1, <3>3, <3>4, <3>5 DEF Owed
  <2> QED
    BY <2>1, <2>2
<1> QED
  BY <1>2, <1>4, <1>5, <1>7, <1>8, <1>9, <1>10, <1>14

(* What DriverSentLast does, for the message m that is not answered yet.   *)
LEMMA LastReport ==
  ASSUME NEW bad, TypeOK, AInv(bad), NEW m \in Msgs, DriverSentLast(m)
  PROVE  LET k == KeyOf(Msg[m])
             list == GetAtom(atoms, k)
             i == FindAtom(list, k)
             n == CountDown(list[i].sending)
             stg == [stage EXCEPT ![m] = "done"]
             ans == IF Msg[m].id = HeartbeatId THEN Answered(answers, m, RC_NORM) ELSE answers
         IN  \/ /\ list[i].queue # <<>>
                /\ atoms' = [list EXCEPT ![i] = [list[i] EXCEPT !.sending = n, !.queue = Tail(@)]]
                /\ Dispatch(Head(list[i].queue), Tail(framesOut), stg, ans)
             \/ /\ list[i].queue = <<>>
                /\ atoms' = IF list[i].receiving
                              THEN [list EXCEPT ![i] = [list[i] EXCEPT !.sending = n]]
                              ELSE RemoveAt(list, i)
                /\ framesOut' = Tail(framesOut)
                /\ stage' = stg
                /\ answers' = ans
                /\ UNCHANGED <<waiters, pos>>
<1>1. DriverHolds([kind |-> "data", msg |-> m, num |-> pos[m] - 1, lfb |-> TRUE])
  BY DEF DriverSentLast
<1>2. answers[m] = <<>>
  BY <1>1, ReportBooks
<1>3. \A g \in Keys : Meta(m, g) = KeyOf(Msg[m])
  BY <1>2 DEF Meta
<1>4. IsHeartbeat(KeyOf(Msg[m])) <=> Msg[m].id = HeartbeatId
  BY DEF IsHeartbeat, KeyOf
<1>5. PICK k \in {Meta(m, g) : g \in Keys} :
        LET list == GetAtom(atoms, k)
            i == FindAtom(list, k)
            n == CountDown(list[i].sending)
            stg == [stage EXCEPT ![m] = "done"]
            ans == IF IsHeartbeat(k) THEN Answered(answers, m, RC_NORM) ELSE answers
        IN  \/ /\ list[i].queue # <<>>
               /\ atoms' = [list EXCEPT ![i] = [list[i] EXCEPT !.sending = n, !.queue = Tail(@)]]
               /\ Dispatch(Head(list[i].queue), Tail(framesOut), stg, ans)
            \/ /\ list[i].queue = <<>>
               /\ atoms' = IF list[i].receiving
                             THEN [list EXCEPT ![i] = [list[i] EXCEPT !.sending = n]]
                             ELSE RemoveAt(list, i)
               /\ framesOut' = Tail(framesOut)
               /\ stage' = stg
               /\ answers' = ans
               /\ UNCHANGED <<waiters, pos>>
  BY Zenon DEF DriverSentLast
<1>6. k = KeyOf(Msg[m])
  BY <1>3
<1> QED
  BY <1>4, <1>5, <1>6, Zenon

LEMMA DriverSentLastBooks ==
  ASSUME NEW bad, TypeOK, AInv(bad), NEW m \in Msgs, DriverSentLast(m)
  PROVE  /\ AInv(bad)'
         /\ stage[m] = "driver" /\ stage'[m] = "done" /\ DoneStays
         /\ NormsStay
<1> DEFINE k == KeyOf(Msg[m])
           list == GetAtom(atoms, k)
           i == FindAtom(list, k)
           n == CountDown(list[i].sending)
           stg == [stage EXCEPT ![m] = "done"]
           ans == IF Msg[m].id = HeartbeatId THEN Answered(answers, m, RC_NORM) ELSE answers
           a == [list[i] EXCEPT !.sending = n, !.queue = Tail(@)]
           b == [list[i] EXCEPT !.sending = n]
           out == Tail(framesOut)
           next == Head(list[i].queue)
<1>1. \/ /\ list[i].queue # <<>>
         /\ atoms' = [list EXCEPT ![i] = a]
         /\ Dispatch(next, out, stg, ans)
      \/ /\ atoms' = IF list[i].receiving THEN [list EXCEPT ![i] = b] ELSE RemoveAt(list, i)
         /\ framesOut' = out /\ stage' = stg /\ answers' = ans
         /\ UNCHANGED <<waiters, pos>>
  BY LastReport, Zenon
<1>2. /\ Books(waiters, out, confirms', stg, pos, ans, bad) /\ Held(out, stg)
      /\ stage[m] = "driver" /\ answers[m] = <<>>
      /\ out \in Seq(OutFrame) /\ confirms' \in Seq(Msgs)
  <2>1. DriverHolds([kind |-> "data", msg |-> m, num |-> pos[m] - 1, lfb |-> TRUE])
    BY DEF DriverSentLast
  <2>2. confirms' = confirms \/ (confirms' = Append(confirms, m) /\ Msg[m].id # HeartbeatId)
    BY DEF DriverSentLast
  <2> QED
    BY <2>1, <2>2, ReportBooks, Zenon
<1>3. stg \in [Msgs -> Stages] /\ ans \in [Msgs -> Seq(RCs)]
  BY AnsweredTyped DEF TypeOK, Stages, RCs
<1>3a. /\ stg[m] = "done"
       /\ \A x \in Msgs : stage[x] = "done" => stg[x] = "done"
       /\ \A x \in Msgs : Msg[x].id # HeartbeatId => ans[x] = answers[x]
  BY DEF TypeOK, Stages, Answered
<1>4. /\ list \in Seq(Atom) /\ i \in 1 .. Len(list) /\ Queues(list, stage)
      /\ \A p, q \in Nat : Position(list, p, q) => Position(atoms, p, q) /\ list[p] = atoms[p]
  BY KeysTyped, GetAtomHas, QueuesGetAtom DEF TypeOK, AInv
<1>5. Queues(list, stg)
  <2>1. \A p, q \in Nat : Position(list, p, q) => list[p].queue[q] \in Msgs
    BY <1>4, MessagesTyped
  <2>2. \A p, q \in Nat : Position(list, p, q) => stage[list[p].queue[q]] = "queued"
    BY <1>4 DEF Queues
  <2>3. \A p, q \in Nat : Position(list, p, q) => stg[list[p].queue[q]] = "queued"
    BY <1>2, <2>1, <2>2 DEF TypeOK
  <2> HIDE DEF list, stg
  <2> QED
    BY <1>4, <2>3, QueuesStage
<1>6. list[i] \in Atom
  BY <1>4, ElementOfSeq
<1> HIDE DEF k, list, i, n, stg, ans, out
<1>7. a.queue = Tail(list[i].queue) /\ b.queue = list[i].queue
  BY <1>6 DEF Atom
<1> HIDE DEF a, b
<1>8. CASE /\ list[i].queue # <<>>
           /\ atoms' = [list EXCEPT ![i] = a]
           /\ Dispatch(next, out, stg, ans)
  <2>1. /\ Queues(atoms', stg) /\ Position(list, i, 1) /\ next = list[i].queue[1]
        /\ NotQueued(atoms', next)
    <3>1. list \in Seq(Atom) /\ i \in 1 .. Len(list) /\ list[i].queue # <<>>
      BY <1>4, <1>8
    <3>2. atoms' = [list EXCEPT ![i] = a]
      BY <1>8
    <3>3. a.queue = Tail(list[i].queue)
      BY <1>7
    <3> QED
      BY <1>5, <3>1, <3>2, <3>3, QueuesTail, Zenon
  <2>2. i \in Nat /\ 1 \in Nat
    BY <1>4
  <2>3. next \in Msgs /\ stg[next] = "queued"
    <3>1. stg[next] = "queued"
      BY <1>5, <2>1, <2>2 DEF Queues
    <3>2. next \in Msgs
      <4>1. Position(atoms, i, 1) /\ list[i] = atoms[i]
        BY <1>4, <2>1, <2>2
      <4> QED
        BY <2>1, <2>2, <4>1, MessagesTyped
    <3> QED
      BY <3>1, <3>2
  <2> HIDE DEF next
  <2>4. ~Has(out, next) /\ ~Awaited(waiters, next) /\ HeldBut(out, stg, next) /\ stg[next] # "done"
    <3>1. ~Has(out, next)
      BY <1>2, <2>3 DEF Books, Has, IsOf, Carried
    <3>2. ~Awaited(waiters, next)
      BY <1>2, <2>3 DEF Books, Awaited, Waiting
    <3> QED
      BY <1>2, <2>3, <3>1, <3>2 DEF Held, HeldBut
  <2>5. /\ Books(waiters', framesOut', confirms', stage', pos', answers', bad) /\ Held(framesOut', stage')
        /\ Dispatched(next, stg, ans)
    BY <1>2, <1>3, <1>8, <2>3, <2>4, DispatchBooks
  <2>6. Queues(atoms', stage')
    <3>1. ASSUME NEW p \in Nat, NEW q \in Nat, Position(atoms', p, q)
          PROVE  atoms'[p].queue[q] \in Msgs
      <4> DEFINE qu == atoms'[p].queue
      <4>1. atoms' \in Seq(Atom)
        BY LastReportTyped DEF TypeOK
      <4>2. atoms'[p] \in Atom
        BY <3>1, <4>1, ElementOfSeq DEF Position
      <4>3. qu \in Seq(Msgs) /\ q \in 1 .. Len(qu)
        BY <3>1, <4>2 DEF Position, Atom
      <4> HIDE DEF qu
      <4>4. qu[q] \in Msgs
        BY <4>3, ElementOfSeq
      <4> QED
        BY <4>4 DEF qu
    <3>2. \A p, q \in Nat : Position(atoms', p, q) => stg[atoms'[p].queue[q]] = "queued"
      BY <2>1 DEF Queues
    <3>3. \A p, q \in Nat : Position(atoms', p, q) => stage'[atoms'[p].queue[q]] = "queued"
      BY <2>1, <2>5, <3>1, <3>2 DEF Dispatched, NotQueued
    <3> QED
      BY <2>1, <3>3, QueuesStage
  <2>7. /\ \A x \in Msgs : stg[x] = "done" => stage'[x] = "done"
        /\ \A x \in Msgs : Contains(answers'[x], RC_NORM) <=> Contains(ans[x], RC_NORM)
    BY <1>3, <1>8, <2>3, DispatchStays
  <2>8. NormsStay
    BY <1>3a, <2>7 DEF NormsStay
  <2>9. stage'[m] = "done" /\ DoneStays
    BY <1>3a, <2>7 DEF DoneStays
  <2> QED
    BY <1>2, <2>5, <2>6, <2>8, <2>9 DEF AInv
<1>9. CASE /\ atoms' = IF list[i].receiving THEN [list EXCEPT ![i] = b] ELSE RemoveAt(list, i)
           /\ framesOut' = out /\ stage' = stg /\ answers' = ans
           /\ UNCHANGED <<waiters, pos>>
  <2>1. Queues([list EXCEPT ![i] = b], stg)
    BY <1>4, <1>5, <1>7, QueuesReplace
  <2>2. Queues(RemoveAt(list, i), stg)
    BY <1>4, <1>5, QueuesRemoveAt
  <2>3. Queues(atoms', stage')
    BY <1>9, <2>1, <2>2
  <2>4. DoneStays /\ NormsStay /\ stage'[m] = "done"
    BY <1>9, <1>3a DEF DoneStays, NormsStay
  <2> QED
    BY <1>2, <1>9, <2>3, <2>4 DEF AInv
<1> QED
  BY <1>1, <1>8, <1>9

(* The oldest confirmation on its way is taken.                            *)
LEMMA TailOwed ==
  ASSUME NEW bad, NEW conf \in Seq(Msgs), conf # <<>>, NEW ws, NEW out, NEW stg, NEW ps, NEW ans,
         Books(ws, out, conf, stg, ps, ans, bad)
  PROVE  Books(ws, out, Tail(conf), stg, ps, ans, bad)
<1> DEFINE t == Tail(conf)
<1>1. /\ Len(conf) \in Nat /\ Len(t) = Len(conf) - 1
      /\ \A i \in 1 .. Len(t) : i + 1 \in 1 .. Len(conf) /\ t[i] = conf[i + 1]
  BY Shrunk
<1> HIDE DEF t
<1>2. \A i, j \in 1 .. Len(t) : i < j => i + 1 < j + 1
  BY <1>1
<1>3. Owed(conf, out, ws, stg, bad)
  BY DEF Books
<1>4. ASSUME NEW i \in 1 .. Len(t)
      PROVE  stg[t[i]] = "done" /\ (t[i] \notin bad => Awaited(ws, t[i]))
  BY <1>1, <1>3 DEF Owed
<1>5. ASSUME NEW i \in 1 .. Len(t), NEW j \in 1 .. Len(t), i < j PROVE Ahead(ws, t[i], t[j])
  <2>1. Ahead(ws, conf[i + 1], conf[j + 1])
    BY <1>1, <1>2, <1>3, <1>5 DEF Owed
  <2> QED
    BY <1>1, <2>1
<1>6. ASSUME NEW i \in 1 .. Len(t), NEW j \in 1 .. Len(out), IsLast(out[j])
      PROVE  Ahead(ws, t[i], out[j].msg)
  <2>1. Ahead(ws, conf[i + 1], out[j].msg)
    BY <1>1, <1>3, <1>6 DEF Owed
  <2> QED
    BY <1>1, <2>1
<1>7. Owed(t, out, ws, stg, bad)
  BY <1>4, <1>5, <1>6 DEF Owed
<1> QED
  BY <1>7 DEF Books, t

LEMMA LoseConfirmBooks ==
  ASSUME NEW bad, TypeOK, AInv(bad), LoseConfirm
  PROVE  AInv(bad)'
<1>1. confirms # <<>> /\ confirms' = Tail(confirms) /\ confirms \in Seq(Msgs)
      /\ UNCHANGED <<atoms, stage, pos, framesOut, waiters, answers>>
  BY DEF LoseConfirm, nodeVars, TypeOK
<1>2. Books(waiters, framesOut, Tail(confirms), stage, pos, answers, bad)
  BY <1>1, TailOwed DEF AInv
<1> QED
  BY <1>1, <1>2 DEF AInv

(* With one message of a key every message of it is bad, and none of them  *)
(* is being sent: the report that would start the next one never comes.    *)
Halted(bad) ==
  \A x \in Msgs : x \in bad =>
    /\ stage[x] \notin {"starting", "driver"}
    /\ \A y \in Msgs : KeyOf(Msg[y]) = KeyOf(Msg[x]) => y \in bad

(* The confirmation of m answers the first waiter of its key, or the waiter*)
(* of a bad message.  The message of that waiter has been sent: m waits    *)
(* behind it or is it, and what is with the driver waits behind m.         *)
LEMMA ConfirmAnswers ==
  ASSUME NEW bad, TypeOK, AInv(bad), Halted(bad), Prompt, NEW m \in Msgs, ReceiveConfirm(m)
  PROVE  /\ confirms # <<>> /\ Head(confirms) = m /\ confirms' = Tail(confirms)
         /\ UNCHANGED <<atoms, stage, pos, framesOut, received>>
         /\ \/ m \in bad /\ UNCHANGED <<answers, waiters>>
            \/ \E w \in 1 .. Len(waiters) :
                 /\ waiters' = RemoveAt(waiters, w)
                 /\ answers' = Answered(answers, waiters[w].msg, RC_NORM)
                 /\ stage[waiters[w].msg] = "done"
                 /\ waiters[w].msg \notin bad =>
                      /\ answers[waiters[w].msg] = <<>>
                      /\ KeyOf(Msg[waiters[w].msg]) = KeyOf(Msg[m])
                      /\ \A j \in 1 .. Len(confirms) : j # 1 => confirms[j] # waiters[w].msg
<1> USE DEF Books
<1>1. /\ confirms # <<>> /\ Head(confirms) = m /\ confirms \in Seq(Msgs)
      /\ UNCHANGED <<atoms, stage, pos, framesOut, received>>
      /\ waiters \in Seq(Waiter)
  BY DEF ReceiveConfirm, history, TypeOK
<1>2. confirms' = Tail(confirms)
  <2>1. \E again \in {FALSE, StaleConfirms} :
          confirms' = IF again THEN confirms ELSE Tail(confirms)
    BY Zenon DEF ReceiveConfirm
  <2>2. StaleConfirms = FALSE
    BY FaultAssumption DEF Prompt
  <2> QED
    BY <2>1, <2>2
<1>3. PICK g \in Keys :
        LET w == FirstWaiter(ConfirmKey(m), g)
        IN  \/ /\ w # 0
               /\ answers' = Answered(answers, waiters[w].msg, RC_NORM)
               /\ waiters' = WithoutWaiter(w)
            \/ /\ w = 0
               /\ UNCHANGED <<answers, waiters>>
  BY Zenon DEF ReceiveConfirm
<1>4. ConfirmKey(m) = KeyOf(Msg[m])
  <2>1. Msg[m].hwa \in Nat /\ Msg[m].hwa < HwaMod /\ HwaMod \in Nat
    BY MsgsAssumption, HwasAssumption, WidthAssumption DEF MsgInfo, Prompt
  <2>2. Msg[m].hwa % HwaMod = Msg[m].hwa
    BY <2>1
  <2> QED
    BY <2>2 DEF ConfirmKey, KeyOf
<1> DEFINE k == KeyOf(Msg[m])
           w == FirstWaiter(k, g)
<1>5. /\ 1 \in 1 .. Len(confirms) /\ confirms[1] = m /\ Len(confirms) \in Nat
  BY <1>1, Shrunk
<1>6. m \notin bad => \E a \in 1 .. Len(waiters) : waiters[a].msg = m /\ answers[m] = <<>>
  BY <1>5 DEF AInv, Owed, Awaited, Waiting
<1>7. /\ w # 0 => w \in 1 .. Len(waiters) /\ Meta(waiters[w].msg, g) = k
      /\ \A a \in 1 .. Len(waiters) : Meta(waiters[a].msg, g) = k => w # 0 /\ w <= a
  <2> HIDE DEF k
  <2> QED
    BY <1>1, FirstWaiterFinds
<1>8. m \notin bad => w # 0
  <2>1. \A a \in 1 .. Len(waiters) : waiters[a].msg = m /\ answers[m] = <<>> =>
          Meta(waiters[a].msg, g) = k
    BY DEF Meta
  <2> HIDE DEF k, w
  <2> QED
    BY <1>6, <1>7, <2>1
<1>9. CASE w = 0
  <2>1. UNCHANGED <<answers, waiters>>
    BY <1>3, <1>4, <1>9
  <2> QED
    BY <1>1, <1>2, <1>8, <1>9, <2>1
<1>10. CASE w # 0
  <2> DEFINE x == waiters[w].msg
  <2>1. /\ answers' = Answered(answers, x, RC_NORM) /\ waiters' = RemoveAt(waiters, w)
    BY <1>3, <1>4, <1>10 DEF WithoutWaiter
  <2>2. w \in 1 .. Len(waiters) /\ Meta(x, g) = k
    BY <1>7, <1>10
  <2> HIDE DEF w
  <2>3. /\ Len(waiters) \in Nat /\ x \in Msgs /\ Msg[x].id # HeartbeatId
        /\ stage[x] \in {"driver", "done"} /\ (x \notin bad => answers[x] = <<>>)
        /\ stage[x] = "driver" => pos[x] = Msg[x].frames
    <3>1. Len(waiters) \in Nat
      BY <1>1, LenProperties
    <3> QED
      BY <2>2, <3>1, MessagesTyped DEF AInv, Waiting
  <2>4. CASE x \in bad
    <3>1. stage[x] = "done"
      BY <2>3, <2>4 DEF Halted
    <3> QED
      BY <1>1, <1>2, <2>1, <2>2, <2>4, <3>1
  <2>5. CASE x \notin bad
    <3>1. KeyOf(Msg[x]) = k
      BY <2>2, <2>3, <2>5 DEF Meta
    <3>2. m \notin bad
      BY <2>3, <2>5, <3>1 DEF Halted
    <3>3. PICK a \in 1 .. Len(waiters) : waiters[a].msg = m /\ answers[m] = <<>>
      BY <1>6, <3>2
    <3>4. w <= a
      BY <1>7, <3>3 DEF Meta
    <3>5. stage[x] = "done"
      <4> SUFFICES ASSUME stage[x] = "driver" PROVE FALSE
        BY <2>3
      <4>1. PICK i \in 1 .. Len(framesOut) : IsOf(framesOut[i], x)
        BY <2>3 DEF AInv, Held, Has
      <4>2. framesOut[i].kind = "data" /\ framesOut[i].msg = x /\ framesOut[i].lfb
        BY <2>3, <4>1 DEF AInv, Carried, IsOf
      <4>3. IsLast(framesOut[i])
        BY <2>3, <4>2 DEF IsLast
      <4>4. Ahead(waiters, m, x)
        BY <1>5, <4>2, <4>3 DEF AInv, Owed
      <4>5. a < w
        BY <2>2, <3>3, <4>4 DEF Ahead
      <4> QED
        BY <2>2, <2>3, <3>4, <4>5
    <3>6. ASSUME NEW j \in 1 .. Len(confirms), j # 1 PROVE confirms[j] # x
      <4> SUFFICES ASSUME confirms[j] = x PROVE FALSE
        OBVIOUS
      <4>1. 1 < j
        BY <1>5, <3>6
      <4>2. Ahead(waiters, m, x)
        BY <1>5, <4>1 DEF AInv, Owed
      <4>3. a < w
        BY <2>2, <3>3, <4>2 DEF Ahead
      <4> QED
        BY <2>2, <2>3, <3>4, <4>3
    <3> QED
      BY <1>1, <1>2, <2>1, <2>2, <2>3, <3>1, <3>5, <3>6
  <2> QED
    BY <2>4, <2>5
<1> QED
  BY <1>9, <1>10

(* ... and when the driver reports no error, one that is not answered.     *)
LEMMA ConfirmAnswersOwn ==
  ASSUME TypeOK, AInv({}), Orderly, NEW m \in Msgs, ReceiveConfirm(m)
  PROVE  /\ confirms # <<>> /\ Head(confirms) = m /\ confirms' = Tail(confirms)
         /\ UNCHANGED <<atoms, stage, pos, framesOut, received>>
         /\ \E w \in 1 .. Len(waiters) :
              /\ waiters' = RemoveAt(waiters, w)
              /\ answers' = [answers EXCEPT ![waiters[w].msg] = <<RC_NORM>>]
              /\ KeyOf(Msg[waiters[w].msg]) = KeyOf(Msg[m])
              /\ stage[waiters[w].msg] = "done"
              /\ \A j \in 1 .. Len(confirms) : j # 1 => confirms[j] # waiters[w].msg
<1>1. Halted({}) /\ Prompt
  BY DEF Halted, Orderly
<1>2. /\ confirms # <<>> /\ Head(confirms) = m /\ confirms' = Tail(confirms)
      /\ UNCHANGED <<atoms, stage, pos, framesOut, received>>
      /\ \E w \in 1 .. Len(waiters) :
           /\ waiters' = RemoveAt(waiters, w)
           /\ answers' = Answered(answers, waiters[w].msg, RC_NORM)
           /\ stage[waiters[w].msg] = "done"
           /\ answers[waiters[w].msg] = <<>>
           /\ KeyOf(Msg[waiters[w].msg]) = KeyOf(Msg[m])
           /\ \A j \in 1 .. Len(confirms) : j # 1 => confirms[j] # waiters[w].msg
  BY <1>1, ConfirmAnswers
<1>3. PICK w \in 1 .. Len(waiters) :
        /\ waiters' = RemoveAt(waiters, w)
        /\ answers' = Answered(answers, waiters[w].msg, RC_NORM)
        /\ stage[waiters[w].msg] = "done"
        /\ answers[waiters[w].msg] = <<>>
        /\ KeyOf(Msg[waiters[w].msg]) = KeyOf(Msg[m])
        /\ \A j \in 1 .. Len(confirms) : j # 1 => confirms[j] # waiters[w].msg
  BY <1>2
<1>4. answers' = [answers EXCEPT ![waiters[w].msg] = <<RC_NORM>>]
  BY <1>3 DEF Answered, TypeOK
<1> QED
  BY <1>2, <1>3, <1>4

(* Waiters leave whose messages have been sent and are not confirmed, or   *)
(* whose confirmation is the one taken.                                    *)
LEMMA WaitersLeave ==
  ASSUME NEW bad, TypeOK, NEW new, NEW ans, NEW conf, NEW late,
         Thinned(waiters, new), \A a \in 1 .. Len(new) : new[a].msg \notin late,
         \A a \in 1 .. Len(waiters) : waiters[a].msg \notin late => Awaited(new, waiters[a].msg),
         Books(waiters, framesOut, conf, stage, pos, answers, bad),
         \A x \in Msgs : x \in late =>
           stage[x] = "done" /\ (x \notin bad => Len(ans[x]) <= 1),
         \A x \in Msgs : x \notin late => ans[x] = answers[x],
         \A i \in 1 .. Len(conf) : conf[i] \in late => conf[i] \in bad
  PROVE  Books(new, framesOut, conf, stage, pos, ans, bad)
<1> USE DEF Books
<1>1. \A a \in 1 .. Len(new) : new[a].msg \in Msgs
  <2>1. ASSUME NEW a \in 1 .. Len(new) PROVE new[a].msg \in Msgs
    <3>1. Awaited(new, new[a].msg)
      BY DEF Awaited
    <3>2. Awaited(waiters, new[a].msg)
      BY <3>1, ThinnedKeeps
    <3> QED
      BY <3>2, MessagesTyped DEF Awaited
  <2> QED
    BY <2>1
<1>2. \A x : Awaited(waiters, x) /\ x \notin late => Awaited(new, x)
  BY DEF Awaited
<1>3. \A x, y : Ahead(waiters, x, y) => Ahead(new, x, y)
  BY ThinnedKeeps
<1>4. Unanswered(stage, ans, bad)
  BY DEF Unanswered
<1>5. Waiting(new, stage, pos, answers, bad)
  BY ThinnedKeeps
<1>6. Waiting(new, stage, pos, ans, bad)
  BY <1>1, <1>5 DEF Waiting
<1>7. InLine(framesOut, new)
  <2>1. ASSUME NEW i \in 1 .. Len(framesOut), IsLast(framesOut[i])
        PROVE  Awaited(new, framesOut[i].msg)
    <3>1. Awaited(waiters, framesOut[i].msg)
      BY <2>1 DEF InLine
    <3>2. framesOut[i].msg \notin late
      BY <2>1 DEF IsLast, Carried
    <3> QED
      BY <1>2, <3>1, <3>2
  <2> QED
    BY <1>3, <2>1 DEF InLine
<1>8. Owed(conf, framesOut, new, stage, bad)
  BY <1>2, <1>3 DEF Owed
<1> QED
  BY <1>4, <1>6, <1>7, <1>8

LEMMA ReceiveConfirmBooks ==
  ASSUME NEW bad, TypeOK, AInv(bad), Halted(bad), Prompt, NEW m \in Msgs, ReceiveConfirm(m)
  PROVE  AInv(bad)'
<1>1. /\ confirms # <<>> /\ confirms' = Tail(confirms) /\ confirms \in Seq(Msgs)
      /\ UNCHANGED <<atoms, stage, pos, framesOut>>
      /\ waiters \in Seq(Waiter) /\ answers \in [Msgs -> Seq(RCs)]
  BY ConfirmAnswers DEF TypeOK
<1> DEFINE conf == Tail(confirms)
<1>2. Books(waiters, framesOut, conf, stage, pos, answers, bad)
  BY <1>1, TailOwed DEF AInv
<1>3. CASE UNCHANGED <<answers, waiters>>
  BY <1>1, <1>2, <1>3 DEF AInv
<1>4. ASSUME NEW w \in 1 .. Len(waiters),
             waiters' = RemoveAt(waiters, w),
             answers' = Answered(answers, waiters[w].msg, RC_NORM),
             stage[waiters[w].msg] = "done",
             waiters[w].msg \notin bad =>
               /\ answers[waiters[w].msg] = <<>>
               /\ \A j \in 1 .. Len(confirms) : j # 1 => confirms[j] # waiters[w].msg
      PROVE  AInv(bad)'
  <2> DEFINE x == waiters[w].msg
  <2>1. /\ Thinned(waiters, waiters')
        /\ \A a \in 1 .. Len(waiters') : \E p \in 1 .. Len(waiters) : p # w /\ waiters[p].msg = waiters'[a].msg
        /\ \A p \in 1 .. Len(waiters) : p # w => Awaited(waiters', waiters[p].msg)
    <3>1. waiters \in Seq(Waiter) /\ w \in 1 .. Len(waiters) /\ waiters' = RemoveAt(waiters, w)
      BY <1>1, <1>4
    <3> QED
      BY ONLY <3>1, RemovedThinned
  <2>2. \A i \in 1 .. Len(conf) : conf[i] \in {x} => conf[i] \in bad
    <3>1. \A i \in 1 .. Len(conf) : i + 1 \in 1 .. Len(confirms) /\ conf[i] = confirms[i + 1] /\ i + 1 # 1
      BY <1>1, Shrunk
    <3> QED
      BY <1>4, <3>1
  <2>3. \A a \in 1 .. Len(waiters') : waiters'[a].msg \notin {x}
    BY <2>1 DEF AInv, Books, Waiting
  <2>4. \A p \in 1 .. Len(waiters) : waiters[p].msg \notin {x} => Awaited(waiters', waiters[p].msg)
    BY <2>1
  <2>5. /\ \A y \in Msgs : y \in {x} => stage[y] = "done" /\ (y \notin bad => Len(answers'[y]) <= 1)
        /\ \A y \in Msgs : y \notin {x} => answers'[y] = answers[y]
    <3>1. Len(Append(<<>>, RC_NORM)) <= 1
      OBVIOUS
    <3>2. x \in Msgs
      BY MessagesTyped
    <3>3. answers'[x] = Append(answers[x], RC_NORM)
      BY <1>1, <1>4, <3>2 DEF Answered
    <3>4. \A y \in Msgs : y # x => answers'[y] = answers[y]
      BY <1>1, <1>4 DEF Answered
    <3> HIDE DEF x
    <3>5. stage[x] = "done" /\ (x \notin bad => answers[x] = <<>>)
      BY <1>4 DEF x
    <3>6. x \notin bad => Len(answers'[x]) <= 1
      BY <3>1, <3>3, <3>5
    <3> QED
      BY <3>4, <3>5, <3>6
  <2> HIDE DEF conf, x
  <2>6. Books(waiters', framesOut, conf, stage, pos, answers', bad)
    BY <1>2, <2>1, <2>2, <2>3, <2>4, <2>5, WaitersLeave
  <2> QED
    BY <1>1, <2>6 DEF AInv, conf
<1>5. \/ UNCHANGED <<answers, waiters>>
      \/ \E w \in 1 .. Len(waiters) :
           /\ waiters' = RemoveAt(waiters, w)
           /\ answers' = Answered(answers, waiters[w].msg, RC_NORM)
           /\ stage[waiters[w].msg] = "done"
           /\ waiters[w].msg \notin bad =>
                /\ answers[waiters[w].msg] = <<>>
                /\ \A j \in 1 .. Len(confirms) : j # 1 => confirms[j] # waiters[w].msg
  BY ConfirmAnswers
<1> HIDE DEF conf
<1> QED
  BY <1>3, <1>4, <1>5

LEMMA CheckConfirmWaitersBooks ==
  ASSUME NEW bad, TypeOK, AInv(bad), Prompt, CheckConfirmWaiters
  PROVE  AInv(bad)'
<1> DEFINE late == {waiters[i].msg : i \in {j \in DOMAIN waiters : Expired(waiters[j])}}
<1>1. /\ framesOut = <<>> /\ late \cap ToSet(confirms) = {}
      /\ answers' = [m \in Msgs |-> IF m \in late THEN Append(answers[m], RC_CONF_TIMEOUT)
                                                   ELSE answers[m]]
      /\ waiters' = Survivors(waiters)
      /\ UNCHANGED <<atoms, stage, pos, framesOut, confirms>>
  BY DEF CheckConfirmWaiters, Prompt
<1>2. /\ waiters \in Seq(Waiter) /\ confirms \in Seq(Msgs) /\ answers \in [Msgs -> Seq(RCs)]
      /\ DOMAIN waiters = 1 .. Len(waiters) /\ DOMAIN confirms = 1 .. Len(confirms)
  BY LenProperties DEF TypeOK
<1>3. /\ Thinned(waiters, waiters')
      /\ \A a \in 1 .. Len(waiters') : \E p \in 1 .. Len(waiters) :
           ~Expired(waiters[p]) /\ waiters[p].msg = waiters'[a].msg
      /\ \A p \in 1 .. Len(waiters) : ~Expired(waiters[p]) => Awaited(waiters', waiters[p].msg)
  <2>1. waiters \in Seq(Waiter) /\ waiters' = Survivors(waiters)
    BY <1>1, <1>2
  <2> QED
    BY ONLY <2>1, SurvivorsThinned
<1>4. \A p \in 1 .. Len(waiters) : waiters[p].msg \in late <=> Expired(waiters[p])
  BY <1>2 DEF AInv, Books, Waiting
<1>5. \A i \in 1 .. Len(confirms) : confirms[i] \notin late
  <2>1. \A i \in 1 .. Len(confirms) : confirms[i] \in ToSet(confirms)
    BY <1>2 DEF ToSet
  <2> QED
    BY <1>1, <2>1
<1>6. \A x \in late : \E p \in 1 .. Len(waiters) : waiters[p].msg = x
  BY <1>2
<1> HIDE DEF late
<1>7. \A x \in Msgs : ~Has(framesOut, x)
  BY <1>1, EmptySeq DEF Has
<1>8. ASSUME NEW x \in Msgs, x \in late
      PROVE  stage[x] = "done" /\ (x \notin bad => Len(answers'[x]) <= 1)
  <2>1. PICK p \in 1 .. Len(waiters) : waiters[p].msg = x
    BY <1>6, <1>8
  <2>2. (x \notin bad => answers[x] = <<>>) /\ stage[x] \in {"driver", "done"}
    BY <2>1 DEF AInv, Books, Waiting
  <2>3. stage[x] # "driver"
    BY <1>7 DEF AInv, Held
  <2>4. x \notin bad => answers'[x] = <<RC_CONF_TIMEOUT>>
    <3>1. answers'[x] = Append(answers[x], RC_CONF_TIMEOUT)
      BY <1>1, <1>8
    <3>2. Append(<<>>, RC_CONF_TIMEOUT) = <<RC_CONF_TIMEOUT>>
      OBVIOUS
    <3> QED
      BY <2>2, <3>1, <3>2
  <2>5. Len(<<RC_CONF_TIMEOUT>>) <= 1
    OBVIOUS
  <2> QED
    BY <2>2, <2>3, <2>4, <2>5
<1>9. \A x \in Msgs : x \notin late => answers'[x] = answers[x]
  BY <1>1
<1>10. \A a \in 1 .. Len(waiters') : waiters'[a].msg \notin late
  BY <1>3, <1>4
<1>11. \A p \in 1 .. Len(waiters) : waiters[p].msg \notin late => Awaited(waiters', waiters[p].msg)
  BY <1>3, <1>4
<1>12. Books(waiters', framesOut, confirms, stage, pos, answers', bad)
  <2>1. Books(waiters, framesOut, confirms, stage, pos, answers, bad)
    BY DEF AInv
  <2> QED
    BY <1>3, <1>5, <1>8, <1>9, <1>10, <1>11, <2>1, WaitersLeave
<1> QED
  BY <1>1, <1>12 DEF AInv

(* The driver fails a frame of m.  With it the messages of its key are bad;*)
(* the waiter that is removed is one of these.  What the driver holds is   *)
(* not bad, so its waiters stay.                                           *)
LEMMA DriverFailedBooks ==
  ASSUME NEW bad, TypeOK, AInv(bad), NEW m \in Msgs, NEW l \in BOOLEAN, NEW g \in Keys,
         DriverHolds([kind |-> "data", msg |-> m, num |-> pos[m] - 1, lfb |-> l]),
         waiters' = IF l /\ ~IsHeartbeat(Meta(m, g)) /\ FirstWaiter(Meta(m, g), g) # 0
                      THEN WithoutWaiter(FirstWaiter(Meta(m, g), g))
                      ELSE waiters,
         answers' = Answered(answers, m, RC_DRIVER_ERR),
         stage' = [stage EXCEPT ![m] = "done"],
         framesOut' = Tail(framesOut),
         UNCHANGED <<atoms, pos, confirms>>,
         NEW worse, bad \subseteq worse,
         \A x \in Msgs : KeyOf(Msg[x]) = KeyOf(Msg[m]) => x \in worse,
         \A x \in Msgs : x \in worse /\ stage[x] = "driver" => x = m
  PROVE  AInv(worse)' /\ stage[m] = "driver"
<1> USE DEF Books
<1>1. /\ framesOut # <<>> /\ framesOut \in Seq(OutFrame)
      /\ Head(framesOut).kind = "data" /\ Head(framesOut).msg = m
      /\ stage \in [Msgs -> Stages] /\ answers \in [Msgs -> Seq(RCs)] /\ waiters \in Seq(Waiter)
  BY DEF DriverHolds, TypeOK
<1> DEFINE out == Tail(framesOut)
<1>2. 1 \in 1 .. Len(framesOut) /\ Head(framesOut) = framesOut[1]
  BY <1>1, Shrunk
<1>3. stage[m] = "driver" /\ answers[m] = <<>>
  BY <1>1, <1>2 DEF AInv, Carried, Unanswered
<1>4. /\ Books(waiters, out, confirms, stage, pos, answers, bad)
      /\ HeldBut(out, stage, m) /\ ~Has(out, m)
  <2>1. /\ Books(waiters, out, confirms, stage, pos, answers, bad)
        /\ HeldBut(out, stage, Head(framesOut).msg)
        /\ ~Has(out, Head(framesOut).msg)
    <3> HIDE DEF Books
    <3> QED
      BY <1>1, TailBooks DEF AInv
  <2> HIDE DEF Books, out
  <2> QED
    BY <1>1, <2>1
<1>5. /\ stage'[m] = "done" /\ m \in worse
      /\ \A x \in Msgs : x # m => stage'[x] = stage[x] /\ answers'[x] = answers[x]
  BY <1>1 DEF Answered
<1>6. /\ Thinned(waiters, waiters')
      /\ \A p \in 1 .. Len(waiters) : waiters[p].msg \notin worse => Awaited(waiters', waiters[p].msg)
      /\ \A p \in 1 .. Len(waiters) : waiters[p].msg # m /\ stage[waiters[p].msg] = "driver"
           => Awaited(waiters', waiters[p].msg)
  <2>0. \A p \in 1 .. Len(waiters) : waiters[p].msg \in Msgs
    BY MessagesTyped
  <2>1. CASE waiters' = waiters
    <3>1. \A p \in 1 .. Len(waiters) : Awaited(waiters, waiters[p].msg)
      BY DEF Awaited
    <3>2. Thinned(waiters, waiters)
      BY DEF Thinned
    <3> QED
      BY <2>1, <3>1, <3>2
  <2>2. CASE waiters' # waiters
    <3> DEFINE k == Meta(m, g)
               w == FirstWaiter(k, g)
    <3>1. waiters' = RemoveAt(waiters, w) /\ w # 0
      BY <2>2 DEF WithoutWaiter
    <3>2. k = KeyOf(Msg[m])
      BY <1>3 DEF Meta
    <3>3. w \in 1 .. Len(waiters) /\ Meta(waiters[w].msg, g) = k
      <4> HIDE DEF k
      <4> QED
        BY <1>1, <3>1, FirstWaiterFinds
    <3> HIDE DEF w
    <3>4. waiters[w].msg \in worse
      <4>1. CASE answers[waiters[w].msg] = <<>>
        BY <2>0, <3>2, <3>3, <4>1 DEF Meta
      <4>2. CASE answers[waiters[w].msg] # <<>>
        BY <3>3, <4>2 DEF AInv, Waiting
      <4> QED
        BY <4>1, <4>2
    <3>5. /\ Thinned(waiters, waiters')
          /\ \A p \in 1 .. Len(waiters) : p # w => Awaited(waiters', waiters[p].msg)
      <4>1. waiters \in Seq(Waiter) /\ w \in 1 .. Len(waiters) /\ waiters' = RemoveAt(waiters, w)
        BY <1>1, <3>1, <3>3
      <4> QED
        BY ONLY <4>1, RemovedThinned
    <3> QED
      BY <2>0, <3>3, <3>4, <3>5
  <2> QED
    BY <2>1, <2>2
<1>7. Unanswered(stage', answers', worse)
  BY <1>4, <1>5 DEF Unanswered
<1>8. \A a \in 1 .. Len(waiters') : waiters'[a].msg \in Msgs
  <2>1. ASSUME NEW a \in 1 .. Len(waiters') PROVE waiters'[a].msg \in Msgs
    <3>1. Awaited(waiters', waiters'[a].msg)
      BY DEF Awaited
    <3>2. Awaited(waiters, waiters'[a].msg)
      BY <1>6, <3>1, ThinnedKeeps
    <3> QED
      BY <3>2, MessagesTyped DEF Awaited
  <2> QED
    BY <2>1
<1>9. Waiting(waiters', stage', pos, answers', worse)
  <2>1. Waiting(waiters', stage, pos, answers, bad)
    BY <1>6, ThinnedKeeps DEF AInv
  <2>2. ASSUME NEW a \in 1 .. Len(waiters')
        PROVE  /\ waiters'[a].msg \notin worse => answers'[waiters'[a].msg] = <<>>
               /\ stage'[waiters'[a].msg] \in {"driver", "done"}
               /\ Msg[waiters'[a].msg].id # HeartbeatId
               /\ stage'[waiters'[a].msg] = "driver" => pos[waiters'[a].msg] = Msg[waiters'[a].msg].frames
    <3>1. CASE waiters'[a].msg = m
      BY <1>5, <2>1, <3>1 DEF Waiting
    <3>2. CASE waiters'[a].msg # m
      BY <1>5, <1>8, <2>1, <3>2 DEF Waiting
    <3> QED
      BY <3>1, <3>2
  <2>3. \A a, b \in 1 .. Len(waiters') : waiters'[b].msg = waiters'[a].msg => a = b
    BY <2>1 DEF Waiting
  <2> QED
    BY <2>2, <2>3 DEF Waiting
<1> HIDE DEF out
<1>10. \A i \in 1 .. Len(out) : out[i].kind = "data" => out[i].msg \in Msgs /\ out[i].msg # m
  BY <1>4 DEF Has, IsOf, Carried
<1>11. Carried(out, stage', pos)
  BY <1>4, <1>5, <1>10 DEF Carried
<1>12. Held(out, stage')
  BY <1>4, <1>5 DEF Held, HeldBut
<1>13. \A x, y : Ahead(waiters, x, y) => Ahead(waiters', x, y)
  BY <1>6, ThinnedKeeps
<1>14. InLine(out, waiters')
  <2>1. ASSUME NEW i \in 1 .. Len(out), IsLast(out[i])
        PROVE  Awaited(waiters', out[i].msg)
    <3>1. Awaited(waiters, out[i].msg)
      BY <1>4, <2>1 DEF InLine
    <3>2. out[i].msg # m /\ stage[out[i].msg] = "driver"
      BY <1>4, <1>10, <2>1 DEF IsLast, Carried
    <3> QED
      BY <1>6, <3>1, <3>2 DEF Awaited
  <2> QED
    BY <1>4, <1>13, <2>1 DEF InLine
<1>15. Owed(confirms, out, waiters', stage', worse)
  <2>1. ASSUME NEW i \in 1 .. Len(confirms)
        PROVE  stage'[confirms[i]] = "done" /\ (confirms[i] \notin worse => Awaited(waiters', confirms[i]))
    <3>1. confirms[i] \in Msgs
      BY MessagesTyped
    <3>2. stage[confirms[i]] = "done" /\ (confirms[i] \notin bad => Awaited(waiters, confirms[i]))
      BY <1>4 DEF Owed
    <3>3. stage'[confirms[i]] = "done"
      BY <1>3, <1>5, <3>1, <3>2
    <3>4. confirms[i] \notin worse => Awaited(waiters', confirms[i])
      BY <1>6, <3>2 DEF Awaited
    <3> QED
      BY <3>3, <3>4
  <2> QED
    BY <1>4, <1>13, <2>1 DEF Owed
<1>16. Queues(atoms', stage')
  <2>1. \A x \in Msgs : stage[x] = "queued" => stage'[x] = "queued"
    BY <1>3, <1>5
  <2> QED
    BY <2>1, QueuesStay DEF AInv
<1>17. framesOut' = out
  BY DEF out
<1>18. Books(waiters', out, confirms, stage', pos, answers', worse)
  BY <1>7, <1>9, <1>11, <1>14, <1>15
<1> HIDE DEF Books
<1> QED
  BY <1>3, <1>12, <1>16, <1>17, <1>18 DEF AInv

(* The report of a failed confirmation frame has no context.               *)
LEMMA PeerConfirmFailedBooks ==
  ASSUME NEW bad, TypeOK, AInv(bad),
         framesOut # <<>>, Head(framesOut).kind = "confirm", framesOut' = Tail(framesOut),
         UNCHANGED <<atoms, stage, pos, waiters, answers, confirms>>
  PROVE  AInv(bad)'
<1>1. Head(framesOut).kind # "data"
  OBVIOUS
<1>2. /\ Books(waiters, Tail(framesOut), confirms, stage, pos, answers, bad)
      /\ Held(Tail(framesOut), stage)
  BY <1>1, TailBooks DEF AInv, TypeOK
<1> QED
  BY <1>2 DEF AInv

(* A confirmation to a peer is handed to the driver: no message's books    *)
(* change.                                                                 *)
LEMMA PeerConfirmBooks ==
  ASSUME NEW bad, NEW out \in Seq(OutFrame), NEW fr \in OutFrame, fr.kind # "data",
         NEW ws, NEW conf, NEW stg, NEW ps, NEW ans,
         Books(ws, out, conf, stg, ps, ans, bad), Held(out, stg), NEW out2, out2 = Append(out, fr)
  PROVE  Books(ws, out2, conf, stg, ps, ans, bad) /\ Held(out2, stg)
<1>1. /\ Len(out) \in Nat
      /\ \A i \in 1 .. Len(out) : i \in 1 .. Len(out2) /\ out2[i] = out[i]
      /\ out2[Len(out2)] = fr
      /\ \A i \in 1 .. Len(out2) : i \in 1 .. Len(out) \/ i = Len(out2)
  BY Grown
<1>2. \A i \in 1 .. Len(out2) : out2[i].kind = "data" => i \in 1 .. Len(out) /\ out2[i] = out[i]
  BY <1>1
<1>3. Carried(out2, stg, ps)
  BY <1>2 DEF Books, Carried, IsOf
<1>4. InLine(out2, ws)
  BY <1>2 DEF Books, InLine, IsLast
<1>5. Owed(conf, out2, ws, stg, bad)
  BY <1>2 DEF Books, Owed, IsLast
<1>6. Held(out2, stg)
  BY <1>1 DEF Held, Has
<1> QED
  BY <1>3, <1>4, <1>5, <1>6 DEF Books

(* The list of atoms as a received frame finds it.                         *)
LEMMA FrameQueues ==
  ASSUME NEW bad, TypeOK, AInv(bad), NEW f \in PeerFrames
  PROVE  LET list == GetAtom(atoms, KeyOf(f))
             i == FindAtom(list, KeyOf(f))
         IN  list \in Seq(Atom) /\ i \in 1 .. Len(list) /\ Queues(list, stage)
<1> DEFINE list == GetAtom(atoms, KeyOf(f))
           i == FindAtom(list, KeyOf(f))
<1>1. list \in Seq(Atom) /\ i \in 1 .. Len(list)
  BY FrameAtom
<1>2. atoms \in Seq(Atom) /\ KeyOf(f) \in Nat \X Ids /\ Queues(atoms, stage)
  BY KeysTyped DEF TypeOK, AInv
<1>3. Queues(list, stage)
  BY <1>2, QueuesGetAtom
<1> QED
  BY <1>1, <1>3

(* What a frame opens has the queue it had.                                *)
LEMMA OpenedQueue ==
  ASSUME NEW a \in Atom, NEW f
  PROVE  Opened(a, f).queue = a.queue
BY DEF Opened, ClearOnRead, Atom

LEMMA ReceiveBooks ==
  ASSUME NEW bad, TypeOK, AInv(bad), NEW f \in PeerFrames,
         RejectFrame(f) \/ AcceptFrame(f) \/ AcceptLastFrame(f)
  PROVE  AInv(bad)'
<1> DEFINE list == GetAtom(atoms, KeyOf(f))
           i == FindAtom(list, KeyOf(f))
           a == Opened(list[i], f)
           b == [a EXCEPT !.last = f.num]
           k == <<a.hwa % HwaMod, a.id>>
<1>1. list \in Seq(Atom) /\ i \in 1 .. Len(list) /\ Queues(list, stage)
  BY FrameQueues
<1>2. list[i] \in Atom
  BY <1>1, ElementOfSeq
<1>3. a.queue = list[i].queue /\ b.queue = list[i].queue
  <2>1. a.queue = list[i].queue
    BY <1>2, OpenedQueue
  <2>2. b.queue = a.queue
    BY DEF Opened, ClearOnRead
  <2> QED
    BY <2>1, <2>2
<1>4. /\ UNCHANGED <<stage, pos, waiters, answers, confirms>>
      /\ atoms' \in {RemoveAt(list, i), [list EXCEPT ![i] = a], [list EXCEPT ![i] = b]}
      /\ framesOut' \in {framesOut, Append(framesOut, ConfirmFrame(k))}
  <2>1. CASE RejectFrame(f)
    BY <2>1 DEF RejectFrame
  <2>2. CASE AcceptFrame(f)
    BY <2>2 DEF AcceptFrame
  <2>3. CASE AcceptLastFrame(f)
    BY <2>3 DEF AcceptLastFrame
  <2> QED
    BY <2>1, <2>2, <2>3
<1>5. Queues(atoms', stage')
  <2> HIDE DEF list, i, a, b
  <2>1. /\ Queues(RemoveAt(list, i), stage)
        /\ Queues([list EXCEPT ![i] = a], stage) /\ Queues([list EXCEPT ![i] = b], stage)
    BY <1>1, <1>3, QueuesRemoveAt, QueuesReplace
  <2> QED
    BY <1>4, <2>1
<1>6. ConfirmFrame(k) \in OutFrame /\ ConfirmFrame(k).kind # "data"
  <2>1. a.hwa \in Nat /\ a.id \in Ids
    BY <1>2, IdsAssumption DEF Opened, ClearOnRead, Atom
  <2> HIDE DEF a
  <2>2. a.hwa % HwaMod \in Nat
    BY <2>1, WidthAssumption
  <2> QED
    BY <2>1, <2>2 DEF ConfirmFrame, OutFrame
<1>7. Books(waiters, framesOut', confirms, stage, pos, answers, bad) /\ Held(framesOut', stage)
  <2> HIDE DEF k
  <2>1. framesOut \in Seq(OutFrame)
    BY DEF TypeOK
  <2> QED
    BY <1>4, <1>6, <2>1, PeerConfirmBooks DEF AInv
<1> QED
  BY <1>4, <1>5, <1>7 DEF AInv

LEMMA FinishReceiveBooks ==
  ASSUME NEW bad, TypeOK, AInv(bad), FinishReceive
  PROVE  AInv(bad)'
<1> DEFINE i == window.at
           a == [ClearOnRead(atoms[i]) EXCEPT !.receiving = FALSE]
<1>1. /\ window # NoWindow
      /\ atoms' = [atoms EXCEPT ![i] = a] \/ atoms' = RemoveAt(atoms, i)
      /\ UNCHANGED <<stage, pos, framesOut, waiters, answers, confirms>>
  BY DEF FinishReceive
<1>2. atoms \in Seq(Atom) /\ i \in 1 .. Len(atoms)
  <2>1. Len(atoms) \in Nat /\ i \in 0 .. Len(atoms) /\ i # 0
    BY <1>1, WindowAt
  <2> QED
    BY <2>1 DEF TypeOK
<1>3. a.queue = atoms[i].queue
  BY DEF ClearOnRead
<1> HIDE DEF a, i
<1>4. Queues([atoms EXCEPT ![i] = a], stage) /\ Queues(RemoveAt(atoms, i), stage)
  BY <1>2, <1>3, QueuesReplace, QueuesRemoveAt DEF AInv
<1> QED
  BY <1>1, <1>4 DEF AInv

-----------------------------------------------------------------------------
(* The theorems                                                            *)

LEMMA BooksInit ==
  ASSUME Init
  PROVE  AInv({})
<1>1. Unanswered(stage, answers, {})
  BY EmptySeq DEF Init, Unanswered
<1>2. Len(framesOut) = 0 /\ Len(waiters) = 0 /\ Len(confirms) = 0 /\ Len(atoms) = 0
  BY EmptySeq DEF Init
<1>3. Books(waiters, framesOut, confirms, stage, pos, answers, {})
  BY <1>1, <1>2 DEF Books, Waiting, Carried, InLine, Owed
<1>4. Held(framesOut, stage)
  BY DEF Init, Held
<1>5. Queues(atoms, stage)
  BY <1>2 DEF Queues, Position
<1> QED
  BY <1>3, <1>4, <1>5 DEF AInv

LEMMA BooksKept ==
  ASSUME NEW bad, Prompt, TypeOK, AInv(bad), Halted(bad), [Next]_vars, ~DriverFailed
  PROVE  AInv(bad)'
<1>1. ASSUME NEW m \in Msgs, StartSending(m) \/ ProcessFirst(m)
      PROVE  AInv(bad)'
  BY <1>1, StartSendingBooks, ProcessFirstBooks
<1>2. ASSUME NEW m \in Msgs, DriverSentFrame(m) \/ DriverSentLast(m)
      PROVE  AInv(bad)'
  BY <1>2, DriverSentFrameBooks, DriverSentLastBooks
<1>3. CASE DriverSentConfirm
  BY <1>3, DriverSentConfirmBooks
<1>4. ASSUME NEW m \in Msgs, ReceiveConfirm(m)
      PROVE  AInv(bad)'
  BY <1>4, ReceiveConfirmBooks
<1>5. CASE LoseConfirm
  BY <1>5, LoseConfirmBooks
<1>6. CASE CheckConfirmWaiters
  BY <1>6, CheckConfirmWaitersBooks
<1>7. CASE Receive
  BY <1>7, ReceiveBooks DEF Receive
<1>8. CASE FinishReceive
  BY <1>8, FinishReceiveBooks
<1>9. CASE UNCHANGED vars
  BY <1>9 DEF AInv, vars, nodeVars
<1> QED
  BY <1>1, <1>2, <1>3, <1>4, <1>5, <1>6, <1>7, <1>8, <1>9 DEF Next, DriverSent

LEMMA BooksAlways == Orderly => (Spec => []AInv({}))
<1> SUFFICES ASSUME Orderly PROVE Spec => []AInv({})
  OBVIOUS
<1>1. Init => AInv({})
  BY BooksInit
<1>2. AInv({}) /\ TypeOK /\ [Next]_vars => AInv({})'
  <2>1. ~DriverFailed /\ Prompt /\ Halted({})
    BY DEF DriverFailed, Orderly, Halted
  <2> QED
    BY <2>1, BooksKept
<1> QED
  BY <1>1, <1>2, TypeCorrect, PTL DEF Spec

(* However many messages are sent by however many threads: as long as the  *)
(* driver reports every frame sent before a tic has passed and the peer's  *)
(* confirmations come once and in time, the send callback of a message is  *)
(* called once at most, by whichever thread (can_net.h:86).                *)
THEOREM AnsweredByOne == Orderly => (Spec => []AnsweredOnce)
<1> SUFFICES ASSUME Orderly PROVE Spec => []AnsweredOnce
  OBVIOUS
<1>1. AInv({}) => AnsweredOnce
  BY DEF AInv, Books, Unanswered, AnsweredOnce
<1> QED
  BY <1>1, BooksAlways, PTL

-----------------------------------------------------------------------------
(* What is reported as sent has been received                              *)

MsgsOf(k) == {m \in Msgs : KeyOf(Msg[m]) = k}

Confirmed(k) == {m \in MsgsOf(k) : Contains(answers[m], RC_NORM)}

Coming(k) == {m \in MsgsOf(k) : \E i \in 1 .. Len(confirms) : confirms[i] = m}

(* The messages of g are enough for those of c and of p together.          *)
Backed(c, p, g) ==
  /\ IsFiniteSet(c) /\ IsFiniteSet(p) /\ IsFiniteSet(g)
  /\ Cardinality(c) + Cardinality(p) <= Cardinality(g)

(* The confirmations that came and those on their way are backed by what   *)
(* the peer has received; it has received nothing that is not sent.        *)
NInv ==
  /\ \A m \in received : stage[m] = "done"
  /\ \A k \in Keys : k[2] # HeartbeatId =>
       Backed(Confirmed(k), Coming(k), MsgsOf(k) \cap received)

LEMMA BackedLess ==
  ASSUME NEW c, NEW p, NEW g, Backed(c, p, g), NEW q, q \subseteq p
  PROVE  Backed(c, q, g)
<1>1. IsFiniteSet(q) /\ Cardinality(q) <= Cardinality(p)
  BY FS_Subset DEF Backed
<1>2. /\ Cardinality(c) \in Nat /\ Cardinality(p) \in Nat
      /\ Cardinality(q) \in Nat /\ Cardinality(g) \in Nat
  BY <1>1, FS_CardinalityType DEF Backed
<1> QED
  BY <1>1, <1>2 DEF Backed

(* A confirmation comes: it counts for x.                                  *)
LEMMA BackedMoves ==
  ASSUME NEW c, NEW p, NEW g, Backed(c, p, g), NEW m \in p, NEW x
  PROVE  Backed(c \cup {x}, p \ {m}, g)
<1>1. /\ IsFiniteSet(c \cup {x}) /\ IsFiniteSet(p \ {m})
      /\ Cardinality(c \cup {x}) = IF x \in c THEN Cardinality(c) ELSE Cardinality(c) + 1
      /\ Cardinality(p \ {m}) = Cardinality(p) - 1
  BY FS_AddElement, FS_RemoveElement DEF Backed
<1>2. Cardinality(c) \in Nat /\ Cardinality(p) \in Nat /\ Cardinality(g) \in Nat
  BY FS_CardinalityType DEF Backed
<1> QED
  BY <1>1, <1>2 DEF Backed

(* A message is received and its confirmation is on its way.               *)
LEMMA BackedMore ==
  ASSUME NEW c, NEW p, NEW g, Backed(c, p, g), NEW m, m \notin g
  PROVE  Backed(c, p \cup {m}, g \cup {m}) /\ Backed(c, p, g \cup {m})
<1>1. /\ IsFiniteSet(p \cup {m}) /\ IsFiniteSet(g \cup {m})
      /\ Cardinality(p \cup {m}) = IF m \in p THEN Cardinality(p) ELSE Cardinality(p) + 1
      /\ Cardinality(g \cup {m}) = Cardinality(g) + 1
  BY FS_AddElement DEF Backed
<1>2. Cardinality(c) \in Nat /\ Cardinality(p) \in Nat /\ Cardinality(g) \in Nat
  BY FS_CardinalityType DEF Backed
<1> QED
  BY <1>1, <1>2 DEF Backed

(* A step that neither confirms nor receives.                              *)
LEMMA OthersBacked ==
  ASSUME NInv, TypeOK, DoneStays, NormsStay, UNCHANGED <<confirms, received>>
  PROVE  NInv'
<1>1. \A m \in received' : stage'[m] = "done"
  BY DEF NInv, DoneStays, TypeOK
<1>2. ASSUME NEW k \in Keys, k[2] # HeartbeatId
      PROVE  Backed(Confirmed(k), Coming(k), MsgsOf(k) \cap received)'
  <2>1. \A m \in MsgsOf(k) : m \in Msgs /\ Msg[m].id # HeartbeatId
    BY <1>2 DEF MsgsOf, KeyOf
  <2>2. Confirmed(k)' = Confirmed(k)
    BY <2>1 DEF Confirmed, NormsStay
  <2>3. Coming(k)' = Coming(k)
    BY DEF Coming
  <2>4. Backed(Confirmed(k), Coming(k), MsgsOf(k) \cap received)
    BY <1>2 DEF NInv
  <2> QED
    BY <2>2, <2>3, <2>4
<1> QED
  BY <1>1, <1>2 DEF NInv

LEMMA DriverSentLastBacked ==
  ASSUME NInv, TypeOK, AInv({}), NEW m \in Msgs, DriverSentLast(m)
  PROVE  NInv'
<1>1. stage[m] = "driver" /\ stage'[m] = "done" /\ DoneStays /\ NormsStay
  BY DriverSentLastBooks
<1>2. \/ received' = received /\ confirms' = confirms
      \/ /\ received' = received \cup {m}
         /\ confirms' = IF Msg[m].id # HeartbeatId THEN Append(confirms, m) ELSE confirms
  BY DEF DriverSentLast
<1>3. CASE received' = received /\ confirms' = confirms
  BY <1>1, <1>3, OthersBacked
<1>4. CASE /\ received' = received \cup {m}
           /\ confirms' = IF Msg[m].id # HeartbeatId THEN Append(confirms, m) ELSE confirms
  <2>1. \A x \in received' : stage'[x] = "done"
    BY <1>1, <1>4 DEF NInv, DoneStays, TypeOK
  <2>2. m \notin received
    BY <1>1 DEF NInv
  <2>3. ASSUME NEW k \in Keys, k[2] # HeartbeatId
        PROVE  Backed(Confirmed(k), Coming(k), MsgsOf(k) \cap received)'
    <3>1. \A x \in MsgsOf(k) : x \in Msgs /\ Msg[x].id # HeartbeatId
      BY <2>3 DEF MsgsOf, KeyOf
    <3>2. Confirmed(k)' = Confirmed(k)
      BY <1>1, <3>1 DEF Confirmed, NormsStay
    <3>3. Backed(Confirmed(k), Coming(k), MsgsOf(k) \cap received)
      BY <2>3 DEF NInv
    <3>4. CASE m \notin MsgsOf(k)
      <4>1. MsgsOf(k) \cap received' = MsgsOf(k) \cap received
        BY <1>4, <3>4
      <4>2. Coming(k)' = Coming(k)
        <5>1. confirms \in Seq(Msgs)
          BY DEF TypeOK
        <5>2. CASE confirms' = Append(confirms, m)
          <6>1. /\ \A i \in 1 .. Len(confirms) : i \in 1 .. Len(confirms') /\ confirms'[i] = confirms[i]
                /\ confirms'[Len(confirms')] = m
                /\ \A i \in 1 .. Len(confirms') : i \in 1 .. Len(confirms) \/ i = Len(confirms')
            BY <5>1, <5>2, Grown
          <6> QED
            BY <3>4, <6>1 DEF Coming
        <5>3. CASE confirms' = confirms
          BY <5>3 DEF Coming
        <5> QED
          BY <1>4, <5>2, <5>3
      <4> QED
        BY <3>2, <3>3, <4>1, <4>2
    <3>5. CASE m \in MsgsOf(k)
      <4>1. MsgsOf(k) \cap received' = (MsgsOf(k) \cap received) \cup {m}
        BY <1>4, <3>5
      <4>2. confirms' = Append(confirms, m) /\ confirms \in Seq(Msgs)
        BY <1>4, <3>1, <3>5 DEF TypeOK
      <4>3. Coming(k)' = Coming(k) \cup {m}
        <5>1. /\ \A i \in 1 .. Len(confirms) : i \in 1 .. Len(confirms') /\ confirms'[i] = confirms[i]
              /\ Len(confirms') \in 1 .. Len(confirms') /\ confirms'[Len(confirms')] = m
              /\ \A i \in 1 .. Len(confirms') : i \in 1 .. Len(confirms) \/ i = Len(confirms')
          BY <4>2, Grown
        <5> QED
          BY <3>5, <5>1 DEF Coming
      <4>4. m \notin MsgsOf(k) \cap received
        BY <2>2
      <4>5. Backed(Confirmed(k), Coming(k) \cup {m}, (MsgsOf(k) \cap received) \cup {m})
        BY <3>3, <4>4, BackedMore
      <4> QED
        BY <3>2, <4>1, <4>3, <4>5
    <3> QED
      BY <3>4, <3>5
  <2> QED
    BY <2>1, <2>3 DEF NInv
<1> QED
  BY <1>2, <1>3, <1>4

LEMMA LoseConfirmBacked ==
  ASSUME NInv, TypeOK, LoseConfirm
  PROVE  NInv'
<1>1. /\ confirms # <<>> /\ confirms \in Seq(Msgs) /\ confirms' = Tail(confirms)
      /\ UNCHANGED <<stage, answers, received>>
  BY DEF LoseConfirm, TypeOK, nodeVars, history
<1>2. \A i \in 1 .. Len(confirms') : i + 1 \in 1 .. Len(confirms) /\ confirms'[i] = confirms[i + 1]
  BY <1>1, Shrunk
<1>3. ASSUME NEW k \in Keys, k[2] # HeartbeatId
      PROVE  Backed(Confirmed(k), Coming(k), MsgsOf(k) \cap received)'
  <2>1. Coming(k)' \subseteq Coming(k)
    BY <1>2 DEF Coming
  <2>2. Confirmed(k)' = Confirmed(k)
    BY <1>1 DEF Confirmed
  <2>3. Backed(Confirmed(k), Coming(k), MsgsOf(k) \cap received)
    BY <1>3 DEF NInv
  <2>4. Backed(Confirmed(k), Coming(k)', MsgsOf(k) \cap received)
    BY <2>1, <2>3, BackedLess
  <2> QED
    BY <1>1, <2>2, <2>4
<1> QED
  BY <1>1, <1>3 DEF NInv

LEMMA ReceiveConfirmBacked ==
  ASSUME NInv, Orderly, TypeOK, AInv({}), NEW m \in Msgs, ReceiveConfirm(m)
  PROVE  NInv'
<1>1. /\ confirms # <<>> /\ Head(confirms) = m /\ confirms' = Tail(confirms)
      /\ confirms \in Seq(Msgs) /\ answers \in [Msgs -> Seq(RCs)]
      /\ UNCHANGED <<stage, received>>
  BY ConfirmAnswersOwn DEF TypeOK
<1>2. PICK w \in 1 .. Len(waiters) :
        /\ answers' = [answers EXCEPT ![waiters[w].msg] = <<RC_NORM>>]
        /\ KeyOf(Msg[waiters[w].msg]) = KeyOf(Msg[m])
  BY ConfirmAnswersOwn
<1> DEFINE x == waiters[w].msg
<1>3. x \in Msgs
  BY MessagesTyped
<1>4. answers' = [answers EXCEPT ![x] = <<RC_NORM>>] /\ KeyOf(Msg[x]) = KeyOf(Msg[m])
  BY <1>2
<1> HIDE DEF x
<1>5. Contains(answers'[x], RC_NORM) /\ \A y \in Msgs : y # x => answers'[y] = answers[y]
  <2>1. Contains(<<RC_NORM>>, RC_NORM)
    BY DEF Contains
  <2> QED
    BY <1>1, <1>3, <1>4, <2>1
<1>6. /\ 1 \in 1 .. Len(confirms) /\ confirms[1] = m
      /\ \A i \in 1 .. Len(confirms') :
           i + 1 \in 1 .. Len(confirms) /\ confirms'[i] = confirms[i + 1] /\ i + 1 # 1
  BY <1>1, Shrunk
<1>7. \A i \in 1 .. Len(confirms) : i # 1 => confirms[i] # m
  <2>1. ASSUME NEW i \in 1 .. Len(confirms), i # 1, confirms[i] = m PROVE FALSE
    <3>1. 1 < i
      BY <1>6, <2>1
    <3>2. Ahead(waiters, m, m) /\ Awaited(waiters, m)
      BY <1>6, <2>1, <3>1 DEF AInv, Books, Owed
    <3>3. PICK a \in 1 .. Len(waiters) : waiters[a].msg = m
      BY <3>2 DEF Awaited
    <3>4. a < a
      BY <3>2, <3>3 DEF Ahead
    <3> QED
      BY <3>3, <3>4
  <2> QED
    BY <2>1
<1>8. ASSUME NEW k \in Keys, k[2] # HeartbeatId
      PROVE  Backed(Confirmed(k), Coming(k), MsgsOf(k) \cap received)'
  <2>1. Backed(Confirmed(k), Coming(k), MsgsOf(k) \cap received)
    BY <1>8 DEF NInv
  <2>2. CASE KeyOf(Msg[m]) = k
    <3>1. m \in Coming(k)
      BY <1>6, <2>2 DEF Coming, MsgsOf
    <3>2. Confirmed(k)' = Confirmed(k) \cup {x}
      BY <1>3, <1>4, <1>5, <2>2 DEF Confirmed, MsgsOf
    <3>3. Coming(k)' \subseteq Coming(k) \ {m}
      BY <1>6, <1>7 DEF Coming
    <3>4. Backed(Confirmed(k) \cup {x}, Coming(k) \ {m}, MsgsOf(k) \cap received)
      BY <2>1, <3>1, BackedMoves
    <3>5. Backed(Confirmed(k) \cup {x}, Coming(k)', MsgsOf(k) \cap received)
      BY <3>3, <3>4, BackedLess
    <3> QED
      BY <1>1, <3>2, <3>5
  <2>3. CASE KeyOf(Msg[m]) # k
    <3>1. Confirmed(k)' = Confirmed(k)
      BY <1>3, <1>4, <1>5, <2>3 DEF Confirmed, MsgsOf
    <3>2. Coming(k)' \subseteq Coming(k)
      BY <1>6 DEF Coming
    <3>3. Backed(Confirmed(k), Coming(k)', MsgsOf(k) \cap received)
      BY <2>1, <3>2, BackedLess
    <3> QED
      BY <1>1, <3>1, <3>3
  <2> QED
    BY <2>2, <2>3
<1> QED
  BY <1>1, <1>8 DEF NInv

LEMMA StepsBacked ==
  ASSUME TypeOK, AInv({}),
         \/ \E m \in Msgs : StartSending(m) \/ ProcessFirst(m) \/ DriverSentFrame(m)
         \/ CheckConfirmWaiters
  PROVE  DoneStays /\ NormsStay /\ UNCHANGED <<confirms, received>>
<1>1. ASSUME NEW m \in Msgs, StartSending(m)
      PROVE  DoneStays /\ NormsStay /\ UNCHANGED <<confirms, received>>
  BY <1>1 DEF StartSending, DoneStays, NormsStay, TypeOK
<1>2. ASSUME NEW m \in Msgs, ProcessFirst(m)
      PROVE  DoneStays /\ NormsStay /\ UNCHANGED <<confirms, received>>
  <2>1. Dispatch(m, framesOut, stage, answers) /\ stage[m] # "done" /\ UNCHANGED <<confirms, received>>
    BY <1>2 DEF ProcessFirst, history
  <2>2. stage \in [Msgs -> Stages] /\ answers \in [Msgs -> Seq(RCs)]
    BY DEF TypeOK
  <2> QED
    BY <2>1, <2>2, DispatchStays DEF DoneStays, NormsStay
<1>3. ASSUME NEW m \in Msgs, DriverSentFrame(m)
      PROVE  DoneStays /\ NormsStay /\ UNCHANGED <<confirms, received>>
  <2>1. /\ Dispatch(m, Tail(framesOut), stage, answers) /\ UNCHANGED <<confirms, received>>
        /\ framesOut # <<>> /\ Head(framesOut).kind = "data" /\ Head(framesOut).msg = m
    BY <1>3 DEF DriverSentFrame, DriverHolds
  <2>2. stage \in [Msgs -> Stages] /\ answers \in [Msgs -> Seq(RCs)] /\ framesOut \in Seq(OutFrame)
    BY DEF TypeOK
  <2>3. 1 \in 1 .. Len(framesOut) /\ Head(framesOut) = framesOut[1]
    BY <2>1, <2>2, Shrunk
  <2>4. stage[m] = "driver"
    BY <2>1, <2>3 DEF AInv, Books, Carried
  <2> QED
    BY <2>1, <2>2, <2>4, DispatchStays DEF DoneStays, NormsStay
<1>4. CASE CheckConfirmWaiters
  <2>1. /\ UNCHANGED <<stage, confirms, received>>
        /\ \A x \in Msgs : answers'[x] = answers[x] \/ answers'[x] = Append(answers[x], RC_CONF_TIMEOUT)
    BY <1>4 DEF CheckConfirmWaiters, history
  <2>2. \A x \in Msgs : answers[x] \in Seq(RCs)
    BY DEF TypeOK
  <2>3. RC_CONF_TIMEOUT \in RCs /\ RC_CONF_TIMEOUT # RC_NORM
    BY DEF RCs, RC_CONF_TIMEOUT, RC_NORM
  <2>4. NormsStay
    BY <2>1, <2>2, <2>3, AnswerNoNorm DEF NormsStay
  <2> QED
    BY <2>1, <2>4 DEF DoneStays
<1> QED
  BY <1>1, <1>2, <1>3, <1>4

LEMMA NormsKept ==
  ASSUME Orderly, TypeOK, AInv({}), NInv, [Next]_vars
  PROVE  NInv'
<1>1. CASE \/ \E m \in Msgs : StartSending(m) \/ ProcessFirst(m) \/ DriverSentFrame(m)
           \/ CheckConfirmWaiters
  BY <1>1, StepsBacked, OthersBacked
<1>2. ASSUME NEW m \in Msgs, DriverSentLast(m) \/ ReceiveConfirm(m)
      PROVE  NInv'
  BY <1>2, DriverSentLastBacked, ReceiveConfirmBacked
<1>3. CASE LoseConfirm
  BY <1>3, LoseConfirmBacked
<1>4. ~DriverFailed
  BY DEF DriverFailed, Orderly
<1>5. CASE DriverSentConfirm \/ Receive \/ FinishReceive \/ UNCHANGED vars
  <2>1. UNCHANGED <<stage, answers, confirms, received>>
    <3>1. CASE Receive
      BY <3>1 DEF Receive, RejectFrame, AcceptFrame, AcceptLastFrame, history
    <3> QED
      BY <1>5, <3>1 DEF DriverSentConfirm, FinishReceive, vars, nodeVars, history
  <2> QED
    BY <2>1, OthersBacked DEF DoneStays, NormsStay
<1> QED
  BY <1>1, <1>2, <1>3, <1>4, <1>5 DEF Next, DriverSent

(* Under the same assumptions a confirmation that answers a message other  *)
(* than its own still answers one only: of the messages of a key, however  *)
(* many are on their way, no more are reported as sent than the peer has   *)
(* received (can_net.c:560).                                               *)
THEOREM NormsBacked == Orderly => (Spec => []NormsAreBacked)
<1> SUFFICES ASSUME Orderly PROVE Spec => []NormsAreBacked
  OBVIOUS
<1>1. Init => NInv
  <2> SUFFICES ASSUME Init PROVE NInv
    OBVIOUS
  <2>1. \A m \in Msgs : ~Contains(answers[m], RC_NORM)
    BY EmptySeq DEF Init, Contains
  <2>2. ASSUME NEW k \in Keys
        PROVE  Confirmed(k) = {} /\ Coming(k) = {} /\ MsgsOf(k) \cap received = {}
    <3>1. Confirmed(k) = {}
      BY <2>1 DEF Confirmed, MsgsOf
    <3>2. Coming(k) = {}
      BY EmptySeq DEF Coming, Init
    <3> QED
      BY <3>1, <3>2 DEF Init
  <2>3. Backed({}, {}, {})
    BY FS_EmptySet DEF Backed
  <2>4. received = {}
    BY DEF Init
  <2> QED
    BY <2>2, <2>3, <2>4 DEF NInv
<1>2. NInv /\ AInv({}) /\ TypeOK /\ [Next]_vars => NInv'
  BY NormsKept
<1>3. NInv => NormsAreBacked
  <2> SUFFICES ASSUME NInv, NEW k \in Keys, k[2] # HeartbeatId
               PROVE  Cardinality(Confirmed(k)) <= Cardinality(MsgsOf(k) \cap received)
    BY DEF NormsAreBacked, Confirmed, MsgsOf
  <2>1. Backed(Confirmed(k), Coming(k), MsgsOf(k) \cap received)
    BY DEF NInv
  <2>2. /\ Cardinality(Confirmed(k)) \in Nat /\ Cardinality(Coming(k)) \in Nat
        /\ Cardinality(MsgsOf(k) \cap received) \in Nat
    BY <2>1, FS_CardinalityType DEF Backed
  <2> QED
    BY <2>1, <2>2 DEF Backed
<1> QED
  BY <1>1, <1>2, <1>3, BooksAlways, TypeCorrect, PTL DEF Spec

-----------------------------------------------------------------------------
(* The order in which messages are sent                                    *)

(* Messages of this node and of its peers do not share an atom, and there  *)
(* are fewer messages than atom->sending can count.                        *)
Apart ==
  /\ \A m \in Msgs : Msg[m].id # ZeroId /\ \A f \in PeerFrames : KeyOf(f) # KeyOf(Msg[m])
  /\ IsFiniteSet(Msgs) /\ Cardinality(Msgs) + 1 < SendingMod

Mine(k) == \E m \in Msgs : MyKey(m) = k

Precedes(sub, m, n) ==
  \E i, j \in 1 .. Len(sub) : i < j /\ sub[i] = m /\ sub[j] = n

(* An atom this node sends on receives nothing, counts its queue and the   *)
(* message before it, and queues its own messages as they were submitted;  *)
(* on any other nothing is sent.                                           *)
Proper(a, sub) ==
  /\ Mine(KeyOf(a)) =>
       /\ ~a.receiving /\ a.sending = Len(a.queue) + 1
       /\ \A j \in 1 .. Len(a.queue) : a.queue[j] \in Msgs /\ MyKey(a.queue[j]) = KeyOf(a)
       /\ \A i, j \in 1 .. Len(a.queue) : i < j => Precedes(sub, a.queue[i], a.queue[j])
  /\ ~Mine(KeyOf(a)) => a.sending = 0 /\ a.queue = <<>>

AllProper(list, sub) == \A i \in 1 .. Len(list) : Proper(list[i], sub)

Single(list) ==
  \A i, j \in 1 .. Len(list) :
    Mine(KeyOf(list[i])) /\ KeyOf(list[i]) = KeyOf(list[j]) => i = j

HasAtom(list, k) == \E i \in 1 .. Len(list) : KeyOf(list[i]) = k

OnQueue(list, m) == \E i, j \in Nat : Position(list, i, j) /\ list[i].queue[j] = m

Lists(list, sub, stg) ==
  /\ AllProper(list, sub) /\ Single(list)
  /\ \A m \in Msgs : stg[m] = "queued" => OnQueue(list, m)
  /\ \A m \in Msgs : stg[m] \in {"starting", "driver"} => HasAtom(list, MyKey(m))

(* No callbacks run on an atom this node sends on.                         *)
Elsewhere(list, at) == \A i \in 1 .. Len(list) : Mine(KeyOf(list[i])) => at # i

WireFrame == [kind : {"data"}, msg : Msgs, num : Int, lfb : BOOLEAN]

(* The next frame of the same atom, if any, comes after place j.           *)
NoneBetween(wr, i, j) ==
  \A h \in 1 .. Len(wr) : i < h /\ h < j => MyKey(wr[h].msg) # MyKey(wr[i].msg)

LastOfKey(wr, i) ==
  \A h \in 1 .. Len(wr) : i < h => MyKey(wr[h].msg) # MyKey(wr[i].msg)

Follows(sub, e, f) ==
  IF e.lfb THEN f.num = 0 /\ Precedes(sub, e.msg, f.msg)
           ELSE f.msg = e.msg /\ f.num = e.num + 1

Stamped(sub, stg) ==
  \A m \in Msgs : stg[m] # "idle" => \E i \in 1 .. Len(sub) : sub[i] = m

(* One message of an atom is in progress, before those of its queue.       *)
Turns(sub, stg) ==
  \A m, n \in Msgs :
    MyKey(m) = MyKey(n) /\ stg[m] \in {"starting", "driver"} =>
      /\ stg[n] \in {"starting", "driver"} => m = n
      /\ stg[n] = "queued" => Precedes(sub, m, n)

Positions(stg, ps) ==
  \A m \in Msgs :
    /\ stg[m] \in {"idle", "starting", "queued"} => ps[m] = 0
    /\ stg[m] = "driver" => Verdict(m) = RC_NORM

OnWire(wr, sub, stg) ==
  \A i \in 1 .. Len(wr) :
    /\ stg[wr[i].msg] \in {"driver", "done"}
    /\ wr[i].lfb => stg[wr[i].msg] = "done"
    /\ \A n \in Msgs :
         MyKey(n) = MyKey(wr[i].msg) /\ stg[n] \in {"starting", "queued", "driver"} =>
           wr[i].msg = n \/ Precedes(sub, wr[i].msg, n)

Resumes(wr, stg, ps) ==
  \A i \in 1 .. Len(wr) : LastOfKey(wr, i) =>
    /\ ~wr[i].lfb => stg[wr[i].msg] = "driver" /\ ps[wr[i].msg] = wr[i].num + 2
    /\ wr[i].lfb => \A m \in Msgs : MyKey(m) = MyKey(wr[i].msg) /\ stg[m] = "driver" => ps[m] = 1

Linked(wr, sub) ==
  \A i, j \in 1 .. Len(wr) :
    i < j /\ MyKey(wr[i].msg) = MyKey(wr[j].msg) /\ NoneBetween(wr, i, j) =>
      Follows(sub, wr[i], wr[j])

Order(wr, sub, stg, ps) ==
  /\ Stamped(sub, stg) /\ Turns(sub, stg) /\ Positions(stg, ps) /\ OnWire(wr, sub, stg)
  /\ Resumes(wr, stg, ps) /\ Linked(wr, sub)

-----------------------------------------------------------------------------
(* Changes of the list of atoms                                            *)

LEMMA PrecedesGrows ==
  ASSUME NEW sub \in Seq(Msgs), NEW e \in Msgs, NEW sub2, sub2 = Append(sub, e)
  PROVE  /\ \A m, n : Precedes(sub, m, n) => Precedes(sub2, m, n)
         /\ \A i \in 1 .. Len(sub) : Precedes(sub2, sub[i], e)
         /\ \A i \in 1 .. Len(sub) : \E j \in 1 .. Len(sub2) : sub2[j] = sub[i]
         /\ \E j \in 1 .. Len(sub2) : sub2[j] = e
<1>1. /\ \A i \in 1 .. Len(sub) : i \in 1 .. Len(sub2) /\ sub2[i] = sub[i] /\ i < Len(sub2)
      /\ Len(sub2) \in 1 .. Len(sub2) /\ sub2[Len(sub2)] = e
  BY Grown
<1>2. \A m, n : Precedes(sub, m, n) => Precedes(sub2, m, n)
  BY <1>1 DEF Precedes
<1>3. \A i \in 1 .. Len(sub) : Precedes(sub2, sub[i], e)
  BY <1>1 DEF Precedes
<1> QED
  BY <1>1, <1>2, <1>3

LEMMA ProperGrows ==
  ASSUME NEW sub \in Seq(Msgs), NEW e \in Msgs, NEW a, Proper(a, sub)
  PROVE  Proper(a, Append(sub, e))
<1>1. \A m, n : Precedes(sub, m, n) => Precedes(Append(sub, e), m, n)
  BY PrecedesGrows
<1> QED
  BY <1>1 DEF Proper

(* An atom is added.                                                       *)
LEMMA AppendedLists ==
  ASSUME NEW list \in Seq(Atom), NEW a \in Atom, NEW sub,
         AllProper(list, sub), Single(list), Proper(a, sub),
         Mine(KeyOf(a)) => ~HasAtom(list, KeyOf(a)), NEW new, new = Append(list, a)
  PROVE  /\ AllProper(new, sub) /\ Single(new)
         /\ \A k : HasAtom(list, k) => HasAtom(new, k)
         /\ HasAtom(new, KeyOf(a))
         /\ \A m : OnQueue(list, m) => OnQueue(new, m)
         /\ \A at \in 0 .. Len(list) : Elsewhere(list, at) => Elsewhere(new, at)
<1>1. /\ Len(list) \in Nat /\ Len(new) = Len(list) + 1
      /\ \A i \in 1 .. Len(list) : i \in 1 .. Len(new) /\ new[i] = list[i] /\ i < Len(new)
      /\ Len(new) \in 1 .. Len(new) /\ new[Len(new)] = a
      /\ \A i \in 1 .. Len(new) : i \in 1 .. Len(list) \/ i = Len(new)
  BY Grown
<1>2. AllProper(new, sub)
  BY <1>1 DEF AllProper
<1>3. Single(new)
  <2> SUFFICES ASSUME NEW i \in 1 .. Len(new), NEW j \in 1 .. Len(new),
                      Mine(KeyOf(new[i])), KeyOf(new[i]) = KeyOf(new[j])
               PROVE  i = j
    BY DEF Single
  <2>1. CASE i \in 1 .. Len(list) /\ j \in 1 .. Len(list)
    BY <1>1, <2>1 DEF Single
  <2>2. CASE i = Len(new) /\ j = Len(new)
    BY <2>2
  <2>3. CASE i \in 1 .. Len(list) /\ j = Len(new)
    BY <1>1, <2>3 DEF HasAtom
  <2>4. CASE i = Len(new) /\ j \in 1 .. Len(list)
    BY <1>1, <2>4 DEF HasAtom
  <2> QED
    BY <1>1, <2>1, <2>2, <2>3, <2>4
<1>4. /\ \A k : HasAtom(list, k) => HasAtom(new, k)
      /\ HasAtom(new, KeyOf(a))
  BY <1>1 DEF HasAtom
<1>5. \A m : OnQueue(list, m) => OnQueue(new, m)
  BY <1>1 DEF OnQueue, Position
<1>6. \A at \in 0 .. Len(list) : Elsewhere(list, at) => Elsewhere(new, at)
  BY <1>1 DEF Elsewhere
<1> QED
  BY <1>2, <1>3, <1>4, <1>5, <1>6

(* The list new for list, where a has taken the place i0.                  *)
Replaced(list, i0, a, new, sub) ==
  /\ AllProper(new, sub) /\ Single(new)
  /\ \A k : Mine(k) /\ HasAtom(list, k) => HasAtom(new, k)
  /\ \A m : /\ OnQueue(list, m)
            /\ \A j \in 1 .. Len(list[i0].queue) : list[i0].queue[j] = m =>
                 \E h \in Nat : h \in 1 .. Len(a.queue) /\ a.queue[h] = m
            => OnQueue(new, m)
  /\ \A at : Elsewhere(list, at) => Elsewhere(new, at)

(* An atom changes and keeps its key, or one that nothing is sent on       *)
(* becomes another of that kind.                                           *)
LEMMA ReplacedLists ==
  ASSUME NEW list \in Seq(Atom), NEW i0 \in 1 .. Len(list), NEW a, NEW sub,
         AllProper(list, sub), Single(list), Proper(a, sub),
         \/ KeyOf(a) = KeyOf(list[i0])
         \/ ~Mine(KeyOf(a)) /\ ~Mine(KeyOf(list[i0])),
         NEW new, new = [list EXCEPT ![i0] = a]
  PROVE  Replaced(list, i0, a, new, sub)
<1>1. /\ Len(new) = Len(list) /\ new[i0] = a
      /\ \A i \in 1 .. Len(list) : i # i0 => new[i] = list[i]
  OBVIOUS
<1>2. \A i \in 1 .. Len(list) : Mine(KeyOf(list[i])) \/ Mine(KeyOf(new[i])) => KeyOf(new[i]) = KeyOf(list[i])
  BY <1>1
<1>3. AllProper(new, sub)
  BY <1>1 DEF AllProper
<1>4. Single(new)
  <2> SUFFICES ASSUME NEW i \in 1 .. Len(list), NEW j \in 1 .. Len(list),
                      Mine(KeyOf(new[i])), KeyOf(new[i]) = KeyOf(new[j])
               PROVE  i = j
    BY <1>1 DEF Single
  <2>1. KeyOf(list[i]) = KeyOf(new[i]) /\ KeyOf(list[j]) = KeyOf(new[j])
    BY <1>2
  <2> QED
    BY <2>1 DEF Single
<1>5. \A k : Mine(k) /\ HasAtom(list, k) => HasAtom(new, k)
  BY <1>1, <1>2 DEF HasAtom
<1>6. ASSUME NEW m, OnQueue(list, m),
             \A j \in 1 .. Len(list[i0].queue) : list[i0].queue[j] = m =>
               \E h \in Nat : h \in 1 .. Len(a.queue) /\ a.queue[h] = m
      PROVE  OnQueue(new, m)
  <2>1. PICK i, j \in Nat : Position(list, i, j) /\ list[i].queue[j] = m
    BY <1>6 DEF OnQueue
  <2>2. CASE i = i0
    <3>1. PICK h \in Nat : h \in 1 .. Len(a.queue) /\ a.queue[h] = m
      BY <1>6, <2>1, <2>2 DEF Position
    <3>2. Position(new, i, h) /\ new[i].queue[h] = m
      BY <1>1, <2>2, <3>1 DEF Position
    <3> QED
      BY <3>2 DEF OnQueue
  <2>3. CASE i # i0
    <3>1. Position(new, i, j) /\ new[i].queue[j] = m
      BY <1>1, <2>1, <2>3 DEF Position
    <3> QED
      BY <3>1 DEF OnQueue
  <2> QED
    BY <2>2, <2>3
<1>7. \A at : Elsewhere(list, at) => Elsewhere(new, at)
  BY <1>1, <1>2 DEF Elsewhere
<1> QED
  BY <1>3, <1>4, <1>5, <1>6, <1>7 DEF Replaced

(* An atom with an empty queue is freed.                                   *)
LEMMA RemovedLists ==
  ASSUME NEW list \in Seq(Atom), NEW i0 \in 1 .. Len(list), NEW sub,
         AllProper(list, sub), Single(list), list[i0].queue = <<>>,
         NEW new, new = RemoveAt(list, i0)
  PROVE  /\ AllProper(new, sub) /\ Single(new)
         /\ \A k : HasAtom(list, k) /\ k # KeyOf(list[i0]) => HasAtom(new, k)
         /\ \A m : OnQueue(list, m) => OnQueue(new, m)
<1> DEFINE From(i) == IF i < i0 THEN i ELSE i + 1
           To(i) == IF i < i0 THEN i ELSE i - 1
<1>1. /\ Len(list) \in Nat /\ Len(new) = Len(list) - 1
      /\ \A i \in 1 .. Len(list) - 1 : new[i] = IF i < i0 THEN list[i] ELSE list[i + 1]
  BY RemoveAtProperties, LenProperties
<1>2. \A i \in 1 .. Len(new) : From(i) \in 1 .. Len(list) /\ new[i] = list[From(i)]
  BY <1>1
<1>3. \A i, j \in 1 .. Len(new) : From(i) = From(j) => i = j
  BY <1>1
<1>4. \A i \in 1 .. Len(list) : i # i0 => To(i) \in 1 .. Len(new) /\ To(i) \in Nat /\ new[To(i)] = list[i]
  BY <1>1
<1> HIDE DEF From, To
<1>5. AllProper(new, sub)
  BY <1>2 DEF AllProper
<1>6. Single(new)
  BY <1>2, <1>3 DEF Single
<1>7. \A k : HasAtom(list, k) /\ k # KeyOf(list[i0]) => HasAtom(new, k)
  BY <1>4 DEF HasAtom
<1>8. ASSUME NEW m, OnQueue(list, m) PROVE OnQueue(new, m)
  <2>1. PICK i, j \in Nat : Position(list, i, j) /\ list[i].queue[j] = m
    BY <1>8 DEF OnQueue
  <2>2. Len(list[i0].queue) = 0
    BY EmptySeq
  <2>3. i # i0
    BY <2>1, <2>2 DEF Position
  <2>4. Position(new, To(i), j) /\ new[To(i)].queue[j] = m /\ To(i) \in Nat
    BY <1>4, <2>1, <2>3 DEF Position
  <2> QED
    BY <2>4 DEF OnQueue
<1> QED
  BY <1>5, <1>6, <1>7, <1>8

(* A queue is shorter than the messages are many: its count does not wrap. *)
LEMMA QueueShort ==
  ASSUME NEW bad, TypeOK, Apart, AInv(bad), NEW m \in Msgs, stage[m] = "idle", NEW i \in 1 .. Len(atoms)
  PROVE  Len(atoms[i].queue) + 2 < SendingMod
<1> DEFINE q == atoms[i].queue
           f == [j \in 1 .. Len(q) |-> q[j]]
<1>1. Len(atoms) \in Nat /\ q \in Seq(Msgs) /\ Len(q) \in Nat
  <2>1. Len(atoms) \in Nat /\ atoms[i] \in Atom
    BY ElementOfSeq, LenProperties DEF TypeOK
  <2>2. q \in Seq(Msgs)
    BY <2>1 DEF Atom
  <2> QED
    BY <2>1, <2>2, LenProperties
<1>2. ASSUME NEW j \in 1 .. Len(q)
      PROVE  /\ q[j] \in Msgs \ {m}
             /\ \A h \in 1 .. Len(q) : q[h] = q[j] => h = j
  <2>1. i \in Nat /\ j \in Nat /\ Position(atoms, i, j)
    BY <1>1 DEF Position
  <2>2. q[j] \in Msgs
    BY <2>1, MessagesTyped
  <2>3. stage[q[j]] = "queued"
    BY <2>1 DEF AInv, Queues
  <2>4. ASSUME NEW h \in 1 .. Len(q), q[h] = q[j] PROVE h = j
    <3>1. h \in Nat /\ Position(atoms, i, h)
      BY <1>1 DEF Position
    <3> QED
      BY <2>1, <2>4, <3>1, QueuedOnce DEF AInv
  <2> QED
    BY <2>2, <2>3, <2>4
<1>3. IsFiniteSet(Msgs \ {m}) /\ Cardinality(Msgs \ {m}) = Cardinality(Msgs) - 1 /\ Cardinality(Msgs) \in Nat
  BY FS_RemoveElement, FS_CardinalityType DEF Apart
<1> HIDE DEF q
<1>4. f \in Injection(1 .. Len(q), Msgs \ {m})
  BY <1>2 DEF Injection, IsInjective
<1>5. Cardinality(1 .. Len(q)) <= Cardinality(Msgs \ {m})
  BY <1>3, <1>4, FS_Injection
<1>6. Cardinality(1 .. Len(q)) = Len(q)
  <2>1. \A l \in Nat : Cardinality(1 .. l) = IF 1 > l THEN 0 ELSE l - 1 + 1
    BY FS_Interval
  <2> QED
    BY <1>1, <2>1
<1>7. Len(q) <= Cardinality(Msgs) - 1
  BY <1>3, <1>5, <1>6
<1> QED
  BY <1>1, <1>3, <1>7, WidthAssumption DEF Apart, q

LEMMA StartSendingLists ==
  ASSUME NEW bad, TypeOK, Apart, AInv(bad), NEW stg \in [Msgs -> Stages],
         Lists(atoms, submitted, stg), Elsewhere(atoms, window.at), Stamped(submitted, stg),
         \A x \in Msgs : stage[x] = "queued" => stg[x] = "queued",
         NEW m \in Msgs, StartSending(m)
  PROVE  /\ Elsewhere(atoms', window'.at)
         /\ \/ /\ stage' = [stage EXCEPT ![m] = "queued"]
               /\ Lists(atoms', submitted', [stg EXCEPT ![m] = "queued"])
            \/ /\ stage' = [stage EXCEPT ![m] = "starting"] /\ ~HasAtom(atoms, MyKey(m))
               /\ Lists(atoms', submitted', [stg EXCEPT ![m] = "starting"])
<1> DEFINE k == KeyOf(Msg[m])
           list == GetAtom(atoms, k)
           i == FindAtom(list, k)
           n == CountUp(list[i].sending)
           a == [list[i] EXCEPT !.sending = n, !.queue = Enqueue(@, m)]
           b == [list[i] EXCEPT !.sending = n]
<1>1. /\ \/ /\ MustQueue(n)
            /\ atoms' = [list EXCEPT ![i] = a] /\ stage' = [stage EXCEPT ![m] = "queued"]
         \/ /\ ~MustQueue(n)
            /\ atoms' = [list EXCEPT ![i] = b] /\ stage' = [stage EXCEPT ![m] = "starting"]
      /\ stage[m] = "idle" /\ submitted' = Append(submitted, m)
      /\ UNCHANGED window
  BY Zenon DEF StartSending
<1>2. /\ atoms \in Seq(Atom) /\ k \in Nat \X Ids /\ submitted \in Seq(Msgs)
      /\ stage \in [Msgs -> Stages] /\ Mine(k) /\ MyKey(m) = k
  BY KeysTyped DEF TypeOK, Mine, MyKey
<1>3. AllProper(atoms, submitted') /\ Single(atoms)
  BY <1>1, <1>2, ProperGrows DEF Lists, AllProper
<1>4. /\ list \in Seq(Atom) /\ i \in 1 .. Len(list) /\ KeyOf(list[i]) = k
      /\ \A j \in 1 .. Len(atoms) : list[j] = atoms[j]
      /\ \A j \in 1 .. Len(list) : j \in 1 .. Len(atoms) \/ list[j] = FreshAtom(k)
      /\ FreshAtom(k) \in Atom
  BY <1>2, GetAtomHas
<1>5. Len(atoms) \in Nat /\ window.at \in 0 .. Len(atoms)
  BY WindowAt
<1>6. CASE FindAtom(atoms, k) = 0
  <2>1. list = Append(atoms, FreshAtom(k)) /\ ~HasAtom(atoms, k)
    BY <1>2, <1>6, FindAtomFinds DEF GetAtom, HasAtom
  <2>2. /\ Len(list) = Len(atoms) + 1
        /\ \A j \in 1 .. Len(atoms) : j \in 1 .. Len(list) /\ list[j] = atoms[j] /\ j < Len(list)
        /\ Len(list) \in 1 .. Len(list) /\ list[Len(list)] = FreshAtom(k)
        /\ \A j \in 1 .. Len(list) : j \in 1 .. Len(atoms) \/ j = Len(list)
    BY <1>2, <1>4, <2>1, Grown
  <2>3. i = Len(list)
    <3>1. i \notin 1 .. Len(atoms)
      BY <1>4, <2>1 DEF HasAtom
    <3> QED
      BY <1>4, <2>2, <3>1
  <2>4. n = 1 /\ ~MustQueue(n)
    <3>1. list[i].sending = 0
      BY <2>2, <2>3 DEF FreshAtom
    <3>2. (0 + 1) % SendingMod = 1
      BY WidthAssumption
    <3> QED
      BY <3>1, <3>2 DEF CountUp, MustQueue
  <2> DEFINE c == [FreshAtom(k) EXCEPT !.sending = 1]
  <2>5. b = c
    BY <2>2, <2>3, <2>4
  <2>6. c \in Atom /\ KeyOf(c) = k /\ Proper(c, submitted')
    <3>1. c \in Atom /\ KeyOf(c) = k
      <4>1. 1 \in 0 .. SendingMod - 1
        BY WidthAssumption
      <4>2. c \in Atom
        BY <1>4, <4>1 DEF Atom
      <4>3. KeyOf(c) = k
        BY <1>2 DEF FreshAtom, KeyOf
      <4> QED
        BY <4>2, <4>3
    <3>2. ~c.receiving /\ c.sending = 1 /\ Len(c.queue) = 0
      BY EmptySeq DEF FreshAtom
    <3> QED
      BY <1>2, <3>1, <3>2 DEF Proper
  <2> HIDE DEF n, a, b, c
  <2>7. atoms' = Append(atoms, c)
    <3>1. atoms' = [list EXCEPT ![Len(list)] = c]
      BY <1>1, <2>3, <2>4, <2>5
    <3> HIDE DEF list, i
    <3>2. /\ Append(atoms, c) \in Seq(Atom) /\ Len(Append(atoms, c)) = Len(list)
          /\ \A j \in 1 .. Len(atoms) : Append(atoms, c)[j] = atoms[j]
          /\ Append(atoms, c)[Len(list)] = c
      BY <1>2, <1>5, <2>2, <2>6, AppendProperties
    <3>3. /\ atoms' \in Seq(Atom) /\ Len(atoms') = Len(list)
      BY <1>4, <2>2, <2>6, <3>1, ListTyped
    <3>4. \A j \in 1 .. Len(list) : atoms'[j] = Append(atoms, c)[j]
      BY <1>4, <2>2, <3>1, <3>2
    <3> QED
      BY <3>2, <3>3, <3>4, SeqEqual
  <2>8. /\ AllProper(atoms', submitted') /\ Single(atoms')
        /\ \A x : HasAtom(atoms, x) => HasAtom(atoms', x)
        /\ HasAtom(atoms', k)
        /\ \A x : OnQueue(atoms, x) => OnQueue(atoms', x)
        /\ \A at \in 0 .. Len(atoms) : Elsewhere(atoms, at) => Elsewhere(atoms', at)
    BY <1>2, <1>3, <2>1, <2>6, <2>7, AppendedLists
  <2>9. stage' = [stage EXCEPT ![m] = "starting"]
    BY <1>1, <2>4
  <2>10. Lists(atoms', submitted', [stg EXCEPT ![m] = "starting"])
    BY <1>2, <2>8 DEF Lists
  <2> QED
    BY <1>1, <1>2, <1>5, <2>1, <2>8, <2>9, <2>10
<1>7. CASE FindAtom(atoms, k) # 0
  <2>1. list = atoms
    BY <1>7 DEF GetAtom
  <2>2. list[i] \in Atom /\ Proper(list[i], submitted')
    BY <1>3, <1>4, <2>1, ElementOfSeq DEF AllProper
  <2>3. /\ list[i].queue \in Seq(Msgs) /\ Len(list[i].queue) \in Nat
        /\ ~list[i].receiving /\ list[i].sending = Len(list[i].queue) + 1
    BY <1>2, <1>4, <2>2, LenProperties DEF Atom, Proper
  <2>4. Len(list[i].queue) + 2 < SendingMod
    BY <1>1, <1>4, <2>1, QueueShort
  <2>5. n = Len(list[i].queue) + 2 /\ MustQueue(n)
    <3> DEFINE l == Len(list[i].queue)
    <3>1. l + 2 \in 0 .. SendingMod - 1
      BY <2>3, <2>4, WidthAssumption
    <3> HIDE DEF l
    <3>2. ((l + 1) + 1) % SendingMod = l + 2
      <4>1. \A x \in 0 .. SendingMod - 1 : x % SendingMod = x
        BY WidthAssumption
      <4>2. l \in Nat
        BY <2>3 DEF l
      <4>3. (l + 1) + 1 = l + 2
        BY <4>2
      <4> QED
        BY <3>1, <4>1, <4>3
    <3>3. n = l + 2
      BY <2>3, <3>2 DEF CountUp, l
    <3> QED
      BY <2>3, <3>3 DEF MustQueue, l
  <2>6. /\ a.queue = Append(list[i].queue, m) /\ a.sending = n /\ ~a.receiving
        /\ KeyOf(a) = k
    BY <1>4, <2>2, <2>3 DEF Atom, Enqueue, KeyOf
  <2> HIDE DEF n, a, b
  <2> DEFINE q == list[i].queue
  <2>7. /\ Len(a.queue) = Len(q) + 1
        /\ \A j \in 1 .. Len(q) : j \in 1 .. Len(a.queue) /\ a.queue[j] = q[j] /\ j < Len(a.queue)
        /\ Len(a.queue) \in 1 .. Len(a.queue) /\ a.queue[Len(a.queue)] = m
        /\ \A j \in 1 .. Len(a.queue) : j \in 1 .. Len(q) \/ j = Len(a.queue)
    BY <2>3, <2>6, Grown
  <2>8. Proper(a, submitted')
    <3>1. /\ \A j \in 1 .. Len(q) : q[j] \in Msgs /\ MyKey(q[j]) = k
          /\ \A p, j \in 1 .. Len(q) : p < j => Precedes(submitted', q[p], q[j])
      BY <1>2, <1>4, <2>2 DEF Proper
    <3>2. \A p \in 1 .. Len(q) : Precedes(submitted', q[p], m)
      <4> SUFFICES ASSUME NEW p \in 1 .. Len(q) PROVE Precedes(submitted', q[p], m)
        OBVIOUS
      <4>1. i \in Nat /\ p \in Nat /\ Position(atoms, i, p) /\ atoms[i].queue[p] = q[p]
        BY <1>4, <1>5, <2>1, <2>3 DEF Position
      <4>2. stg[q[p]] = "queued"
        BY <3>1, <4>1 DEF AInv, Queues
      <4>3. \E j \in 1 .. Len(submitted) : submitted[j] = q[p]
        BY <3>1, <4>2 DEF Stamped
      <4>4. submitted \in Seq(Msgs) /\ submitted' = Append(submitted, m)
        BY <1>1, <1>2
      <4>5. \A j \in 1 .. Len(submitted) : Precedes(submitted', submitted[j], m)
        BY <4>4, PrecedesGrows
      <4> QED
        BY <4>3, <4>5
    <3> HIDE DEF q
    <3>3. \A j \in 1 .. Len(a.queue) : a.queue[j] \in Msgs /\ MyKey(a.queue[j]) = k
      BY <1>2, <2>7, <3>1
    <3>4. ASSUME NEW p \in 1 .. Len(a.queue), NEW j \in 1 .. Len(a.queue), p < j
          PROVE  Precedes(submitted', a.queue[p], a.queue[j])
      <4>1. p \in 1 .. Len(q)
        BY <2>3, <2>7, <3>4 DEF q
      <4>2. CASE j \in 1 .. Len(q)
        BY <2>7, <3>1, <3>4, <4>1, <4>2
      <4>3. CASE j = Len(a.queue)
        BY <2>7, <3>2, <4>1, <4>3
      <4> QED
        BY <2>7, <4>2, <4>3
    <3>5. a.sending = Len(a.queue) + 1
      BY <2>3, <2>5, <2>6, <2>7 DEF q
    <3> QED
      BY <1>2, <2>6, <3>3, <3>4, <3>5 DEF Proper
  <2>9. atoms' = [atoms EXCEPT ![i] = a] /\ stage' = [stage EXCEPT ![m] = "queued"]
    BY <1>1, <2>1, <2>5
  <2>10. i \in 1 .. Len(atoms) /\ KeyOf(a) = KeyOf(atoms[i]) /\ q = atoms[i].queue
    BY <1>4, <2>1, <2>6
  <2>11. Len(q) \in Nat
    BY <2>3
  <2> HIDE DEF list, i, q
  <2>12. Replaced(atoms, i, a, atoms', submitted')
    <3>1. /\ atoms \in Seq(Atom) /\ i \in 1 .. Len(atoms) /\ AllProper(atoms, submitted')
          /\ Single(atoms) /\ Proper(a, submitted') /\ KeyOf(a) = KeyOf(atoms[i])
          /\ atoms' = [atoms EXCEPT ![i] = a]
      BY <1>2, <1>3, <2>8, <2>9, <2>10
    <3> QED
      BY ONLY <3>1, ReplacedLists
  <2>13. \A x : OnQueue(atoms, x) => OnQueue(atoms', x)
    BY <2>7, <2>10, <2>11, <2>12 DEF Replaced
  <2>14. OnQueue(atoms', m)
    <3>1. /\ i \in Nat /\ Len(a.queue) \in Nat /\ i \in 1 .. Len(atoms') /\ atoms'[i] = a
      BY <1>2, <1>5, <2>7, <2>9, <2>10, <2>11
    <3> QED
      BY <2>7, <3>1 DEF OnQueue, Position
  <2>15. \A x \in Msgs : Mine(MyKey(x))
    BY DEF Mine
  <2>16. Lists(atoms', submitted', [stg EXCEPT ![m] = "queued"])
    BY <1>2, <2>12, <2>13, <2>14, <2>15 DEF Lists, Replaced
  <2> QED
    BY <1>1, <2>9, <2>12, <2>16 DEF Replaced
<1> QED
  BY <1>6, <1>7

LEMMA StageLists ==
  ASSUME NEW list, NEW sub, NEW stg, NEW stg2, Lists(list, sub, stg),
         \A x \in Msgs : /\ stg2[x] = "queued" => stg[x] = "queued"
                         /\ stg2[x] \in {"starting", "driver"} => stg[x] \in {"starting", "driver"}
  PROVE  Lists(list, sub, stg2)
BY DEF Lists

(* A message of which the driver has failed a frame is never reported: the *)
(* atom, and the messages behind it, are as if it still was with the driver*)
WithDriver(F, stg) == [m \in Msgs |-> IF m \in F THEN "driver" ELSE stg[m]]

Course(F) == WithDriver(F, stage)

LEMMA WithDriverIs ==
  ASSUME NEW F, NEW stg \in [Msgs -> Stages]
  PROVE  /\ WithDriver(F, stg) \in [Msgs -> Stages]
         /\ \A x \in Msgs : WithDriver(F, stg)[x] = IF x \in F THEN "driver" ELSE stg[x]
         /\ \A n \in Msgs, s \in Stages : n \notin F =>
              WithDriver(F, [stg EXCEPT ![n] = s]) = [WithDriver(F, stg) EXCEPT ![n] = s]
<1>1. WithDriver(F, stg) \in [Msgs -> Stages]
  BY DEF WithDriver, Stages
<1>2. \A x \in Msgs : WithDriver(F, stg)[x] = IF x \in F THEN "driver" ELSE stg[x]
  BY DEF WithDriver
<1>3. ASSUME NEW n \in Msgs, NEW s \in Stages, n \notin F
      PROVE  WithDriver(F, [stg EXCEPT ![n] = s]) = [WithDriver(F, stg) EXCEPT ![n] = s]
  BY <1>3 DEF WithDriver
<1> QED
  BY <1>1, <1>2, <1>3

(* The report of the last frame of m finds m's atom, and the oldest of the *)
(* messages that wait behind m at the head of its queue.                   *)
LEMMA LastReportLists ==
  ASSUME NEW bad, TypeOK, AInv(bad), NEW F, \A x \in F : stage[x] = "done",
         Lists(atoms, submitted, Course(F)), Turns(submitted, Course(F)),
         NEW m \in Msgs, DriverSentLast(m)
  PROVE  /\ Lists(atoms', submitted, Course(F)')
         /\ \/ stage' = [stage EXCEPT ![m] = "done"] /\ UNCHANGED pos
            \/ \E n \in Msgs :
                 /\ stage[n] = "queued" /\ MyKey(n) = MyKey(m)
                 /\ \A x \in Msgs : x # n /\ stage[x] = "queued" /\ MyKey(x) = MyKey(m) =>
                      Precedes(submitted, n, x)
                 /\ \E ans : Dispatch(n, Tail(framesOut), [stage EXCEPT ![m] = "done"], ans)
<1> DEFINE k == KeyOf(Msg[m])
           list == GetAtom(atoms, k)
           i == FindAtom(list, k)
           n == CountDown(list[i].sending)
           stg == [stage EXCEPT ![m] = "done"]
           ans == IF Msg[m].id = HeartbeatId THEN Answered(answers, m, RC_NORM) ELSE answers
           a == [list[i] EXCEPT !.sending = n, !.queue = Tail(@)]
           b == [list[i] EXCEPT !.sending = n]
           q == list[i].queue
<1>1. \/ /\ q # <<>>
         /\ atoms' = [list EXCEPT ![i] = a]
         /\ Dispatch(Head(q), Tail(framesOut), stg, ans)
      \/ /\ q = <<>>
         /\ atoms' = IF list[i].receiving THEN [list EXCEPT ![i] = b] ELSE RemoveAt(list, i)
         /\ stage' = stg /\ UNCHANGED pos
  BY LastReport, Zenon
<1>2. stage[m] = "driver"
  BY DriverSentLastBooks
<1>2a. /\ stage \in [Msgs -> Stages] /\ m \notin F /\ DOMAIN Course(F) = Msgs
       /\ \A x \in Msgs : Course(F)[x] = IF x \in F THEN "driver" ELSE stage[x]
       /\ \A x \in Msgs : Course(F)'[x] = IF x \in F THEN "driver" ELSE stage'[x]
  BY <1>2 DEF TypeOK, Course, WithDriver
<1>3. /\ atoms \in Seq(Atom) /\ stage \in [Msgs -> Stages] /\ Mine(k) /\ MyKey(m) = k
      /\ HasAtom(atoms, k) /\ AllProper(atoms, submitted) /\ Single(atoms)
  BY <1>2, <1>2a DEF TypeOK, Mine, MyKey, Lists
<1>4. list = atoms /\ i \in 1 .. Len(atoms) /\ KeyOf(atoms[i]) = k /\ Len(atoms) \in Nat
  <2>1. /\ FindAtom(atoms, k) \in 0 .. Len(atoms) /\ FindAtom(atoms, k) # 0
        /\ KeyOf(atoms[FindAtom(atoms, k)]) = k
    BY <1>3, FindAtomFinds DEF HasAtom
  <2>2. list = atoms
    BY <2>1 DEF GetAtom
  <2>3. Len(atoms) \in Nat
    BY <1>3, LenProperties
  <2> QED
    BY <2>1, <2>2, <2>3
<1>5. list[i] \in Atom /\ Proper(list[i], submitted)
  BY <1>3, <1>4, ElementOfSeq DEF AllProper
<1>6. /\ q \in Seq(Msgs) /\ Len(q) \in Nat
      /\ ~list[i].receiving /\ list[i].sending = Len(q) + 1
      /\ \A j \in 1 .. Len(q) : q[j] \in Msgs /\ MyKey(q[j]) = k
      /\ \A p, j \in 1 .. Len(q) : p < j => Precedes(submitted, q[p], q[j])
  BY <1>3, <1>4, <1>5, LenProperties DEF Atom, Proper
<1>7. CASE /\ q = <<>>
           /\ atoms' = IF list[i].receiving THEN [list EXCEPT ![i] = b] ELSE RemoveAt(list, i)
           /\ stage' = stg /\ UNCHANGED pos
  <2>1. atoms' = RemoveAt(atoms, i) /\ atoms[i].queue = <<>>
    BY <1>4, <1>6, <1>7
  <2> HIDE DEF list, i, q
  <2>2. /\ AllProper(atoms', submitted) /\ Single(atoms')
        /\ \A x : HasAtom(atoms, x) /\ x # KeyOf(atoms[i]) => HasAtom(atoms', x)
        /\ \A x : OnQueue(atoms, x) => OnQueue(atoms', x)
    BY <1>3, <1>4, <2>1, RemovedLists
  <2>2a. /\ Course(F)'[m] = "done"
         /\ \A x \in Msgs : x # m => Course(F)'[x] = Course(F)[x]
    BY <1>2a, <1>7
  <2>3. ASSUME NEW x \in Msgs, Course(F)'[x] \in {"starting", "driver"}
        PROVE  HasAtom(atoms', MyKey(x))
    <3>1. x # m /\ Course(F)[x] \in {"starting", "driver"} /\ Course(F)[m] = "driver"
      BY <1>2, <1>2a, <2>2a, <2>3
    <3>2. MyKey(x) # k
      BY <1>3, <3>1 DEF Turns
    <3>3. HasAtom(atoms, MyKey(x))
      BY <3>1 DEF Lists
    <3> QED
      BY <1>4, <2>2, <3>2, <3>3
  <2>4. \A x \in Msgs : Course(F)'[x] = "queued" => OnQueue(atoms', x)
    BY <2>2, <2>2a DEF Lists
  <2> QED
    BY <1>7, <2>2, <2>3, <2>4 DEF Lists
<1>8. CASE /\ q # <<>>
           /\ atoms' = [list EXCEPT ![i] = a]
           /\ Dispatch(Head(q), Tail(framesOut), stg, ans)
  <2> DEFINE next == Head(q)
             t == Tail(q)
  <2>1. /\ t \in Seq(Msgs) /\ Len(t) \in Nat /\ Len(t) = Len(q) - 1
        /\ 1 \in 1 .. Len(q) /\ next = q[1]
        /\ \A j \in 1 .. Len(t) : j + 1 \in 1 .. Len(q) /\ t[j] = q[j + 1] /\ j + 1 # 1
        /\ \A j \in 1 .. Len(q) : j # 1 => j - 1 \in 1 .. Len(t) /\ t[j - 1] = q[j]
    <3>1. q \in Seq(Msgs) /\ q # <<>>
      BY <1>6, <1>8
    <3> HIDE DEF q
    <3> QED
      BY <3>1, Shrunk
  <2>2. n = Len(t) + 1
    <3>1. Len(q) + 1 \in 0 .. SendingMod - 1 /\ SendingMod \in Nat
      BY <1>5, <1>6, WidthAssumption DEF Atom
    <3>2. \A x \in 0 .. SendingMod - 1 : x % SendingMod = x
      BY WidthAssumption
    <3>3. Len(q) \in 0 .. SendingMod - 1 /\ (Len(q) + 1) - 1 = Len(q)
      BY <1>6, <3>1
    <3>4. n = Len(q) % SendingMod
      BY <1>6, <3>3 DEF CountDown
    <3> HIDE DEF n, q, t
    <3> QED
      BY <1>6, <2>1, <3>2, <3>3, <3>4
  <2>3. next \in Msgs /\ MyKey(next) = k /\ stage[next] = "queued"
    <3>1. next \in Msgs /\ MyKey(next) = k
      BY <1>6, <2>1
    <3>2. i \in Nat /\ 1 \in Nat /\ Position(atoms, i, 1) /\ atoms[i].queue[1] = next
      BY <1>4, <2>1 DEF Position
    <3> QED
      BY <3>1, <3>2 DEF AInv, Queues
  <2>4. /\ a.queue = t /\ a.sending = n /\ ~a.receiving /\ KeyOf(a) = k
    BY <1>4, <1>5, <1>6 DEF Atom, KeyOf
  <2>5. \A p, j \in 1 .. Len(t) : p < j => p + 1 < j + 1
    BY <2>1
  <2> HIDE DEF n, a, b, t, next
  <2>6. Proper(a, submitted)
    <3>1. \A j \in 1 .. Len(t) : t[j] \in Msgs /\ MyKey(t[j]) = k
      BY <1>6, <2>1
    <3>2. ASSUME NEW p \in 1 .. Len(t), NEW j \in 1 .. Len(t), p < j
          PROVE  Precedes(submitted, t[p], t[j])
      <4>1. Precedes(submitted, q[p + 1], q[j + 1])
        BY <1>6, <2>1, <2>5, <3>2
      <4> QED
        BY <2>1, <4>1
    <3> QED
      BY <1>3, <2>2, <2>4, <3>1, <3>2 DEF Proper
  <2>7. Replaced(atoms, i, a, atoms', submitted)
    <3>1. /\ atoms \in Seq(Atom) /\ i \in 1 .. Len(atoms) /\ AllProper(atoms, submitted)
          /\ Single(atoms) /\ Proper(a, submitted) /\ KeyOf(a) = KeyOf(atoms[i])
          /\ atoms' = [atoms EXCEPT ![i] = a]
      BY <1>3, <1>4, <1>8, <2>4, <2>6
    <3> QED
      BY ONLY <3>1, ReplacedLists
  <2>8. q = atoms[i].queue
    BY <1>4
  <2>9. Dispatch(next, Tail(framesOut), stg, ans)
    BY <1>8 DEF next
  <2> HIDE DEF list, i, q, stg, ans
  <2>10. /\ stage'[next] \in {"driver", "done"} /\ stage'[m] = "done"
         /\ \A x \in Msgs : x # next /\ x # m => stage'[x] = stage[x]
    <3>1. stg[m] = "done" /\ \A x \in Msgs : x # m => stg[x] = stage[x]
      BY <1>3 DEF stg
    <3>2. stage' = [stg EXCEPT ![next] = "driver"] \/ stage' = [stg EXCEPT ![next] = "done"]
      BY <2>9 DEF Dispatch
    <3>3. next # m /\ DOMAIN stg = Msgs
      BY <1>2, <1>3, <2>3 DEF stg
    <3> QED
      BY <2>3, <3>1, <3>2, <3>3
  <2>10a. /\ Course(F)'[next] \in {"driver", "done"} /\ Course(F)'[m] = "done"
          /\ Course(F)[next] = "queued" /\ Course(F)[m] = "driver"
          /\ \A x \in Msgs : x # next /\ x # m => Course(F)'[x] = Course(F)[x]
    BY <1>2, <1>2a, <2>3, <2>10
  <2>11. ASSUME NEW x \in Msgs, Course(F)'[x] = "queued"
         PROVE  OnQueue(atoms', x)
    <3>1. x # next /\ x # m /\ Course(F)[x] = "queued"
      BY <2>10a, <2>11
    <3>2. OnQueue(atoms, x)
      BY <3>1 DEF Lists
    <3>3. ASSUME NEW j \in 1 .. Len(q), q[j] = x
          PROVE  \E h \in Nat : h \in 1 .. Len(a.queue) /\ a.queue[h] = x
      <4>1. j # 1
        BY <2>1, <3>1, <3>3
      <4>2. j - 1 \in 1 .. Len(t) /\ t[j - 1] = x /\ j - 1 \in Nat
        BY <1>6, <2>1, <3>3, <4>1
      <4> QED
        BY <2>4, <4>2
    <3> QED
      BY <2>7, <2>8, <3>2, <3>3 DEF Replaced
  <2>12. ASSUME NEW x \in Msgs, Course(F)'[x] \in {"starting", "driver"}
         PROVE  HasAtom(atoms', MyKey(x))
    <3>1. HasAtom(atoms, MyKey(x))
      BY <1>3, <2>3, <2>10a, <2>12 DEF Lists
    <3>2. Mine(MyKey(x))
      BY DEF Mine
    <3> QED
      BY <2>7, <3>1, <3>2 DEF Replaced
  <2>13. Lists(atoms', submitted, Course(F)')
    BY <2>7, <2>11, <2>12 DEF Lists, Replaced
  <2>14. ASSUME NEW x \in Msgs, x # next, stage[x] = "queued", MyKey(x) = k
         PROVE  Precedes(submitted, next, x)
    <3>0. Course(F)[x] = "queued"
      BY <1>2a, <2>14
    <3>1. PICK p, j \in Nat : Position(atoms, p, j) /\ atoms[p].queue[j] = x
      BY <3>0 DEF Lists, OnQueue
    <3>2. p \in 1 .. Len(atoms) /\ j \in 1 .. Len(atoms[p].queue) /\ Proper(atoms[p], submitted)
      BY <1>3, <3>1 DEF Position, AllProper
    <3>3. Mine(KeyOf(atoms[p]))
      <4> SUFFICES ASSUME atoms[p].queue = <<>> PROVE FALSE
        BY <3>2 DEF Proper
      <4> QED
        BY <3>2, EmptySeq
    <3>4. KeyOf(atoms[p]) = k
      BY <2>14, <3>1, <3>2, <3>3 DEF Proper
    <3>5. p = i
      BY <1>3, <1>4, <3>2, <3>3, <3>4 DEF Single
    <3>6. j \in 1 .. Len(q) /\ q[j] = x
      BY <2>8, <3>1, <3>2, <3>5
    <3>7. 1 < j
      BY <1>6, <2>1, <2>14, <3>6
    <3> QED
      BY <1>6, <2>1, <3>6, <3>7
  <2> QED
    BY <1>3, <2>3, <2>9, <2>13, <2>14 DEF stg
<1> QED
  BY <1>1, <1>7, <1>8

(* A frame of a peer finds, or makes, an atom that nothing is sent on.     *)
LEMMA PeerAtom ==
  ASSUME TypeOK, Apart, NEW stg, Lists(atoms, submitted, stg), Elsewhere(atoms, window.at),
         NEW f \in PeerFrames
  PROVE  LET list == GetAtom(atoms, KeyOf(f))
             i == FindAtom(list, KeyOf(f))
         IN  /\ list \in Seq(Atom) /\ i \in 1 .. Len(list) /\ list[i] \in Atom
             /\ KeyOf(list[i]) = KeyOf(f) /\ ~Mine(KeyOf(f))
             /\ list[i].queue = <<>> /\ list[i].sending = 0
             /\ Lists(list, submitted, stg)
<1> DEFINE k == KeyOf(f)
           list == GetAtom(atoms, k)
           i == FindAtom(list, k)
<1>1. /\ atoms \in Seq(Atom) /\ k \in Nat \X Ids
      /\ AllProper(atoms, submitted) /\ Single(atoms)
  BY KeysTyped DEF TypeOK, Lists
<1>2. /\ FreshAtom(k) \in Atom /\ list \in Seq(Atom) /\ i \in 1 .. Len(list)
      /\ KeyOf(list[i]) = k
  BY <1>1, GetAtomHas
<1>3. ~Mine(k)
  BY DEF Mine, MyKey, Apart
<1>4. KeyOf(FreshAtom(k)) = k /\ Proper(FreshAtom(k), submitted)
  <2>1. KeyOf(FreshAtom(k)) = k
    BY <1>1 DEF KeyOf, FreshAtom
  <2> QED
    BY <1>3, <2>1 DEF Proper, FreshAtom
<1> HIDE DEF k
<1>5. Lists(list, submitted, stg)
  <2>1. CASE list = atoms
    BY <2>1
  <2>2. CASE list = Append(atoms, FreshAtom(k))
    <3>1. /\ AllProper(list, submitted) /\ Single(list)
          /\ \A x : HasAtom(atoms, x) => HasAtom(list, x)
          /\ \A x : OnQueue(atoms, x) => OnQueue(list, x)
      BY <1>1, <1>2, <1>3, <1>4, <2>2, AppendedLists
    <3> QED
      BY <3>1 DEF Lists
  <2> QED
    BY <2>1, <2>2 DEF GetAtom
<1> HIDE DEF list, i
<1>6. list[i] \in Atom /\ Proper(list[i], submitted)
  BY <1>2, <1>5, ElementOfSeq DEF Lists, AllProper
<1>7. list[i].queue = <<>> /\ list[i].sending = 0
  BY <1>2, <1>3, <1>6 DEF Proper
<1> QED
  BY <1>2, <1>3, <1>5, <1>6, <1>7 DEF list, i, k

(* Such an atom changes, or is freed: the others are as they were.         *)
LEMMA PeerLists ==
  ASSUME NEW list \in Seq(Atom), NEW i \in 1 .. Len(list), NEW stg, Lists(list, submitted, stg),
         ~Mine(KeyOf(list[i])), list[i].queue = <<>>, NEW new,
         \/ new = RemoveAt(list, i)
         \/ \E a : /\ new = [list EXCEPT ![i] = a] /\ ~Mine(KeyOf(a))
                   /\ a.sending = 0 /\ a.queue = <<>>
  PROVE  Lists(new, submitted, stg)
<1>1. AllProper(list, submitted) /\ Single(list) /\ Len(list[i].queue) = 0
  BY EmptySeq DEF Lists
<1>2. \A x \in Msgs : Mine(MyKey(x))
  BY DEF Mine
<1>3. CASE new = RemoveAt(list, i)
  <2>1. /\ AllProper(new, submitted) /\ Single(new)
        /\ \A k : HasAtom(list, k) /\ k # KeyOf(list[i]) => HasAtom(new, k)
        /\ \A m : OnQueue(list, m) => OnQueue(new, m)
    BY <1>1, <1>3, RemovedLists
  <2>2. \A x \in Msgs : MyKey(x) # KeyOf(list[i])
    BY <1>2
  <2> QED
    BY <1>3, <2>1, <2>2 DEF Lists
<1>4. ASSUME NEW a, new = [list EXCEPT ![i] = a], ~Mine(KeyOf(a)), a.sending = 0, a.queue = <<>>
      PROVE  Lists(new, submitted, stg)
  <2>1. Proper(a, submitted)
    BY <1>4 DEF Proper
  <2>2. Replaced(list, i, a, new, submitted)
    BY <1>1, <1>4, <2>1, ReplacedLists
  <2>3. \A m : OnQueue(list, m) => OnQueue(new, m)
    BY <1>1, <2>2 DEF Replaced
  <2>4. \A x \in Msgs : HasAtom(list, MyKey(x)) => HasAtom(new, MyKey(x))
    BY <1>2, <2>2 DEF Replaced
  <2>5. AllProper(new, submitted) /\ Single(new)
    BY <2>2 DEF Replaced
  <2> QED
    BY <2>3, <2>4, <2>5 DEF Lists
<1> QED
  BY <1>3, <1>4

LEMMA ReceiveLists ==
  ASSUME TypeOK, Apart, NEW stg, Lists(atoms, submitted, stg), Elsewhere(atoms, window.at),
         NEW f \in PeerFrames, RejectFrame(f) \/ AcceptFrame(f) \/ AcceptLastFrame(f)
  PROVE  Lists(atoms', submitted, stg) /\ Elsewhere(atoms', window'.at)
<1> DEFINE list == GetAtom(atoms, KeyOf(f))
           i == FindAtom(list, KeyOf(f))
           a == Opened(list[i], f)
           b == [a EXCEPT !.last = f.num]
<1>1. /\ list \in Seq(Atom) /\ i \in 1 .. Len(list) /\ list[i] \in Atom
      /\ KeyOf(list[i]) = KeyOf(f) /\ ~Mine(KeyOf(f))
      /\ list[i].queue = <<>> /\ list[i].sending = 0
      /\ Lists(list, submitted, stg)
  BY PeerAtom
<1>2. \A h : ~Mine(<<h, ZeroId>>)
  BY DEF Mine, MyKey, KeyOf, Apart
<1>3. /\ a.queue = <<>> /\ a.sending = 0 /\ ~Mine(KeyOf(a))
      /\ b.queue = <<>> /\ b.sending = 0 /\ ~Mine(KeyOf(b))
  BY <1>1, <1>2 DEF Opened, ClearOnRead, Atom, KeyOf
<1>4. \/ atoms' = RemoveAt(list, i) /\ window'.at = 0
      \/ atoms' = [list EXCEPT ![i] = b] /\ window'.at = 0
      \/ atoms' = [list EXCEPT ![i] = a] /\ window'.at = i
  <2>1. CASE RejectFrame(f)
    BY <2>1 DEF RejectFrame, CanReceive, NoWindow
  <2>2. CASE AcceptFrame(f)
    BY <2>2 DEF AcceptFrame, CanReceive, NoWindow
  <2>3. CASE AcceptLastFrame(f)
    BY <2>3 DEF AcceptLastFrame
  <2> QED
    BY <2>1, <2>2, <2>3
<1> HIDE DEF list, i, a, b
<1>5. \A l : Elsewhere(l, 0)
  BY DEF Elsewhere
<1>6. /\ Lists(RemoveAt(list, i), submitted, stg)
      /\ Lists([list EXCEPT ![i] = b], submitted, stg)
      /\ Lists([list EXCEPT ![i] = a], submitted, stg)
  BY <1>1, <1>3, PeerLists
<1>7. Elsewhere([list EXCEPT ![i] = a], i)
  <2>1. Len([list EXCEPT ![i] = a]) = Len(list) /\ [list EXCEPT ![i] = a][i] = a
    BY <1>1
  <2> QED
    BY <1>3, <2>1 DEF Elsewhere
<1> QED
  BY <1>4, <1>5, <1>6, <1>7

LEMMA FinishReceiveLists ==
  ASSUME TypeOK, Apart, NEW stg, Lists(atoms, submitted, stg), Elsewhere(atoms, window.at), FinishReceive
  PROVE  Lists(atoms', submitted, stg) /\ Elsewhere(atoms', window'.at)
<1> DEFINE i == window.at
           a == [ClearOnRead(atoms[i]) EXCEPT !.receiving = FALSE]
<1>1. /\ window # NoWindow /\ window'.at = 0
      /\ atoms' = IF atoms[i].sending = 0 THEN [atoms EXCEPT ![i] = a] ELSE RemoveAt(atoms, i)
  BY DEF FinishReceive, NoWindow
<1>2. atoms \in Seq(Atom) /\ i \in 1 .. Len(atoms)
  <2>1. Len(atoms) \in Nat /\ i \in 0 .. Len(atoms) /\ i # 0
    BY <1>1, WindowAt
  <2> QED
    BY <2>1 DEF TypeOK
<1>3. ~Mine(KeyOf(atoms[i])) /\ atoms[i].queue = <<>> /\ atoms[i].sending = 0 /\ atoms[i] \in Atom
  BY <1>2, ElementOfSeq DEF Elsewhere, Lists, AllProper, Proper
<1>4. \A h : ~Mine(<<h, ZeroId>>)
  BY DEF Mine, MyKey, KeyOf, Apart
<1>5. a.queue = <<>> /\ a.sending = 0 /\ ~Mine(KeyOf(a))
  BY <1>3, <1>4 DEF ClearOnRead, Atom, KeyOf
<1> HIDE DEF a, i
<1>6. atoms' = [atoms EXCEPT ![i] = a]
  BY <1>1, <1>3
<1>7. Lists(atoms', submitted, stg)
  BY <1>2, <1>3, <1>5, <1>6, PeerLists
<1> QED
  BY <1>1, <1>7 DEF Elsewhere

-----------------------------------------------------------------------------
(* What has been sent and what is sent next                                *)

LEMMA WireTyped ==
  ASSUME NEW wr \in Seq(WireFrame), NEW i \in 1 .. Len(wr)
  PROVE  /\ wr[i].msg \in Msgs /\ wr[i].num \in Int /\ wr[i].lfb \in BOOLEAN
         /\ Len(wr) \in Nat
<1>1. wr[i] \in WireFrame
  BY ElementOfSeq
<1> QED
  BY <1>1, LenProperties DEF WireFrame

LEMMA SubmitOrder ==
  ASSUME NEW wr \in Seq(WireFrame), NEW sub \in Seq(Msgs), NEW stg \in [Msgs -> Stages], NEW ps,
         Order(wr, sub, stg, ps), NEW m \in Msgs, stg[m] = "idle",
         NEW sub2, sub2 = Append(sub, m), NEW stg2,
         \/ stg2 = [stg EXCEPT ![m] = "queued"]
         \/ /\ stg2 = [stg EXCEPT ![m] = "starting"]
            /\ \A x \in Msgs : MyKey(x) = MyKey(m) => stg[x] \notin {"starting", "queued", "driver"}
  PROVE  Order(wr, sub2, stg2, ps)
<1>1. /\ \A x, y : Precedes(sub, x, y) => Precedes(sub2, x, y)
      /\ \A i \in 1 .. Len(sub) : Precedes(sub2, sub[i], m)
      /\ \A i \in 1 .. Len(sub) : \E j \in 1 .. Len(sub2) : sub2[j] = sub[i]
      /\ \E j \in 1 .. Len(sub2) : sub2[j] = m
  <2>1. \A x, y : Precedes(sub, x, y) => Precedes(sub2, x, y)
    BY PrecedesGrows
  <2>2. \A i \in 1 .. Len(sub) : Precedes(sub2, sub[i], m)
    BY PrecedesGrows
  <2>3. \A i \in 1 .. Len(sub) : \E j \in 1 .. Len(sub2) : sub2[j] = sub[i]
    BY PrecedesGrows
  <2>4. \E j \in 1 .. Len(sub2) : sub2[j] = m
    BY PrecedesGrows
  <2> QED
    BY <2>1, <2>2, <2>3, <2>4
<1>2. /\ stg2[m] \in {"queued", "starting"}
      /\ \A x \in Msgs : x # m => stg2[x] = stg[x]
      /\ stg2[m] = "starting" =>
           \A x \in Msgs : MyKey(x) = MyKey(m) => stg[x] \notin {"starting", "queued", "driver"}
  OBVIOUS
<1>3. \A x \in Msgs : stg[x] # "idle" => Precedes(sub2, x, m)
  BY <1>1 DEF Order, Stamped
<1>4. Stamped(sub2, stg2)
  BY <1>1, <1>2 DEF Order, Stamped
<1>5. Turns(sub2, stg2)
  <2> SUFFICES ASSUME NEW x \in Msgs, NEW y \in Msgs, MyKey(x) = MyKey(y),
                      stg2[x] \in {"starting", "driver"}
               PROVE  /\ stg2[y] \in {"starting", "driver"} => x = y
                      /\ stg2[y] = "queued" => Precedes(sub2, x, y)
    BY DEF Turns
  <2>1. CASE x = m
    BY <1>2, <2>1
  <2>2. CASE x # m /\ y = m
    BY <1>2, <1>3, <2>2
  <2>3. CASE x # m /\ y # m
    BY <1>1, <1>2, <2>3 DEF Order, Turns
  <2> QED
    BY <2>1, <2>2, <2>3
<1>6. Positions(stg2, ps)
  BY <1>2 DEF Order, Positions
<1>7. OnWire(wr, sub2, stg2)
  <2> SUFFICES ASSUME NEW i \in 1 .. Len(wr)
               PROVE  /\ stg2[wr[i].msg] \in {"driver", "done"}
                      /\ wr[i].lfb => stg2[wr[i].msg] = "done"
                      /\ \A n \in Msgs :
                           MyKey(n) = MyKey(wr[i].msg) /\ stg2[n] \in {"starting", "queued", "driver"} =>
                             wr[i].msg = n \/ Precedes(sub2, wr[i].msg, n)
    BY DEF OnWire
  <2>1. /\ wr[i].msg \in Msgs /\ stg[wr[i].msg] \in {"driver", "done"}
        /\ wr[i].lfb => stg[wr[i].msg] = "done"
        /\ \A n \in Msgs :
             MyKey(n) = MyKey(wr[i].msg) /\ stg[n] \in {"starting", "queued", "driver"} =>
               wr[i].msg = n \/ Precedes(sub, wr[i].msg, n)
    BY WireTyped DEF Order, OnWire
  <2>2. wr[i].msg # m /\ stg2[wr[i].msg] = stg[wr[i].msg] /\ Precedes(sub2, wr[i].msg, m)
    BY <1>2, <1>3, <2>1
  <2> QED
    BY <1>1, <1>2, <2>1, <2>2
<1>8. Resumes(wr, stg2, ps)
  <2>1. \A x \in Msgs : stg2[x] = "driver" <=> stg[x] = "driver"
    BY <1>2
  <2>2. \A i \in 1 .. Len(wr) : wr[i].msg \in Msgs
    BY WireTyped
  <2> QED
    BY <2>1, <2>2 DEF Order, Resumes
<1>9. Linked(wr, sub2)
  BY <1>1 DEF Order, Linked, Follows
<1> QED
  BY <1>4, <1>5, <1>6, <1>7, <1>8, <1>9 DEF Order

(* The first frame of a message whose turn it is.                          *)
LEMMA StartOrder ==
  ASSUME NEW wr \in Seq(WireFrame), NEW sub, NEW stg \in [Msgs -> Stages],
         NEW ps \in [Msgs -> Nat], Order(wr, sub, stg, ps), NEW n \in Msgs,
         \/ stg[n] = "starting"
         \/ /\ stg[n] = "queued"
            /\ \A x \in Msgs : MyKey(x) = MyKey(n) => stg[x] \notin {"starting", "driver"}
            /\ \A x \in Msgs : x # n /\ MyKey(x) = MyKey(n) /\ stg[x] = "queued" => Precedes(sub, n, x),
         NEW stg2, NEW ps2,
         \/ Verdict(n) = RC_NORM /\ stg2 = [stg EXCEPT ![n] = "driver"] /\ ps2 = [ps EXCEPT ![n] = @ + 1]
         \/ Verdict(n) # RC_NORM /\ stg2 = [stg EXCEPT ![n] = "done"] /\ ps2 = ps
  PROVE  Order(wr, sub, stg2, ps2)
<1>1. /\ stg[n] \in {"starting", "queued"} /\ ps[n] = 0
      /\ \A x \in Msgs : x # n => stg2[x] = stg[x] /\ ps2[x] = ps[x]
      /\ \/ stg2[n] = "driver" /\ ps2[n] = 1 /\ Verdict(n) = RC_NORM
         \/ stg2[n] = "done"
  BY DEF Order, Positions
<1>2. \A x \in Msgs : x # n /\ MyKey(x) = MyKey(n) => stg[x] \notin {"starting", "driver"}
  BY DEF Order, Turns
<1>3. \A x \in Msgs : x # n /\ MyKey(x) = MyKey(n) /\ stg[x] = "queued" => Precedes(sub, n, x)
  BY DEF Order, Turns
<1>4. Stamped(sub, stg2)
  BY <1>1 DEF Order, Stamped
<1>5. Turns(sub, stg2)
  <2> SUFFICES ASSUME NEW x \in Msgs, NEW y \in Msgs, MyKey(x) = MyKey(y),
                      stg2[x] \in {"starting", "driver"}
               PROVE  /\ stg2[y] \in {"starting", "driver"} => x = y
                      /\ stg2[y] = "queued" => Precedes(sub, x, y)
    BY DEF Turns
  <2>1. CASE x = n
    BY <1>1, <1>2, <1>3, <2>1
  <2>2. CASE x # n /\ y = n
    BY <1>1, <1>2, <2>2
  <2>3. CASE x # n /\ y # n
    BY <1>1, <2>3 DEF Order, Turns
  <2> QED
    BY <2>1, <2>2, <2>3
<1>6. Positions(stg2, ps2)
  BY <1>1 DEF Order, Positions
<1>7. \A i \in 1 .. Len(wr) : wr[i].msg \in Msgs /\ wr[i].msg # n
  BY <1>1, WireTyped DEF Order, OnWire
<1>8. OnWire(wr, sub, stg2)
  BY <1>1, <1>7 DEF Order, OnWire
<1>9. Resumes(wr, stg2, ps2)
  BY <1>1, <1>7 DEF Order, Resumes
<1> QED
  BY <1>4, <1>5, <1>6, <1>8, <1>9 DEF Order

(* wr2 is wr and the frame f, which is now the last one of its atom.       *)
Lengthened(wr, f, wr2) ==
  \A i \in 1 .. Len(wr2) :
    \/ i = Len(wr2) /\ wr2[i] = f
    \/ /\ i \in 1 .. Len(wr) /\ wr2[i] = wr[i]
       /\ LastOfKey(wr2, i) => LastOfKey(wr, i) /\ MyKey(wr[i].msg) # MyKey(f.msg)

(* The frame that the driver reports follows the last one of its atom.     *)
LEMMA SentLinked ==
  ASSUME NEW wr \in Seq(WireFrame), NEW sub, NEW stg \in [Msgs -> Stages],
         NEW ps \in [Msgs -> Nat], Order(wr, sub, stg, ps), NEW m \in Msgs, stg[m] = "driver",
         NEW f \in WireFrame, f.msg = m, f.num = ps[m] - 1, NEW wr2, wr2 = Append(wr, f)
  PROVE  Lengthened(wr, f, wr2) /\ Linked(wr2, sub)
<1>1. /\ wr2 \in Seq(WireFrame) /\ Len(wr) \in Nat /\ Len(wr2) = Len(wr) + 1
      /\ \A i \in 1 .. Len(wr) : i \in 1 .. Len(wr2) /\ wr2[i] = wr[i] /\ i < Len(wr2)
      /\ Len(wr2) \in 1 .. Len(wr2) /\ wr2[Len(wr2)] = f
      /\ \A i \in 1 .. Len(wr2) : i \in 1 .. Len(wr) \/ i = Len(wr2)
  BY Grown
<1>2. \A i \in 1 .. Len(wr) :
        LastOfKey(wr2, i) => LastOfKey(wr, i) /\ MyKey(wr[i].msg) # MyKey(m)
  BY <1>1 DEF LastOfKey
<1>3. ASSUME NEW i \in 1 .. Len(wr), LastOfKey(wr, i), MyKey(wr[i].msg) = MyKey(m)
      PROVE  Follows(sub, wr[i], f)
  <2>1. wr[i].msg \in Msgs /\ wr[i].num \in Int /\ wr[i].lfb \in BOOLEAN /\ ps[m] \in Nat
    BY WireTyped
  <2>2. CASE wr[i].lfb
    <3>1. ps[m] = 1
      BY <1>3, <2>2 DEF Order, Resumes
    <3>2. wr[i].msg # m /\ (wr[i].msg = m \/ Precedes(sub, wr[i].msg, m))
      BY <1>3, <2>2 DEF Order, OnWire
    <3> QED
      BY <2>1, <2>2, <3>1, <3>2 DEF Follows
  <2>3. CASE ~wr[i].lfb
    <3>1. stg[wr[i].msg] = "driver" /\ ps[wr[i].msg] = wr[i].num + 2
      BY <1>3, <2>3 DEF Order, Resumes
    <3>2. wr[i].msg = m
      BY <1>3, <2>1, <3>1 DEF Order, Turns
    <3> QED
      BY <2>1, <2>3, <3>1, <3>2 DEF Follows
  <2> QED
    BY <2>2, <2>3
<1>4. Linked(wr2, sub)
  <2> SUFFICES ASSUME NEW i \in 1 .. Len(wr2), NEW j \in 1 .. Len(wr2), i < j,
                      MyKey(wr2[i].msg) = MyKey(wr2[j].msg), NoneBetween(wr2, i, j)
               PROVE  Follows(sub, wr2[i], wr2[j])
    BY DEF Linked
  <2>1. i \in 1 .. Len(wr) /\ wr2[i] = wr[i]
    BY <1>1
  <2>2. CASE j \in 1 .. Len(wr)
    <3>1. NoneBetween(wr, i, j)
      BY <1>1, <2>1 DEF NoneBetween
    <3> QED
      BY <1>1, <2>1, <2>2, <3>1 DEF Order, Linked
  <2>3. CASE j = Len(wr2)
    <3>1. LastOfKey(wr, i)
      <4> SUFFICES ASSUME NEW h \in 1 .. Len(wr), i < h PROVE MyKey(wr[h].msg) # MyKey(wr[i].msg)
        BY DEF LastOfKey
      <4>1. h \in 1 .. Len(wr2) /\ h < j /\ wr2[h] = wr[h]
        BY <1>1, <2>3
      <4> QED
        BY <2>1, <4>1 DEF NoneBetween
    <3>2. wr2[j] = f /\ MyKey(wr[i].msg) = MyKey(m)
      BY <1>1, <2>1, <2>3
    <3> QED
      BY <1>3, <2>1, <3>1, <3>2
  <2> QED
    BY <1>1, <2>2, <2>3
<1>5. Lengthened(wr, f, wr2)
  BY <1>1, <1>2 DEF Lengthened
<1> QED
  BY <1>1, <1>4, <1>5

(* A frame is sent that is not the last one of its message.                *)
LEMMA FrameOrder ==
  ASSUME NEW wr \in Seq(WireFrame), NEW sub, NEW stg \in [Msgs -> Stages],
         NEW ps \in [Msgs -> Nat], Order(wr, sub, stg, ps), NEW m \in Msgs, stg[m] = "driver",
         NEW f \in WireFrame, f.msg = m, f.num = ps[m] - 1, f.lfb = FALSE,
         NEW wr2, wr2 = Append(wr, f), NEW ps2, ps2 = [ps EXCEPT ![m] = @ + 1]
  PROVE  Order(wr2, sub, stg, ps2)
<1>1. /\ Linked(wr2, sub)
      /\ \A i \in 1 .. Len(wr2) :
           \/ i = Len(wr2) /\ wr2[i] = f
           \/ /\ i \in 1 .. Len(wr) /\ wr2[i] = wr[i]
              /\ LastOfKey(wr2, i) => LastOfKey(wr, i) /\ MyKey(wr[i].msg) # MyKey(m)
  <2>1. Lengthened(wr, f, wr2) /\ Linked(wr2, sub)
    BY SentLinked
  <2> QED
    BY <2>1 DEF Lengthened
<1>2. /\ ps[m] \in Nat /\ ps2[m] = ps[m] + 1
      /\ \A x \in Msgs : x # m => ps2[x] = ps[x]
  OBVIOUS
<1>3. \A i \in 1 .. Len(wr) : wr[i].msg \in Msgs
  BY WireTyped
<1>4. \A n \in Msgs : MyKey(n) = MyKey(m) /\ stg[n] \in {"starting", "queued", "driver"} =>
                      m = n \/ Precedes(sub, m, n)
  BY DEF Order, Turns
<1>5. Positions(stg, ps2)
  BY <1>2 DEF Order, Positions
<1>6. OnWire(wr2, sub, stg)
  <2> SUFFICES ASSUME NEW i \in 1 .. Len(wr2)
               PROVE  /\ stg[wr2[i].msg] \in {"driver", "done"}
                      /\ wr2[i].lfb => stg[wr2[i].msg] = "done"
                      /\ \A n \in Msgs :
                           MyKey(n) = MyKey(wr2[i].msg) /\ stg[n] \in {"starting", "queued", "driver"} =>
                             wr2[i].msg = n \/ Precedes(sub, wr2[i].msg, n)
    BY DEF OnWire
  <2>1. CASE wr2[i] = f
    BY <1>4, <2>1
  <2>2. CASE i \in 1 .. Len(wr) /\ wr2[i] = wr[i]
    BY <2>2 DEF Order, OnWire
  <2> QED
    BY <1>1, <2>1, <2>2
<1>7. Resumes(wr2, stg, ps2)
  <2> SUFFICES ASSUME NEW i \in 1 .. Len(wr2), LastOfKey(wr2, i)
               PROVE  /\ ~wr2[i].lfb => stg[wr2[i].msg] = "driver" /\ ps2[wr2[i].msg] = wr2[i].num + 2
                      /\ wr2[i].lfb => \A x \in Msgs : MyKey(x) = MyKey(wr2[i].msg) /\ stg[x] = "driver" => ps2[x] = 1
    BY DEF Resumes
  <2>1. CASE wr2[i] = f
    BY <1>2, <2>1
  <2>2. CASE /\ i \in 1 .. Len(wr) /\ wr2[i] = wr[i]
             /\ LastOfKey(wr, i) /\ MyKey(wr[i].msg) # MyKey(m)
    BY <1>2, <1>3, <2>2 DEF Order, Resumes
  <2> QED
    BY <1>1, <2>1, <2>2
<1> QED
  BY <1>1, <1>5, <1>6, <1>7 DEF Order

(* The last frame of a message is sent.                                    *)
LEMMA LastOrder ==
  ASSUME NEW wr \in Seq(WireFrame), NEW sub, NEW stg \in [Msgs -> Stages],
         NEW ps \in [Msgs -> Nat], Order(wr, sub, stg, ps), NEW m \in Msgs, stg[m] = "driver",
         NEW f \in WireFrame, f.msg = m, f.num = ps[m] - 1, f.lfb = TRUE,
         NEW wr2, wr2 = Append(wr, f), NEW stg2, stg2 = [stg EXCEPT ![m] = "done"]
  PROVE  /\ Order(wr2, sub, stg2, ps)
         /\ \A x \in Msgs : MyKey(x) = MyKey(m) => stg2[x] \notin {"starting", "driver"}
<1>1. /\ Linked(wr2, sub)
      /\ \A i \in 1 .. Len(wr2) :
           \/ i = Len(wr2) /\ wr2[i] = f
           \/ /\ i \in 1 .. Len(wr) /\ wr2[i] = wr[i]
              /\ LastOfKey(wr2, i) => LastOfKey(wr, i) /\ MyKey(wr[i].msg) # MyKey(m)
  <2>1. Lengthened(wr, f, wr2) /\ Linked(wr2, sub)
    BY SentLinked
  <2> QED
    BY <2>1 DEF Lengthened
<1>2. stg2[m] = "done" /\ \A x \in Msgs : x # m => stg2[x] = stg[x]
  OBVIOUS
<1>3. \A i \in 1 .. Len(wr) : wr[i].msg \in Msgs
  BY WireTyped
<1>4. \A x \in Msgs : MyKey(x) = MyKey(m) => stg2[x] \notin {"starting", "driver"}
  BY <1>2 DEF Order, Turns
<1>5. \A n \in Msgs : MyKey(n) = MyKey(m) /\ stg2[n] = "queued" => Precedes(sub, m, n)
  BY <1>2 DEF Order, Turns
<1>6. Stamped(sub, stg2) /\ Turns(sub, stg2) /\ Positions(stg2, ps)
  BY <1>2 DEF Order, Stamped, Turns, Positions
<1>7. OnWire(wr2, sub, stg2)
  <2> SUFFICES ASSUME NEW i \in 1 .. Len(wr2)
               PROVE  /\ stg2[wr2[i].msg] \in {"driver", "done"}
                      /\ wr2[i].lfb => stg2[wr2[i].msg] = "done"
                      /\ \A n \in Msgs :
                           MyKey(n) = MyKey(wr2[i].msg) /\ stg2[n] \in {"starting", "queued", "driver"} =>
                             wr2[i].msg = n \/ Precedes(sub, wr2[i].msg, n)
    BY DEF OnWire
  <2>1. CASE wr2[i] = f
    BY <1>2, <1>4, <1>5, <2>1
  <2>2. CASE i \in 1 .. Len(wr) /\ wr2[i] = wr[i]
    BY <1>2, <1>3, <2>2 DEF Order, OnWire
  <2> QED
    BY <1>1, <2>1, <2>2
<1>8. Resumes(wr2, stg2, ps)
  <2> SUFFICES ASSUME NEW i \in 1 .. Len(wr2), LastOfKey(wr2, i)
               PROVE  /\ ~wr2[i].lfb => stg2[wr2[i].msg] = "driver" /\ ps[wr2[i].msg] = wr2[i].num + 2
                      /\ wr2[i].lfb => \A x \in Msgs : MyKey(x) = MyKey(wr2[i].msg) /\ stg2[x] = "driver" => ps[x] = 1
    BY DEF Resumes
  <2>1. CASE wr2[i] = f
    BY <1>4, <2>1
  <2>2. CASE /\ i \in 1 .. Len(wr) /\ wr2[i] = wr[i]
             /\ LastOfKey(wr, i) /\ MyKey(wr[i].msg) # MyKey(m)
    BY <1>2, <1>3, <2>2 DEF Order, Resumes
  <2> QED
    BY <1>1, <2>1, <2>2
<1> QED
  BY <1>1, <1>4, <1>6, <1>7, <1>8 DEF Order

-----------------------------------------------------------------------------
(* The steps                                                               *)

OInv ==
  /\ Lists(atoms, submitted, stage) /\ Elsewhere(atoms, window.at)
  /\ wire \in Seq(WireFrame) /\ Order(wire, submitted, stage, pos)

(* Without an atom, nothing of its key is in hand.                         *)
LEMMA NoAtom ==
  ASSUME NEW list, NEW sub, NEW stg, Lists(list, sub, stg),
         NEW m \in Msgs, ~HasAtom(list, MyKey(m))
  PROVE  \A x \in Msgs : MyKey(x) = MyKey(m) => stg[x] \notin {"starting", "queued", "driver"}
<1> SUFFICES ASSUME NEW x \in Msgs, MyKey(x) = MyKey(m), stg[x] = "queued" PROVE FALSE
  BY DEF Lists
<1>1. PICK i, j \in Nat : Position(list, i, j) /\ list[i].queue[j] = x
  BY DEF Lists, OnQueue
<1>2. i \in 1 .. Len(list) /\ j \in 1 .. Len(list[i].queue) /\ Proper(list[i], sub)
  BY <1>1 DEF Position, Lists, AllProper
<1>3. Mine(KeyOf(list[i]))
  <2> SUFFICES ASSUME list[i].queue = <<>> PROVE FALSE
    BY <1>2 DEF Proper
  <2> QED
    BY <1>2, EmptySeq
<1> QED
  BY <1>1, <1>2, <1>3 DEF Proper, HasAtom

(* ... where F are the messages of which the driver has failed a frame.    *)
CInv(F) ==
  /\ F \subseteq Msgs /\ \A x \in F : stage[x] = "done"
  /\ Lists(atoms, submitted, Course(F)) /\ Elsewhere(atoms, window.at)
  /\ wire \in Seq(WireFrame) /\ Order(wire, submitted, Course(F), pos)

LEMMA CourseIs ==
  ASSUME NEW F, stage \in [Msgs -> Stages]
  PROVE  /\ Course(F) \in [Msgs -> Stages]
         /\ \A x \in Msgs : Course(F)[x] = IF x \in F THEN "driver" ELSE stage[x]
         /\ Course({}) = stage
<1>1. Course({}) = stage
  BY DEF Course, WithDriver
<1>2. /\ Course(F) \in [Msgs -> Stages]
      /\ \A x \in Msgs : Course(F)[x] = IF x \in F THEN "driver" ELSE stage[x]
  BY WithDriverIs DEF Course
<1> QED
  BY <1>1, <1>2

LEMMA CourseThen ==
  ASSUME NEW F
  PROVE  Course(F)' = [x \in Msgs |-> IF x \in F THEN "driver" ELSE stage'[x]]
BY DEF Course, WithDriver

LEMMA CourseStays ==
  ASSUME NEW F, UNCHANGED stage
  PROVE  Course(F)' = Course(F)
BY DEF Course, WithDriver

LEMMA OrderInit ==
  ASSUME Init
  PROVE  CInv({})
<1>1. Len(atoms) = 0 /\ Len(wire) = 0 /\ wire \in Seq(WireFrame)
  BY EmptySeq DEF Init
<1>2. \A m \in Msgs : stage[m] = "idle" /\ pos[m] = 0
  BY DEF Init
<1>3. Course({}) = stage
  BY CourseIs DEF Init, Stages
<1>4. Lists(atoms, submitted, Course({})) /\ Elsewhere(atoms, window.at)
  BY <1>1, <1>2, <1>3 DEF Lists, AllProper, Single, Elsewhere
<1>5. Order(wire, submitted, Course({}), pos)
  BY <1>1, <1>2, <1>3 DEF Order, Stamped, Turns, Positions, OnWire, Resumes, Linked
<1> QED
  BY <1>1, <1>4, <1>5 DEF CInv

LEMMA StartSendingOrder ==
  ASSUME NEW bad, NEW F, TypeOK, Apart, AInv(bad), CInv(F), NEW m \in Msgs, StartSending(m)
  PROVE  CInv(F)'
<1> DEFINE c == Course(F)
<1>1. /\ stage \in [Msgs -> Stages] /\ c \in [Msgs -> Stages]
      /\ \A x \in Msgs : c[x] = IF x \in F THEN "driver" ELSE stage[x]
      /\ stage[m] = "idle" /\ m \notin F /\ c[m] = "idle"
      /\ submitted' = Append(submitted, m) /\ UNCHANGED <<wire, pos>>
  <2>1. stage \in [Msgs -> Stages] /\ \A x \in F : stage[x] = "done"
    BY DEF TypeOK, CInv
  <2>2. /\ c \in [Msgs -> Stages]
        /\ \A x \in Msgs : c[x] = IF x \in F THEN "driver" ELSE stage[x]
    BY <2>1, CourseIs
  <2>3. stage[m] = "idle" /\ submitted' = Append(submitted, m) /\ UNCHANGED <<wire, pos>>
    BY Zenon DEF StartSending
  <2> QED
    BY <2>1, <2>2, <2>3
<1>2. /\ wire \in Seq(WireFrame) /\ submitted \in Seq(Msgs)
      /\ Order(wire, submitted, c, pos) /\ Lists(atoms, submitted, c)
      /\ Elsewhere(atoms, window.at) /\ Stamped(submitted, c)
      /\ F \subseteq Msgs /\ \A x \in F : stage[x] = "done"
  BY DEF CInv, TypeOK, Order
<1>3. \A x \in Msgs : stage[x] = "queued" => c[x] = "queued"
  BY <1>1, <1>2
<1>4. /\ Elsewhere(atoms', window'.at)
      /\ \/ /\ stage' = [stage EXCEPT ![m] = "queued"]
            /\ Lists(atoms', submitted', [c EXCEPT ![m] = "queued"])
         \/ /\ stage' = [stage EXCEPT ![m] = "starting"] /\ ~HasAtom(atoms, MyKey(m))
            /\ Lists(atoms', submitted', [c EXCEPT ![m] = "starting"])
  <2> HIDE DEF c
  <2> QED
    BY <1>1, <1>2, <1>3, StartSendingLists
<1>5. PICK s \in {"queued", "starting"} :
        /\ stage' = [stage EXCEPT ![m] = s] /\ Lists(atoms', submitted', [c EXCEPT ![m] = s])
        /\ s = "starting" => ~HasAtom(atoms, MyKey(m))
  <2> HIDE DEF c
  <2> QED
    BY <1>4
<1> HIDE DEF c
<1>6. Course(F)' = [c EXCEPT ![m] = s]
  <2>1. PICK d : d = c
    OBVIOUS
  <2>2. /\ stage \in [Msgs -> Stages] /\ d \in [Msgs -> Stages]
        /\ \A x \in Msgs : d[x] = IF x \in F THEN "driver" ELSE stage[x]
        /\ m \in Msgs /\ m \notin F
        /\ stage' = [stage EXCEPT ![m] = s]
    BY <1>1, <1>5, <2>1
  <2>3. Course(F)' = [x \in Msgs |-> IF x \in F THEN "driver" ELSE [stage EXCEPT ![m] = s][x]]
    BY <2>2, CourseThen
  <2>4. [x \in Msgs |-> IF x \in F THEN "driver" ELSE [stage EXCEPT ![m] = s][x]]
          = [d EXCEPT ![m] = s]
    BY ONLY <2>2
  <2> QED
    BY <2>1, <2>3, <2>4
<1>6a. PICK c2 : c2 = Course(F)'
  OBVIOUS
<1>7. s = "starting" =>
        \A x \in Msgs : MyKey(x) = MyKey(m) => c[x] \notin {"starting", "queued", "driver"}
  BY <1>2, <1>5, NoAtom
<1>8. Order(wire, submitted', Course(F)', pos)
  <2>1. c2 = [c EXCEPT ![m] = s]
    BY <1>6, <1>6a
  <2>2. Order(wire, submitted', c2, pos)
    <3>1. CASE s = "queued"
      BY <1>1, <1>2, <2>1, <3>1, SubmitOrder
    <3>2. CASE s = "starting"
      BY <1>1, <1>2, <1>7, <2>1, <3>2, SubmitOrder
    <3> QED
      BY <3>1, <3>2
  <2> QED
    BY <1>6a, <2>2
<1>9. \A x \in F : stage'[x] = "done"
  BY <1>1, <1>2, <1>5
<1> QED
  BY <1>1, <1>2, <1>4, <1>5, <1>6, <1>8, <1>9 DEF CInv

LEMMA DispatchOrder ==
  ASSUME NEW F, NEW wr \in Seq(WireFrame), NEW stg \in [Msgs -> Stages], pos \in [Msgs -> Nat],
         Order(wr, submitted, WithDriver(F, stg), pos), NEW n \in Msgs, n \notin F,
         \/ stg[n] = "starting"
         \/ /\ stg[n] = "queued"
            /\ \A x \in Msgs : MyKey(x) = MyKey(n) => WithDriver(F, stg)[x] \notin {"starting", "driver"}
            /\ \A x \in Msgs : x # n /\ MyKey(x) = MyKey(n) /\ stg[x] = "queued" =>
                              Precedes(submitted, n, x),
         NEW out, NEW ans, Dispatch(n, out, stg, ans)
  PROVE  Order(wr, submitted, Course(F)', pos')
<1> DEFINE c == WithDriver(F, stg)
<1>1. /\ c \in [Msgs -> Stages]
      /\ \A x \in Msgs : c[x] = IF x \in F THEN "driver" ELSE stg[x]
  BY WithDriverIs
<1>2. PICK s \in {"driver", "done"} :
        /\ stage' = [stg EXCEPT ![n] = s]
        /\ s = "driver" => Verdict(n) = RC_NORM /\ pos' = [pos EXCEPT ![n] = @ + 1]
        /\ s = "done" => Verdict(n) # RC_NORM /\ pos' = pos
  BY DEF Dispatch
<1> HIDE DEF c
<1>3. Course(F)' = [c EXCEPT ![n] = s]
  <2>1. PICK d : d = c
    OBVIOUS
  <2>2. /\ stg \in [Msgs -> Stages] /\ d \in [Msgs -> Stages]
        /\ \A x \in Msgs : d[x] = IF x \in F THEN "driver" ELSE stg[x]
        /\ n \in Msgs /\ n \notin F
        /\ stage' = [stg EXCEPT ![n] = s]
    BY <1>1, <1>2, <2>1
  <2>3. Course(F)' = [x \in Msgs |-> IF x \in F THEN "driver" ELSE [stg EXCEPT ![n] = s][x]]
    BY <2>2, CourseThen
  <2>4. [x \in Msgs |-> IF x \in F THEN "driver" ELSE [stg EXCEPT ![n] = s][x]]
          = [d EXCEPT ![n] = s]
    BY ONLY <2>2
  <2> QED
    BY <2>1, <2>3, <2>4
<1>3a. PICK c2, ps2 : c2 = Course(F)' /\ ps2 = pos'
  OBVIOUS
<1>4. \/ c[n] = "starting"
      \/ /\ c[n] = "queued"
         /\ \A x \in Msgs : MyKey(x) = MyKey(n) => c[x] \notin {"starting", "driver"}
         /\ \A x \in Msgs : x # n /\ MyKey(x) = MyKey(n) /\ c[x] = "queued" => Precedes(submitted, n, x)
  BY <1>1 DEF c
<1>5. Order(wr, submitted, c, pos)
  BY DEF c
<1>6. \/ /\ Verdict(n) = RC_NORM /\ c2 = [c EXCEPT ![n] = "driver"]
         /\ ps2 = [pos EXCEPT ![n] = @ + 1]
      \/ Verdict(n) # RC_NORM /\ c2 = [c EXCEPT ![n] = "done"] /\ ps2 = pos
  BY <1>2, <1>3, <1>3a
<1>7. Order(wr, submitted, c2, ps2)
  BY <1>1, <1>4, <1>5, <1>6, StartOrder
<1> QED
  BY <1>3a, <1>7

LEMMA ProcessFirstOrder ==
  ASSUME NEW F, TypeOK, CInv(F), NEW m \in Msgs, ProcessFirst(m)
  PROVE  CInv(F)'
<1>1. /\ stage[m] = "starting" /\ Dispatch(m, framesOut, stage, answers)
      /\ UNCHANGED <<atoms, window, submitted, wire>>
  BY DEF ProcessFirst, history
<1>2. /\ wire \in Seq(WireFrame) /\ stage \in [Msgs -> Stages] /\ pos \in [Msgs -> Nat]
      /\ Order(wire, submitted, Course(F), pos) /\ Lists(atoms, submitted, Course(F))
      /\ Elsewhere(atoms, window.at) /\ F \subseteq Msgs /\ \A x \in F : stage[x] = "done"
  BY DEF CInv, TypeOK
<1>3. m \notin F
  BY <1>1, <1>2
<1>4. Order(wire, submitted, Course(F)', pos')
  BY <1>1, <1>2, <1>3, DispatchOrder DEF Course
<1>5. PICK s \in {"driver", "done"} : stage' = [stage EXCEPT ![m] = s]
  BY <1>1 DEF Dispatch
<1>6. /\ Course(F) \in [Msgs -> Stages]
      /\ \A x \in Msgs : Course(F)[x] = IF x \in F THEN "driver" ELSE stage[x]
  BY <1>2, CourseIs
<1>7. Course(F)' = [Course(F) EXCEPT ![m] = s] /\ Course(F)[m] = "starting"
  <2>1. PICK c : c = Course(F)
    OBVIOUS
  <2>2. /\ stage \in [Msgs -> Stages] /\ c \in [Msgs -> Stages]
        /\ \A x \in Msgs : c[x] = IF x \in F THEN "driver" ELSE stage[x]
        /\ m \in Msgs /\ m \notin F
        /\ stage' = [stage EXCEPT ![m] = s]
    BY <1>2, <1>3, <1>5, <1>6, <2>1
  <2>3. Course(F)' = [x \in Msgs |-> IF x \in F THEN "driver" ELSE [stage EXCEPT ![m] = s][x]]
    BY <2>2, CourseThen
  <2>4. [x \in Msgs |-> IF x \in F THEN "driver" ELSE [stage EXCEPT ![m] = s][x]]
          = [c EXCEPT ![m] = s]
    BY ONLY <2>2
  <2> QED
    BY <1>1, <1>3, <1>6, <2>1, <2>3, <2>4
<1>8. Lists(atoms, submitted, Course(F)')
  <2>1. /\ \A x \in Msgs : x # m => Course(F)'[x] = Course(F)[x]
        /\ Course(F)'[m] = s
    BY <1>6, <1>7
  <2>2. PICK c, c2 : c = Course(F) /\ c2 = Course(F)'
    OBVIOUS
  <2>3. /\ Lists(atoms, submitted, c)
        /\ \A x \in Msgs : /\ c2[x] = "queued" => c[x] = "queued"
                           /\ c2[x] \in {"starting", "driver"} => c[x] \in {"starting", "driver"}
    BY <1>2, <1>7, <2>1, <2>2
  <2>4. Lists(atoms, submitted, c2)
    BY ONLY <2>3, StageLists
  <2> QED
    BY <2>2, <2>4
<1>9. \A x \in F : stage'[x] = "done"
  BY <1>2, <1>3, <1>5
<1> QED
  BY <1>1, <1>2, <1>4, <1>8, <1>9 DEF CInv

(* The frame that the driver reports is one of a message that is with it.  *)
LEMMA ReportedFrame ==
  ASSUME NEW bad, TypeOK, AInv(bad), NEW m \in Msgs, NEW l \in BOOLEAN,
         NEW f, f = [kind |-> "data", msg |-> m, num |-> pos[m] - 1, lfb |-> l], DriverHolds(f)
  PROVE  /\ stage[m] = "driver" /\ f \in WireFrame
         /\ f.msg = m /\ f.num = pos[m] - 1 /\ f.lfb = l
<1>1. /\ framesOut \in Seq(OutFrame) /\ framesOut # <<>> /\ Head(framesOut) = f
      /\ pos[m] - 1 \in Int
  BY DEF TypeOK, DriverHolds
<1>2. 1 \in 1 .. Len(framesOut) /\ framesOut[1] = f
  BY <1>1, Shrunk
<1>3. stage[m] = "driver"
  BY <1>2 DEF AInv, Books, Carried
<1> QED
  BY <1>1, <1>3 DEF WireFrame

LEMMA DriverSentFrameOrder ==
  ASSUME NEW bad, NEW F, TypeOK, AInv(bad), CInv(F), NEW m \in Msgs, DriverSentFrame(m)
  PROVE  CInv(F)'
<1> DEFINE f == [kind |-> "data", msg |-> m, num |-> pos[m] - 1, lfb |-> FALSE]
<1>1. /\ DriverHolds(f) /\ wire' = Append(wire, f)
      /\ Dispatch(m, Tail(framesOut), stage, answers)
      /\ UNCHANGED <<atoms, window, submitted>>
  BY DEF DriverSentFrame
<1>2. /\ stage[m] = "driver" /\ f \in WireFrame
      /\ f.msg = m /\ f.num = pos[m] - 1 /\ f.lfb = FALSE
  BY <1>1, ReportedFrame
<1> HIDE DEF f
<1>3. /\ wire \in Seq(WireFrame) /\ stage \in [Msgs -> Stages] /\ pos \in [Msgs -> Nat]
      /\ Order(wire, submitted, Course(F), pos) /\ Lists(atoms, submitted, Course(F))
      /\ Elsewhere(atoms, window.at) /\ F \subseteq Msgs /\ \A x \in F : stage[x] = "done"
  BY DEF CInv, TypeOK
<1>4. /\ Course(F) \in [Msgs -> Stages]
      /\ Course(F)[m] = "driver"
  BY <1>2, <1>3, CourseIs
<1>5. Verdict(m) = RC_NORM
  BY <1>3, <1>4 DEF Order, Positions
<1>6. stage' = stage /\ pos' = [pos EXCEPT ![m] = @ + 1]
  <2>1. stage' = [stage EXCEPT ![m] = "driver"] /\ pos' = [pos EXCEPT ![m] = @ + 1]
    BY <1>1, <1>5 DEF Dispatch
  <2>2. stage \in [Msgs -> Stages]
    BY <1>3
  <2> QED
    BY <1>2, <2>1, <2>2
<1>7. Course(F)' = Course(F)
  BY <1>6, CourseStays
<1>8. Order(wire', submitted, Course(F), pos')
  BY <1>1, <1>2, <1>3, <1>4, <1>6, FrameOrder
<1>9. wire' \in Seq(WireFrame)
  BY <1>1, <1>2, <1>3, AppendProperties
<1> QED
  BY <1>1, <1>3, <1>6, <1>7, <1>8, <1>9 DEF CInv

LEMMA DriverSentLastOrder ==
  ASSUME NEW bad, NEW F, TypeOK, AInv(bad), CInv(F), NEW m \in Msgs, DriverSentLast(m)
  PROVE  CInv(F)'
<1> DEFINE f == [kind |-> "data", msg |-> m, num |-> pos[m] - 1, lfb |-> TRUE]
           stg == [stage EXCEPT ![m] = "done"]
           c == WithDriver(F, stg)
<1>1. DriverHolds(f) /\ wire' = Append(wire, f) /\ UNCHANGED <<window, submitted>>
  BY Zenon DEF DriverSentLast
<1>2. /\ stage[m] = "driver" /\ f \in WireFrame
      /\ f.msg = m /\ f.num = pos[m] - 1 /\ f.lfb = TRUE
  BY <1>1, ReportedFrame
<1> HIDE DEF f
<1>3. /\ wire \in Seq(WireFrame) /\ stage \in [Msgs -> Stages] /\ pos \in [Msgs -> Nat]
      /\ Order(wire, submitted, Course(F), pos) /\ Lists(atoms, submitted, Course(F))
      /\ Elsewhere(atoms, window.at) /\ F \subseteq Msgs /\ \A x \in F : stage[x] = "done"
      /\ Turns(submitted, Course(F)) /\ m \notin F
  BY <1>2 DEF CInv, TypeOK, Order
<1>4. /\ Lists(atoms', submitted, Course(F)')
      /\ \/ stage' = stg /\ UNCHANGED pos
         \/ \E n \in Msgs :
              /\ stage[n] = "queued" /\ MyKey(n) = MyKey(m)
              /\ \A x \in Msgs : x # n /\ stage[x] = "queued" /\ MyKey(x) = MyKey(m) =>
                   Precedes(submitted, n, x)
              /\ \E ans : Dispatch(n, Tail(framesOut), stg, ans)
  BY <1>3, LastReportLists
<1>5. stg \in [Msgs -> Stages]
  BY <1>3 DEF Stages
<1>6. /\ Course(F) \in [Msgs -> Stages] /\ Course(F)[m] = "driver"
      /\ c = [Course(F) EXCEPT ![m] = "done"]
  <2>1. /\ Course(F) \in [Msgs -> Stages]
        /\ \A x \in Msgs : Course(F)[x] = IF x \in F THEN "driver" ELSE stage[x]
    BY <1>3, CourseIs
  <2>2. c = [x \in Msgs |-> IF x = m THEN "done" ELSE Course(F)[x]]
    BY <1>3, <2>1 DEF WithDriver
  <2>3. [Course(F) EXCEPT ![m] = "done"] = [x \in Msgs |-> IF x = m THEN "done" ELSE Course(F)[x]]
    BY <2>1
  <2> QED
    BY <1>2, <1>3, <2>1, <2>2, <2>3
<1>7. /\ Order(wire', submitted, c, pos)
      /\ \A x \in Msgs : MyKey(x) = MyKey(m) => c[x] \notin {"starting", "driver"}
  <2> HIDE DEF c
  <2>1. PICK c1 : c1 = Course(F)
    OBVIOUS
  <2>2. /\ wire \in Seq(WireFrame) /\ c1 \in [Msgs -> Stages] /\ pos \in [Msgs -> Nat]
        /\ Order(wire, submitted, c1, pos) /\ c1[m] = "driver"
    BY <1>3, <1>6, <2>1
  <2>3. /\ Order(wire', submitted, [c1 EXCEPT ![m] = "done"], pos)
        /\ \A x \in Msgs : MyKey(x) = MyKey(m) => [c1 EXCEPT ![m] = "done"][x] \notin {"starting", "driver"}
    BY <1>1, <1>2, <2>2, LastOrder
  <2> QED
    BY <1>6, <2>1, <2>3
<1>8. wire' \in Seq(WireFrame)
  BY <1>1, <1>2, <1>3, AppendProperties
<1>9. /\ stg[m] = "done"
      /\ \A x \in Msgs : x # m => stg[x] = stage[x]
      /\ \A x \in F : stg[x] = "done"
  BY <1>3
<1>10. /\ Order(wire', submitted, Course(F)', pos')
       /\ \A x \in F : stage'[x] = "done"
  <2>1. CASE stage' = stg /\ UNCHANGED pos
    <3>1. Course(F)' = c
      BY <2>1 DEF Course, WithDriver
    <3> HIDE DEF c, stg
    <3> QED
      BY <1>7, <1>9, <2>1, <3>1
  <2> HIDE DEF stg
  <2>2. ASSUME NEW n \in Msgs, stage[n] = "queued", MyKey(n) = MyKey(m),
               \A x \in Msgs : x # n /\ stage[x] = "queued" /\ MyKey(x) = MyKey(m) =>
                 Precedes(submitted, n, x),
               NEW ans, Dispatch(n, Tail(framesOut), stg, ans)
        PROVE  /\ Order(wire', submitted, Course(F)', pos')
               /\ \A x \in F : stage'[x] = "done"
    <3>1. /\ stg[n] = "queued" /\ n \notin F
          /\ \A x \in Msgs : MyKey(x) = MyKey(n) => WithDriver(F, stg)[x] \notin {"starting", "driver"}
          /\ \A x \in Msgs : x # n /\ MyKey(x) = MyKey(n) /\ stg[x] = "queued" =>
                            Precedes(submitted, n, x)
      BY <1>2, <1>3, <1>7, <1>9, <2>2
    <3>2. Order(wire', submitted, Course(F)', pos')
      BY <1>3, <1>5, <1>7, <1>8, <2>2, <3>1, DispatchOrder
    <3>3. \A x \in F : stage'[x] = "done"
      BY <1>3, <1>5, <1>9, <2>2, <3>1 DEF Dispatch
    <3> QED
      BY <3>2, <3>3
  <2> QED
    BY <1>4, <2>1, <2>2
<1>11. Elsewhere(atoms', window'.at)
  BY <1>1 DEF DriverHolds, NoWindow, Elsewhere
<1> QED
  BY <1>1, <1>3, <1>4, <1>8, <1>10, <1>11 DEF CInv

LEMMA ReceiveOrder ==
  ASSUME NEW F, TypeOK, Apart, CInv(F), Receive \/ FinishReceive
  PROVE  CInv(F)'
<1>1. UNCHANGED <<stage, pos, submitted, wire>>
  BY DEF Receive, RejectFrame, AcceptFrame, AcceptLastFrame, FinishReceive, history
<1>2. Lists(atoms', submitted, Course(F)) /\ Elsewhere(atoms', window'.at)
  BY ReceiveLists, FinishReceiveLists DEF CInv, Receive
<1>3. Course(F)' = Course(F)
  BY <1>1, CourseStays
<1> QED
  BY <1>1, <1>2, <1>3 DEF CInv

LEMMA OrderKept ==
  ASSUME NEW bad, NEW F, Apart, TypeOK, AInv(bad), CInv(F), [Next]_vars, ~DriverFailed
  PROVE  CInv(F)'
<1>1. ASSUME NEW m \in Msgs, StartSending(m) \/ ProcessFirst(m)
      PROVE  CInv(F)'
  BY <1>1, StartSendingOrder, ProcessFirstOrder
<1>2. ASSUME NEW m \in Msgs, DriverSentFrame(m) \/ DriverSentLast(m)
      PROVE  CInv(F)'
  BY <1>2, DriverSentFrameOrder, DriverSentLastOrder
<1>3. CASE Receive \/ FinishReceive
  BY <1>3, ReceiveOrder
<1>4. CASE \/ DriverSentConfirm \/ LoseConfirm \/ CheckConfirmWaiters
           \/ \E m \in Msgs : ReceiveConfirm(m)
           \/ UNCHANGED vars
  <2>1. UNCHANGED <<atoms, window, stage, pos, submitted, wire>>
    BY <1>4, Zenon
    DEF DriverSentConfirm, LoseConfirm, CheckConfirmWaiters, ReceiveConfirm, vars, nodeVars, history
  <2>2. Course(F)' = Course(F)
    BY <2>1, CourseStays
  <2> QED
    BY <2>1, <2>2 DEF CInv
<1> QED
  BY <1>1, <1>2, <1>3, <1>4 DEF Next, DriverSent

LEMMA OrderAlways == Orderly /\ Apart => (Spec => []OInv)
<1> SUFFICES ASSUME Orderly, Apart PROVE Spec => []OInv
  OBVIOUS
<1>1. Init => CInv({})
  BY OrderInit
<1>2. AInv({}) /\ TypeOK /\ CInv({}) /\ [Next]_vars => CInv({})'
  <2>1. ~DriverFailed
    BY DEF DriverFailed, Orderly
  <2> QED
    BY <2>1, OrderKept
<1>3. TypeOK /\ CInv({}) => OInv
  BY CourseIs DEF TypeOK, CInv, OInv
<1> QED
  BY <1>1, <1>2, <1>3, BooksAlways, TypeCorrect, PTL DEF Spec

-----------------------------------------------------------------------------
(* A driver that reports errors                                            *)

LEMMA AppendContains ==
  ASSUME NEW s \in Seq(RCs), NEW r \in RCs
  PROVE  /\ Contains(Append(s, r), r)
         /\ \A rc : Contains(s, rc) => Contains(Append(s, r), rc)
<1> DEFINE t == Append(s, r)
<1>1. /\ \A i \in 1 .. Len(s) : i \in 1 .. Len(t) /\ t[i] = s[i]
      /\ Len(t) \in 1 .. Len(t) /\ t[Len(t)] = r
  BY Grown
<1> HIDE DEF t
<1>2. Contains(t, r) /\ \A rc : Contains(s, rc) => Contains(t, rc)
  BY <1>1 DEF Contains
<1> QED
  BY <1>2 DEF t

(* No step takes an answer back.                                           *)
LEMMA ReportsStay ==
  ASSUME TypeOK, [Next]_vars, NEW n \in Msgs, NEW rc, Contains(answers[n], rc)
  PROVE  Contains(answers'[n], rc)
<1> DEFINE Keeps(ans) == ans \in [Msgs -> Seq(RCs)] /\ Contains(ans[n], rc)
<1>1. Keeps(answers)
  BY DEF TypeOK
<1>2. ASSUME NEW ans, Keeps(ans), NEW m, NEW r \in RCs
      PROVE  Keeps(Answered(ans, m, r))
  <2>1. ans[n] \in Seq(RCs) /\ Contains(ans[n], rc) /\ ans \in [Msgs -> Seq(RCs)]
    BY <1>2
  <2>2. Answered(ans, m, r) \in [Msgs -> Seq(RCs)]
    <3>1. CASE m \in Msgs
      BY <2>1, <3>1, AnsweredTyped
    <3>2. CASE m \notin Msgs
      BY <2>1, <3>2 DEF Answered
    <3> QED
      BY <3>1, <3>2
  <2>3. Answered(ans, m, r)[n] = ans[n] \/ Answered(ans, m, r)[n] = Append(ans[n], r)
    BY <2>1 DEF Answered
  <2>4. Contains(Append(ans[n], r), rc)
    BY <2>1, AppendContains
  <2> QED
    BY <2>1, <2>2, <2>3, <2>4
<1> HIDE DEF Keeps
<1>3. ASSUME NEW ans, Keeps(ans), NEW m, NEW out, NEW stg, Dispatch(m, out, stg, ans)
      PROVE  Keeps(answers')
  <2>1. answers' = ans \/ answers' = Answered(ans, m, Verdict(m))
    BY <1>3 DEF Dispatch
  <2>2. Verdict(m) \in RCs
    BY DEF Verdict, RCs
  <2> QED
    BY <1>2, <1>3, <2>1, <2>2
<1>4. ASSUME NEW m \in Msgs, ProcessFirst(m) \/ DriverSentFrame(m) PROVE Keeps(answers')
  BY <1>1, <1>3, <1>4 DEF ProcessFirst, DriverSentFrame
<1>5. ASSUME NEW m \in Msgs, DriverSentLast(m) PROVE Keeps(answers')
  <2> DEFINE Ans(k) == IF IsHeartbeat(k) THEN Answered(answers, m, RC_NORM) ELSE answers
  <2>1. \E k : answers' = Ans(k) \/ \E x, out, stg : Dispatch(x, out, stg, Ans(k))
    BY <1>5, Zenon DEF DriverSentLast
  <2>2. RC_NORM \in RCs
    BY DEF RCs
  <2>3. \A k : Keeps(Ans(k))
    BY <1>1, <1>2, <2>2
  <2> HIDE DEF Ans
  <2> QED
    BY <1>3, <2>1, <2>3
<1>6. ASSUME DriverFailed PROVE Keeps(answers')
  <2>1. answers' = answers \/ \E m \in Msgs : answers' = Answered(answers, m, RC_DRIVER_ERR)
    BY <1>6 DEF DriverFailed
  <2>2. RC_DRIVER_ERR \in RCs
    BY DEF RCs
  <2> QED
    BY <1>1, <1>2, <2>1, <2>2
<1>7. ASSUME NEW m \in Msgs, ReceiveConfirm(m) PROVE Keeps(answers')
  <2>1. answers' = answers \/ \E x : answers' = Answered(answers, x, RC_NORM)
    BY <1>7 DEF ReceiveConfirm
  <2>2. RC_NORM \in RCs
    BY DEF RCs
  <2> QED
    BY <1>1, <1>2, <2>1, <2>2
<1>8. CASE CheckConfirmWaiters
  <2>1. \E late : answers' = [m \in Msgs |-> IF m \in late THEN Append(answers[m], RC_CONF_TIMEOUT)
                                                             ELSE answers[m]]
    BY <1>8 DEF CheckConfirmWaiters
  <2>2. answers'[n] = answers[n] \/ answers'[n] = Append(answers[n], RC_CONF_TIMEOUT)
    BY <2>1
  <2>3. answers[n] \in Seq(RCs) /\ RC_CONF_TIMEOUT \in RCs
    BY DEF TypeOK, RCs
  <2> QED
    BY <2>2, <2>3, AppendContains
<1>9. CASE \/ Receive \/ FinishReceive \/ DriverSentConfirm \/ LoseConfirm \/ UNCHANGED vars
  <2>1. UNCHANGED answers
    BY <1>9 DEF Receive, RejectFrame, AcceptFrame, AcceptLastFrame, FinishReceive,
         DriverSentConfirm, LoseConfirm, vars, nodeVars
  <2> QED
    BY <2>1
<1>10. ASSUME NEW m \in Msgs, StartSending(m) PROVE Keeps(answers')
  <2>1. UNCHANGED answers
    BY <1>10, Zenon DEF StartSending
  <2> QED
    BY <1>1, <2>1
<1>11. Keeps(answers') => Contains(answers'[n], rc)
  BY DEF Keeps
<1> QED
  BY <1>4, <1>5, <1>6, <1>7, <1>8, <1>9, <1>10, <1>11 DEF Next, DriverSent

(* With a message of which the driver failed a frame all of its key suffer.*)
Broken(F) == {m \in Msgs : \E x \in F : MyKey(x) = MyKey(m)}

(* The books and the lists, for some set F of messages that were answered  *)
(* with the driver's error.                                                *)
KeptFor(F) == AInv(Broken(F)) /\ CInv(F) /\ \A x \in F : Failed(x)

Kept == \E F \in SUBSET Msgs : KeptFor(F)

LEMMA BrokenHalts ==
  ASSUME NEW F, TypeOK, CInv(F)
  PROVE  Halted(Broken(F))
<1> SUFFICES ASSUME NEW x \in Msgs, x \in Broken(F)
             PROVE  /\ stage[x] \notin {"starting", "driver"}
                    /\ \A y \in Msgs : KeyOf(Msg[y]) = KeyOf(Msg[x]) => y \in Broken(F)
  BY DEF Halted
<1>1. PICK z \in F : MyKey(z) = MyKey(x)
  BY DEF Broken
<1>2. /\ F \subseteq Msgs /\ \A y \in F : stage[y] = "done"
      /\ \A y \in Msgs : Course(F)[y] = IF y \in F THEN "driver" ELSE stage[y]
      /\ Turns(submitted, Course(F))
  BY CourseIs DEF CInv, Order, TypeOK
<1>3. stage[x] \notin {"starting", "driver"}
  <2> SUFFICES ASSUME stage[x] \in {"starting", "driver"} PROVE FALSE
    OBVIOUS
  <2>1. x \notin F /\ z \in Msgs
    BY <1>2
  <2>2. Course(F)[x] \in {"starting", "driver"} /\ Course(F)[z] = "driver"
    BY <1>2, <2>1
  <2> QED
    BY <1>1, <1>2, <2>1, <2>2 DEF Turns
<1>4. \A y \in Msgs : KeyOf(Msg[y]) = KeyOf(Msg[x]) => y \in Broken(F)
  BY <1>1 DEF Broken, MyKey
<1> QED
  BY <1>3, <1>4

LEMMA DriverFailedKept ==
  ASSUME TypeOK, NEW F, KeptFor(F), [Next]_vars, DriverFailed
  PROVE  Kept'
<1> DEFINE bad == Broken(F)
<1>1. AInv(bad) /\ CInv(F) /\ F \subseteq Msgs /\ \A x \in F : Failed(x)
  BY DEF KeptFor, CInv
<1>2. Halted(bad)
  BY <1>1, BrokenHalts
<1>3. /\ framesOut' = Tail(framesOut)
      /\ UNCHANGED <<atoms, pos, window, confirms, submitted, wire>>
  BY DEF DriverFailed, history
<1>4. CASE /\ framesOut # <<>> /\ Head(framesOut).kind = "confirm"
           /\ UNCHANGED <<stage, waiters, answers>>
  <2> HIDE DEF bad
  <2>1. AInv(bad)'
    BY <1>1, <1>3, <1>4, PeerConfirmFailedBooks
  <2>2. Course(F)' = Course(F)
    BY <1>4, CourseStays
  <2>3. CInv(F)'
    BY <1>1, <1>3, <1>4, <2>2 DEF CInv
  <2>4. (\A x \in F : Failed(x))'
    BY <1>1, <1>4 DEF Failed
  <2>5. KeptFor(F)'
    BY <2>1, <2>3, <2>4 DEF KeptFor, bad
  <2> QED
    BY <1>1, <2>5 DEF Kept
<1>5. ASSUME NEW m \in Msgs, NEW l \in BOOLEAN, NEW g \in Keys,
             DriverHolds([kind |-> "data", msg |-> m, num |-> pos[m] - 1, lfb |-> l]),
             waiters' = IF l /\ ~IsHeartbeat(Meta(m, g)) /\ FirstWaiter(Meta(m, g), g) # 0
                          THEN WithoutWaiter(FirstWaiter(Meta(m, g), g))
                          ELSE waiters,
             answers' = Answered(answers, m, RC_DRIVER_ERR),
             stage' = [stage EXCEPT ![m] = "done"]
      PROVE  Kept'
  <2> DEFINE G == F \cup {m}
             worse == Broken(G)
  <2>1. stage[m] = "driver"
    BY <1>1, <1>5, ReportedFrame
  <2>2. /\ m \notin F /\ stage \in [Msgs -> Stages] /\ answers \in [Msgs -> Seq(RCs)]
        /\ \A x \in F : stage[x] = "done"
    BY <1>1, <2>1 DEF CInv, TypeOK
  <2>3. /\ bad \subseteq worse
        /\ \A x \in Msgs : KeyOf(Msg[x]) = KeyOf(Msg[m]) => x \in worse
    BY DEF Broken, MyKey
  <2>4. ASSUME NEW x \in Msgs, x \in worse, stage[x] = "driver" PROVE x = m
    <3>1. x \notin bad
      BY <1>2, <2>4 DEF Halted
    <3>2. MyKey(m) = MyKey(x)
      BY <2>4, <3>1 DEF Broken
    <3>3. /\ \A y \in Msgs : Course(F)[y] = IF y \in F THEN "driver" ELSE stage[y]
          /\ Turns(submitted, Course(F))
      BY <1>1, <2>2, CourseIs DEF CInv, Order
    <3>4. Course(F)[x] = "driver" /\ Course(F)[m] = "driver"
      BY <2>1, <2>2, <2>4, <3>3
    <3> QED
      BY <3>2, <3>3, <3>4 DEF Turns
  <2>5. AInv(worse)'
    <3> HIDE DEF worse, bad
    <3> QED
      BY <1>1, <1>3, <1>5, <2>3, <2>4, DriverFailedBooks
  <2>6. Course(G)' = Course(F)
    <3>1. Course(G)' = [x \in Msgs |-> IF x \in G THEN "driver" ELSE stage'[x]]
      BY DEF Course, WithDriver
    <3>2. Course(F) = [x \in Msgs |-> IF x \in F THEN "driver" ELSE stage[x]]
      BY DEF Course, WithDriver
    <3>3. \A x \in Msgs : (IF x \in G THEN "driver" ELSE stage'[x])
                            = (IF x \in F THEN "driver" ELSE stage[x])
      BY <1>5, <2>1, <2>2
    <3> QED
      BY <3>1, <3>2, <3>3
  <2>7. \A x \in G : stage'[x] = "done" /\ Failed(x)'
    <3>1. stage'[m] = "done" /\ Failed(m)'
      <4>1. answers'[m] = Append(answers[m], RC_DRIVER_ERR) /\ stage'[m] = "done"
        BY <1>5, <2>2 DEF Answered
      <4>2. answers[m] \in Seq(RCs) /\ RC_DRIVER_ERR \in RCs
        BY <2>2 DEF RCs
      <4> QED
        BY <4>1, <4>2, AppendContains DEF Failed
    <3>2. \A x \in F : stage'[x] = "done" /\ Failed(x)'
      BY <1>1, <1>5, <2>2, ReportsStay DEF Failed
    <3> QED
      BY <3>1, <3>2
  <2>8. CInv(G)'
    <3> HIDE DEF G
    <3>1. G \subseteq Msgs
      BY <1>1 DEF G
    <3> QED
      BY <1>1, <1>3, <2>6, <2>7, <3>1 DEF CInv
  <2>9. KeptFor(G)' /\ G \in SUBSET Msgs
    BY <1>1, <2>5, <2>7, <2>8 DEF KeptFor
  <2> HIDE DEF G
  <2> QED
    BY <2>9 DEF Kept
<1> QED
  BY <1>4, <1>5 DEF DriverFailed

LEMMA KeptAlways == Prompt /\ Apart => (Spec => []Kept)
<1> SUFFICES ASSUME Prompt, Apart PROVE Spec => []Kept
  OBVIOUS
<1>1. Init => Kept
  <2> SUFFICES ASSUME Init PROVE Kept
    OBVIOUS
  <2>1. Broken({}) = {}
    BY DEF Broken
  <2>2. KeptFor({})
    BY <2>1, BooksInit, OrderInit DEF KeptFor
  <2> QED
    BY <2>2 DEF Kept
<1>2. TypeOK /\ Kept /\ [Next]_vars => Kept'
  <2> SUFFICES ASSUME TypeOK, [Next]_vars, NEW F \in SUBSET Msgs, KeptFor(F) PROVE Kept'
    BY DEF Kept
  <2>1. CASE DriverFailed
    BY <2>1, DriverFailedKept
  <2>2. CASE ~DriverFailed
    <3> DEFINE bad == Broken(F)
    <3>1. AInv(bad) /\ CInv(F) /\ \A x \in F : Failed(x)
      BY DEF KeptFor
    <3>2. Halted(bad)
      BY <3>1, BrokenHalts
    <3>3. CInv(F)'
      BY <2>2, <3>1, OrderKept
    <3>4. (\A x \in F : Failed(x))'
      BY <3>1, ReportsStay DEF Failed
    <3>5. AInv(bad)'
      <4> HIDE DEF bad
      <4> QED
        BY <2>2, <3>1, <3>2, BooksKept
    <3>6. KeptFor(F)'
      BY <3>3, <3>4, <3>5 DEF KeptFor
    <3> QED
      BY <3>6 DEF Kept
  <2> QED
    BY <2>1, <2>2
<1> QED
  BY <1>1, <1>2, TypeCorrect, PTL DEF Spec

LEMMA OwnBooksAlways ==
  Prompt /\ (FaultyDriver => Apart) => (Spec => [](Kept \/ AInv({})))
<1> SUFFICES ASSUME Prompt, FaultyDriver => Apart PROVE Spec => [](Kept \/ AInv({}))
  OBVIOUS
<1>1. CASE Apart
  BY <1>1, KeptAlways, PTL
<1>2. CASE ~Apart
  <2>1. Orderly
    BY <1>2 DEF Orderly
  <2> QED
    BY <2>1, BooksAlways, PTL
<1> QED
  BY <1>1, <1>2

(* Even when the driver fails frames (where peers do not share the atoms): *)
(* no thread answers, and so frees, a message while its send context has   *)
(* work to do, so no handler reads the header of a message that call_scb   *)
(* has freed (can_net.c:332).                                              *)
THEOREM ContextKeepsMessage ==
  Prompt /\ (FaultyDriver => Apart) => (Spec => []ContextOwnsMessage)
<1>1. \A bad : AInv(bad) => ContextOwnsMessage
  BY DEF AInv, Books, Unanswered, ContextOwnsMessage
<1>2. Kept \/ AInv({}) => ContextOwnsMessage
  BY <1>1 DEF Kept, KeptFor
<1> QED
  BY <1>2, OwnBooksAlways, PTL

(* A message whose frame the driver fails is answered and freed, but the   *)
(* waiter that can_net.c:370 removes is the first one of its key, which    *)
(* may be another message's; its own then answers it again.  That stays    *)
(* within the key: a message is answered twice only when the driver has    *)
(* failed a frame of it, or of another one to the same address, id, port.  *)
THEOREM FaultStaysInAtom ==
  Prompt /\ (FaultyDriver => Apart) => (Spec => []AnsweredOnceButFailed)
<1>1. \A F : KeptFor(F) => AnsweredOnceButFailed
  BY DEF KeptFor, AInv, Books, Unanswered, Broken, AnsweredOnceButFailed, CInv
<1>2. AInv({}) => AnsweredOnceButFailed
  BY DEF AInv, Books, Unanswered, AnsweredOnceButFailed
<1>3. Kept \/ AInv({}) => AnsweredOnceButFailed
  BY <1>1, <1>2 DEF Kept
<1> QED
  BY <1>3, OwnBooksAlways, PTL

(* Whatever the threads do and however many messages they submit: a        *)
(* message that can_net_start_sending_msg has queued stays on the queue of *)
(* its own atom until the report of the message before it takes it off     *)
(* (can_net.c:330).                                                        *)
THEOREM QueueKeepsMessage == Prompt /\ Apart => (Spec => []QueuedKept)
<1> SUFFICES ASSUME Prompt, Apart PROVE Spec => []QueuedKept
  OBVIOUS
<1>1. ASSUME NEW F, CInv(F), NEW m \in Msgs, stage[m] = "queued"
      PROVE  \E i \in DOMAIN atoms :
               KeyOf(atoms[i]) = KeyOf(Msg[m]) /\ Contains(atoms[i].queue, m)
  <2>1. PICK i, j \in Nat : Position(atoms, i, j) /\ atoms[i].queue[j] = m
    <3>1. Course(F)[m] = "queued"
      BY <1>1 DEF CInv, Course, WithDriver
    <3> QED
      BY <1>1, <3>1 DEF CInv, Lists, OnQueue
  <2>2. i \in 1 .. Len(atoms) /\ j \in 1 .. Len(atoms[i].queue) /\ Proper(atoms[i], submitted)
    BY <1>1, <2>1 DEF CInv, Lists, AllProper, Position
  <2>3. Mine(KeyOf(atoms[i]))
    <3> SUFFICES ASSUME atoms[i].queue = <<>> PROVE FALSE
      BY <2>2 DEF Proper
    <3> QED
      BY <2>2, EmptySeq
  <2> QED
    BY <2>1, <2>2, <2>3 DEF Proper, MyKey, Contains
<1>2. Kept => QueuedKept
  BY <1>1 DEF Kept, KeptFor, QueuedKept
<1> QED
  BY <1>2, KeptAlways, PTL

(* ... the count of an atom is its queue and the message before it, so the *)
(* uint8_t never tells the report of a last frame that nothing waits when  *)
(* something does (can_net.c:339).                                         *)
THEOREM CountIsQueue == Prompt /\ Apart => (Spec => []CountMatchesQueue)
<1> SUFFICES ASSUME Prompt, Apart PROVE Spec => []CountMatchesQueue
  OBVIOUS
<1>1. ASSUME NEW F, CInv(F), NEW i \in 1 .. Len(atoms)
      PROVE  /\ atoms[i].sending \in {Len(atoms[i].queue), Len(atoms[i].queue) + 1}
             /\ atoms[i].queue # <<>> \/ InProgress(KeyOf(atoms[i])) # {} =>
                  atoms[i].sending = Len(atoms[i].queue) + 1
  <2>1. Proper(atoms[i], submitted)
    BY <1>1 DEF CInv, Lists, AllProper
  <2>2. CASE Mine(KeyOf(atoms[i]))
    BY <2>1, <2>2 DEF Proper
  <2>3. CASE ~Mine(KeyOf(atoms[i]))
    <3>1. InProgress(KeyOf(atoms[i])) = {}
      BY <2>3 DEF InProgress, Mine, MyKey
    <3> QED
      BY <2>1, <2>3, <3>1, EmptySeq DEF Proper
  <2> QED
    BY <2>2, <2>3
<1>2. TypeOK /\ Kept => CountMatchesQueue
  <2>1. TypeOK => DOMAIN atoms = 1 .. Len(atoms)
    BY DEF TypeOK
  <2> QED
    BY <1>1, <2>1 DEF Kept, KeptFor, CountMatchesQueue
<1> QED
  BY <1>2, KeptAlways, TypeCorrect, PTL

(* ... and the messages of an atom go on the bus one after the other, in   *)
(* the order in which they were submitted, their frames from 0 to the last.*)
THEOREM SentInOrder == Prompt /\ Apart => (Spec => []WireInOrder)
<1> SUFFICES ASSUME Prompt, Apart PROVE Spec => []WireInOrder
  OBVIOUS
<1>1. ASSUME TypeOK, NEW F, CInv(F)
      PROVE  WireInOrder
  <2> DEFINE Before(m, n) == \E i, j \in DOMAIN submitted :
                               i < j /\ submitted[i] = m /\ submitted[j] = n
             Key(i) == KeyOf(Msg[wire[i].msg])
             Next2(e, f) == IF e.lfb THEN f.num = 0 /\ Before(e.msg, f.msg)
                                     ELSE f.msg = e.msg /\ f.num = e.num + 1
  <2>1. DOMAIN submitted = 1 .. Len(submitted) /\ DOMAIN wire = 1 .. Len(wire) /\ Len(wire) \in Nat
    BY <1>1, LenProperties DEF TypeOK, CInv
  <2>2. \A m, n : Precedes(submitted, m, n) => Before(m, n)
    BY <2>1 DEF Precedes
  <2>3. \A i : Key(i) = MyKey(wire[i].msg)
    BY DEF MyKey
  <2> HIDE DEF Before, Key
  <2> SUFFICES ASSUME NEW i \in DOMAIN wire, NEW j \in DOMAIN wire, i < j, Key(i) = Key(j),
                      \A h \in i + 1 .. j - 1 : Key(h) # Key(i)
               PROVE  Next2(wire[i], wire[j])
    BY DEF WireInOrder, Before, Key
  <2>4. NoneBetween(wire, i, j)
    <3> SUFFICES ASSUME NEW h \in 1 .. Len(wire), i < h, h < j PROVE Key(h) # Key(i)
      BY <2>3 DEF NoneBetween
    <3>1. h \in i + 1 .. j - 1
      BY <2>1
    <3> QED
      BY <3>1
  <2>5. Follows(submitted, wire[i], wire[j])
    BY <1>1, <2>1, <2>3, <2>4 DEF CInv, Order, Linked
  <2> QED
    BY <2>2, <2>5 DEF Follows
<1>2. TypeOK /\ Kept => WireInOrder
  BY <1>1 DEF Kept, KeptFor
<1> QED
  BY <1>2, KeptAlways, TypeCorrect, PTL

-----------------------------------------------------------------------------
(* Sending as it was promised                                              *)

(* A message that can_net.c refuses has an atom of its own.                *)
RefusedAlone ==
  \A m, n \in Msgs : Verdict(m) # RC_NORM /\ MyKey(m) = MyKey(n) => m = n

(* What the mapping onto MsgService is built from, for any list of atoms.  *)
InHand(stg, k) == {m \in Msgs : KeyOf(Msg[m]) = k /\ stg[m] \in {"starting", "driver"}}

Queue(list, k) == IF FindAtom(list, k) = 0 THEN <<>> ELSE list[FindAtom(list, k)].queue

Line(list, stg, k) == SetToSeq(InHand(stg, k)) \o Queue(list, k)

Lines(list, stg) == [k \in Keys |-> Line(list, stg, k)]

LEMMA SeqOfNone == SetToSeq({}) = <<>>
<1>1. Cardinality({}) = 0 /\ 1 .. 0 = {}
  BY FS_EmptySet
<1>2. SetToSeq({}) = CHOOSE f \in [{} -> {}] : IsInjective(f)
  BY <1>1 DEF SetToSeq
<1>3. <<>> \in [{} -> {}] /\ \A f \in [{} -> {}] : f = <<>>
  OBVIOUS
<1>4. IsInjective(<<>>)
  BY DEF IsInjective
<1> QED
  BY <1>2, <1>3, <1>4

LEMMA SeqOfOne ==
  ASSUME NEW m
  PROVE  SetToSeq({m}) = <<m>>
<1>1. Cardinality({m}) = 1 /\ 1 .. 1 = {1}
  BY FS_Singleton
<1>2. SetToSeq({m}) = CHOOSE f \in [{1} -> {m}] : IsInjective(f)
  BY <1>1 DEF SetToSeq
<1>3. <<m>> \in [{1} -> {m}] /\ \A f \in [{1} -> {m}] : f = <<m>>
  OBVIOUS
<1>4. IsInjective(<<m>>)
  BY DEF IsInjective
<1> QED
  BY <1>2, <1>3, <1>4

LEMMA QueueIs ==
  ASSUME NEW list \in Seq(Atom), NEW sub, AllProper(list, sub), Single(list)
  PROVE  /\ \A k : ~Mine(k) \/ ~HasAtom(list, k) => Queue(list, k) = <<>>
         /\ \A i \in 1 .. Len(list) :
              Mine(KeyOf(list[i])) => Queue(list, KeyOf(list[i])) = list[i].queue
         /\ \A k : Queue(list, k) \in Seq(Msgs)
<1>1. /\ Len(list) \in Nat
      /\ \A k : /\ FindAtom(list, k) # 0 =>
                     FindAtom(list, k) \in 1 .. Len(list) /\ KeyOf(list[FindAtom(list, k)]) = k
                /\ FindAtom(list, k) = 0 => \A i \in 1 .. Len(list) : KeyOf(list[i]) # k
  BY FindAtomFinds, LenProperties
<1>2. \A k : ~HasAtom(list, k) => Queue(list, k) = <<>>
  BY <1>1 DEF Queue, HasAtom
<1>3. \A k : ~Mine(k) => Queue(list, k) = <<>>
  BY <1>1 DEF Queue, AllProper, Proper
<1>4. ASSUME NEW i \in 1 .. Len(list), Mine(KeyOf(list[i]))
      PROVE  Queue(list, KeyOf(list[i])) = list[i].queue
  BY <1>1, <1>4 DEF Queue, Single
<1>5. \A k : Queue(list, k) \in Seq(Msgs)
  <2> SUFFICES ASSUME NEW k PROVE Queue(list, k) \in Seq(Msgs)
    OBVIOUS
  <2>1. CASE FindAtom(list, k) = 0
    BY <2>1, EmptySeq DEF Queue
  <2>2. CASE FindAtom(list, k) # 0
    <3>1. list[FindAtom(list, k)] \in Atom
      BY <1>1, <2>2, ElementOfSeq
    <3> QED
      BY <2>2, <3>1 DEF Queue, Atom
  <2> QED
    BY <2>1, <2>2
<1> QED
  BY <1>2, <1>3, <1>4, <1>5

(* Only the atom of k0 has changed.                                        *)
SameBut(list, new, k0) ==
  /\ \A i \in 1 .. Len(list) : Mine(KeyOf(list[i])) /\ KeyOf(list[i]) # k0 =>
       \E j \in 1 .. Len(new) : KeyOf(new[j]) = KeyOf(list[i]) /\ new[j].queue = list[i].queue
  /\ \A k : Mine(k) /\ k # k0 /\ HasAtom(new, k) => HasAtom(list, k)

LEMMA QueuesAgree ==
  ASSUME NEW list \in Seq(Atom), NEW sub, AllProper(list, sub), Single(list),
         NEW new \in Seq(Atom), NEW sub2, AllProper(new, sub2), Single(new),
         NEW k0, SameBut(list, new, k0)
  PROVE  \A k : k # k0 \/ ~Mine(k) => Queue(new, k) = Queue(list, k)
<1> SUFFICES ASSUME NEW k, k # k0 \/ ~Mine(k) PROVE Queue(new, k) = Queue(list, k)
  OBVIOUS
<1>1. /\ ~Mine(k) \/ ~HasAtom(list, k) => Queue(list, k) = <<>>
      /\ \A i \in 1 .. Len(list) :
           Mine(KeyOf(list[i])) => Queue(list, KeyOf(list[i])) = list[i].queue
  BY QueueIs
<1>2. /\ ~Mine(k) \/ ~HasAtom(new, k) => Queue(new, k) = <<>>
      /\ \A i \in 1 .. Len(new) :
           Mine(KeyOf(new[i])) => Queue(new, KeyOf(new[i])) = new[i].queue
  BY QueueIs
<1>3. CASE ~Mine(k) \/ ~HasAtom(list, k)
  <2>1. ~Mine(k) \/ ~HasAtom(new, k)
    BY <1>3 DEF SameBut
  <2> QED
    BY <1>1, <1>2, <1>3, <2>1
<1>4. CASE Mine(k) /\ HasAtom(list, k)
  <2>1. PICK i \in 1 .. Len(list) : KeyOf(list[i]) = k
    BY <1>4 DEF HasAtom
  <2>2. PICK j \in 1 .. Len(new) : KeyOf(new[j]) = k /\ new[j].queue = list[i].queue
    BY <1>4, <2>1 DEF SameBut
  <2> QED
    BY <1>1, <1>2, <1>4, <2>1, <2>2
<1> QED
  BY <1>3, <1>4

LEMMA LineIs ==
  ASSUME NEW list \in Seq(Atom), NEW sub, NEW stg, AllProper(list, sub), Single(list),
         Turns(sub, stg), NEW k
  PROVE  /\ Line(list, stg, k) \in Seq(Msgs)
         /\ InHand(stg, k) = {} => Line(list, stg, k) = Queue(list, k)
         /\ \A m \in Msgs : MyKey(m) = k /\ stg[m] \in {"starting", "driver"} =>
              InHand(stg, k) = {m} /\ Line(list, stg, k) = <<m>> \o Queue(list, k)
         /\ InHand(stg, k) = {} \/ \E m \in Msgs : MyKey(m) = k /\ stg[m] \in {"starting", "driver"}
<1>1. Queue(list, k) \in Seq(Msgs)
  BY QueueIs
<1>2. InHand(stg, k) = {} => Line(list, stg, k) = Queue(list, k)
  BY <1>1, SeqOfNone, ConcatEmptySeq DEF Line
<1>3. ASSUME NEW m \in Msgs, MyKey(m) = k, stg[m] \in {"starting", "driver"}
      PROVE  InHand(stg, k) = {m} /\ Line(list, stg, k) = <<m>> \o Queue(list, k)
  <2>1. InHand(stg, k) = {m}
    BY <1>3 DEF InHand, Turns, MyKey
  <2> QED
    BY <2>1, SeqOfOne DEF Line
<1>4. InHand(stg, k) = {} \/ \E m \in Msgs : MyKey(m) = k /\ stg[m] \in {"starting", "driver"}
  BY DEF InHand, MyKey
<1>5. \A m \in Msgs : <<m>> \o Queue(list, k) \in Seq(Msgs)
  <2>1. \A m \in Msgs : <<m>> \in Seq(Msgs)
    OBVIOUS
  <2> QED
    BY <1>1, <2>1, ConcatProperties
<1> QED
  BY <1>1, <1>2, <1>3, <1>4, <1>5

(* What is pending is in progress or queued.                               *)
LEMMA LineHolds ==
  ASSUME TypeOK, AInv({}), OInv, NEW m \in Msgs, stage[m] \in {"idle", "done"}
  PROVE  \A i \in DOMAIN Line(atoms, stage, MyKey(m)) : Line(atoms, stage, MyKey(m))[i] # m
<1> DEFINE k == MyKey(m)
           q == Queue(atoms, k)
           l == Line(atoms, stage, k)
<1>1. /\ atoms \in Seq(Atom) /\ AllProper(atoms, submitted) /\ Single(atoms)
      /\ Turns(submitted, stage) /\ Lists(atoms, submitted, stage) /\ Len(atoms) \in Nat
  BY LenProperties DEF TypeOK, OInv, Lists, Order
<1>2. q \in Seq(Msgs) /\ Len(q) \in Nat /\ (HasAtom(atoms, k) \/ q = <<>>)
  BY <1>1, QueueIs, LenProperties
<1>3. \A j \in 1 .. Len(q) : q[j] # m
  <2> SUFFICES ASSUME NEW j \in 1 .. Len(q), q[j] = m PROVE FALSE
    OBVIOUS
  <2>1. HasAtom(atoms, k)
    BY <1>2, EmptySeq
  <2>2. PICK i \in 1 .. Len(atoms) : KeyOf(atoms[i]) = k
    BY <2>1 DEF HasAtom
  <2>3. q = atoms[i].queue
    BY <1>1, <2>2, QueueIs DEF Mine
  <2>4. i \in Nat /\ j \in Nat /\ Position(atoms, i, j) /\ atoms[i].queue[j] = m
    BY <1>1, <1>2, <2>2, <2>3 DEF Position
  <2> QED
    BY <2>4 DEF AInv, Queues
<1> HIDE DEF q
<1>4. l \in Seq(Msgs) /\ DOMAIN l = 1 .. Len(l)
  BY <1>1, LineIs, LenProperties
<1>5. CASE l = q
  BY <1>3, <1>4, <1>5
<1>6. CASE \E x \in Msgs : stage[x] \in {"starting", "driver"} /\ l = <<x>> \o q
  <2>1. PICK x \in Msgs : stage[x] \in {"starting", "driver"} /\ l = <<x>> \o q
    BY <1>6
  <2>2. <<x>> \in Seq(Msgs) /\ Len(<<x>>) = 1 /\ <<x>>[1] = x
    OBVIOUS
  <2>3. /\ Len(l) = 1 + Len(q)
        /\ \A i \in 1 .. 1 + Len(q) : l[i] = IF i <= 1 THEN <<x>>[i] ELSE q[i - 1]
    BY <1>2, <2>1, <2>2, ConcatProperties
  <2> HIDE DEF l
  <2> SUFFICES ASSUME NEW i \in 1 .. Len(l) PROVE l[i] # m
    BY <1>4 DEF l
  <2>4. CASE i = 1
    BY <1>2, <2>1, <2>2, <2>3, <2>4
  <2>5. CASE i # 1
    <3>1. i - 1 \in 1 .. Len(q) /\ l[i] = q[i - 1]
      BY <1>2, <2>3, <2>5
    <3> QED
      BY <1>3, <3>1
  <2> QED
    BY <2>4, <2>5
<1> QED
  BY <1>1, <1>5, <1>6, LineIs DEF q

(* The pending messages of one key change, those of the others do not.     *)
Changed(list, stg, list2, stg2, k, new) ==
  Lines(list2, stg2) = [Lines(list, stg) EXCEPT ![k] = new]

LEMMA OneLine ==
  ASSUME NEW list, NEW stg, NEW list2, NEW stg2, NEW k0 \in Keys,
         \A k \in Keys : k # k0 => Line(list2, stg2, k) = Line(list, stg, k)
  PROVE  Changed(list, stg, list2, stg2, k0, Line(list2, stg2, k0))
BY DEF Changed, Lines

LEMMA KeyOfMsg ==
  ASSUME NEW m \in Msgs
  PROVE  MyKey(m) \in Keys /\ Mine(MyKey(m)) /\ KeyOf(Msg[m]) = MyKey(m)
<1>1. Msg[m] \in MsgInfo
  BY MsgsAssumption
<1> QED
  BY <1>1 DEF MyKey, Mine, KeyOf, Keys, MsgInfo

LEMMA StartSendingLine ==
  ASSUME TypeOK, TypeOK', Apart, AInv({}), OInv, OInv', NEW m \in Msgs, StartSending(m)
  PROVE  /\ Changed(atoms, stage, atoms', stage', MyKey(m), Append(Line(atoms, stage, MyKey(m)), m))
         /\ UNCHANGED answers /\ stage[m] = "idle"
<1> DEFINE k == KeyOf(Msg[m])
           list == GetAtom(atoms, k)
           i == FindAtom(list, k)
           n == CountUp(list[i].sending)
           a == [list[i] EXCEPT !.sending = n, !.queue = Enqueue(@, m)]
           b == [list[i] EXCEPT !.sending = n]
           q == Queue(atoms, k)
           l == Line(atoms, stage, k)
<1>1. /\ \/ atoms' = [list EXCEPT ![i] = a] /\ stage' = [stage EXCEPT ![m] = "queued"]
         \/ atoms' = [list EXCEPT ![i] = b] /\ stage' = [stage EXCEPT ![m] = "starting"]
      /\ stage[m] = "idle" /\ UNCHANGED answers
  BY Zenon DEF StartSending
<1>2. /\ atoms \in Seq(Atom) /\ atoms' \in Seq(Atom) /\ k \in Nat \X Ids
      /\ stage \in [Msgs -> Stages] /\ Mine(k) /\ MyKey(m) = k /\ k \in Keys
  BY KeysTyped, KeyOfMsg DEF TypeOK
<1>3. /\ AllProper(atoms, submitted) /\ Single(atoms) /\ Turns(submitted, stage)
      /\ AllProper(atoms', submitted') /\ Single(atoms') /\ Turns(submitted', stage')
  BY DEF OInv, Lists, Order
<1>4. /\ list \in Seq(Atom) /\ i \in 1 .. Len(list) /\ KeyOf(list[i]) = k
      /\ \A j \in 1 .. Len(atoms) : j \in 1 .. Len(list) /\ list[j] = atoms[j]
      /\ \A j \in 1 .. Len(list) : j \in 1 .. Len(atoms) \/ list[j] = FreshAtom(k)
      /\ KeyOf(FreshAtom(k)) = k /\ list[i] \in Atom
  <2>1. /\ list \in Seq(Atom) /\ i \in 1 .. Len(list) /\ KeyOf(list[i]) = k
        /\ \A j \in 1 .. Len(atoms) : list[j] = atoms[j]
        /\ \A j \in 1 .. Len(list) : j \in 1 .. Len(atoms) \/ list[j] = FreshAtom(k)
        /\ Len(list) >= Len(atoms)
    BY <1>2, GetAtomHas
  <2>2. Len(list) \in Nat /\ Len(atoms) \in Nat
    BY <1>2, <2>1, LenProperties
  <2>3. KeyOf(FreshAtom(k)) = k
    BY <1>2 DEF KeyOf, FreshAtom
  <2>4. list[i] \in Atom
    BY <2>1, ElementOfSeq
  <2> HIDE DEF list, i, k
  <2> QED
    BY <2>1, <2>2, <2>3, <2>4
<1>5. list[i].queue = q
  <2>1. CASE i \in 1 .. Len(atoms)
    BY <1>2, <1>3, <1>4, <2>1, QueueIs
  <2>2. CASE i \notin 1 .. Len(atoms)
    <3>1. list[i] = FreshAtom(k)
      BY <1>4, <2>2
    <3>2. FindAtom(atoms, k) = 0
      BY <2>2, <1>2, <1>4, FindAtomFinds DEF GetAtom
    <3> QED
      BY <3>1, <3>2 DEF FreshAtom, Queue
  <2> QED
    BY <2>1, <2>2
<1>6. /\ Len(atoms') = Len(list) /\ KeyOf(atoms'[i]) = k
      /\ \A j \in 1 .. Len(list) : j # i => atoms'[j] = list[j]
      /\ \/ atoms'[i].queue = Append(q, m) /\ stage' = [stage EXCEPT ![m] = "queued"]
         \/ atoms'[i].queue = q /\ stage' = [stage EXCEPT ![m] = "starting"]
  <2>1. a.queue = Append(q, m) /\ KeyOf(a) = k /\ b.queue = q /\ KeyOf(b) = k
    BY <1>4, <1>5 DEF Atom, Enqueue, KeyOf
  <2> HIDE DEF a, b, list, i, q, k
  <2> QED
    BY <1>1, <1>4, <2>1
<1> HIDE DEF a, b, list, i, n, q, k
<1>7. SameBut(atoms, atoms', k)
  <2>1. ASSUME NEW j \in 1 .. Len(atoms), KeyOf(atoms[j]) # k
        PROVE  \E h \in 1 .. Len(atoms') : KeyOf(atoms'[h]) = KeyOf(atoms[j]) /\ atoms'[h].queue = atoms[j].queue
    BY <1>4, <1>6, <2>1
  <2>2. ASSUME NEW x, x # k, HasAtom(atoms', x)
        PROVE  HasAtom(atoms, x)
    BY <1>4, <1>6, <2>2 DEF HasAtom
  <2> QED
    BY <2>1, <2>2 DEF SameBut
<1>8. \A x : x # k => Queue(atoms', x) = Queue(atoms, x)
  BY <1>2, <1>3, <1>7, QueuesAgree
<1>9. \A x : x # k => InHand(stage', x) = InHand(stage, x)
  <2>1. \A x \in Msgs : MyKey(x) # k => stage'[x] = stage[x]
    BY <1>2, <1>6
  <2> QED
    BY <2>1 DEF InHand, MyKey
<1>10. Queue(atoms', k) = atoms'[i].queue /\ q \in Seq(Msgs)
  <2>1. q \in Seq(Msgs)
    BY <1>2, <1>3, QueueIs DEF q
  <2>2. i \in 1 .. Len(atoms') /\ Mine(KeyOf(atoms'[i]))
    BY <1>2, <1>4, <1>6
  <2>3. Queue(atoms', KeyOf(atoms'[i])) = atoms'[i].queue
    BY <1>2, <1>3, <2>2, QueueIs
  <2> QED
    BY <1>6, <2>1, <2>3
<1>10a. /\ InHand(stage, k) = {} => l = q
        /\ \A x \in Msgs : MyKey(x) = k /\ stage[x] \in {"starting", "driver"} => l = <<x>> \o q
        /\ InHand(stage, k) = {} \/ \E x \in Msgs : MyKey(x) = k /\ stage[x] \in {"starting", "driver"}
  BY <1>2, <1>3, LineIs DEF q
<1>10b. /\ InHand(stage', k) = {} => Line(atoms', stage', k) = atoms'[i].queue
        /\ \A x \in Msgs : MyKey(x) = k /\ stage'[x] \in {"starting", "driver"} =>
             Line(atoms', stage', k) = <<x>> \o atoms'[i].queue
  BY <1>2, <1>3, <1>10, LineIs
<1> HIDE DEF l
<1>11. Line(atoms', stage', k) = Append(l, m)
  <2>1. CASE atoms'[i].queue = Append(q, m) /\ stage' = [stage EXCEPT ![m] = "queued"]
    <3>1. InHand(stage', k) = InHand(stage, k)
      BY <1>1, <1>2, <2>1 DEF InHand
    <3>2. CASE InHand(stage, k) = {}
      BY <1>10a, <1>10b, <2>1, <3>1, <3>2
    <3>3. ASSUME NEW x \in Msgs, MyKey(x) = k, stage[x] \in {"starting", "driver"}
          PROVE  Line(atoms', stage', k) = Append(l, m)
      <4>1. l = <<x>> \o q
        BY <1>10a, <3>3
      <4>2. Line(atoms', stage', k) = <<x>> \o Append(q, m)
        <5>1. stage'[x] = stage[x]
          BY <1>1, <1>2, <2>1, <3>3
        <5> QED
          BY <1>10b, <2>1, <3>3, <5>1
      <4>3. /\ <<x>> \in Seq(Msgs) /\ <<m>> \in Seq(Msgs) /\ <<x>> \o q \in Seq(Msgs)
        BY <1>10, ConcatProperties
      <4>4. Append(q, m) = q \o <<m>> /\ Append(<<x>> \o q, m) = (<<x>> \o q) \o <<m>>
        BY <1>10, <4>3, AppendIsConcat
      <4>5. (<<x>> \o q) \o <<m>> = <<x>> \o (q \o <<m>>)
        BY <1>10, <4>3, ConcatAssociative
      <4> QED
        BY <4>1, <4>2, <4>4, <4>5
    <3> QED
      BY <1>10a, <3>2, <3>3
  <2>2. CASE atoms'[i].queue = q /\ stage' = [stage EXCEPT ![m] = "starting"]
    <3>1. ~HasAtom(atoms, k)
      <4>1. \/ stage' = [stage EXCEPT ![m] = "queued"]
            \/ ~HasAtom(atoms, MyKey(m))
        BY <1>2, StartSendingLists DEF OInv, Order
      <4>2. stage'[m] = "starting"
        BY <1>2, <2>2
      <4> QED
        BY <1>2, <4>1, <4>2
    <3>2. q = <<>>
      BY <1>2, <1>3, <3>1, QueueIs DEF q
    <3>3. \A x \in Msgs : MyKey(x) = k => stage[x] \notin {"starting", "queued", "driver"}
      BY <1>2, <3>1, NoAtom DEF OInv
    <3>4. InHand(stage, k) = {}
      BY <3>3 DEF InHand, MyKey
    <3>5. l = <<>>
      BY <1>10a, <3>2, <3>4
    <3>6. Line(atoms', stage', k) = <<m>> \o q
      BY <1>2, <1>10b, <2>2
    <3>7. <<m>> \o <<>> = <<m>> /\ Append(<<>>, m) = <<m>>
      OBVIOUS
    <3> QED
      BY <3>2, <3>5, <3>6, <3>7
  <2> QED
    BY <1>6, <2>1, <2>2
<1>12. \A x \in Keys : x # k => Line(atoms', stage', x) = Line(atoms, stage, x)
  BY <1>8, <1>9 DEF Line
<1>13. Changed(atoms, stage, atoms', stage', k, Line(atoms', stage', k))
  BY <1>2, <1>12, OneLine
<1> QED
  BY <1>1, <1>2, <1>11, <1>13 DEF l

(* An atom is freed.                                                       *)
LEMMA RemovedSame ==
  ASSUME NEW list \in Seq(Atom), NEW i0 \in 1 .. Len(list), NEW sub,
         AllProper(list, sub), Single(list), NEW new, new = RemoveAt(list, i0),
         NEW k0, k0 = KeyOf(list[i0])
  PROVE  SameBut(list, new, k0) /\ (Mine(k0) => ~HasAtom(new, k0))
<1> DEFINE From(i) == IF i < i0 THEN i ELSE i + 1
           To(i) == IF i < i0 THEN i ELSE i - 1
<1>1. /\ Len(list) \in Nat /\ Len(new) = Len(list) - 1
      /\ \A i \in 1 .. Len(list) - 1 : new[i] = IF i < i0 THEN list[i] ELSE list[i + 1]
  BY RemoveAtProperties, LenProperties
<1>2. \A i \in 1 .. Len(new) : From(i) \in 1 .. Len(list) /\ From(i) # i0 /\ new[i] = list[From(i)]
  BY <1>1
<1>3. \A i \in 1 .. Len(list) : i # i0 => To(i) \in 1 .. Len(new) /\ new[To(i)] = list[i]
  BY <1>1
<1> HIDE DEF From, To
<1>4. SameBut(list, new, k0)
  BY <1>2, <1>3 DEF SameBut, HasAtom
<1>5. Mine(k0) => ~HasAtom(new, k0)
  BY <1>2 DEF Single, HasAtom
<1> QED
  BY <1>4, <1>5

LEMMA ConsFacts ==
  ASSUME NEW S, NEW q \in Seq(S), NEW m \in S
  PROVE  /\ <<m>> \o q # <<>> /\ Head(<<m>> \o q) = m /\ Tail(<<m>> \o q) = q
         /\ q # <<>> => <<Head(q)>> \o Tail(q) = q
<1>1. <<m>> \in Seq(S) /\ Len(<<m>>) = 1 /\ <<m>>[1] = m /\ Len(q) \in Nat
  BY LenProperties
<1>2. /\ <<m>> \o q \in Seq(S) /\ Len(<<m>> \o q) = 1 + Len(q)
      /\ \A i \in 1 .. 1 + Len(q) : (<<m>> \o q)[i] = IF i <= 1 THEN <<m>>[i] ELSE q[i - 1]
  BY <1>1, ConcatProperties
<1> DEFINE l == <<m>> \o q
<1> HIDE DEF l
<1>3. l \in Seq(S) /\ Len(l) = 1 + Len(q) /\ l # <<>>
  BY <1>1, <1>2, EmptySeq DEF l
<1>4. Head(l) = m
  <2>1. Head(l) = l[1]
    BY <1>3, Shrunk
  <2>2. l[1] = m
    BY <1>1, <1>2 DEF l
  <2> QED
    BY <2>1, <2>2
<1>5. Tail(l) = q
  <2>1. /\ Tail(l) \in Seq(S) /\ Len(Tail(l)) = Len(q)
        /\ \A i \in 1 .. Len(Tail(l)) : Tail(l)[i] = l[i + 1]
    BY <1>1, <1>3, HeadTailProperties
  <2>2. \A i \in 1 .. Len(q) : l[i + 1] = q[i]
    BY <1>1, <1>2 DEF l
  <2> QED
    BY <2>1, <2>2, SeqEqual
<1>6. ASSUME q # <<>> PROVE <<Head(q)>> \o Tail(q) = q
  <2>1. /\ Head(q) \in S /\ Tail(q) \in Seq(S) /\ Len(Tail(q)) = Len(q) - 1 /\ Head(q) = q[1]
        /\ \A i \in 1 .. Len(Tail(q)) : Tail(q)[i] = q[i + 1]
    BY <1>6, HeadTailProperties, Shrunk
  <2>2. <<Head(q)>> \in Seq(S) /\ Len(<<Head(q)>>) = 1 /\ <<Head(q)>>[1] = Head(q)
    BY <2>1
  <2> DEFINE t == <<Head(q)>> \o Tail(q)
  <2>3. /\ t \in Seq(S) /\ Len(t) = Len(q)
        /\ \A i \in 1 .. Len(q) : t[i] = IF i <= 1 THEN <<Head(q)>>[i] ELSE Tail(q)[i - 1]
    <3>1. 1 + (Len(q) - 1) = Len(q)
      BY <1>1
    <3> QED
      BY <2>1, <2>2, <3>1, ConcatProperties
  <2>4. \A i \in 1 .. Len(q) : i > 1 => i - 1 \in 1 .. Len(Tail(q)) /\ (i - 1) + 1 = i
    BY <1>1, <2>1
  <2> HIDE DEF t
  <2>5. \A i \in 1 .. Len(q) : t[i] = q[i]
    <3> SUFFICES ASSUME NEW i \in 1 .. Len(q) PROVE t[i] = q[i]
      OBVIOUS
    <3>1. CASE i = 1
      BY <1>1, <2>1, <2>2, <2>3, <3>1
    <3>2. CASE i > 1
      BY <1>1, <2>1, <2>3, <2>4, <3>2
    <3> QED
      BY <1>1, <3>1, <3>2
  <2>6. t = q
    BY <2>3, <2>5, SeqEqual
  <2> QED
    BY <2>6 DEF t
<1> QED
  BY <1>3, <1>4, <1>5, <1>6 DEF l

(* m is the first of its key that is pending, and is pending no more.      *)
Leaves(m, list2, stg2) ==
  LET l == Line(atoms, stage, MyKey(m))
  IN  l # <<>> /\ Head(l) = m /\ Changed(atoms, stage, list2, stg2, MyKey(m), Tail(l))

(* m is given its only answer.                                             *)
AnsweredNow(m) ==
  answers[m] = <<>> /\ \E rc \in RCs : answers' = [answers EXCEPT ![m] = <<rc>>]

LEMMA ProcessFirstLine ==
  ASSUME TypeOK, AInv({}), OInv, OInv', NEW m \in Msgs, ProcessFirst(m)
  PROVE  \/ Lines(atoms', stage') = Lines(atoms, stage) /\ UNCHANGED answers
         \/ Leaves(m, atoms', stage') /\ AnsweredNow(m)
<1> DEFINE k == MyKey(m)
           q == Queue(atoms, k)
           l == Line(atoms, stage, k)
<1>1. /\ stage[m] = "starting" /\ Dispatch(m, framesOut, stage, answers) /\ UNCHANGED atoms
  BY DEF ProcessFirst
<1>2. /\ atoms \in Seq(Atom) /\ stage \in [Msgs -> Stages] /\ answers \in [Msgs -> Seq(RCs)]
      /\ k \in Keys
  BY KeyOfMsg DEF TypeOK
<1>3. /\ AllProper(atoms, submitted) /\ Single(atoms)
      /\ Turns(submitted, stage) /\ Turns(submitted', stage')
  BY DEF OInv, Lists, Order
<1>4. CASE stage' = [stage EXCEPT ![m] = "driver"] /\ answers' = answers
  <2>1. \A x \in Msgs : stage'[x] \in {"starting", "driver"} <=> stage[x] \in {"starting", "driver"}
    BY <1>1, <1>2, <1>4
  <2>2. \A x : InHand(stage', x) = InHand(stage, x)
    BY <2>1 DEF InHand
  <2>3. \A x \in Keys : Line(atoms', stage', x) = Line(atoms, stage, x)
    BY <1>1, <2>2 DEF Line
  <2> QED
    BY <1>4, <2>3 DEF Lines
<1>5. CASE Verdict(m) # RC_NORM /\ stage' = [stage EXCEPT ![m] = "done"] /\ answers' = Answered(answers, m, Verdict(m))
  <2>1. answers[m] = <<>>
    BY <1>1 DEF AInv, Books, Unanswered
  <2>2. Verdict(m) \in RCs
    BY DEF Verdict, RCs
  <2>3. AnsweredNow(m)
    <3>1. Append(<<>>, Verdict(m)) = <<Verdict(m)>>
      OBVIOUS
    <3>2. answers' = [answers EXCEPT ![m] = Append(answers[m], Verdict(m))]
      BY <1>5 DEF Answered
    <3> QED
      BY <2>1, <2>2, <3>1, <3>2 DEF AnsweredNow
  <2>4. stage'[m] = "done" /\ \A x \in Msgs : x # m => stage'[x] = stage[x]
    BY <1>2, <1>5
  <2>5. l = <<m>> \o q /\ q \in Seq(Msgs)
    BY <1>1, <1>2, <1>3, LineIs, QueueIs
  <2>6. InHand(stage', k) = {}
    BY <1>1, <1>3, <2>4 DEF InHand, Turns, MyKey
  <2>7. Line(atoms', stage', k) = q
    BY <1>1, <2>5, <2>6, SeqOfNone, ConcatEmptySeq DEF Line
  <2>8. \A x : x # k => InHand(stage', x) = InHand(stage, x)
    BY <2>4 DEF InHand, MyKey
  <2>9. \A x \in Keys : x # k => Line(atoms', stage', x) = Line(atoms, stage, x)
    BY <1>1, <2>8 DEF Line
  <2>10. Changed(atoms, stage, atoms', stage', k, Line(atoms', stage', k))
    BY <1>2, <2>9, OneLine
  <2>11. l # <<>> /\ Head(l) = m /\ Tail(l) = q
    BY <2>5, ConsFacts
  <2> HIDE DEF q, l
  <2>12. Leaves(m, atoms', stage')
    BY <2>7, <2>10, <2>11 DEF Leaves, l
  <2> QED
    BY <2>3, <2>12
<1> QED
  BY <1>1, <1>4, <1>5 DEF Dispatch

LEMMA DriverSentLastLine ==
  ASSUME TypeOK, TypeOK', RefusedAlone, AInv({}), OInv, OInv', NEW m \in Msgs, DriverSentLast(m)
  PROVE  /\ Leaves(m, atoms', stage')
         /\ UNCHANGED answers \/ AnsweredNow(m)
<1> DEFINE k == KeyOf(Msg[m])
           list == GetAtom(atoms, k)
           i == FindAtom(list, k)
           n == CountDown(list[i].sending)
           stg == [stage EXCEPT ![m] = "done"]
           ans == IF Msg[m].id = HeartbeatId THEN Answered(answers, m, RC_NORM) ELSE answers
           a == [list[i] EXCEPT !.sending = n, !.queue = Tail(@)]
           b == [list[i] EXCEPT !.sending = n]
           q == list[i].queue
           l == Line(atoms, stage, k)
<1>1. \/ /\ q # <<>>
         /\ atoms' = [list EXCEPT ![i] = a]
         /\ Dispatch(Head(q), Tail(framesOut), stg, ans)
      \/ /\ q = <<>>
         /\ atoms' = IF list[i].receiving THEN [list EXCEPT ![i] = b] ELSE RemoveAt(list, i)
         /\ stage' = stg /\ answers' = ans
  BY LastReport, Zenon
<1>2. stage[m] = "driver" /\ answers[m] = <<>>
  <2>1. DriverHolds([kind |-> "data", msg |-> m, num |-> pos[m] - 1, lfb |-> TRUE])
    BY DEF DriverSentLast
  <2> QED
    BY <2>1, ReportBooks
<1>3. /\ atoms \in Seq(Atom) /\ atoms' \in Seq(Atom) /\ stage \in [Msgs -> Stages]
      /\ answers \in [Msgs -> Seq(RCs)]
      /\ Mine(k) /\ MyKey(m) = k /\ k \in Keys /\ HasAtom(atoms, k)
  BY <1>2, KeyOfMsg DEF TypeOK, OInv, Lists
<1>4. /\ AllProper(atoms, submitted) /\ Single(atoms) /\ Turns(submitted, stage)
      /\ AllProper(atoms', submitted') /\ Single(atoms') /\ Turns(submitted', stage')
  BY DEF OInv, Lists, Order
<1>5. list = atoms /\ i \in 1 .. Len(atoms) /\ KeyOf(atoms[i]) = k /\ Len(atoms) \in Nat
  <2>1. /\ FindAtom(atoms, k) \in 0 .. Len(atoms) /\ FindAtom(atoms, k) # 0
        /\ KeyOf(atoms[FindAtom(atoms, k)]) = k
    BY <1>3, FindAtomFinds DEF HasAtom
  <2>2. list = atoms
    BY <2>1 DEF GetAtom
  <2>3. Len(atoms) \in Nat
    BY <1>3, LenProperties
  <2> QED
    BY <2>1, <2>2, <2>3
<1>6. atoms[i] \in Atom /\ ~atoms[i].receiving /\ q = atoms[i].queue
  <2>1. atoms[i] \in Atom /\ Proper(atoms[i], submitted)
    BY <1>3, <1>4, <1>5, ElementOfSeq DEF AllProper
  <2> QED
    BY <1>3, <1>5, <2>1 DEF Proper
<1>7. a.queue = Tail(q) /\ KeyOf(a) = k
  BY <1>5, <1>6 DEF Atom, KeyOf
<1>8. ans = answers \/ (ans = [answers EXCEPT ![m] = <<RC_NORM>>])
  <2>1. Append(<<>>, RC_NORM) = <<RC_NORM>>
    OBVIOUS
  <2> QED
    BY <1>2, <2>1 DEF Answered
<1>9. stg[m] = "done" /\ \A x \in Msgs : x # m => stg[x] = stage[x]
  BY <1>3
<1>10. \A x \in Msgs : MyKey(x) = k => stg[x] \notin {"starting", "driver"}
  BY <1>2, <1>3, <1>4, <1>9 DEF Turns
<1>11. q = Queue(atoms, k) /\ q \in Seq(Msgs) /\ l = <<m>> \o q
  <2>1. q = Queue(atoms, k) /\ Queue(atoms, k) \in Seq(Msgs)
    BY <1>3, <1>4, <1>5, <1>6, QueueIs
  <2> HIDE DEF k, list, i, n, stg, ans, a, b, q, l
  <2>2. Line(atoms, stage, MyKey(m)) = <<m>> \o Queue(atoms, MyKey(m))
    <3>1. /\ atoms \in Seq(Atom) /\ AllProper(atoms, submitted) /\ Single(atoms)
          /\ Turns(submitted, stage) /\ m \in Msgs /\ stage[m] \in {"starting", "driver"}
      BY <1>2, <1>3, <1>4
    <3> QED
      BY ONLY <3>1, LineIs
  <2> QED
    BY <1>3, <2>1, <2>2 DEF l
<1>12. l # <<>> /\ Head(l) = m /\ Tail(l) = q /\ (q # <<>> => <<Head(q)>> \o Tail(q) = q)
  BY <1>11, ConsFacts
<1> HIDE DEF k, list, i, n, stg, ans, a, b, q, l
<1>13. /\ \A x : InHand(stage', x) = {} => Line(atoms', stage', x) = Queue(atoms', x)
       /\ \A x \in Msgs : stage'[x] \in {"starting", "driver"} =>
            Line(atoms', stage', MyKey(x)) = <<x>> \o Queue(atoms', MyKey(x))
  <2> DEFINE at == atoms'
             sg == stage'
             sb == submitted'
  <2>1. at \in Seq(Atom) /\ AllProper(at, sb) /\ Single(at) /\ Turns(sb, sg)
    BY <1>3, <1>4
  <2> HIDE DEF at, sg, sb
  <2>2. /\ \A x : InHand(sg, x) = {} => Line(at, sg, x) = Queue(at, x)
        /\ \A x \in Msgs : sg[x] \in {"starting", "driver"} =>
             Line(at, sg, MyKey(x)) = <<x>> \o Queue(at, MyKey(x))
    BY <2>1, LineIs
  <2> QED
    BY <2>2 DEF at, sg
<1>14. CASE /\ q = <<>>
            /\ atoms' = IF list[i].receiving THEN [list EXCEPT ![i] = b] ELSE RemoveAt(list, i)
            /\ stage' = stg /\ answers' = ans
  <2>1. atoms' = RemoveAt(atoms, i)
    BY <1>5, <1>6, <1>14
  <2>2. SameBut(atoms, atoms', k) /\ ~HasAtom(atoms', k)
    BY <1>3, <1>4, <1>5, <2>1, RemovedSame
  <2>3. Queue(atoms', k) = <<>> /\ \A x : x # k => Queue(atoms', x) = Queue(atoms, x)
    BY <1>3, <1>4, <2>2, QueuesAgree, QueueIs
  <2>4. /\ InHand(stage', k) = {}
        /\ \A x : x # k => InHand(stage', x) = InHand(stage, x)
    BY <1>3, <1>9, <1>10, <1>14 DEF InHand, MyKey
  <2>5. Line(atoms', stage', k) = q
    BY <1>13, <1>14, <2>3, <2>4
  <2>6. \A x \in Keys : x # k => Line(atoms', stage', x) = Line(atoms, stage, x)
    BY <2>3, <2>4 DEF Line
  <2>7. Changed(atoms, stage, atoms', stage', k, Line(atoms', stage', k))
    BY <1>3, <2>6, OneLine
  <2>8. Leaves(m, atoms', stage')
    BY <1>3, <1>12, <2>5, <2>7 DEF Leaves, l
  <2>9. UNCHANGED answers \/ AnsweredNow(m)
    BY <1>2, <1>8, <1>14 DEF AnsweredNow, RCs
  <2> QED
    BY <2>8, <2>9
<1>15. CASE /\ q # <<>>
            /\ atoms' = [list EXCEPT ![i] = a]
            /\ Dispatch(Head(q), Tail(framesOut), stg, ans)
  <2> DEFINE next == Head(q)
  <2>1. next \in Msgs /\ MyKey(next) = k /\ next # m /\ stg[next] = "queued"
    <3>1. 1 \in 1 .. Len(q) /\ next = q[1] /\ next \in Msgs
      BY <1>11, <1>15, Shrunk
    <3>2. MyKey(next) = k
      BY <1>3, <1>4, <1>5, <1>6, <3>1 DEF AllProper, Proper
    <3>3. i \in Nat /\ 1 \in Nat /\ Position(atoms, i, 1) /\ atoms[i].queue[1] = next
      BY <1>5, <1>6, <3>1 DEF Position
    <3>4. stage[next] = "queued"
      BY <3>3 DEF AInv, Queues
    <3> QED
      BY <1>2, <1>9, <3>1, <3>2, <3>4
  <2> HIDE DEF next
  <2>2. Verdict(next) = RC_NORM
    BY <1>3, <2>1 DEF RefusedAlone
  <2>3. stage' = [stg EXCEPT ![next] = "driver"] /\ answers' = ans
    BY <1>15, <2>2 DEF Dispatch, next
  <2>4. stage'[next] = "driver" /\ \A x \in Msgs : x # next => stage'[x] = stg[x]
    <3>1. DOMAIN stg = Msgs
      BY <1>3 DEF stg
    <3> QED
      BY <2>1, <2>3, <3>1
  <2>5. atoms' = [atoms EXCEPT ![i] = a] /\ KeyOf(a) = k
    BY <1>5, <1>7, <1>15
  <2>6. /\ Len(atoms') = Len(atoms) /\ atoms'[i] = a
        /\ \A j \in 1 .. Len(atoms) : j # i => atoms'[j] = atoms[j]
    BY <1>3, <1>5, <2>5
  <2>7. SameBut(atoms, atoms', k)
    BY <1>5, <2>5, <2>6 DEF SameBut, HasAtom
  <2>8. Queue(atoms', k) = Tail(q) /\ \A x : x # k => Queue(atoms', x) = Queue(atoms, x)
    <3>1. Queue(atoms', k) = atoms'[i].queue
      <4> DEFINE at == atoms'
                 sb == submitted'
      <4>1. /\ at \in Seq(Atom) /\ AllProper(at, sb) /\ Single(at)
            /\ i \in 1 .. Len(at) /\ KeyOf(at[i]) = k
        BY <1>3, <1>4, <1>5, <2>5, <2>6
      <4> HIDE DEF at, sb
      <4>2. Queue(at, KeyOf(at[i])) = at[i].queue
        BY <1>3, <4>1, QueueIs
      <4> QED
        BY <4>1, <4>2 DEF at
    <3>2. \A x : x # k => Queue(atoms', x) = Queue(atoms, x)
      BY <1>3, <1>4, <2>7, QueuesAgree
    <3> QED
      BY <1>7, <2>6, <3>1, <3>2
  <2>9. \A x : x # k => InHand(stage', x) = InHand(stage, x)
    BY <1>3, <1>9, <2>1, <2>4 DEF InHand, MyKey
  <2>10. Line(atoms', stage', k) = q
    <3>1. Line(atoms', stage', k) = <<next>> \o Tail(q)
      BY <1>13, <2>1, <2>4, <2>8
    <3> QED
      BY <1>12, <1>15, <3>1 DEF next
  <2>11. \A x \in Keys : x # k => Line(atoms', stage', x) = Line(atoms, stage, x)
    BY <2>8, <2>9 DEF Line
  <2>12. Changed(atoms, stage, atoms', stage', k, Line(atoms', stage', k))
    BY <1>3, <2>11, OneLine
  <2>13. Leaves(m, atoms', stage')
    BY <1>3, <1>12, <2>10, <2>12 DEF Leaves, l
  <2>14. UNCHANGED answers \/ AnsweredNow(m)
    BY <1>2, <1>8, <2>3 DEF AnsweredNow, RCs
  <2> QED
    BY <2>13, <2>14
<1> QED
  BY <1>1, <1>14, <1>15

(* An atom that nothing is sent on changes.                                *)
LEMMA ReplacedSame ==
  ASSUME NEW list \in Seq(Atom), NEW i0 \in 1 .. Len(list), NEW a, NEW k0,
         ~Mine(KeyOf(list[i0])), ~Mine(KeyOf(a)), NEW new, new = [list EXCEPT ![i0] = a]
  PROVE  SameBut(list, new, k0)
<1>1. /\ Len(new) = Len(list) /\ new[i0] = a
      /\ \A i \in 1 .. Len(list) : i # i0 => new[i] = list[i]
  OBVIOUS
<1> QED
  BY <1>1 DEF SameBut, HasAtom

(* Received frames and their callbacks leave what is pending alone.        *)
LEMMA ReceiveLine ==
  ASSUME TypeOK, TypeOK', Apart, OInv, OInv', Receive \/ FinishReceive
  PROVE  Lines(atoms', stage') = Lines(atoms, stage) /\ UNCHANGED answers
<1>1. UNCHANGED <<stage, answers>>
  BY DEF Receive, RejectFrame, AcceptFrame, AcceptLastFrame, FinishReceive
<1>2. /\ atoms \in Seq(Atom) /\ AllProper(atoms, submitted) /\ Single(atoms)
      /\ atoms' \in Seq(Atom) /\ AllProper(atoms', submitted') /\ Single(atoms')
      /\ Elsewhere(atoms, window.at) /\ Lists(atoms, submitted, stage)
  BY DEF TypeOK, OInv, Lists
<1>3. \A h : ~Mine(<<h, ZeroId>>)
  BY DEF Mine, MyKey, KeyOf, Apart
<1>4. ASSUME NEW f \in PeerFrames, RejectFrame(f) \/ AcceptFrame(f) \/ AcceptLastFrame(f)
      PROVE  \E k0 : ~Mine(k0) /\ SameBut(atoms, atoms', k0)
  <2> DEFINE k == KeyOf(f)
             list == GetAtom(atoms, k)
             i == FindAtom(list, k)
             a == Opened(list[i], f)
             b == [a EXCEPT !.last = f.num]
  <2>1. /\ list \in Seq(Atom) /\ i \in 1 .. Len(list) /\ list[i] \in Atom
        /\ KeyOf(list[i]) = k /\ ~Mine(k) /\ Lists(list, submitted, stage)
    BY <1>2, PeerAtom
  <2>2. ~Mine(KeyOf(a)) /\ ~Mine(KeyOf(b))
    BY <1>3, <2>1 DEF Opened, ClearOnRead, Atom, KeyOf
  <2>3. \/ atoms' = RemoveAt(list, i)
        \/ atoms' = [list EXCEPT ![i] = b]
        \/ atoms' = [list EXCEPT ![i] = a]
    BY <1>4 DEF RejectFrame, AcceptFrame, AcceptLastFrame
  <2>4. SameBut(atoms, list, k)
    <3>1. /\ \A j \in 1 .. Len(atoms) : j \in 1 .. Len(list) /\ list[j] = atoms[j]
          /\ \A j \in 1 .. Len(list) : j \in 1 .. Len(atoms) \/ list[j] = FreshAtom(k)
      <4>1. k \in Nat \X Ids
        BY KeysTyped
      <4>2. /\ Len(list) >= Len(atoms)
            /\ \A j \in 1 .. Len(atoms) : list[j] = atoms[j]
            /\ \A j \in 1 .. Len(list) : j \in 1 .. Len(atoms) \/ list[j] = FreshAtom(k)
        BY <1>2, <4>1, GetAtomHas
      <4>3. Len(list) \in Nat /\ Len(atoms) \in Nat
        BY <1>2, <2>1, LenProperties
      <4> HIDE DEF list
      <4> QED
        BY <4>2, <4>3
    <3>2. KeyOf(FreshAtom(k)) = k
      BY KeysTyped DEF KeyOf, FreshAtom
    <3> HIDE DEF k, list
    <3> QED
      BY <3>1, <3>2 DEF SameBut, HasAtom
  <2> HIDE DEF k, list, i, a, b
  <2>5. SameBut(list, atoms', k)
    <3>1. CASE atoms' = RemoveAt(list, i)
      BY <2>1, <3>1, RemovedSame DEF Lists
    <3>2. CASE atoms' = [list EXCEPT ![i] = b]
      BY <2>1, <2>2, <3>2, ReplacedSame
    <3>3. CASE atoms' = [list EXCEPT ![i] = a]
      BY <2>1, <2>2, <3>3, ReplacedSame
    <3> QED
      BY <2>3, <3>1, <3>2, <3>3
  <2>6. SameBut(atoms, atoms', k)
    <3>1. ASSUME NEW j \in 1 .. Len(atoms), Mine(KeyOf(atoms[j])), KeyOf(atoms[j]) # k
          PROVE  \E h \in 1 .. Len(atoms') : KeyOf(atoms'[h]) = KeyOf(atoms[j]) /\ atoms'[h].queue = atoms[j].queue
      <4>1. PICK g \in 1 .. Len(list) : KeyOf(list[g]) = KeyOf(atoms[j]) /\ list[g].queue = atoms[j].queue
        BY <2>4, <3>1 DEF SameBut
      <4>2. PICK h \in 1 .. Len(atoms') : KeyOf(atoms'[h]) = KeyOf(list[g]) /\ atoms'[h].queue = list[g].queue
        BY <2>5, <3>1, <4>1 DEF SameBut
      <4> QED
        BY <4>1, <4>2
    <3> QED
      BY <2>4, <2>5, <3>1 DEF SameBut
  <2> QED
    BY <2>1, <2>6
<1>5. ASSUME FinishReceive
      PROVE  \E k0 : ~Mine(k0) /\ SameBut(atoms, atoms', k0)
  <2> DEFINE i == window.at
             a == [ClearOnRead(atoms[i]) EXCEPT !.receiving = FALSE]
  <2>1. /\ window # NoWindow
        /\ atoms' = IF atoms[i].sending = 0 THEN [atoms EXCEPT ![i] = a] ELSE RemoveAt(atoms, i)
    BY <1>5 DEF FinishReceive
  <2>2. Len(atoms) \in Nat /\ i \in 0 .. Len(atoms) /\ i # 0
    BY <2>1, WindowAt
  <2>3. i \in 1 .. Len(atoms) /\ ~Mine(KeyOf(atoms[i])) /\ atoms[i] \in Atom
    BY <1>2, <2>2, ElementOfSeq DEF Elsewhere
  <2>4. ~Mine(KeyOf(a))
    BY <1>3, <2>3 DEF ClearOnRead, Atom, KeyOf
  <2> HIDE DEF a, i
  <2>5. SameBut(atoms, [atoms EXCEPT ![i] = a], KeyOf(atoms[i]))
    BY <1>2, <2>3, <2>4, ReplacedSame
  <2>6. SameBut(atoms, RemoveAt(atoms, i), KeyOf(atoms[i]))
    BY <1>2, <2>3, RemovedSame
  <2> QED
    BY <2>1, <2>3, <2>5, <2>6
<1>6. PICK k0 : ~Mine(k0) /\ SameBut(atoms, atoms', k0)
  BY <1>4, <1>5 DEF Receive
<1>7. \A k : Queue(atoms', k) = Queue(atoms, k)
  BY <1>2, <1>6, QueuesAgree
<1> QED
  BY <1>1, <1>7 DEF Lines, Line

(* Messages that are sent are answered, all alike.                         *)
AnsweredLater(S) ==
  /\ S \subseteq Msgs /\ \A m \in S : answers[m] = <<>> /\ stage[m] = "done"
  /\ \E rc \in RCs : answers' = [m \in Msgs |-> IF m \in S THEN <<rc>> ELSE answers[m]]

LEMMA ReceiveConfirmLine ==
  ASSUME TypeOK, Orderly, AInv({}), NEW m \in Msgs, ReceiveConfirm(m)
  PROVE  UNCHANGED <<atoms, stage>> /\ \E S : AnsweredLater(S)
<1>1. PICK w \in 1 .. Len(waiters) :
        /\ answers' = [answers EXCEPT ![waiters[w].msg] = <<RC_NORM>>]
        /\ stage[waiters[w].msg] = "done"
  BY ConfirmAnswersOwn
<1> DEFINE x == waiters[w].msg
<1>2. x \in Msgs /\ answers[x] = <<>> /\ answers \in [Msgs -> Seq(RCs)]
  BY MessagesTyped DEF TypeOK, AInv, Books, Waiting
<1>3. answers' = [y \in Msgs |-> IF y \in {x} THEN <<RC_NORM>> ELSE answers[y]]
  BY <1>1, <1>2
<1>4. AnsweredLater({x})
  BY <1>1, <1>2, <1>3 DEF AnsweredLater, RCs
<1> QED
  BY <1>4, ConfirmAnswersOwn

LEMMA CheckConfirmWaitersLine ==
  ASSUME TypeOK, Orderly, AInv({}), CheckConfirmWaiters
  PROVE  UNCHANGED <<atoms, stage>> /\ \E S : AnsweredLater(S)
<1> DEFINE S == {waiters[i].msg : i \in {j \in DOMAIN waiters : Expired(waiters[j])}}
<1>1. /\ framesOut = <<>> /\ UNCHANGED <<atoms, stage>>
      /\ answers' = [m \in Msgs |-> IF m \in S THEN Append(answers[m], RC_CONF_TIMEOUT) ELSE answers[m]]
  BY FaultAssumption DEF CheckConfirmWaiters, Orderly, Prompt
<1>2. DOMAIN waiters = 1 .. Len(waiters)
  BY LenProperties DEF TypeOK
<1>3. ASSUME NEW x \in S
      PROVE  x \in Msgs /\ answers[x] = <<>> /\ stage[x] = "done"
  <2>1. PICK w \in 1 .. Len(waiters) : waiters[w].msg = x
    BY <1>2
  <2>2. x \in Msgs /\ answers[x] = <<>> /\ stage[x] \in {"driver", "done"}
    BY <2>1, MessagesTyped DEF AInv, Books, Waiting
  <2>3. Len(framesOut) = 0
    BY <1>1, EmptySeq
  <2>4. stage[x] # "driver"
    BY <2>2, <2>3 DEF AInv, Held, Has
  <2> QED
    BY <2>2, <2>4
<1> HIDE DEF S
<1>4. Append(<<>>, RC_CONF_TIMEOUT) = <<RC_CONF_TIMEOUT>>
  OBVIOUS
<1>5. answers' = [m \in Msgs |-> IF m \in S THEN <<RC_CONF_TIMEOUT>> ELSE answers[m]]
  BY <1>1, <1>3, <1>4
<1>6. AnsweredLater(S)
  BY <1>3, <1>5 DEF AnsweredLater, RCs
<1> QED
  BY <1>1, <1>6

-----------------------------------------------------------------------------
(* The steps, as steps of MsgService                                       *)

LEMMA PendingIs ==
  Lines(atoms, stage) =
    [k \in Keys |-> SetToSeq(InProgress(k))
                      \o (IF FindAtom(atoms, k) = 0 THEN <<>> ELSE atoms[FindAtom(atoms, k)].queue)]
BY DEF Lines, Line, Queue, InHand, InProgress

(* A message is given to the network once: what has been submitted is not  *)
(* idle, and never becomes idle again.                                     *)
Begun == \A i \in 1 .. Len(submitted) : stage[submitted[i]] # "idle"

LEMMA StagesMoveOn ==
  ASSUME TypeOK, [Next]_vars, NEW n \in Msgs, stage[n] # "idle"
  PROVE  stage'[n] # "idle"
<1> USE DEF TypeOK
<1>1. ASSUME NEW m, NEW out, NEW stg \in [Msgs -> Stages], NEW ans, Dispatch(m, out, stg, ans),
             stg[n] # "idle"
      PROVE  stage'[n] # "idle"
  BY <1>1 DEF Dispatch
<1>2. ASSUME NEW m \in Msgs, StartSending(m) PROVE stage'[n] # "idle"
  BY <1>2 DEF StartSending
<1>3. ASSUME NEW m \in Msgs, ProcessFirst(m) \/ DriverSentFrame(m) PROVE stage'[n] # "idle"
  BY <1>1, <1>3 DEF ProcessFirst, DriverSentFrame
<1>4. ASSUME NEW m \in Msgs, DriverSentLast(m) PROVE stage'[n] # "idle"
  <2> DEFINE stg == [stage EXCEPT ![m] = "done"]
  <2>1. stg \in [Msgs -> Stages] /\ stg[n] # "idle"
    BY DEF Stages
  <2>2. stage' = stg \/ \E x, out, ans : Dispatch(x, out, stg, ans)
    BY <1>4 DEF DriverSentLast
  <2> HIDE DEF stg
  <2> QED
    BY <1>1, <2>1, <2>2
<1>5. CASE DriverFailed
  BY <1>5 DEF DriverFailed
<1>6. ASSUME UNCHANGED stage PROVE stage'[n] # "idle"
  BY <1>6
<1>7. CASE \/ Receive \/ FinishReceive \/ CheckConfirmWaiters \/ DriverSentConfirm
           \/ LoseConfirm \/ UNCHANGED vars \/ \E m \in Msgs : ReceiveConfirm(m)
  BY <1>6, <1>7 DEF Receive, RejectFrame, AcceptFrame, AcceptLastFrame, FinishReceive,
       CheckConfirmWaiters, DriverSentConfirm, LoseConfirm, ReceiveConfirm, vars, nodeVars
<1> QED
  BY <1>2, <1>3, <1>4, <1>5, <1>7 DEF Next, DriverSent

LEMMA GivenOnce ==
  ASSUME TypeOK, [Next]_vars
  PROVE  UNCHANGED submitted \/ \E m \in Msgs : StartSending(m)
<1> SUFFICES ASSUME \A m \in Msgs : ~StartSending(m) PROVE UNCHANGED submitted
  OBVIOUS
<1>1. ASSUME NEW m \in Msgs, ProcessFirst(m) \/ DriverSentFrame(m) \/ DriverSentLast(m)
      PROVE  UNCHANGED submitted
  BY <1>1 DEF ProcessFirst, DriverSentFrame, DriverSentLast, history
<1>2. CASE DriverSentConfirm \/ DriverFailed \/ LoseConfirm \/ CheckConfirmWaiters
  BY <1>2 DEF DriverSentConfirm, DriverFailed, LoseConfirm, CheckConfirmWaiters, history
<1>3. CASE \/ Receive \/ FinishReceive \/ UNCHANGED vars \/ \E m \in Msgs : ReceiveConfirm(m)
  BY <1>3 DEF Receive, RejectFrame, AcceptFrame, AcceptLastFrame, FinishReceive,
       ReceiveConfirm, vars, history
<1> QED
  BY <1>1, <1>2, <1>3 DEF Next, DriverSent

LEMMA BegunAlways == Spec => []Begun
<1>1. Init => Begun
  BY DEF Init, Begun
<1>2. TypeOK /\ Begun /\ [Next]_vars => Begun'
  <2> SUFFICES ASSUME TypeOK, Begun, [Next]_vars PROVE Begun'
    OBVIOUS
  <2>0. submitted \in Seq(Msgs) /\ Len(submitted) \in Nat
        /\ \A i \in 1 .. Len(submitted) : submitted[i] \in Msgs
    BY ElementOfSeq, LenProperties DEF TypeOK
  <2>1. \A i \in 1 .. Len(submitted) : stage'[submitted[i]] # "idle"
    BY <2>0, StagesMoveOn DEF Begun
  <2>2. CASE UNCHANGED submitted
    BY <2>1, <2>2 DEF Begun
  <2>3. ASSUME NEW m \in Msgs, StartSending(m) PROVE Begun'
    <3>1. submitted' = Append(submitted, m) /\ stage'[m] # "idle"
      BY <2>3 DEF StartSending, TypeOK
    <3>2. /\ Len(submitted') = Len(submitted) + 1
          /\ \A i \in 1 .. Len(submitted) : submitted'[i] = submitted[i]
          /\ submitted'[Len(submitted) + 1] = m
      BY <2>0, <3>1, AppendProperties
    <3>3. \A i \in 1 .. Len(submitted') : i \in 1 .. Len(submitted) \/ i = Len(submitted) + 1
      BY <2>0, <3>2
    <3> QED
      BY <2>1, <3>1, <3>2, <3>3 DEF Begun
  <2> QED
    BY <2>2, <2>3, GivenOnce
<1> QED
  BY <1>1, <1>2, TypeCorrect, PTL DEF Spec

LEMMA GivenGrows ==
  ASSUME NEW sub \in Seq(Msgs), NEW m \in Msgs
  PROVE  ToSet(Append(sub, m)) = ToSet(sub) \cup {m}
<1> DEFINE new == Append(sub, m)
<1>1. /\ Len(sub) \in Nat /\ Len(new) = Len(sub) + 1
      /\ \A i \in 1 .. Len(sub) : new[i] = sub[i]
      /\ new[Len(sub) + 1] = m
      /\ DOMAIN sub = 1 .. Len(sub) /\ DOMAIN new = 1 .. Len(new)
  BY AppendProperties, LenProperties
<1>2. 1 .. Len(new) = 1 .. Len(sub) \cup {Len(sub) + 1}
  BY <1>1
<1>3. ToSet(sub) = {sub[i] : i \in 1 .. Len(sub)}
  BY <1>1 DEF ToSet
<1>4. ToSet(new) = {new[i] : i \in 1 .. Len(sub) \cup {Len(sub) + 1}}
  BY <1>1, <1>2 DEF ToSet
<1> HIDE DEF new
<1>5. ToSet(new) = ToSet(sub) \cup {m}
  BY <1>1, <1>3, <1>4
<1> QED
  BY <1>5 DEF new

LEMMA AcceptStep ==
  ASSUME TypeOK, TypeOK', Apart, AInv({}), OInv, OInv', Begun, NEW m \in Msgs, StartSending(m)
  PROVE  Promise!Accept(m)
<1>1. /\ Lines(atoms', stage') = [Lines(atoms, stage) EXCEPT ![MyKey(m)] = Append(Line(atoms, stage, MyKey(m)), m)]
      /\ UNCHANGED answers /\ stage[m] = "idle"
  BY StartSendingLine DEF Changed
<1>2. m \notin ToSet(submitted)
  <2>1. DOMAIN submitted = 1 .. Len(submitted)
    BY LenProperties DEF TypeOK
  <2> QED
    BY <1>1, <2>1 DEF Begun, ToSet
<1>3. ToSet(submitted)' = ToSet(submitted) \cup {m}
  <2>1. submitted \in Seq(Msgs) /\ submitted' = Append(submitted, m)
    BY DEF StartSending, TypeOK
  <2> QED
    BY <2>1, GivenGrows
<1>4. MyKey(m) \in Keys /\ Lines(atoms, stage)[MyKey(m)] = Line(atoms, stage, MyKey(m))
  BY KeyOfMsg DEF Lines
<1>5. [x \in Msgs |-> KeyOf(Msg[x])][m] = MyKey(m)
  BY DEF MyKey
<1> QED
  BY <1>1, <1>2, <1>3, <1>4, <1>5, PendingIs DEF Promise!Accept, Lines, Line, Queue, InHand, InProgress

LEMMA DriverSentFrameStays ==
  ASSUME TypeOK, AInv({}), OInv, NEW m \in Msgs, DriverSentFrame(m)
  PROVE  UNCHANGED <<atoms, stage, answers>>
<1> DEFINE f == [kind |-> "data", msg |-> m, num |-> pos[m] - 1, lfb |-> FALSE]
<1>1. /\ DriverHolds(f) /\ Dispatch(m, Tail(framesOut), stage, answers) /\ UNCHANGED atoms
  BY DEF DriverSentFrame
<1>2. stage[m] = "driver"
  BY <1>1, ReportedFrame
<1>3. Verdict(m) = RC_NORM
  BY <1>2 DEF OInv, Order, Positions
<1> QED
  BY <1>1, <1>2, <1>3 DEF Dispatch, TypeOK

LEMMA LeaveStep ==
  ASSUME NEW m \in Msgs, Leaves(m, atoms', stage'), UNCHANGED answers \/ AnsweredNow(m),
         UNCHANGED submitted
  PROVE  Promise!Leave(m)
<1> DEFINE l == Line(atoms, stage, MyKey(m))
<1>1. /\ l # <<>> /\ Head(l) = m
      /\ Lines(atoms', stage') = [Lines(atoms, stage) EXCEPT ![MyKey(m)] = Tail(l)]
  BY DEF Leaves, Changed
<1>2. MyKey(m) \in Keys /\ Lines(atoms, stage)[MyKey(m)] = l
  BY KeyOfMsg DEF Lines
<1>3. [x \in Msgs |-> KeyOf(Msg[x])][m] = MyKey(m)
  BY DEF MyKey
<1> QED
  BY <1>1, <1>2, <1>3, PendingIs
  DEF Promise!Leave, AnsweredNow, Lines, Line, Queue, InHand, InProgress

LEMMA AnswerStep ==
  ASSUME TypeOK, AInv({}), OInv, NEW S, AnsweredLater(S), UNCHANGED <<atoms, stage, submitted>>
  PROVE  Promise!Answer(S)
<1> DEFINE key == [x \in Msgs |-> KeyOf(Msg[x])]
           P == [k \in Keys |-> SetToSeq(InProgress(k)) \o
                     (IF FindAtom(atoms, k) = 0 THEN <<>> ELSE atoms[FindAtom(atoms, k)].queue)]
<1>1. \A m \in S : /\ m \in Msgs /\ answers[m] = <<>>
                   /\ \A i \in DOMAIN Line(atoms, stage, MyKey(m)) : Line(atoms, stage, MyKey(m))[i] # m
  BY LineHolds DEF AnsweredLater
<1>2. \A m \in S : MyKey(m) \in Keys
  BY <1>1, KeyOfMsg
<1>3. \A m \in S : key[m] = MyKey(m)
  BY <1>1 DEF MyKey
<1>4. \A k \in Keys : P[k] = Line(atoms, stage, k)
  BY DEF Line, Queue, InHand, InProgress
<1>5. ASSUME NEW m \in S
      PROVE  \A i \in DOMAIN P[key[m]] : P[key[m]][i] # m
  <2>1. P[key[m]] = Line(atoms, stage, MyKey(m))
    BY <1>2, <1>3, <1>4
  <2> HIDE DEF P, key
  <2> QED
    BY <1>1, <2>1
<1>6. P' = P
  BY DEF InProgress
<1>7. \E rc \in RCs :
        answers' = [m \in Msgs |-> IF m \in S THEN <<rc>> ELSE answers[m]]
  BY DEF AnsweredLater
<1>8. \A m \in S : m \in ToSet(submitted) /\ answers[m] = <<>>
  <2>1. DOMAIN submitted = 1 .. Len(submitted)
    BY LenProperties DEF TypeOK
  <2>2. \A m \in S : m \in Msgs /\ stage[m] = "done"
    BY DEF AnsweredLater
  <2>3. \A m \in S : m \in ToSet(submitted)
    BY <2>1, <2>2 DEF OInv, Order, Stamped, ToSet
  <2> QED
    BY <1>1, <2>3
<1>9. UNCHANGED ToSet(submitted)
  OBVIOUS
<1> QED
  BY ONLY <1>5, <1>6, <1>7, <1>8, <1>9 DEF Promise!Answer

LEMMA SameStep ==
  ASSUME Lines(atoms', stage') = Lines(atoms, stage), UNCHANGED <<answers, submitted>>
  PROVE  UNCHANGED Promise!vars
BY PendingIs DEF Promise!vars, Lines, Line, Queue, InHand, InProgress

LEMMA StepKeepsPromise ==
  ASSUME Orderly, Apart, RefusedAlone, TypeOK, TypeOK', AInv({}), OInv, OInv', Begun, [Next]_vars
  PROVE  [Promise!Next]_(Promise!vars)
<1>0. UNCHANGED submitted \/ \E m \in Msgs : StartSending(m)
  BY GivenOnce
<1>1. ASSUME NEW m \in Msgs, StartSending(m)
      PROVE  Promise!Next
  BY <1>1, AcceptStep DEF Promise!Next
<1> SUFFICES ASSUME UNCHANGED submitted PROVE [Promise!Next]_(Promise!vars)
  BY <1>0, <1>1
<1>2. ASSUME NEW m \in Msgs, ProcessFirst(m)
      PROVE  Promise!Next \/ UNCHANGED Promise!vars
  <2>1. \/ Lines(atoms', stage') = Lines(atoms, stage) /\ UNCHANGED answers
        \/ Leaves(m, atoms', stage') /\ AnsweredNow(m)
    BY <1>2, ProcessFirstLine
  <2> QED
    BY <2>1, LeaveStep, SameStep DEF Promise!Next
<1>3. ASSUME NEW m \in Msgs, DriverSentFrame(m)
      PROVE  UNCHANGED Promise!vars
  <2>1. UNCHANGED <<atoms, stage, answers>>
    BY <1>3, DriverSentFrameStays
  <2> QED
    BY <2>1, SameStep
<1>4. ASSUME NEW m \in Msgs, DriverSentLast(m)
      PROVE  Promise!Next
  <2>1. Leaves(m, atoms', stage') /\ (UNCHANGED answers \/ AnsweredNow(m))
    BY <1>4, DriverSentLastLine
  <2> QED
    BY <2>1, LeaveStep DEF Promise!Next
<1>5. ASSUME NEW S, AnsweredLater(S), UNCHANGED <<atoms, stage>>
      PROVE  Promise!Next
  <2>1. Promise!Answer(S) /\ S \in SUBSET Msgs
    BY <1>5, AnswerStep DEF AnsweredLater
  <2> QED
    BY <2>1 DEF Promise!Next
<1>6. ASSUME NEW m \in Msgs, ReceiveConfirm(m)
      PROVE  Promise!Next
  BY <1>5, <1>6, ReceiveConfirmLine
<1>7. CASE CheckConfirmWaiters
  BY <1>5, <1>7, CheckConfirmWaitersLine
<1>8. CASE Receive \/ FinishReceive
  BY <1>8, ReceiveLine, SameStep
<1>9. CASE DriverSentConfirm \/ LoseConfirm \/ UNCHANGED vars
  <2>1. UNCHANGED <<atoms, stage, answers>>
    BY <1>9 DEF DriverSentConfirm, LoseConfirm, vars, nodeVars
  <2> QED
    BY <2>1, SameStep
<1>10. ~DriverFailed
  BY DEF DriverFailed, Orderly
<1> QED
  BY <1>1, <1>2, <1>3, <1>4, <1>6, <1>7, <1>8, <1>9, <1>10 DEF Next, DriverSent

LEMMA PromiseInit ==
  ASSUME Init
  PROVE  Promise!Init
<1>1. Len(atoms) = 0 /\ atoms \in Seq(Atom)
  BY EmptySeq DEF Init
<1>2. \A k : FindAtom(atoms, k) = 0
  <2> SUFFICES ASSUME NEW k PROVE FindAtom(atoms, k) = 0
    OBVIOUS
  <2>1. atoms \in Seq(Atom)
    BY <1>1
  <2>2. FindAtom(atoms, k) \in 0 .. Len(atoms)
    BY ONLY <2>1, FindAtomFinds
  <2>3. 0 .. Len(atoms) = {0}
    BY <1>1
  <2> QED
    BY <2>2, <2>3
<1>3. \A k : InProgress(k) = {}
  BY DEF InProgress, Init
<1>4. <<>> \o <<>> = <<>>
  OBVIOUS
<1>5. answers = [m \in Msgs |-> <<>>]
  BY DEF Init
<1>6. ToSet(submitted) = {}
  BY DEF Init, ToSet
<1> QED
  BY <1>2, <1>3, <1>4, <1>5, <1>6, SeqOfNone DEF Promise!Init

(* Under the same conditions, and if a message that can_net.c refuses has  *)
(* an atom of its own, sending as the node's threads do it is what         *)
(* can_net.h promises: the messages of a key leave one at a time, in the   *)
(* order in which they were given, and each is answered once, when or after*)
(* it has left.                                                            *)
THEOREM NetworkKeepsPromise == Orderly /\ Apart /\ RefusedAlone => (Spec => KeepsPromise)
<1> SUFFICES ASSUME Orderly, Apart, RefusedAlone PROVE Spec => KeepsPromise
  OBVIOUS
<1>1. Init => Promise!Init
  BY PromiseInit
<1>2. /\ TypeOK /\ TypeOK' /\ AInv({}) /\ OInv /\ OInv' /\ Begun /\ [Next]_vars
      => [Promise!Next]_(Promise!vars)
  BY StepKeepsPromise
<1>3. Spec => []TypeOK /\ []AInv({}) /\ []OInv /\ []Begun
  BY TypeCorrect, BooksAlways, OrderAlways, BegunAlways
<1> QED
  BY <1>1, <1>2, <1>3, PTL DEF Spec, KeepsPromise, Promise!Spec

=============================================================================
