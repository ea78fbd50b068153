-------------------------- MODULE CanDrvAvr_proofs --------------------------
(***************************************************************************)
(* Theorems about CanDrvAvr for any frames, MObs and timeouts: whatever    *)
(* the order of interrupts, timeouts and callbacks, the table of pending   *)
(* commands and the controller agree, and the device goes on listening.    *)
(***************************************************************************)
EXTENDS CanDrvAvr, SequenceTheorems, FiniteSetTheorems, WellFoundedInduction, TLAPS

-----------------------------------------------------------------------------
(* Positions in lists                                                      *)

LEMMA SmallestExists ==
  ASSUME NEW S, S \subseteq Nat, S # {}
  PROVE  \E x \in S : \A y \in S : x <= y
<1>1. \E x \in S : \A y \in S : <<y, x>> \notin OpToRel(<, Nat)
  BY NatLessThanWellFounded, WFMin
<1>2. ASSUME NEW x \in Nat, NEW y \in Nat, <<y, x>> \notin OpToRel(<, Nat)
      PROVE  x <= y
  BY <1>2 DEF OpToRel
<1> QED
  BY <1>1, <1>2

LEMMA MinIsMember ==
  ASSUME NEW n \in Nat, NEW I, I \subseteq 1 .. n, I # {}
  PROVE  Min(I) \in I
<1>1. I \subseteq Nat
  OBVIOUS
<1>2. \E x \in I : \A y \in I : x <= y
  BY <1>1, SmallestExists
<1> QED
  BY <1>2 DEF Min

LEMMA RemoveAtKeeps ==
  ASSUME NEW S, NEW s \in Seq(S), NEW i \in 1 .. Len(s)
  PROVE  RemoveAt(s, i) \in Seq(S)
<1>1. SubSeq(s, 1, i - 1) \in Seq(S) /\ SubSeq(s, i + 1, Len(s)) \in Seq(S)
  BY SubSeqProperties
<1> QED
  BY <1>1, ConcatProperties DEF RemoveAt

LEMMA UnregisteredKeeps ==
  ASSUME NEW timers \in Seq(Timer), NEW id
  PROVE  Unregistered(timers, id) \in Seq(Timer)
<1> DEFINE I == {i \in 1 .. Len(timers) : timers[i].id = id}
<1>1. CASE I = {}
  BY <1>1 DEF Unregistered, RemoveFirstMatch
<1>2. CASE I # {}
  <2>1. Min(I) \in 1 .. Len(timers)
    <3>1. Len(timers) \in Nat /\ I \subseteq 1 .. Len(timers)
      OBVIOUS
    <3> HIDE DEF I
    <3> QED
      BY <3>1, <1>2, MinIsMember
  <2>2. SelectInSeq(timers, LAMBDA t : t.id = id) = Min(I)
    BY <1>2 DEF SelectInSeq
  <2>3. Unregistered(timers, id) = RemoveAt(timers, Min(I))
    BY <1>2, <2>2 DEF Unregistered, RemoveFirstMatch
  <2> HIDE DEF I
  <2> QED
    BY <2>1, <2>3, RemoveAtKeeps
<1> QED
  BY <1>1, <1>2

(* Removing a command leaves no command on the list that was not there.    *)
LEMMA RemoveFirstKeeps ==
  ASSUME NEW S, NEW s \in Seq(S), NEW e
  PROVE  RemoveFirst(s, e) \in Seq(S)
<1> DEFINE I == {i \in 1 .. Len(s) : s[i] = e}
<1>1. CASE I = {}
  BY <1>1 DEF RemoveFirst
<1>2. CASE I # {}
  <2>1. Min(I) \in 1 .. Len(s)
    <3>1. Len(s) \in Nat /\ I \subseteq 1 .. Len(s)
      OBVIOUS
    <3> HIDE DEF I
    <3> QED
      BY <3>1, <1>2, MinIsMember
  <2>2. SelectInSeq(s, LAMBDA v : v = e) = Min(I)
    BY <1>2 DEF SelectInSeq
  <2>3. RemoveFirst(s, e) = RemoveAt(s, Min(I))
    BY <1>2, <2>2 DEF RemoveFirst
  <2> HIDE DEF I
  <2> QED
    BY <2>1, <2>3, RemoveAtKeeps
<1> QED
  BY <1>1, <1>2

LEMMA FollowingType ==
  ASSUME ft_functions \in Seq(Timer), NEW c
  PROVE  Following(TimerOf(c)) \in Frames \cup {NULL}
<1> DEFINE I == {i \in 1 .. Len(ft_functions) : ft_functions[i].cmd = c}
           i == TimerOf(c)
<1>1. i \in Nat
  <2>1. Len(ft_functions) \in Nat /\ I \subseteq 1 .. Len(ft_functions)
    OBVIOUS
  <2>2. i = IF I # {} THEN Min(I) ELSE 0
    BY DEF TimerOf, SelectInSeq
  <2> HIDE DEF I, i
  <2>3. CASE I = {}
    BY <2>2, <2>3
  <2>4. CASE I # {}
    <3>1. Min(I) \in 1 .. Len(ft_functions)
      BY <2>1, <2>4, MinIsMember
    <3> QED
      BY <2>1, <2>2, <2>4, <3>1
  <2> QED
    BY <2>3, <2>4
<1> HIDE DEF i, I
<1>2. ASSUME i < Len(ft_functions) PROVE ft_functions[i + 1].cmd \in Frames
  <2>1. i + 1 \in 1 .. Len(ft_functions)
    BY <1>1, <1>2, LenProperties
  <2>2. ft_functions[i + 1] \in Timer
    BY <2>1, ElementOfSeq
  <2> QED
    BY <2>2 DEF Timer
<1>3. Following(i) \in Frames \cup {NULL}
  BY <1>2 DEF Following
<1> QED
  BY <1>3 DEF i

(* There is always an id to give, the first one whose bit is not set.      *)
LEMMA FreshIdType ==
  ASSUME NEW timers
  PROVE  FreshId(timers) \in 0 .. IntBits
<1> DEFINE Free == {id \in 0 .. IntBits : id \notin Ids(timers) \/ id = IntBits}
<1>1. Free \subseteq Nat /\ IntBits \in Free
  BY TimersAssumption
<1>2. PICK id \in Free : \A j \in Free : id <= j
  <2> HIDE DEF Free
  <2> QED
    BY <1>1, SmallestExists
<1>3. \A j \in 0 .. id - 1 : j \in Ids(timers)
  BY <1>2, TimersAssumption
<1> QED
  BY <1>2, <1>3 DEF FreshId

-----------------------------------------------------------------------------
(* The inductive invariant                                                 *)

(* While a callback runs, the MOb of its command is not given away.        *)
InCallback ==
  /\ pc = "sent" => mob_handle \in Mobs /\ can_mob[mob_handle] \in Frames
  /\ pc = "received" => mob_handle \in Mobs /\ can_mob[mob_handle] = RX
  /\ pc = "timed_out" => ft \in Frames

(* A command to receive never waits: it is made for the MOb just released. *)
NoReceiverWaits == can_cmd_list \in Seq(Frames)

IInv ==
  TypeOK /\ TableMatchesController /\ InCallback /\ NoReceiverWaits /\ KeepsListening

Receivers(table) == {m \in Mobs : table[m] = RX}

LEMMA MobsFinite == IsFiniteSet(Mobs) /\ \A S \in SUBSET Mobs : IsFiniteSet(S)
<1>1. 1 \in Int /\ NB_MOB \in Int
  BY MobsAssumption
<1>2. IsFiniteSet(Mobs)
  BY <1>1, FS_Interval DEF Mobs
<1> QED
  BY <1>2, FS_Subset

Agree(table, con) == con = {m \in Mobs : table[m] # NULL}

(* What starting a command does to the table of pending commands: it takes *)
(* a MOb that no other command has, or none.                               *)
LEMMA PostCmdStep ==
  ASSUME NEW c \in Cmds, NEW table \in [Mobs -> Cmds \cup {NULL}],
         NEW st \in [Mobs -> {"pending", "completed"}], NEW con \in SUBSET Mobs,
         NEW list, Agree(table, con),
         PostCmd(c, table, st, con, list)
  PROVE  /\ can_mob' \in [Mobs -> Cmds \cup {NULL}]
         /\ status' \in [Mobs -> {"pending", "completed"}]
         /\ conmob' \subseteq Mobs
         /\ Agree(can_mob', conmob')
         /\ \A m \in con : can_mob'[m] = table[m]
         /\ \/ \E m \in Mobs \ con : can_mob' = [table EXCEPT ![m] = c] /\ can_cmd_list' = list
            \/ con = Mobs /\ can_mob' = table /\ can_cmd_list' = Append(list, c)
<1> USE DEF Agree
<1>1. ASSUME NEW m \in FreeMobs(con),
             can_mob' = [table EXCEPT ![m] = c], status' = [st EXCEPT ![m] = "pending"],
             conmob' = con \cup {m}, can_cmd_list' = list
      PROVE  /\ can_mob' \in [Mobs -> Cmds \cup {NULL}]
             /\ status' \in [Mobs -> {"pending", "completed"}]
             /\ conmob' \subseteq Mobs
             /\ Agree(can_mob', conmob')
             /\ \A n \in con : can_mob'[n] = table[n]
             /\ \E n \in Mobs \ con : can_mob' = [table EXCEPT ![n] = c] /\ can_cmd_list' = list
  <2>1. m \in Mobs /\ m \notin con
    BY DEF FreeMobs
  <2>2. c # NULL
    BY CommandsAssumption DEF Cmds
  <2> QED
    BY <1>1, <2>1, <2>2
<1>2. CASE FreeMobs(con) = {} /\ can_cmd_list' = Append(list, c)
             /\ can_mob' = table /\ status' = st /\ conmob' = con
  BY <1>2 DEF FreeMobs
<1> QED
  BY <1>1, <1>2 DEF PostCmd

LEMMA ReplacedCount ==
  ASSUME NEW S, IsFiniteSet(S), NEW h \in S, NEW m, m \notin S \ {h}
  PROVE  Cardinality((S \ {h}) \cup {m}) = Cardinality(S)
<1>1. IsFiniteSet(S \ {h}) /\ Cardinality(S \ {h}) = Cardinality(S) - 1
  BY FS_RemoveElement
<1>2. Cardinality(S) \in Nat
  BY FS_CardinalityType
<1>3. Cardinality((S \ {h}) \cup {m}) = Cardinality(S \ {h}) + 1
  BY <1>1, FS_AddElement
<1> QED
  BY <1>1, <1>2, <1>3

(* A MOb that held a command to receive is released and another is taken   *)
(* for a new one: as many listen as before.                                *)
LEMMA ReceiverReplaced ==
  ASSUME NEW table \in [Mobs -> Cmds \cup {NULL}], NEW h \in Mobs, table[h] = RX,
         NEW m \in Mobs, table[m] = NULL \/ m = h,
         NEW after, after = [[table EXCEPT ![h] = NULL] EXCEPT ![m] = RX]
  PROVE  Cardinality(Receivers(after)) = Cardinality(Receivers(table))
<1>1. IsFiniteSet(Receivers(table)) /\ h \in Receivers(table)
  BY MobsFinite DEF Receivers
<1>2. m \notin Receivers(table) \ {h}
  BY CommandsAssumption DEF Receivers
<1>3. Receivers(after) = (Receivers(table) \ {h}) \cup {m}
  BY CommandsAssumption DEF Receivers
<1>4. Cardinality((Receivers(table) \ {h}) \cup {m}) = Cardinality(Receivers(table))
  BY <1>1, <1>2, ReplacedCount
<1> QED
  BY <1>3, <1>4

LEMMA InitInv == Init => IInv
<1> SUFFICES ASSUME Init PROVE IInv
  OBVIOUS
<1> USE DEF Init
<1>1. TypeOK
  <2>1. can_mob \in [Mobs -> Cmds \cup {NULL}] /\ status \in [Mobs -> {"pending", "completed"}]
    BY DEF Cmds
  <2>2. conmob \subseteq Mobs /\ mob_handle \in 1 .. NB_MOB + 1
    BY MobsAssumption DEF Mobs
  <2>3. ftimer_id \in [Frames -> 0 .. IntBits]
    BY TimersAssumption
  <2>4. \A S : <<>> \in Seq(S)
    BY EmptySeq
  <2>5. ft_functions \in Seq(Timer) /\ can_cmd_list \in Seq(Cmds)
          /\ reports \in Seq([frame : Frames, rc : RCs])
    BY <2>4
  <2>6. /\ stale \subseteq Cmds /\ given \subseteq Frames /\ freed \subseteq Frames
        /\ sent \subseteq Frames /\ ft \in Frames \cup {NULL} /\ next_ft \in Frames \cup {NULL}
        /\ polled \in BOOLEAN /\ overload \in BOOLEAN
    OBVIOUS
  <2>7. pc \in {"idle", "mobs", "sent", "received", "timers", "timed_out"}
    OBVIOUS
  <2> HIDE DEF Init
  <2> QED
    BY <2>1, <2>2, <2>3, <2>5, <2>6, <2>7 DEF TypeOK
<1>2. TableMatchesController
  <2>1. \A m : m \in conmob <=> m \in Mobs /\ m <= CAN_RECV_BUF_MAX
    BY MobsAssumption DEF Mobs
  <2>2. \A m \in Mobs : can_mob[m] # NULL <=> m <= CAN_RECV_BUF_MAX
    BY CommandsAssumption
  <2> QED
    BY <2>1, <2>2 DEF TableMatchesController
<1>3. InCallback /\ NoReceiverWaits
  BY DEF InCallback, NoReceiverWaits
<1>4. {m \in Mobs : can_mob[m] = RX} = 1 .. CAN_RECV_BUF_MAX
  <2>1. \A m \in Mobs : can_mob[m] = RX <=> m <= CAN_RECV_BUF_MAX
    BY CommandsAssumption
  <2> QED
    BY <2>1, MobsAssumption DEF Mobs
<1>5. KeepsListening
  <2>1. Cardinality(1 .. CAN_RECV_BUF_MAX) = CAN_RECV_BUF_MAX
    <3>1. 1 \in Int /\ CAN_RECV_BUF_MAX \in Int
      BY MobsAssumption
    <3>2. Cardinality(1 .. CAN_RECV_BUF_MAX)
            = IF 1 > CAN_RECV_BUF_MAX THEN 0 ELSE CAN_RECV_BUF_MAX - 1 + 1
      BY <3>1, FS_Interval
    <3> QED
      BY <3>2, MobsAssumption
  <2> QED
    BY <1>4, <2>1 DEF KeepsListening
<1> QED
  BY <1>1, <1>2, <1>3, <1>5 DEF IInv

-----------------------------------------------------------------------------
(* Every step keeps the invariant                                          *)

(* Steps that touch neither the MObs nor the list.                         *)
LEMMA MobsUntouched ==
  ASSUME IInv, UNCHANGED <<can_mob, conmob, can_cmd_list>>
  PROVE  TableMatchesController' /\ NoReceiverWaits' /\ KeepsListening'
BY DEF IInv, TableMatchesController, NoReceiverWaits, KeepsListening

LEMMA CanSendInv ==
  ASSUME IInv, NEW f \in Frames, CanSend(f)
  PROVE  IInv'
<1> USE DEF CanSend
<1>1. f \in Cmds /\ f # NULL /\ f # RX
  BY CommandsAssumption DEF Cmds
<1>2. /\ can_mob' \in [Mobs -> Cmds \cup {NULL}]
      /\ status' \in [Mobs -> {"pending", "completed"}]
      /\ conmob' \subseteq Mobs
      /\ Agree(can_mob', conmob')
      /\ \A m \in conmob : can_mob'[m] = can_mob[m]
      /\ \/ \E m \in Mobs \ conmob : can_mob' = [can_mob EXCEPT ![m] = f] /\ can_cmd_list' = can_cmd_list
         \/ conmob = Mobs /\ can_mob' = can_mob /\ can_cmd_list' = Append(can_cmd_list, f)
  <2>1. /\ can_mob \in [Mobs -> Cmds \cup {NULL}] /\ conmob \in SUBSET Mobs
        /\ status \in [Mobs -> {"pending", "completed"}]
        /\ Agree(can_mob, conmob)
    BY DEF IInv, TypeOK, TableMatchesController, Agree
  <2>2. PostCmd(f, can_mob, status, conmob, can_cmd_list)
    OBVIOUS
  <2> QED
    BY <1>1, <2>1, <2>2, PostCmdStep
<1>3. can_cmd_list' \in Seq(Frames) /\ can_cmd_list' \in Seq(Cmds)
  <2>1. can_cmd_list \in Seq(Frames) /\ can_cmd_list \in Seq(Cmds)
    BY DEF IInv, TypeOK, NoReceiverWaits
  <2>2. Append(can_cmd_list, f) \in Seq(Frames) /\ Append(can_cmd_list, f) \in Seq(Cmds)
    BY <1>1, <2>1, AppendProperties
  <2> QED
    BY <1>2, <2>1, <2>2
<1>4. NewTimer(f) \in Timer /\ NewTimer(f).id \in 0 .. IntBits
  BY FreshIdType, TimersAssumption DEF NewTimer, Timer
<1>5. ft_functions' \in Seq(Timer)
  BY <1>4, AppendProperties DEF Registered, IInv, TypeOK
<1>6. ftimer_id' \in [Frames -> 0 .. IntBits]
  BY <1>4 DEF IInv, TypeOK
<1>7. TypeOK'
  BY <1>2, <1>3, <1>5, <1>6 DEF IInv, TypeOK
<1>8. Receivers(can_mob') = Receivers(can_mob)
  BY <1>1, <1>2, CommandsAssumption DEF Receivers, IInv, TypeOK, TableMatchesController, Agree
<1>9. KeepsListening'
  BY <1>8 DEF KeepsListening, Receivers, IInv
<1>10. InCallback'
  <2>1. pc' = pc /\ mob_handle' = mob_handle /\ ft' = ft
    OBVIOUS
  <2>2. ASSUME mob_handle \in Mobs, can_mob[mob_handle] # NULL
        PROVE  can_mob'[mob_handle] = can_mob[mob_handle]
    BY <1>2, <2>2 DEF IInv, TableMatchesController, Agree
  <2> QED
    BY <2>1, <2>2, CommandsAssumption DEF InCallback, IInv
<1> QED
  BY <1>2, <1>3, <1>7, <1>9, <1>10 DEF IInv, TableMatchesController, Agree, NoReceiverWaits

LEMMA InterruptInv ==
  ASSUME IInv, NEW m \in Mobs, Interrupt(m)
  PROVE  IInv'
<1> USE DEF Interrupt, timerVars
<1>1. status' \in [Mobs -> {"pending", "completed"}]
  BY DEF IInv, TypeOK
<1>2. sent' \subseteq Frames
  BY DEF IInv, TypeOK, Cmds
<1>3. TypeOK'
  BY <1>1, <1>2 DEF IInv, TypeOK
<1>4. InCallback'
  BY DEF IInv, InCallback
<1> QED
  BY <1>3, <1>4, MobsUntouched DEF IInv

LEMMA ReleaseMobInv ==
  ASSUME IInv, ReleaseMob
  PROVE  IInv'
<1> DEFINE h == mob_handle
           table == [can_mob EXCEPT ![h] = NULL]
           con == conmob \ {h}
<1>1. h \in Mobs /\ h + 1 \in 1 .. NB_MOB + 1
  BY MobsAssumption DEF ReleaseMob, IInv, InCallback, Mobs
<1>2. /\ table \in [Mobs -> Cmds \cup {NULL}] /\ con \in SUBSET Mobs
      /\ Agree(table, con)
      /\ status \in [Mobs -> {"pending", "completed"}]
  BY <1>1 DEF IInv, TypeOK, TableMatchesController, Agree
<1>3. /\ pc' = "mobs" /\ mob_handle' = h + 1
      /\ UNCHANGED <<ft_functions, ft, next_ft, stale, ftimer_id, polled, given, sent,
                     reports, overload>>
  BY DEF ReleaseMob, timerVars
<1>4. CASE pc = "sent"
  <2>1. can_mob' = table /\ conmob' = con /\ UNCHANGED <<status, can_cmd_list>>
    BY <1>4 DEF ReleaseMob, NewBuffer, Disabled
  <2>2. freed' \subseteq Frames
    BY <1>4 DEF ReleaseMob, IInv, TypeOK, InCallback
  <2>3. TypeOK'
    BY <1>1, <1>2, <1>3, <2>1, <2>2 DEF IInv, TypeOK
  <2>4. Receivers(can_mob') = Receivers(can_mob)
    BY <1>2, <2>1, <1>4, CommandsAssumption DEF Receivers, IInv, InCallback, TypeOK
  <2>5. KeepsListening'
    BY <2>4 DEF KeepsListening, Receivers, IInv
  <2> QED
    BY <1>2, <1>3, <2>1, <2>3, <2>5 DEF IInv, TableMatchesController, Agree, InCallback, NoReceiverWaits
<1>5. CASE pc = "received"
  <2>1. PostCmd(RX, table, status, con, can_cmd_list) /\ freed' = freed
    BY <1>5 DEF ReleaseMob, NewBuffer, Disabled
  <2>2. /\ can_mob' \in [Mobs -> Cmds \cup {NULL}]
        /\ status' \in [Mobs -> {"pending", "completed"}]
        /\ conmob' \subseteq Mobs
        /\ Agree(can_mob', conmob')
        /\ \/ \E m \in Mobs \ con : can_mob' = [table EXCEPT ![m] = RX] /\ can_cmd_list' = can_cmd_list
           \/ con = Mobs /\ can_mob' = table /\ can_cmd_list' = Append(can_cmd_list, RX)
    <3>1. RX \in Cmds
      BY DEF Cmds
    <3> HIDE DEF table, con
    <3> QED
      BY <1>2, <2>1, <3>1, PostCmdStep
  <2>3. PICK m \in Mobs \ con : can_mob' = [table EXCEPT ![m] = RX] /\ can_cmd_list' = can_cmd_list
    BY <1>1, <2>2
  <2>4. TypeOK'
    BY <1>1, <1>3, <2>1, <2>2, <2>3 DEF IInv, TypeOK
  <2>5. can_mob[m] = NULL \/ m = h
    BY <2>3 DEF IInv, TableMatchesController, Agree
  <2>6. Cardinality(Receivers(can_mob')) = Cardinality(Receivers(can_mob))
    <3>1. can_mob \in [Mobs -> Cmds \cup {NULL}] /\ can_mob[h] = RX
      BY <1>5 DEF IInv, TypeOK, InCallback
    <3>2. can_mob' = [[can_mob EXCEPT ![h] = NULL] EXCEPT ![m] = RX]
      BY <2>3
    <3> HIDE DEF h
    <3> QED
      BY <1>1, <2>5, <3>1, <3>2, ReceiverReplaced
  <2>7. KeepsListening'
    BY <2>6 DEF KeepsListening, Receivers, IInv
  <2> QED
    BY <1>3, <2>2, <2>3, <2>4, <2>7 DEF IInv, TableMatchesController, Agree, InCallback, NoReceiverWaits
<1> QED
  BY <1>4, <1>5 DEF ReleaseMob

LEMMA StartWaitingInv ==
  ASSUME IInv, StartWaiting
  PROVE  IInv'
<1> DEFINE c == Head(can_cmd_list)
           list == Tail(can_cmd_list)
<1>1. can_cmd_list \in Seq(Frames) /\ can_cmd_list # <<>>
  BY DEF StartWaiting, IInv, NoReceiverWaits
<1>2. c \in Frames /\ Tail(can_cmd_list) \in Seq(Frames)
  BY <1>1, HeadTailProperties
<1>3. Tail(can_cmd_list) \in Seq(Cmds)
  <2>1. can_cmd_list \in Seq(Cmds)
    BY DEF IInv, TypeOK
  <2> QED
    BY <1>1, <2>1, HeadTailProperties
<1>4. c \in Cmds /\ c # NULL /\ c # RX
  BY <1>2, CommandsAssumption DEF Cmds
<1>5. PostCmd(c, can_mob, status, conmob, list) /\ conmob # Mobs
  BY DEF StartWaiting, FreeMobs
<1> HIDE DEF c, list
<1>6. /\ can_mob' \in [Mobs -> Cmds \cup {NULL}]
      /\ status' \in [Mobs -> {"pending", "completed"}]
      /\ conmob' \subseteq Mobs
      /\ Agree(can_mob', conmob')
      /\ \E m \in Mobs \ conmob : can_mob' = [can_mob EXCEPT ![m] = c] /\ can_cmd_list' = list
  <2>1. /\ can_mob \in [Mobs -> Cmds \cup {NULL}] /\ conmob \in SUBSET Mobs
        /\ status \in [Mobs -> {"pending", "completed"}]
        /\ Agree(can_mob, conmob)
    BY DEF IInv, TypeOK, TableMatchesController, Agree
  <2>2. /\ can_mob' \in [Mobs -> Cmds \cup {NULL}]
        /\ status' \in [Mobs -> {"pending", "completed"}]
        /\ conmob' \subseteq Mobs
        /\ Agree(can_mob', conmob')
        /\ \/ \E m \in Mobs \ conmob : can_mob' = [can_mob EXCEPT ![m] = c] /\ can_cmd_list' = list
           \/ conmob = Mobs /\ can_mob' = can_mob /\ can_cmd_list' = Append(list, c)
    BY <1>4, <1>5, <2>1, PostCmdStep
  <2> QED
    BY <1>5, <2>2
<1>7. stale' \subseteq Cmds
  BY <1>4 DEF StartWaiting, IInv, TypeOK, c
<1>8. TypeOK'
  BY <1>3, <1>6, <1>7 DEF list, StartWaiting, timerVars, IInv, TypeOK
<1>9. Receivers(can_mob') = Receivers(can_mob)
  BY <1>4, <1>6, CommandsAssumption DEF Receivers, IInv, TypeOK, TableMatchesController, Agree
<1>10. KeepsListening'
  BY <1>9 DEF KeepsListening, Receivers, IInv
<1>11. InCallback'
  BY DEF StartWaiting, AfterMobs, InCallback
<1> QED
  BY <1>2, <1>6, <1>8, <1>10, <1>11 DEF list, IInv, TableMatchesController, Agree, NoReceiverWaits

LEMMA DriverInv ==
  ASSUME IInv, DriverProcess
  PROVE  IInv'
<1> USE DEF mobVars, timerVars
<1>1. CASE WakeUp
  <2>1. 1 \in 1 .. NB_MOB + 1
    BY MobsAssumption
  <2>2. TypeOK' /\ InCallback'
    BY <1>1, <2>1 DEF WakeUp, IInv, TypeOK, InCallback
  <2> QED
    BY <1>1, <2>2, MobsUntouched DEF WakeUp, IInv
<1>2. CASE PassMob
  <2>1. mob_handle + 1 \in 1 .. NB_MOB + 1
    BY <1>2, MobsAssumption DEF PassMob, AtMob, Mobs
  <2>2. TypeOK' /\ InCallback'
    BY <1>2, <2>1 DEF PassMob, AtMob, IInv, TypeOK, InCallback
  <2> QED
    BY <1>2, <2>2, MobsUntouched DEF PassMob, IInv
<1>3. CASE ReportSent
  <2>1. mob_handle \in Mobs /\ can_mob[mob_handle] \in Frames
    BY <1>3 DEF ReportSent, AtMob, IInv, TypeOK, Cmds
  <2>2. ft_functions' \in Seq(Timer)
    BY <1>3, UnregisteredKeeps DEF ReportSent, Stopped, IInv, TypeOK
  <2>3. reports' \in Seq([frame : Frames, rc : RCs])
    <3>1. [frame |-> can_mob[mob_handle], rc |-> RC_NORM] \in [frame : Frames, rc : RCs]
      BY <2>1 DEF RCs
    <3>2. reports' = Append(reports, [frame |-> can_mob[mob_handle], rc |-> RC_NORM])
      BY <1>3 DEF ReportSent
    <3>3. reports \in Seq([frame : Frames, rc : RCs])
      BY DEF IInv, TypeOK
    <3> QED
      BY <3>1, <3>2, <3>3, AppendProperties
  <2>4. TypeOK' /\ InCallback'
    BY <1>3, <2>1, <2>2, <2>3 DEF ReportSent, IInv, TypeOK, InCallback
  <2> QED
    BY <1>3, <2>4, MobsUntouched DEF ReportSent, IInv
<1>4. CASE ReportReceived
  <2>1. TypeOK' /\ InCallback'
    BY <1>4 DEF ReportReceived, AtMob, IInv, TypeOK, InCallback
  <2> QED
    BY <1>4, <2>1, MobsUntouched DEF ReportReceived, IInv
<1>5. CASE GoToSleep
  <2>1. TypeOK' /\ InCallback'
    BY <1>5 DEF GoToSleep, IInv, TypeOK, InCallback
  <2> QED
    BY <1>5, <2>1, MobsUntouched DEF GoToSleep, IInv
<1>6. CASE ReleaseMob
  BY <1>6, ReleaseMobInv
<1>7. CASE StartWaiting
  BY <1>7, StartWaitingInv
<1> QED
  BY <1>1, <1>2, <1>3, <1>4, <1>5, <1>6, <1>7 DEF DriverProcess

LEMMA CountDownInv ==
  ASSUME IInv, CountDown
  PROVE  IInv'
<1> DEFINE i == TimerOf(ft)
<1>1. ft \in Frames /\ ft # RX /\ ft # NULL
  BY CommandsAssumption DEF CountDown, IInv, TypeOK
<1>2. Following(i) \in Frames \cup {NULL}
  BY FollowingType DEF IInv, TypeOK
<1>3. ft_functions' \in Seq(Timer)
  <2>1. ft_functions' = [ft_functions EXCEPT ![i].time = ft_functions[i].time - 1]
    BY DEF CountDown
  <2>2. ft_functions \in Seq(Timer)
    BY DEF IInv, TypeOK
  <2> HIDE DEF i
  <2>3. DOMAIN ft_functions' = 1 .. Len(ft_functions) /\ Len(ft_functions) \in Nat
    BY <2>1, <2>2
  <2>4. ASSUME NEW j \in 1 .. Len(ft_functions) PROVE ft_functions'[j] \in Timer
    <3>1. ft_functions[j] \in Timer
      BY <2>2, ElementOfSeq
    <3>2. ft_functions'[j] =
            IF j = i THEN [ft_functions[j] EXCEPT !.time = ft_functions[j].time - 1] ELSE ft_functions[j]
      BY <2>1, <2>2
    <3> QED
      BY <3>1, <3>2 DEF Timer
  <2>5. ft_functions' = [j \in 1 .. Len(ft_functions) |-> ft_functions'[j]]
    BY <2>1, <2>3
  <2> QED
    BY <2>3, <2>4, <2>5, IsASeq
<1>4. UNCHANGED <<stale, ftimer_id, mob_handle, polled, given, freed, sent, overload>>
  BY DEF CountDown
<1>5. CASE /\ ft' = Following(i)
           /\ UNCHANGED <<mobVars, next_ft, pc, reports>>
  <2>1. TypeOK' /\ InCallback'
    BY <1>2, <1>3, <1>4, <1>5 DEF CountDown, mobVars, IInv, TypeOK, InCallback
  <2> QED
    BY <1>5, <2>1, MobsUntouched DEF mobVars, IInv
<1>6. CASE /\ AbortCmd(ft)
           /\ reports' = Append(reports, [frame |-> ft, rc |-> RC_TIMEOUT])
           /\ next_ft' = Following(i)
           /\ pc' = "timed_out"
           /\ UNCHANGED <<status, ft>>
  <2>1. reports' \in Seq([frame : Frames, rc : RCs])
    <3>1. [frame |-> ft, rc |-> RC_TIMEOUT] \in [frame : Frames, rc : RCs]
      BY <1>1 DEF RCs
    <3>2. reports \in Seq([frame : Frames, rc : RCs])
      BY DEF IInv, TypeOK
    <3> QED
      BY <1>6, <3>1, <3>2, AppendProperties
  <2>2. /\ can_mob' \in [Mobs -> Cmds \cup {NULL}] /\ conmob' \subseteq Mobs
        /\ Agree(can_mob', conmob') /\ Receivers(can_mob') = Receivers(can_mob)
    <3>1. CASE UNCHANGED <<can_mob, conmob>>
      BY <3>1 DEF IInv, TypeOK, TableMatchesController, Agree
    <3>2. CASE /\ can_mob' = [m \in Mobs |-> IF can_mob[m] = ft THEN NULL ELSE can_mob[m]]
               /\ conmob' = conmob \ {m \in Mobs : can_mob[m] = ft}
      BY <1>1, <3>2, CommandsAssumption
         DEF IInv, TypeOK, TableMatchesController, Agree, Receivers
    <3> QED
      BY <1>6, <3>1, <3>2 DEF AbortCmd
  <2>3. can_cmd_list' \in Seq(Frames) /\ can_cmd_list' \in Seq(Cmds)
    <3>1. can_cmd_list \in Seq(Frames) /\ can_cmd_list \in Seq(Cmds)
      BY DEF IInv, TypeOK, NoReceiverWaits
    <3>2. RemoveFirst(can_cmd_list, ft) \in Seq(Frames) /\ RemoveFirst(can_cmd_list, ft) \in Seq(Cmds)
      BY <3>1, RemoveFirstKeeps
    <3> QED
      BY <1>6, <3>1, <3>2 DEF AbortCmd
  <2>4. TypeOK'
    BY <1>1, <1>2, <1>3, <1>4, <1>6, <2>1, <2>2, <2>3 DEF IInv, TypeOK
  <2>5. KeepsListening'
    BY <2>2 DEF KeepsListening, Receivers, IInv
  <2> QED
    BY <1>1, <1>6, <2>2, <2>3, <2>4, <2>5
       DEF IInv, TableMatchesController, Agree, InCallback, NoReceiverWaits
<1> QED
  BY <1>5, <1>6 DEF CountDown

LEMMA TimerInv ==
  ASSUME IInv, TimerProcess
  PROVE  IInv'
<1> USE DEF mobVars, timerVars
<1>1. CASE Tick
  <2>1. Head(ft_functions).cmd \in Frames
    <3>1. ft_functions \in Seq(Timer) /\ ft_functions # <<>>
      BY <1>1 DEF Tick, IInv, TypeOK
    <3>2. Head(ft_functions) \in Timer
      BY <3>1, HeadTailProperties
    <3> QED
      BY <3>2 DEF Timer
  <2>2. TypeOK' /\ InCallback'
    BY <1>1, <2>1 DEF Tick, IInv, TypeOK, InCallback
  <2> QED
    BY <1>1, <2>2, MobsUntouched DEF Tick, IInv
<1>2. CASE CountDown
  BY <1>2, CountDownInv
<1>3. CASE TimedOut
  <2>1. ft_functions' \in Seq(Timer)
    BY <1>3, UnregisteredKeeps DEF TimedOut, IInv, TypeOK
  <2>2. freed' \subseteq Frames
    BY <1>3 DEF TimedOut, IInv, TypeOK, InCallback
  <2>3. TypeOK' /\ InCallback'
    BY <1>3, <2>1, <2>2 DEF TimedOut, IInv, TypeOK, InCallback
  <2> QED
    BY <1>3, <2>3, MobsUntouched DEF TimedOut, IInv
<1>4. CASE TickDone
  <2>1. TypeOK' /\ InCallback'
    BY <1>4 DEF TickDone, IInv, TypeOK, InCallback
  <2> QED
    BY <1>4, <2>1, MobsUntouched DEF TickDone, IInv
<1> QED
  BY <1>1, <1>2, <1>3, <1>4 DEF TimerProcess

LEMMA StepInv == IInv /\ [Next]_vars => IInv'
<1> SUFFICES ASSUME IInv, [Next]_vars PROVE IInv'
  OBVIOUS
<1>1. CASE Next
  BY <1>1, CanSendInv, InterruptInv, DriverInv, TimerInv DEF Next
<1>2. CASE UNCHANGED vars
  BY <1>2 DEF vars, mobVars, timerVars, IInv, TypeOK, TableMatchesController, InCallback,
              NoReceiverWaits, KeepsListening
<1> QED
  BY <1>1, <1>2

LEMMA Invariance == Spec => []IInv
BY InitInv, StepInv, PTL DEF Spec

-----------------------------------------------------------------------------
(* Theorems                                                                *)

(* The state of the driver and of the timers stays well typed: in          *)
(* particular the process that counts the timers down never follows a      *)
(* position beyond them, and there is always an id to give.                *)
THEOREM TypeCorrect == Spec => []TypeOK
<1>1. IInv => TypeOK
  BY DEF IInv
<1> QED
  BY <1>1, Invariance, PTL

(* For any number of MObs, and any order of interrupts, timeouts and       *)
(* callbacks that send: the table of pending commands and the controller   *)
(* agree on which MObs are taken.                                          *)
THEOREM TableAgrees == Spec => []TableMatchesController
<1>1. IInv => TableMatchesController
  BY DEF IInv
<1> QED
  BY <1>1, Invariance, PTL

(* The device always keeps as many MObs to receive as it was started with. *)
THEOREM AlwaysListens == Spec => []KeepsListening
<1>1. IInv => KeepsListening
  BY DEF IInv
<1> QED
  BY <1>1, Invariance, PTL

=============================================================================
