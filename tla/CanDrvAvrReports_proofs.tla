---------------------- MODULE CanDrvAvrReports_proofs ----------------------
(***************************************************************************)
(* Theorems about CanDrvAvr for any frames, MObs and timeouts: a command   *)
(* that has not been reported is in one place and its timer runs, and the  *)
(* driver keeps the part of its contract that CanReports states.           *)
(***************************************************************************)
EXTENDS CanDrvAvr_proofs

-----------------------------------------------------------------------------
(* Lists without one of their elements                                     *)

LEMMA RemoveAtElements ==
  ASSUME NEW S, NEW s \in Seq(S), NEW i \in 1 .. Len(s)
  PROVE  /\ RemoveAt(s, i) \in Seq(S)
         /\ Len(RemoveAt(s, i)) = Len(s) - 1
         /\ \A j \in 1 .. Len(s) - 1 : RemoveAt(s, i)[j] = IF j < i THEN s[j] ELSE s[j + 1]
<1> DEFINE a == SubSeq(s, 1, i - 1)
           b == SubSeq(s, i + 1, Len(s))
<1>1. Len(s) \in Nat /\ i \in Nat /\ i >= 1 /\ i <= Len(s)
  OBVIOUS
<1>2. a \in Seq(S) /\ Len(a) = i - 1 /\ \A j \in 1 .. i - 1 : a[j] = s[j]
  BY <1>1, SubSeqProperties
<1>3. b \in Seq(S) /\ Len(b) = Len(s) - i /\ \A j \in 1 .. Len(s) - i : b[j] = s[j + i]
  BY <1>1, SubSeqProperties
<1> HIDE DEF a, b
<1>4. /\ a \o b \in Seq(S) /\ Len(a \o b) = Len(s) - 1
      /\ \A j \in 1 .. Len(s) - 1 : (a \o b)[j] = IF j <= i - 1 THEN a[j] ELSE b[j - (i - 1)]
  <2>1. /\ a \o b \in Seq(S)
        /\ Len(a \o b) = Len(a) + Len(b)
        /\ \A j \in 1 .. Len(a) + Len(b) :
             (a \o b)[j] = IF j <= Len(a) THEN a[j] ELSE b[j - Len(a)]
    BY <1>2, <1>3, ConcatProperties
  <2>2. Len(a) + Len(b) = Len(s) - 1
    BY <1>1, <1>2, <1>3
  <2> QED
    BY <1>2, <2>1, <2>2
<1>5. ASSUME NEW j \in 1 .. Len(s) - 1
      PROVE  (a \o b)[j] = IF j < i THEN s[j] ELSE s[j + 1]
  <2>1. CASE j < i
    BY <1>1, <1>2, <1>4, <2>1
  <2>2. CASE ~(j < i)
    <3>1. j - (i - 1) \in 1 .. Len(s) - i
      BY <1>1, <2>2
    <3>2. b[j - (i - 1)] = s[j - (i - 1) + i]
      BY <1>3, <3>1
    <3>3. j - (i - 1) + i = j + 1 /\ ~(j <= i - 1)
      BY <1>1, <2>2
    <3>4. (a \o b)[j] = b[j - (i - 1)]
      <4>1. (a \o b)[j] = IF j <= i - 1 THEN a[j] ELSE b[j - (i - 1)]
        BY <1>4
      <4> QED
        BY <3>3, <4>1
    <3>5. s[j - (i - 1) + i] = s[j + 1]
      BY <3>3
    <3>6. (a \o b)[j] = s[j + 1]
      BY <3>2, <3>4, <3>5
    <3> QED
      BY <2>2, <3>6
  <2> QED
    BY <2>1, <2>2
<1> QED
  BY <1>4, <1>5 DEF RemoveAt, a, b

(* Each element of the rest was an element, at another place for each; and *)
(* each but the one at i is left.                                          *)
LEMMA RemoveAtRest ==
  ASSUME NEW S, NEW s \in Seq(S), NEW i \in 1 .. Len(s), NEW t, t = RemoveAt(s, i)
  PROVE  /\ t \in Seq(S)
         /\ \A j \in DOMAIN t : \E k \in DOMAIN s : k # i /\ t[j] = s[k]
         /\ \A k \in DOMAIN s : k # i => \E j \in DOMAIN t : t[j] = s[k]
         /\ \A j1, j2 \in DOMAIN t : j1 # j2 =>
              \E k1, k2 \in DOMAIN s : k1 # k2 /\ t[j1] = s[k1] /\ t[j2] = s[k2]
<1>1. /\ t \in Seq(S) /\ Len(t) = Len(s) - 1 /\ Len(s) \in Nat /\ i \in Nat
      /\ DOMAIN t = 1 .. Len(s) - 1 /\ DOMAIN s = 1 .. Len(s)
      /\ \A j \in 1 .. Len(s) - 1 : t[j] = IF j < i THEN s[j] ELSE s[j + 1]
  <2>1. t \in Seq(S) /\ Len(t) = Len(s) - 1
    BY RemoveAtElements
  <2> QED
    BY <2>1, RemoveAtElements
<1> DEFINE At(j) == IF j < i THEN j ELSE j + 1
<1>2. \A j \in DOMAIN t : At(j) \in DOMAIN s /\ At(j) # i /\ t[j] = s[At(j)]
  BY <1>1
<1>3. \A j1, j2 \in DOMAIN t : j1 # j2 => At(j1) # At(j2)
  BY <1>1
<1>4. ASSUME NEW k \in DOMAIN s, k # i
      PROVE  \E j \in DOMAIN t : t[j] = s[k]
  <2>1. CASE k < i
    <3>1. k \in DOMAIN t /\ t[k] = s[k]
      BY <1>1, <2>1
    <3> QED
      BY <3>1
  <2>2. CASE k > i
    <3>1. k - 1 \in DOMAIN t /\ t[k - 1] = s[k - 1 + 1] /\ k - 1 + 1 = k
      BY <1>1, <2>2
    <3> QED
      BY <3>1
  <2> QED
    BY <1>1, <1>4, <2>1, <2>2
<1> HIDE DEF At
<1>5. \A j \in DOMAIN t : \E k \in DOMAIN s : k # i /\ t[j] = s[k]
  BY <1>2
<1>6. ASSUME NEW j1 \in DOMAIN t, NEW j2 \in DOMAIN t, j1 # j2
      PROVE  \E k1, k2 \in DOMAIN s : k1 # k2 /\ t[j1] = s[k1] /\ t[j2] = s[k2]
  <2>1. At(j1) \in DOMAIN s /\ At(j2) \in DOMAIN s /\ At(j1) # At(j2)
    BY <1>2, <1>3, <1>6
  <2>2. t[j1] = s[At(j1)] /\ t[j2] = s[At(j2)]
    BY <1>2
  <2> QED
    BY <2>1, <2>2
<1>7. t \in Seq(S)
  BY <1>1
<1> QED
  BY <1>4, <1>5, <1>6, <1>7

(* No two elements are the same.                                           *)
Distinct(s) == \A i, j \in DOMAIN s : s[i] = s[j] => i = j

LEMMA RemoveFirstRest ==
  ASSUME NEW S, NEW s \in Seq(S), Distinct(s), NEW e, NEW t, t = RemoveFirst(s, e)
  PROVE  /\ Distinct(t)
         /\ \A j \in DOMAIN t : \E k \in DOMAIN s : t[j] = s[k]
         /\ \A k \in DOMAIN s : s[k] # e => \E j \in DOMAIN t : t[j] = s[k]
<1> DEFINE I == {i \in 1 .. Len(s) : s[i] = e}
<1>1. CASE I = {}
  BY <1>1 DEF RemoveFirst
<1>2. CASE I # {}
  <2>1. Min(I) \in 1 .. Len(s) /\ Min(I) \in I
    <3>1. Len(s) \in Nat /\ I \subseteq 1 .. Len(s)
      OBVIOUS
    <3> HIDE DEF I
    <3> QED
      BY <3>1, <1>2, MinIsMember
  <2>2. SelectInSeq(s, LAMBDA v : v = e) = Min(I)
    BY <1>2 DEF SelectInSeq
  <2>3. t = RemoveAt(s, Min(I)) /\ s[Min(I)] = e
    BY <1>2, <2>1, <2>2 DEF RemoveFirst
  <2> HIDE DEF I
  <2>4. /\ \A j \in DOMAIN t : \E k \in DOMAIN s : k # Min(I) /\ t[j] = s[k]
        /\ \A k \in DOMAIN s : k # Min(I) => \E j \in DOMAIN t : t[j] = s[k]
        /\ \A j1, j2 \in DOMAIN t : j1 # j2 =>
             \E k1, k2 \in DOMAIN s : k1 # k2 /\ t[j1] = s[k1] /\ t[j2] = s[k2]
    BY <2>1, <2>3, RemoveAtRest
  <2> QED
    BY <2>3, <2>4 DEF Distinct
<1> QED
  BY <1>1, <1>2

-----------------------------------------------------------------------------
(* Timers                                                                  *)

IdsDistinct(timers) == \A i, j \in DOMAIN timers : timers[i].id = timers[j].id => i = j

Timed(timers, f) == \E i \in DOMAIN timers : timers[i].cmd = f

(* Unregistering an id takes away the timer that has it, and no other.     *)
LEMMA UnregisteredRest ==
  ASSUME NEW timers \in Seq(Timer), IdsDistinct(timers), NEW id,
         NEW rest, rest = Unregistered(timers, id)
  PROVE  /\ IdsDistinct(rest)
         /\ \A j \in DOMAIN rest : \E k \in DOMAIN timers : rest[j] = timers[k] /\ timers[k].id # id
         /\ \A k \in DOMAIN timers : timers[k].id # id => \E j \in DOMAIN rest : rest[j] = timers[k]
<1> DEFINE I == {i \in 1 .. Len(timers) : timers[i].id = id}
<1>1. CASE I = {}
  <2>1. rest = timers /\ DOMAIN timers = 1 .. Len(timers)
    BY <1>1 DEF Unregistered, RemoveFirstMatch
  <2> QED
    BY <1>1, <2>1
<1>2. CASE I # {}
  <2>0. DOMAIN timers = 1 .. Len(timers)
    OBVIOUS
  <2>1. Min(I) \in 1 .. Len(timers) /\ Min(I) \in I
    <3>1. Len(timers) \in Nat /\ I \subseteq 1 .. Len(timers)
      OBVIOUS
    <3> HIDE DEF I
    <3> QED
      BY <3>1, <1>2, MinIsMember
  <2>2. SelectInSeq(timers, LAMBDA t : t.id = id) = Min(I)
    BY <1>2 DEF SelectInSeq
  <2>3. rest = RemoveAt(timers, Min(I)) /\ timers[Min(I)].id = id
    BY <1>2, <2>1, <2>2 DEF Unregistered, RemoveFirstMatch
  <2> HIDE DEF I
  <2>4. /\ \A j \in DOMAIN rest : \E k \in DOMAIN timers : k # Min(I) /\ rest[j] = timers[k]
        /\ \A k \in DOMAIN timers : k # Min(I) => \E j \in DOMAIN rest : rest[j] = timers[k]
        /\ \A j1, j2 \in DOMAIN rest : j1 # j2 =>
             \E k1, k2 \in DOMAIN timers : k1 # k2 /\ rest[j1] = timers[k1] /\ rest[j2] = timers[k2]
    <3> DEFINE k == Min(I)
    <3>1. k \in 1 .. Len(timers) /\ rest = RemoveAt(timers, k)
      BY <2>1, <2>3
    <3> HIDE DEF k
    <3>2. /\ \A j \in DOMAIN rest : \E n \in DOMAIN timers : n # k /\ rest[j] = timers[n]
          /\ \A n \in DOMAIN timers : n # k => \E j \in DOMAIN rest : rest[j] = timers[n]
          /\ \A j1, j2 \in DOMAIN rest : j1 # j2 =>
               \E k1, k2 \in DOMAIN timers : k1 # k2 /\ rest[j1] = timers[k1] /\ rest[j2] = timers[k2]
      BY <3>1, RemoveAtRest
    <3> QED
      BY <3>2 DEF k
  <2>5. IdsDistinct(rest)
    BY <2>4 DEF IdsDistinct
  <2>6. \A k \in DOMAIN timers : k # Min(I) <=> timers[k].id # id
    BY <2>0, <2>1, <2>3 DEF IdsDistinct
  <2> QED
    BY <2>4, <2>5, <2>6
<1> QED
  BY <1>1, <1>2

CmdsDistinct(timers) == \A i, j \in DOMAIN timers : timers[i].cmd = timers[j].cmd => i = j

(* Even when ids are shared: what is left are timers of before, and what   *)
(* stood behind a timer with that id is left.                              *)
LEMMA UnregisteredLeft ==
  ASSUME NEW timers \in Seq(Timer), NEW id, NEW rest, rest = Unregistered(timers, id)
  PROVE  /\ \A j \in DOMAIN rest : \E k \in DOMAIN timers : rest[j] = timers[k]
         /\ CmdsDistinct(timers) => CmdsDistinct(rest)
         /\ \A n \in DOMAIN timers : timers[n].id = id /\ n + 1 \in DOMAIN timers =>
              \E j \in DOMAIN rest : rest[j] = timers[n + 1]
<1> DEFINE I == {i \in 1 .. Len(timers) : timers[i].id = id}
<1>0. DOMAIN timers = 1 .. Len(timers) /\ Len(timers) \in Nat /\ I \subseteq 1 .. Len(timers)
  OBVIOUS
<1>1. CASE I = {}
  <2>1. rest = timers
    BY <1>1 DEF Unregistered, RemoveFirstMatch
  <2> QED
    BY <1>0, <1>1, <2>1
<1>2. CASE I # {}
  <2>1. PICK k \in I : k = Min(I) /\ \A i \in I : k <= i
    <3>1. I \subseteq Nat
      BY <1>0
    <3>2. \E x \in I : \A y \in I : x <= y
      <4> HIDE DEF I
      <4> QED
        BY <1>2, <3>1, SmallestExists
    <3> HIDE DEF I
    <3> DEFINE P(x) == x \in I /\ \A y \in I : x <= y
    <3>3. Min(I) = CHOOSE x \in I : \A y \in I : x <= y
      BY DEF Min
    <3>4. (\E x : P(x)) => P(CHOOSE x : P(x))
      BY Zenon
    <3>5. Min(I) \in I /\ \A i \in I : Min(I) <= i
      BY <3>2, <3>3, <3>4
    <3> QED
      BY <3>5
  <2>2. SelectInSeq(timers, LAMBDA t : t.id = id) = Min(I)
    BY <1>2 DEF SelectInSeq
  <2>3. rest = RemoveAt(timers, k)
    BY <1>2, <2>1, <2>2 DEF Unregistered, RemoveFirstMatch
  <2>4. \A n \in DOMAIN timers : timers[n].id = id => n \in I
    BY <1>0
  <2>0. k \in 1 .. Len(timers)
    BY <1>0, <2>1
  <2> HIDE DEF I
  <2>5. /\ \A j \in DOMAIN rest : \E n \in DOMAIN timers : n # k /\ rest[j] = timers[n]
        /\ \A n \in DOMAIN timers : n # k => \E j \in DOMAIN rest : rest[j] = timers[n]
        /\ \A j1, j2 \in DOMAIN rest : j1 # j2 =>
             \E k1, k2 \in DOMAIN timers : k1 # k2 /\ rest[j1] = timers[k1] /\ rest[j2] = timers[k2]
    <3>1. k \in 1 .. Len(timers) /\ rest = RemoveAt(timers, k)
      BY <2>0, <2>3
    <3> QED
      BY <3>1, RemoveAtRest
  <2>6. CmdsDistinct(timers) => CmdsDistinct(rest)
    BY <2>5 DEF CmdsDistinct
  <2>7. ASSUME NEW n \in DOMAIN timers, timers[n].id = id, n + 1 \in DOMAIN timers
        PROVE  \E j \in DOMAIN rest : rest[j] = timers[n + 1]
    <3>1. k <= n /\ k \in Nat /\ n \in Nat
      BY <1>0, <2>1, <2>4, <2>7
    <3> QED
      BY <2>5, <2>7, <3>1
  <2> QED
    BY <2>5, <2>6, <2>7
<1> QED
  BY <1>1, <1>2

(* As long as no more timers run than there are bits, a new one gets an id *)
(* of its own (ftimer.c:47).                                               *)
LEMMA FreshIdIsFresh ==
  ASSUME NEW timers \in Seq(Timer), Len(timers) <= IntBits
  PROVE  FreshId(timers) \notin Ids(timers)
<1> DEFINE id == FreshId(timers)
           Free == {x \in 0 .. IntBits : x \notin Ids(timers) \/ x = IntBits}
<1>1. /\ id \in 0 .. IntBits
      /\ id \notin Ids(timers) \/ id = IntBits
      /\ \A j \in 0 .. id - 1 : j \in Ids(timers)
  <2>1. Free \subseteq Nat /\ IntBits \in Free
    BY TimersAssumption
  <2>2. PICK x \in Free : \A j \in Free : x <= j
    <3> HIDE DEF Free
    <3> QED
      BY <2>1, SmallestExists
  <2>3. \A j \in 0 .. x - 1 : j \in Ids(timers)
    BY <2>2, TimersAssumption
  <2> QED
    BY <2>2, <2>3 DEF FreshId
<1> HIDE DEF id
<1>2. SUFFICES ASSUME id = IntBits, id \in Ids(timers) PROVE FALSE
  BY <1>1 DEF id
<1>3. 0 .. IntBits \subseteq Ids(timers)
  BY <1>1, <1>2, TimersAssumption
<1> DEFINE D == 1 .. Len(timers)
           IdAt == [i \in D |-> timers[i].id]
<1>4. IsFiniteSet(D) /\ Cardinality(D) = Len(timers) /\ Len(timers) \in Nat
  <2>1. 1 \in Int /\ Len(timers) \in Int /\ Len(timers) \in Nat
    OBVIOUS
  <2>2. IsFiniteSet(1 .. Len(timers))
          /\ Cardinality(1 .. Len(timers)) = IF 1 > Len(timers) THEN 0 ELSE Len(timers) - 1 + 1
    BY <2>1, FS_Interval
  <2> QED
    BY <2>1, <2>2
<1>5. Ids(timers) = {IdAt[i] : i \in D}
  BY DEF Ids
<1>6. IdAt \in Surjection(D, Ids(timers))
  BY <1>5 DEF Surjection
<1>7. IsFiniteSet(Ids(timers)) /\ Cardinality(Ids(timers)) <= Cardinality(D)
  <2> HIDE DEF D, IdAt
  <2> QED
    BY <1>4, <1>6, FS_Surjection
<1>8. Cardinality(0 .. IntBits) = IntBits + 1
  <2>1. 0 \in Int /\ IntBits \in Int /\ IntBits >= 0
    BY TimersAssumption
  <2>2. Cardinality(0 .. IntBits) = IF 0 > IntBits THEN 0 ELSE IntBits - 0 + 1
    BY <2>1, FS_Interval
  <2> QED
    BY <2>1, <2>2
<1>9. Cardinality(0 .. IntBits) <= Cardinality(Ids(timers))
  BY <1>3, <1>7, FS_Subset
<1>10. Cardinality(Ids(timers)) \in Nat
  BY <1>7, FS_CardinalityType
<1> HIDE DEF D
<1> QED
  BY <1>4, <1>7, <1>8, <1>9, <1>10, TimersAssumption

-----------------------------------------------------------------------------
(* The inductive invariant                                                 *)

(* No frame is at two places, in MObs or on the list.                      *)
Unique(table, list) ==
  /\ \A m, n \in Mobs : table[m] = table[n] /\ table[m] \in Frames => m = n
  /\ Distinct(list)
  /\ \A m \in Mobs, i \in DOMAIN list : table[m] # list[i]

Has(table, list, f) == (\E m \in Mobs : table[m] = f) \/ (\E i \in DOMAIN list : list[i] = f)

(* A command that was reported and is still somewhere is about to go: its  *)
(* callback runs, or the driver is astray.                                 *)
Leaving(f) ==
  \/ f \in freed
  \/ pc = "sent" /\ f = can_mob[mob_handle]
  \/ pc = "timed_out" /\ f = ft

OnePlace ==
  /\ Unique(can_mob, can_cmd_list)
  /\ \A f \in Frames : Has(can_mob, can_cmd_list, f) => f \in given
  /\ \A f \in given \ Reported : Has(can_mob, can_cmd_list, f)
  /\ \A f \in Frames : Has(can_mob, can_cmd_list, f) /\ f \in Reported => Leaving(f)

Behind(timers, f, next) ==
  \E i \in DOMAIN timers : timers[i].cmd = f /\ i + 1 \in DOMAIN timers /\ timers[i + 1].cmd = next

(* Each timer is of a command of its own, which was not reported or is     *)
(* about to go; and the process that counts follows timers that run.       *)
OneTimer ==
  /\ CmdsDistinct(ft_functions)
  /\ \A i \in DOMAIN ft_functions :
       LET t == ft_functions[i]
       IN  /\ t.cmd \in given /\ ftimer_id[t.cmd] = t.id
           /\ t.cmd \in Reported => Leaving(t.cmd)
  /\ pc = "timers" /\ ft # NULL => Timed(ft_functions, ft)
  /\ pc = "timed_out" =>
       /\ Timed(ft_functions, ft) /\ ft \in Reported
       /\ next_ft # NULL => Behind(ft_functions, ft, next_ft)

(* As long as there was an id for each timer: stopping one stops no other, *)
(* so each command that was not reported has its timer, and the others     *)
(* have none but for the one that has just run out.                        *)
OwnIds ==
  ~overload =>
    /\ IdsDistinct(ft_functions)
    /\ \A f \in given \ Reported : Timed(ft_functions, f)
    /\ \A i \in DOMAIN ft_functions :
         ft_functions[i].cmd \in Reported => pc = "timed_out" /\ ft_functions[i].cmd = ft

Books ==
  /\ Reported \subseteq given /\ freed \subseteq Reported /\ IsFiniteSet(given)
  /\ \A m \in Mobs : can_mob[m] \in Frames /\ status[m] = "completed" => can_mob[m] \in sent
  /\ pc = "sent" => can_mob[mob_handle] \in Reported
  /\ pc = "timed_out" => reports # <<>> /\ reports[Len(reports)].rc = RC_TIMEOUT

RInv == IInv /\ OnePlace /\ OneTimer /\ OwnIds /\ Books

-----------------------------------------------------------------------------
(* Places                                                                  *)

LEMMA PostCmdPlaces ==
  ASSUME NEW c \in Frames, NEW table \in [Mobs -> Cmds \cup {NULL}],
         NEW st \in [Mobs -> {"pending", "completed"}], NEW con \in SUBSET Mobs,
         NEW list \in Seq(Frames), Agree(table, con),
         Unique(table, list), ~Has(table, list, c),
         PostCmd(c, table, st, con, list)
  PROVE  /\ Unique(can_mob', can_cmd_list')
         /\ \A f \in Frames : Has(can_mob', can_cmd_list', f) <=> Has(table, list, f) \/ f = c
         /\ \A m \in con : can_mob'[m] = table[m]
         /\ \A m \in Mobs : can_mob'[m] \in Frames /\ status'[m] = "completed"
                              => can_mob'[m] = table[m] /\ st[m] = "completed"
<1>1. c # NULL /\ c # RX /\ c \in Cmds
  BY CommandsAssumption DEF Cmds
<1>2. CASE \E m \in FreeMobs(con) :
             /\ can_mob' = [table EXCEPT ![m] = c]
             /\ status' = [st EXCEPT ![m] = "pending"]
             /\ can_cmd_list' = list
  <2>1. PICK m \in FreeMobs(con) :
             /\ can_mob' = [table EXCEPT ![m] = c]
             /\ status' = [st EXCEPT ![m] = "pending"]
             /\ can_cmd_list' = list
    BY <1>2
  <2>2. m \in Mobs /\ m \notin con /\ table[m] = NULL
    BY DEF FreeMobs, Agree
  <2>3. can_mob'[m] = c /\ \A n \in Mobs : n # m => can_mob'[n] = table[n]
    BY <2>1, <2>2
  <2>4. \A f \in Frames : Has(can_mob', can_cmd_list', f) <=> Has(table, list, f) \/ f = c
    BY <2>1, <2>2, <2>3, CommandsAssumption DEF Has
  <2>5. Unique(can_mob', can_cmd_list')
    <3>1. \A n \in Mobs : table[n] # c
      BY DEF Has
    <3>2. \A i \in DOMAIN list : list[i] # c
      BY DEF Has
    <3> QED
      BY <2>1, <2>2, <2>3, <3>1, <3>2 DEF Unique
  <2>6. status'[m] = "pending" /\ \A n \in Mobs : n # m => status'[n] = st[n]
    BY <2>1, <2>2
  <2> QED
    BY <2>2, <2>3, <2>4, <2>5, <2>6
<1>3. CASE can_cmd_list' = Append(list, c) /\ can_mob' = table /\ status' = st
  <2>1. /\ DOMAIN can_cmd_list' = 1 .. Len(list) + 1 /\ DOMAIN list = 1 .. Len(list)
        /\ Len(list) \in Nat
        /\ can_cmd_list'[Len(list) + 1] = c
        /\ \A i \in 1 .. Len(list) : can_cmd_list'[i] = list[i]
    BY <1>3
  <2>2. \A f \in Frames : Has(can_mob', can_cmd_list', f) <=> Has(table, list, f) \/ f = c
    BY <1>3, <2>1 DEF Has
  <2>3. Unique(can_mob', can_cmd_list')
    <3>1. \A n \in Mobs : table[n] # c
      BY DEF Has
    <3>2. \A i \in 1 .. Len(list) : list[i] # c
      BY <2>1 DEF Has
    <3>3. Distinct(can_cmd_list')
      BY <2>1, <3>2 DEF Unique, Distinct
    <3>4. \A m \in Mobs, i \in DOMAIN can_cmd_list' : can_mob'[m] # can_cmd_list'[i]
      BY <1>3, <2>1, <3>1 DEF Unique
    <3> QED
      BY <1>3, <3>3, <3>4 DEF Unique
  <2> QED
    BY <1>3, <2>2, <2>3
<1> QED
  BY <1>2, <1>3 DEF PostCmd

(* A MOb is given up, or taken for a command to receive.                   *)
LEMMA ReleasedPlaces ==
  ASSUME NEW table \in [Mobs -> Cmds \cup {NULL}], NEW list \in Seq(Frames), Unique(table, list),
         NEW m \in Mobs, NEW c \in {RX, NULL}, NEW after, after = [table EXCEPT ![m] = c]
  PROVE  /\ Unique(after, list)
         /\ \A f \in Frames : Has(after, list, f) => Has(table, list, f)
         /\ \A f \in Frames : Has(table, list, f) /\ f # table[m] => Has(after, list, f)
<1>1. after[m] = c /\ \A n \in Mobs : n # m => after[n] = table[n]
  OBVIOUS
<1>2. c \notin Frames
  BY CommandsAssumption
<1>3. \A i \in DOMAIN list : list[i] \in Frames
  OBVIOUS
<1>4. Unique(after, list)
  BY <1>1, <1>2, <1>3 DEF Unique
<1> QED
  BY <1>1, <1>2, <1>4 DEF Has

(* A command is aborted: where it was found it is taken away, and nothing  *)
(* else.                                                                   *)
LEMMA AbortedPlaces ==
  ASSUME can_mob \in [Mobs -> Cmds \cup {NULL}], can_cmd_list \in Seq(Frames),
         Unique(can_mob, can_cmd_list), NEW c \in Frames, AbortCmd(c)
  PROVE  /\ Unique(can_mob', can_cmd_list')
         /\ \A f \in Frames : Has(can_mob', can_cmd_list', f) => Has(can_mob, can_cmd_list, f)
         /\ \A f \in Frames : Has(can_mob, can_cmd_list, f) /\ f # c
                                => Has(can_mob', can_cmd_list', f)
         /\ \A m \in Mobs : can_mob'[m] \in Frames => can_mob'[m] = can_mob[m]
<1>1. CASE can_cmd_list' = RemoveFirst(can_cmd_list, c) /\ can_mob' = can_mob
  <2>1. Distinct(can_cmd_list)
    BY DEF Unique
  <2>2. /\ Distinct(can_cmd_list')
        /\ \A j \in DOMAIN can_cmd_list' : \E k \in DOMAIN can_cmd_list : can_cmd_list'[j] = can_cmd_list[k]
        /\ \A k \in DOMAIN can_cmd_list : can_cmd_list[k] # c
             => \E j \in DOMAIN can_cmd_list' : can_cmd_list'[j] = can_cmd_list[k]
    BY <1>1, <2>1, RemoveFirstRest
  <2>3. Unique(can_mob', can_cmd_list')
    BY <1>1, <2>2 DEF Unique
  <2> QED
    BY <1>1, <2>2, <2>3 DEF Has
<1>2. CASE /\ can_mob' = [m \in Mobs |-> IF can_mob[m] = c THEN NULL ELSE can_mob[m]]
           /\ can_cmd_list' = can_cmd_list
  <2>1. \A m \in Mobs : can_mob'[m] = IF can_mob[m] = c THEN NULL ELSE can_mob[m]
    BY <1>2
  <2>2. \A i \in DOMAIN can_cmd_list : can_cmd_list[i] \in Frames
    OBVIOUS
  <2>3. Unique(can_mob', can_cmd_list')
    BY <1>2, <2>1, <2>2, CommandsAssumption DEF Unique
  <2> QED
    BY <1>2, <2>1, <2>3, CommandsAssumption DEF Has
<1> QED
  BY <1>1, <1>2 DEF AbortCmd

LEMMA ReportedAppend ==
  ASSUME reports \in Seq([frame : Frames, rc : RCs]), NEW f \in Frames, NEW r \in RCs,
         reports' = Append(reports, [frame |-> f, rc |-> r])
  PROVE  /\ Reported' = Reported \cup {f}
         /\ reports' # <<>> /\ reports'[Len(reports')].rc = r
<1>1. /\ DOMAIN reports' = 1 .. Len(reports) + 1 /\ DOMAIN reports = 1 .. Len(reports)
      /\ Len(reports) \in Nat /\ Len(reports') = Len(reports) + 1
      /\ reports'[Len(reports) + 1] = [frame |-> f, rc |-> r]
      /\ \A i \in 1 .. Len(reports) : reports'[i] = reports[i]
  OBVIOUS
<1>2. \A x : x \in Reported' <=> x \in Reported \/ x = f
  <2>1. ASSUME NEW x \in Reported' PROVE x \in Reported \/ x = f
    BY <1>1 DEF Reported
  <2>2. Reported \subseteq Reported'
    BY <1>1 DEF Reported
  <2>3. f \in Reported'
    BY <1>1 DEF Reported
  <2> QED
    BY <2>1, <2>2, <2>3
<1> QED
  BY <1>1, <1>2

LEMMA InitRInv == Init => RInv
<1> SUFFICES ASSUME Init PROVE RInv
  OBVIOUS
<1>1. IInv
  BY InitInv
<1>2. Reported = {} /\ given = {} /\ freed = {} /\ pc = "idle"
  BY DEF Init, Reported
<1>3. can_cmd_list = <<>> /\ \A m \in Mobs : can_mob[m] \notin Frames
  BY CommandsAssumption DEF Init
<1>4. OnePlace
  BY <1>2, <1>3 DEF OnePlace, Unique, Distinct, Has
<1>5. OneTimer /\ OwnIds
  BY <1>2 DEF OneTimer, OwnIds, IdsDistinct, CmdsDistinct, Init
<1>6. Books
  BY <1>2, <1>3, FS_EmptySet DEF Books
<1> QED
  BY <1>1, <1>4, <1>5, <1>6 DEF RInv

-----------------------------------------------------------------------------
(* Every step keeps it                                                     *)

LEMMA CanSendReports ==
  ASSUME RInv, ~Astray, NEW f \in Frames, CanSend(f)
  PROVE  OnePlace' /\ OneTimer' /\ OwnIds' /\ Books'
<1>1. /\ f \notin given /\ given' = given \cup {f}
      /\ PostCmd(f, can_mob, status, conmob, can_cmd_list)
      /\ ftimer_id' = [ftimer_id EXCEPT ![f] = NewTimer(f).id]
      /\ ft_functions' = Append(ft_functions, NewTimer(f))
      /\ overload' = (overload \/ Len(ft_functions) > IntBits)
      /\ UNCHANGED <<pc, mob_handle, ft, next_ft, freed, sent, reports>>
  BY DEF CanSend, Registered
<1>2. /\ can_mob \in [Mobs -> Cmds \cup {NULL}] /\ conmob \in SUBSET Mobs
      /\ status \in [Mobs -> {"pending", "completed"}] /\ can_cmd_list \in Seq(Frames)
      /\ Agree(can_mob, conmob) /\ ft_functions \in Seq(Timer)
      /\ ftimer_id \in [Frames -> 0 .. IntBits] /\ given \subseteq Frames
  BY DEF RInv, IInv, TypeOK, TableMatchesController, NoReceiverWaits, Agree
<1>3. /\ Unique(can_mob, can_cmd_list) /\ ~Has(can_mob, can_cmd_list, f)
      /\ f \notin Reported /\ f \notin freed
  BY <1>1 DEF RInv, OnePlace, Books
<1>4. /\ Unique(can_mob', can_cmd_list')
      /\ \A g \in Frames : Has(can_mob', can_cmd_list', g) <=> Has(can_mob, can_cmd_list, g) \/ g = f
      /\ \A m \in conmob : can_mob'[m] = can_mob[m]
      /\ \A m \in Mobs : can_mob'[m] \in Frames /\ status'[m] = "completed"
                           => can_mob'[m] = can_mob[m] /\ status[m] = "completed"
  <2>1. PostCmd(f, can_mob, status, conmob, can_cmd_list)
    BY <1>1
  <2>2. /\ can_mob \in [Mobs -> Cmds \cup {NULL}] /\ conmob \in SUBSET Mobs
        /\ status \in [Mobs -> {"pending", "completed"}] /\ can_cmd_list \in Seq(Frames)
        /\ Agree(can_mob, conmob)
    BY <1>2
  <2>3. Unique(can_mob, can_cmd_list) /\ ~Has(can_mob, can_cmd_list, f)
    BY <1>3
  <2> QED
    BY <2>1, <2>2, <2>3, PostCmdPlaces
<1>5. Reported' = Reported
  BY <1>1 DEF Reported
<1>6. pc = "sent" => can_mob'[mob_handle] = can_mob[mob_handle]
  BY <1>2, <1>4, CommandsAssumption DEF RInv, IInv, InCallback, Agree
<1>7. OnePlace'
  <2>1. \A g \in Frames : Leaving(g) => Leaving(g)'
    BY <1>1, <1>6 DEF Leaving
  <2>2. \A g \in Frames : Has(can_mob, can_cmd_list, g)' <=> Has(can_mob, can_cmd_list, g) \/ g = f
    BY <1>4 DEF Has
  <2>3. Unique(can_mob, can_cmd_list)'
    BY <1>4 DEF Unique
  <2>4. /\ \A g \in Frames : Has(can_mob, can_cmd_list, g) => g \in given
        /\ \A g \in given \ Reported : Has(can_mob, can_cmd_list, g)
        /\ \A g \in Frames : Has(can_mob, can_cmd_list, g) /\ g \in Reported => Leaving(g)
    BY DEF RInv, OnePlace
  <2>5. \A g \in Frames : Has(can_mob, can_cmd_list, g)' => g \in given'
    BY <1>1, <2>2, <2>4
  <2>6. \A g \in given' \ Reported' : Has(can_mob, can_cmd_list, g)'
    BY <1>1, <1>2, <1>5, <2>2, <2>4
  <2>7. \A g \in Frames : Has(can_mob, can_cmd_list, g)' /\ g \in Reported' => Leaving(g)'
    BY <1>3, <1>5, <2>1, <2>2, <2>4
  <2> QED
    BY <2>3, <2>5, <2>6, <2>7 DEF OnePlace
<1>8. /\ DOMAIN ft_functions' = 1 .. Len(ft_functions) + 1
      /\ DOMAIN ft_functions = 1 .. Len(ft_functions) /\ Len(ft_functions) \in Nat
      /\ ft_functions'[Len(ft_functions) + 1] = NewTimer(f)
      /\ \A i \in 1 .. Len(ft_functions) : ft_functions'[i] = ft_functions[i]
  BY <1>1, <1>2
<1>8a. \A g : Timed(ft_functions', g) <=> Timed(ft_functions, g) \/ g = f
  BY <1>8 DEF Timed, NewTimer
<1>8b. OneTimer'
  <2>1. \A g \in Frames : Leaving(g) => Leaving(g)'
    BY <1>1, <1>6 DEF Leaving
  <2>2. ASSUME NEW i \in DOMAIN ft_functions
        PROVE  /\ ft_functions[i].cmd \in given /\ ft_functions[i].cmd # f
               /\ ftimer_id[ft_functions[i].cmd] = ft_functions[i].id
               /\ ft_functions[i].cmd \in Reported => Leaving(ft_functions[i].cmd)
    BY <1>1 DEF RInv, OneTimer
  <2>3. CmdsDistinct(ft_functions)'
    <3>1. CmdsDistinct(ft_functions)
      BY DEF RInv, OneTimer
    <3>2. CmdsDistinct(ft_functions')
      BY <1>8, <2>2, <3>1 DEF CmdsDistinct, NewTimer
    <3> QED
      BY <3>2 DEF CmdsDistinct
  <2>4. ASSUME NEW i \in DOMAIN ft_functions'
        PROVE  /\ ft_functions'[i].cmd \in given' /\ ftimer_id'[ft_functions'[i].cmd] = ft_functions'[i].id
               /\ ft_functions'[i].cmd \in Reported' => Leaving(ft_functions[i].cmd)'
    <3>1. CASE i = Len(ft_functions) + 1
      BY <1>1, <1>2, <1>3, <1>5, <1>8, <3>1 DEF NewTimer
    <3>2. CASE i \in DOMAIN ft_functions
      <4>1. ft_functions'[i] = ft_functions[i]
        BY <1>8, <3>2
      <4>2. PICK c \in Frames :
              /\ c = ft_functions[i].cmd /\ c \in given /\ c # f
              /\ ftimer_id[c] = ft_functions[i].id /\ (c \in Reported => Leaving(c))
        BY <1>2, <2>2, <3>2
      <4>3. ftimer_id'[c] = ftimer_id[c]
        BY <1>1, <1>2, <4>2
      <4>4. c \in Reported' => Leaving(c)'
        BY <1>5, <2>1, <4>2
      <4>5. ft_functions'[i].cmd = c
        BY <4>1, <4>2
      <4>6. Leaving(ft_functions[i].cmd)' <=> Leaving(c)'
        BY <4>5 DEF Leaving
      <4> QED
        BY <1>1, <4>1, <4>2, <4>3, <4>4, <4>5, <4>6
    <3> QED
      BY <1>8, <3>1, <3>2
  <2>5. pc' = "timers" /\ ft' # NULL => Timed(ft_functions, ft)'
    <3>1. Timed(ft_functions, ft)' <=> Timed(ft_functions', ft')
      BY DEF Timed
    <3> QED
      BY <1>1, <1>8a, <3>1 DEF RInv, OneTimer
  <2>6. pc' = "timed_out" =>
          /\ Timed(ft_functions, ft)' /\ ft' \in Reported'
          /\ next_ft' # NULL => Behind(ft_functions, ft, next_ft)'
    <3>1. Timed(ft_functions, ft)' <=> Timed(ft_functions', ft')
      BY DEF Timed
    <3>2. Behind(ft_functions, ft, next_ft) => Behind(ft_functions, ft, next_ft)'
      BY <1>1, <1>8 DEF Behind
    <3>3. pc = "timed_out" =>
            /\ Timed(ft_functions, ft) /\ ft \in Reported
            /\ next_ft # NULL => Behind(ft_functions, ft, next_ft)
      BY DEF RInv, OneTimer
    <3> QED
      BY <1>1, <1>5, <1>8a, <3>1, <3>2, <3>3
  <2> QED
    BY <2>3, <2>4, <2>5, <2>6 DEF OneTimer
<1>8c. OwnIds'
  <2> SUFFICES ASSUME ~overload' PROVE
        /\ IdsDistinct(ft_functions)'
        /\ \A g \in given' \ Reported' : Timed(ft_functions, g)'
        /\ \A i \in DOMAIN ft_functions' :
             ft_functions'[i].cmd \in Reported' => pc' = "timed_out" /\ ft_functions'[i].cmd = ft'
    BY DEF OwnIds
  <2>1. ~overload /\ Len(ft_functions) <= IntBits
    <3>1. ~overload /\ ~(Len(ft_functions) > IntBits)
      BY <1>1, Zenon
    <3> QED
      BY <1>8, <3>1, TimersAssumption
  <2>2. \A i \in 1 .. Len(ft_functions) : ft_functions[i].id # NewTimer(f).id
    <3>1. FreshId(ft_functions) \notin Ids(ft_functions)
      BY <1>2, <2>1, FreshIdIsFresh
    <3> QED
      BY <1>8, <3>1 DEF Ids, NewTimer
  <2>3. IdsDistinct(ft_functions)'
    BY <1>8, <2>1, <2>2 DEF IdsDistinct, RInv, OwnIds
  <2>4. \A g : Timed(ft_functions, g)' <=> Timed(ft_functions', g)
    BY DEF Timed
  <2>5. \A g \in given' \ Reported' : Timed(ft_functions, g)'
    BY <1>1, <1>5, <1>8a, <2>1, <2>4 DEF RInv, OwnIds
  <2>6. ASSUME NEW i \in DOMAIN ft_functions', ft_functions'[i].cmd \in Reported'
        PROVE  pc' = "timed_out" /\ ft_functions'[i].cmd = ft'
    <3>1. CASE i = Len(ft_functions) + 1
      BY <1>3, <1>5, <1>8, <2>6, <3>1 DEF NewTimer
    <3>2. CASE i \in DOMAIN ft_functions
      BY <1>1, <1>5, <1>8, <2>1, <2>6, <3>2 DEF RInv, OwnIds
    <3> QED
      BY <1>8, <3>1, <3>2
  <2> QED
    BY <2>3, <2>5, <2>6
<1>9. Books'
  <2>1. \A m \in Mobs : can_mob'[m] \in Frames /\ status'[m] = "completed" => can_mob'[m] \in sent'
    BY <1>1, <1>4 DEF RInv, Books
  <2>2. IsFiniteSet(given')
    BY <1>1, FS_AddElement DEF RInv, Books
  <2> QED
    BY <1>1, <1>5, <1>6, <2>1, <2>2 DEF RInv, Books
<1> QED
  BY <1>7, <1>8b, <1>8c, <1>9

(* Steps that leave all of this alone.                                     *)
LEMMA TimersUntouched ==
  ASSUME RInv, UNCHANGED <<ft_functions, ftimer_id, given, reports, overload, ft, next_ft>>,
         \A f \in Frames : Leaving(f) => Leaving(f)',
         \/ pc' = pc
         \/ pc' \notin {"timers", "timed_out"} /\ pc # "timed_out"
  PROVE  OneTimer' /\ OwnIds'
<1>1. Reported' = Reported
  BY DEF Reported
<1>2. /\ \A f : Timed(ft_functions, f)' <=> Timed(ft_functions, f)
      /\ Timed(ft_functions, ft)' <=> Timed(ft_functions, ft)
      /\ Behind(ft_functions, ft, next_ft)' <=> Behind(ft_functions, ft, next_ft)
      /\ IdsDistinct(ft_functions)' <=> IdsDistinct(ft_functions)
      /\ CmdsDistinct(ft_functions)' <=> CmdsDistinct(ft_functions)
  BY DEF Timed, Behind, IdsDistinct, CmdsDistinct
<1>3. ASSUME NEW i \in DOMAIN ft_functions'
      PROVE  /\ ft_functions'[i].cmd \in given' /\ ftimer_id'[ft_functions'[i].cmd] = ft_functions'[i].id
             /\ ft_functions'[i].cmd \in Reported' => Leaving(ft_functions[i].cmd)'
  <2>1. PICK c \in Frames :
          /\ c = ft_functions[i].cmd /\ c \in given
          /\ ftimer_id[c] = ft_functions[i].id /\ (c \in Reported => Leaving(c))
    BY DEF RInv, OneTimer, IInv, TypeOK
  <2>3. ft_functions'[i].cmd = c
    BY <2>1
  <2>4. Leaving(ft_functions[i].cmd)' <=> Leaving(c)'
    BY <2>3 DEF Leaving
  <2>5. ft_functions'[i].id = ft_functions[i].id
    OBVIOUS
  <2> QED
    BY <1>1, <2>1, <2>3, <2>4, <2>5
<1>4. OneTimer'
  BY <1>1, <1>2, <1>3 DEF RInv, OneTimer
<1>5. OwnIds'
  BY <1>1, <1>2 DEF RInv, OwnIds
<1> QED
  BY <1>4, <1>5

LEMMA PlacesUntouched ==
  ASSUME RInv, UNCHANGED <<can_mob, can_cmd_list, given, reports, freed>>,
         \A f \in Frames : Leaving(f) => Leaving(f)'
  PROVE  OnePlace'
<1>1. Reported' = Reported
  BY DEF Reported
<1>2. \A f : Has(can_mob, can_cmd_list, f)' <=> Has(can_mob, can_cmd_list, f)
  BY DEF Has
<1>3. Unique(can_mob, can_cmd_list)'
  BY DEF RInv, OnePlace, Unique
<1>4. /\ \A g \in Frames : Has(can_mob, can_cmd_list, g) => g \in given
      /\ \A g \in given \ Reported : Has(can_mob, can_cmd_list, g)
      /\ \A g \in Frames : Has(can_mob, can_cmd_list, g) /\ g \in Reported => Leaving(g)
  BY DEF RInv, OnePlace
<1>5. \A g \in Frames : Has(can_mob, can_cmd_list, g)' => g \in given'
  BY <1>2, <1>4
<1>6. \A g \in given' \ Reported' : Has(can_mob, can_cmd_list, g)'
  BY <1>1, <1>2, <1>4
<1>7. \A g \in Frames : Has(can_mob, can_cmd_list, g)' /\ g \in Reported' => Leaving(g)'
  BY <1>1, <1>2, <1>4
<1> QED
  BY <1>3, <1>5, <1>6, <1>7 DEF OnePlace

LEMMA InterruptReports ==
  ASSUME RInv, NEW m \in Mobs, Interrupt(m)
  PROVE  OnePlace' /\ OneTimer' /\ OwnIds' /\ Books'
<1>1. /\ UNCHANGED <<can_mob, can_cmd_list, ft_functions, ft, next_ft, ftimer_id, pc, mob_handle,
                     given, freed, reports, overload>>
      /\ status' = [status EXCEPT ![m] = "completed"] /\ sent' = sent \cup ({can_mob[m]} \ {RX})
  BY DEF Interrupt, timerVars
<1>2. Reported' = Reported
  BY <1>1 DEF Reported
<1>3. \A f \in Frames : Leaving(f) => Leaving(f)'
  BY <1>1 DEF Leaving
<1>4. OneTimer' /\ OwnIds'
  BY <1>1, <1>3, TimersUntouched
<1>5. Books'
  <2>1. status \in [Mobs -> {"pending", "completed"}]
    BY DEF RInv, IInv, TypeOK
  <2>2. ASSUME NEW n \in Mobs, can_mob'[n] \in Frames, status'[n] = "completed"
        PROVE  can_mob'[n] \in sent'
    BY <1>1, <2>1, <2>2, CommandsAssumption DEF RInv, Books
  <2> QED
    BY <1>1, <1>2, <2>2 DEF RInv, Books
<1> QED
  BY <1>1, <1>3, <1>4, <1>5, PlacesUntouched

LEMMA ReportSentReports ==
  ASSUME RInv, ~Astray, ReportSent
  PROVE  OnePlace' /\ OneTimer' /\ OwnIds' /\ Books' /\ can_mob[mob_handle] \in given \ Reported
<1> DEFINE f == can_mob[mob_handle]
<1>1. /\ pc = "mobs" /\ mob_handle \in Mobs /\ f \in Frames /\ status[mob_handle] = "completed"
  BY DEF ReportSent, AtMob, RInv, IInv, TypeOK, Cmds
<1>2. /\ ft_functions' = Unregistered(ft_functions, ftimer_id[f])
      /\ reports' = Append(reports, [frame |-> f, rc |-> RC_NORM])
      /\ pc' = "sent"
      /\ UNCHANGED <<can_mob, status, can_cmd_list, ft, next_ft, ftimer_id, mob_handle,
                     given, freed, sent, overload>>
  BY DEF ReportSent, Stopped, mobVars
<1>3. Reported' = Reported \cup {f}
  BY <1>1, <1>2, ReportedAppend DEF RCs, RInv, IInv, TypeOK
<1>4. Has(can_mob, can_cmd_list, f) /\ f \in given
  BY <1>1 DEF Has, RInv, OnePlace
<1>5. f \notin Reported
  <2>1. f \notin freed
    BY <1>1 DEF Astray, InUse
  <2> QED
    BY <1>1, <1>4, <2>1 DEF RInv, OnePlace, Leaving
<1> HIDE DEF f
<1>6. OnePlace'
  <2>1. \A g : Has(can_mob, can_cmd_list, g)' <=> Has(can_mob, can_cmd_list, g)
    BY <1>2 DEF Has
  <2>2. Unique(can_mob, can_cmd_list)'
    BY <1>2 DEF RInv, OnePlace, Unique
  <2>3. \A g \in Frames : Leaving(g) \/ g = f => Leaving(g)'
    BY <1>1, <1>2 DEF Leaving, f
  <2>4. /\ \A g \in Frames : Has(can_mob, can_cmd_list, g) => g \in given
        /\ \A g \in given \ Reported : Has(can_mob, can_cmd_list, g)
        /\ \A g \in Frames : Has(can_mob, can_cmd_list, g) /\ g \in Reported => Leaving(g)
    BY DEF RInv, OnePlace
  <2>5. \A g \in Frames : Has(can_mob, can_cmd_list, g)' => g \in given'
    BY <1>2, <2>1, <2>4
  <2>6. \A g \in given' \ Reported' : Has(can_mob, can_cmd_list, g)'
    BY <1>2, <1>3, <2>1, <2>4
  <2>7. \A g \in Frames : Has(can_mob, can_cmd_list, g)' /\ g \in Reported' => Leaving(g)'
    BY <1>3, <2>1, <2>3, <2>4
  <2> QED
    BY <2>2, <2>5, <2>6, <2>7 DEF OnePlace
<1>7. OneTimer'
  <2>1. ft_functions \in Seq(Timer) /\ CmdsDistinct(ft_functions)
    BY DEF RInv, IInv, TypeOK, OneTimer
  <2>2. /\ CmdsDistinct(ft_functions')
        /\ \A j \in DOMAIN ft_functions' : \E k \in DOMAIN ft_functions : ft_functions'[j] = ft_functions[k]
    BY <1>2, <2>1, UnregisteredLeft
  <2>3. CmdsDistinct(ft_functions)'
    BY <2>2 DEF CmdsDistinct
  <2>4. ASSUME NEW j \in DOMAIN ft_functions'
        PROVE  /\ ft_functions'[j].cmd \in given'
               /\ ftimer_id'[ft_functions'[j].cmd] = ft_functions'[j].id
               /\ ft_functions'[j].cmd \in Reported' => Leaving(ft_functions[j].cmd)'
    <3>1. PICK k \in DOMAIN ft_functions : ft_functions'[j] = ft_functions[k]
      BY <2>2
    <3>2. PICK c \in Frames :
            /\ c = ft_functions[k].cmd /\ c \in given
            /\ ftimer_id[c] = ft_functions[k].id /\ (c \in Reported => Leaving(c))
      BY DEF RInv, OneTimer, IInv, TypeOK
    <3>3. c \in Reported' => c \in freed \/ c = f
      BY <1>1, <1>3, <3>2 DEF Leaving
    <3>4. ft_functions'[j].cmd = c
      BY <3>1, <3>2
    <3>5. Leaving(ft_functions[j].cmd)' <=> Leaving(c)'
      BY <3>4 DEF Leaving
    <3>6. c \in freed \/ c = f => Leaving(c)'
      BY <1>2 DEF Leaving, f
    <3> QED
      BY <1>2, <3>1, <3>2, <3>3, <3>4, <3>5, <3>6
  <2> QED
    BY <1>2, <2>3, <2>4 DEF OneTimer
<1>7a. OwnIds'
  <2> SUFFICES ASSUME ~overload' PROVE
        /\ IdsDistinct(ft_functions)'
        /\ \A g \in given' \ Reported' : Timed(ft_functions, g)'
        /\ \A i \in DOMAIN ft_functions' : ft_functions'[i].cmd \notin Reported'
    BY DEF OwnIds
  <2>0. ~overload
    BY <1>2
  <2>1. ft_functions \in Seq(Timer) /\ IdsDistinct(ft_functions)
    BY <2>0 DEF RInv, IInv, TypeOK, OwnIds
  <2>2. /\ IdsDistinct(ft_functions')
        /\ \A j \in DOMAIN ft_functions' : \E k \in DOMAIN ft_functions :
             ft_functions'[j] = ft_functions[k] /\ ft_functions[k].id # ftimer_id[f]
        /\ \A k \in DOMAIN ft_functions : ft_functions[k].id # ftimer_id[f] =>
             \E j \in DOMAIN ft_functions' : ft_functions'[j] = ft_functions[k]
    BY <1>2, <2>1, UnregisteredRest
  <2>3. IdsDistinct(ft_functions)'
    BY <2>2 DEF IdsDistinct
  <2>4. \A k \in DOMAIN ft_functions :
          /\ ftimer_id[ft_functions[k].cmd] = ft_functions[k].id
          /\ ft_functions[k].cmd \notin Reported
    BY <1>1, <2>0 DEF RInv, OneTimer, OwnIds
  <2>5. ASSUME NEW j \in DOMAIN ft_functions' PROVE ft_functions'[j].cmd \notin Reported'
    <3>1. PICK k \in DOMAIN ft_functions :
             ft_functions'[j] = ft_functions[k] /\ ft_functions[k].id # ftimer_id[f]
      BY <2>2
    <3> QED
      BY <1>3, <2>4, <3>1
  <2>6. ASSUME NEW g \in given' \ Reported' PROVE Timed(ft_functions, g)'
    <3>1. g \in given \ Reported /\ g # f
      BY <1>2, <1>3
    <3>2. PICK k \in DOMAIN ft_functions : ft_functions[k].cmd = g
      BY <2>0, <3>1 DEF RInv, OwnIds, Timed
    <3>3. ft_functions[k].id # ftimer_id[f]
      <4>1. PICK n \in DOMAIN ft_functions : ft_functions[n].cmd = f
        BY <1>4, <1>5, <2>0 DEF RInv, OwnIds, Timed
      <4>2. ft_functions[n].id = ftimer_id[f] /\ n # k
        BY <2>4, <3>1, <3>2, <4>1
      <4> QED
        BY <2>1, <4>2 DEF IdsDistinct
    <3> QED
      BY <2>2, <3>2, <3>3 DEF Timed
  <2> QED
    BY <2>3, <2>5, <2>6
<1>8. Books'
  BY <1>1, <1>2, <1>3, <1>4 DEF RInv, Books, f
<1> QED
  BY <1>4, <1>5, <1>6, <1>7, <1>7a, <1>8 DEF f

(* What follows for the places when some commands have left them.          *)
LEMMA PlacesLeft ==
  ASSUME RInv, given' = given, Reported \subseteq Reported',
         Unique(can_mob', can_cmd_list'),
         \A f \in Frames : Has(can_mob', can_cmd_list', f) => Has(can_mob, can_cmd_list, f),
         \A f \in Frames : Has(can_mob, can_cmd_list, f)
                             => Has(can_mob', can_cmd_list', f) \/ f \in Reported',
         \A f \in Frames : f \in Reported' /\ Leaving(f) => Leaving(f)',
         \A f \in Reported' \ Reported : Leaving(f)'
  PROVE  OnePlace'
<1>1. \A f : Has(can_mob, can_cmd_list, f)' <=> Has(can_mob', can_cmd_list', f)
  BY DEF Has
<1>2. Unique(can_mob, can_cmd_list)'
  BY DEF Unique
<1>3. /\ \A g \in Frames : Has(can_mob, can_cmd_list, g) => g \in given
      /\ \A g \in given \ Reported : Has(can_mob, can_cmd_list, g)
      /\ \A g \in Frames : Has(can_mob, can_cmd_list, g) /\ g \in Reported => Leaving(g)
      /\ given \subseteq Frames
  BY DEF RInv, OnePlace, IInv, TypeOK
<1>4. \A g \in Frames : Has(can_mob, can_cmd_list, g)' => g \in given'
  BY <1>1, <1>3
<1>5. \A g \in given' \ Reported' : Has(can_mob, can_cmd_list, g)'
  BY <1>1, <1>3
<1>6. \A g \in Frames : Has(can_mob, can_cmd_list, g)' /\ g \in Reported' => Leaving(g)'
  BY <1>1, <1>3
<1> QED
  BY <1>2, <1>4, <1>5, <1>6 DEF OnePlace

LEMMA ReleaseMobReports ==
  ASSUME RInv, ~Astray, ReleaseMob
  PROVE  OnePlace' /\ OneTimer' /\ OwnIds' /\ Books' /\ (overload \/ ~Astray')
<1> DEFINE h == mob_handle
           f == can_mob[h]
<1>1. /\ pc \in {"sent", "received"} /\ pc' = "mobs" /\ h \in Mobs
      /\ UNCHANGED <<ft_functions, ft, next_ft, ftimer_id, given, sent, reports, overload>>
  BY DEF ReleaseMob, timerVars, RInv, IInv, InCallback
<1>2. Reported' = Reported
  BY <1>1 DEF Reported
<1>3. /\ can_mob \in [Mobs -> Cmds \cup {NULL}] /\ conmob \in SUBSET Mobs
      /\ status \in [Mobs -> {"pending", "completed"}] /\ can_cmd_list \in Seq(Frames)
      /\ Unique(can_mob, can_cmd_list)
      /\ conmob = {m \in Mobs : can_mob[m] # NULL}
  BY DEF RInv, IInv, TypeOK, TableMatchesController, NoReceiverWaits, OnePlace
<1>4. (\A g \in Frames : Leaving(g) => Leaving(g)') => OneTimer' /\ OwnIds'
  BY <1>1, TimersUntouched
<1>5. CASE pc = "sent"
  <2>1. /\ can_mob' = [can_mob EXCEPT ![h] = NULL] /\ can_cmd_list' = can_cmd_list
        /\ status' = status /\ freed' = freed \cup {f}
    BY <1>5 DEF ReleaseMob, NewBuffer, Disabled
  <2>2. f \in Frames /\ f \in Reported
    BY <1>5 DEF RInv, IInv, InCallback, Books
  <2>3. /\ Unique(can_mob', can_cmd_list')
        /\ \A g \in Frames : Has(can_mob', can_cmd_list', g) => Has(can_mob, can_cmd_list, g)
        /\ \A g \in Frames : Has(can_mob, can_cmd_list, g) /\ g # f
                               => Has(can_mob', can_cmd_list', g)
    <3> HIDE DEF h
    <3> QED
      BY <1>1, <1>3, <2>1, ReleasedPlaces
  <2>4. ~Has(can_mob', can_cmd_list', f)
    BY <1>1, <1>3, <2>1, <2>2, CommandsAssumption DEF Has, Unique
  <2>5. \A g \in Frames : Leaving(g) => Leaving(g)'
    BY <1>5, <2>1 DEF Leaving
  <2> HIDE DEF f, h
  <2>6. OnePlace'
    <3>1. \A g \in Frames : Has(can_mob, can_cmd_list, g)
                              => Has(can_mob', can_cmd_list', g) \/ g \in Reported'
      BY <1>2, <2>2, <2>3
    <3> QED
      BY <1>1, <1>2, <2>3, <2>5, <3>1, PlacesLeft
  <2>7. Books'
    <3>1. \A m \in Mobs : can_mob'[m] \in Frames => can_mob'[m] = can_mob[m]
      BY <1>1, <1>3, <2>1, CommandsAssumption
    <3> QED
      BY <1>1, <1>2, <2>1, <2>2, <3>1 DEF RInv, Books
  <2>8. ASSUME ~overload PROVE ~Astray'
    <3>1. \A g \in freed : ~Has(can_mob, can_cmd_list, g)
      BY DEF Astray, InUse, Has, ToSet
    <3>2. \A g \in freed' : g \in Frames
      BY <2>1, <2>2 DEF RInv, IInv, TypeOK
    <3>3. \A g \in freed' : ~Has(can_mob', can_cmd_list', g)
      BY <2>1, <2>3, <2>4, <3>1, <3>2
    <3>4. \A g \in freed' : \A i \in DOMAIN ft_functions' : ft_functions'[i].cmd # g
      <4>1. \A i \in DOMAIN ft_functions : ft_functions[i].cmd \notin Reported
        BY <1>5, <2>8 DEF RInv, OwnIds
      <4> QED
        BY <1>1, <2>1, <2>2, <4>1 DEF RInv, Books
    <3> QED
      BY <3>3, <3>4 DEF Astray, InUse, Has, ToSet
  <2> QED
    BY <1>4, <2>5, <2>6, <2>7, <2>8
<1>6. CASE pc = "received"
  <2>1. /\ freed' = freed
        /\ PostCmd(RX, [can_mob EXCEPT ![h] = NULL], status, conmob \ {h}, can_cmd_list)
    BY <1>6 DEF ReleaseMob, NewBuffer, Disabled
  <2>2. FreeMobs(conmob \ {h}) # {}
    BY <1>1 DEF FreeMobs
  <2>3. PICK m \in FreeMobs(conmob \ {h}) :
          /\ can_mob' = [[can_mob EXCEPT ![h] = NULL] EXCEPT ![m] = RX]
          /\ status' = [status EXCEPT ![m] = "pending"]
          /\ can_cmd_list' = can_cmd_list
    BY <2>1, <2>2 DEF PostCmd
  <2>4. m \in Mobs /\ m \notin conmob \ {h}
    BY DEF FreeMobs
  <2>5. f = RX
    BY <1>6 DEF RInv, IInv, InCallback
  <2> DEFINE table == [can_mob EXCEPT ![h] = NULL]
  <2>6. /\ table \in [Mobs -> Cmds \cup {NULL}] /\ Unique(table, can_cmd_list)
        /\ \A g \in Frames : Has(table, can_cmd_list, g) <=> Has(can_mob, can_cmd_list, g)
    <3>1. NULL \in {RX, NULL} /\ table \in [Mobs -> Cmds \cup {NULL}]
      BY <1>1, <1>3
    <3>2. \A g \in Frames : g # can_mob[h]
      BY <2>5, CommandsAssumption
    <3>3. /\ Unique(table, can_cmd_list)
          /\ \A g \in Frames : Has(table, can_cmd_list, g) => Has(can_mob, can_cmd_list, g)
          /\ \A g \in Frames : Has(can_mob, can_cmd_list, g) /\ g # can_mob[h]
                                 => Has(table, can_cmd_list, g)
      <4> HIDE DEF h
      <4> QED
        BY <1>1, <1>3, <3>1, ReleasedPlaces
    <3> QED
      BY <3>1, <3>2, <3>3
  <2>7. table[m] \notin Frames
    BY <1>3, <2>4, CommandsAssumption
  <2>8. /\ Unique(can_mob', can_cmd_list')
        /\ \A g \in Frames : Has(can_mob', can_cmd_list', g) <=> Has(can_mob, can_cmd_list, g)
    <3>1. can_mob' = [table EXCEPT ![m] = RX] /\ RX \in {RX, NULL}
      BY <2>3
    <3> HIDE DEF table, h
    <3>2. /\ Unique(can_mob', can_cmd_list)
          /\ \A g \in Frames : Has(can_mob', can_cmd_list, g) => Has(table, can_cmd_list, g)
          /\ \A g \in Frames : Has(table, can_cmd_list, g) /\ g # table[m]
                                 => Has(can_mob', can_cmd_list, g)
      BY <1>3, <2>4, <2>6, <3>1, ReleasedPlaces
    <3> QED
      BY <2>3, <2>6, <2>7, <3>2
  <2>9. \A n \in Mobs : can_mob'[n] \in Frames /\ status'[n] = "completed"
                          => can_mob'[n] = can_mob[n] /\ status[n] = "completed"
    BY <1>3, <2>3, <2>4, CommandsAssumption
  <2>10. \A g \in Frames : Leaving(g) => Leaving(g)'
    BY <1>6, <2>1 DEF Leaving
  <2> HIDE DEF f, h, table
  <2>11. OnePlace'
    BY <1>1, <1>2, <2>8, <2>10, PlacesLeft
  <2>12. Books'
    BY <1>1, <1>2, <2>1, <2>9 DEF RInv, Books
  <2>13. ~Astray'
    <3>1. \A g \in freed : g \in Frames /\ ~Has(can_mob, can_cmd_list, g)
                             /\ \A i \in DOMAIN ft_functions : ft_functions[i].cmd # g
      BY DEF Astray, InUse, Has, ToSet, RInv, IInv, TypeOK
    <3>2. \A g \in freed' : ~Has(can_mob', can_cmd_list', g)
                             /\ \A i \in DOMAIN ft_functions' : ft_functions'[i].cmd # g
      BY <1>1, <2>1, <2>8, <3>1
    <3> QED
      BY <3>2 DEF Astray, InUse, Has, ToSet
  <2> QED
    BY <1>4, <2>10, <2>11, <2>12, <2>13
<1> QED
  BY <1>1, <1>5, <1>6

LEMMA StartWaitingReports ==
  ASSUME RInv, ~Astray, StartWaiting
  PROVE  OnePlace' /\ OneTimer' /\ OwnIds' /\ Books' /\ ~Astray'
<1> DEFINE c == Head(can_cmd_list)
           list == Tail(can_cmd_list)
<1>1. /\ can_cmd_list # <<>> /\ pc = "mobs"
      /\ PostCmd(c, can_mob, status, conmob, list)
      /\ UNCHANGED <<ft_functions, ft, next_ft, ftimer_id, pc, mob_handle, given, freed, sent,
                     reports, overload>>
  BY DEF StartWaiting, AfterMobs, timerVars
<1>2. /\ can_mob \in [Mobs -> Cmds \cup {NULL}] /\ conmob \in SUBSET Mobs
      /\ status \in [Mobs -> {"pending", "completed"}] /\ can_cmd_list \in Seq(Frames)
      /\ Unique(can_mob, can_cmd_list) /\ Agree(can_mob, conmob)
  BY DEF RInv, IInv, TypeOK, TableMatchesController, NoReceiverWaits, OnePlace, Agree
<1>3. Reported' = Reported
  BY <1>1 DEF Reported
<1>4. /\ list \in Seq(Frames) /\ c \in Frames /\ c = can_cmd_list[1]
      /\ Len(can_cmd_list) \in Nat /\ Len(can_cmd_list) >= 1
      /\ DOMAIN can_cmd_list = 1 .. Len(can_cmd_list)
      /\ DOMAIN list = 1 .. Len(can_cmd_list) - 1
      /\ \A i \in 1 .. Len(can_cmd_list) - 1 : list[i] = can_cmd_list[i + 1]
  BY <1>1, <1>2
<1> HIDE DEF c, list
<1>5. /\ Unique(can_mob, list) /\ ~Has(can_mob, list, c)
      /\ \A g \in Frames : Has(can_mob, can_cmd_list, g) <=> Has(can_mob, list, g) \/ g = c
  <2>1. \A i \in DOMAIN list : i + 1 \in DOMAIN can_cmd_list /\ list[i] = can_cmd_list[i + 1]
    BY <1>4
  <2>2. \A i \in DOMAIN can_cmd_list :
          \/ i = 1 /\ can_cmd_list[i] = c
          \/ i - 1 \in DOMAIN list /\ list[i - 1] = can_cmd_list[i]
    BY <1>4
  <2>3. Distinct(list)
    <3>1. ASSUME NEW i \in DOMAIN list, NEW j \in DOMAIN list, list[i] = list[j] PROVE i = j
      <4>1. i + 1 = j + 1
        BY <1>2, <2>1, <3>1 DEF Unique, Distinct
      <4> QED
        BY <1>4, <4>1
    <3> QED
      BY <3>1 DEF Distinct
  <2>4. Unique(can_mob, list)
    BY <1>2, <2>1, <2>3 DEF Unique
  <2>5. \A i \in DOMAIN list : list[i] # c
    <3>1. ASSUME NEW i \in DOMAIN list, list[i] = c PROVE FALSE
      <4>1. i + 1 = 1
        BY <1>2, <1>4, <2>1, <3>1 DEF Unique, Distinct
      <4> QED
        BY <1>4, <4>1
    <3> QED
      BY <3>1
  <2>6. 1 \in DOMAIN can_cmd_list
    BY <1>4
  <2>7. \A m \in Mobs : can_mob[m] # c
    BY <1>2, <1>4, <2>6 DEF Unique
  <2>8. \A g \in Frames : Has(can_mob, can_cmd_list, g) <=> Has(can_mob, list, g) \/ g = c
    BY <1>4, <2>1, <2>2, <2>6 DEF Has
  <2> QED
    BY <2>4, <2>5, <2>7, <2>8 DEF Has
<1>6. /\ Unique(can_mob', can_cmd_list')
      /\ \A g \in Frames : Has(can_mob', can_cmd_list', g) <=> Has(can_mob, list, g) \/ g = c
      /\ \A m \in conmob : can_mob'[m] = can_mob[m]
      /\ \A m \in Mobs : can_mob'[m] \in Frames /\ status'[m] = "completed"
                           => can_mob'[m] = can_mob[m] /\ status[m] = "completed"
  <2>1. PostCmd(c, can_mob, status, conmob, list)
    BY <1>1
  <2>2. /\ can_mob \in [Mobs -> Cmds \cup {NULL}] /\ conmob \in SUBSET Mobs
        /\ status \in [Mobs -> {"pending", "completed"}] /\ Agree(can_mob, conmob)
    BY <1>2
  <2>3. list \in Seq(Frames) /\ c \in Frames
    BY <1>4
  <2>4. Unique(can_mob, list) /\ ~Has(can_mob, list, c)
    BY <1>5
  <2> QED
    BY <2>1, <2>2, <2>3, <2>4, PostCmdPlaces
<1>7. OnePlace' /\ OneTimer' /\ OwnIds'
  <2>1. \A g \in Frames : Leaving(g) => Leaving(g)'
    BY <1>1 DEF Leaving
  <2>2. OnePlace'
    BY <1>1, <1>3, <1>5, <1>6, <2>1, PlacesLeft
  <2>3. OneTimer' /\ OwnIds'
    BY <1>1, <2>1, TimersUntouched
  <2> QED
    BY <2>2, <2>3
<1>9. Books'
  BY <1>1, <1>3, <1>6 DEF RInv, Books
<1>10. ~Astray'
  <2>1. \A g \in freed : g \in Frames /\ ~Has(can_mob, can_cmd_list, g)
                           /\ \A i \in DOMAIN ft_functions : ft_functions[i].cmd # g
    BY DEF Astray, InUse, Has, ToSet, RInv, IInv, TypeOK
  <2>2. \A g \in freed' : ~Has(can_mob', can_cmd_list', g)
                           /\ \A i \in DOMAIN ft_functions' : ft_functions'[i].cmd # g
    BY <1>1, <1>5, <1>6, <2>1
  <2> QED
    BY <2>2 DEF Astray, InUse, Has, ToSet
<1> QED
  BY <1>7, <1>9, <1>10

LEMMA TimerOfTimed ==
  ASSUME ft_functions \in Seq(Timer), NEW c, Timed(ft_functions, c)
  PROVE  /\ TimerOf(c) \in DOMAIN ft_functions /\ TimerOf(c) \in Nat
         /\ ft_functions[TimerOf(c)].cmd = c
<1> DEFINE I == {i \in 1 .. Len(ft_functions) : ft_functions[i].cmd = c}
<1>1. I # {} /\ DOMAIN ft_functions = 1 .. Len(ft_functions)
  BY DEF Timed
<1>2. Min(I) \in I
  <2>1. Len(ft_functions) \in Nat /\ I \subseteq 1 .. Len(ft_functions)
    OBVIOUS
  <2> HIDE DEF I
  <2> QED
    BY <1>1, <2>1, MinIsMember
<1>3. TimerOf(c) = Min(I)
  BY <1>1 DEF TimerOf, SelectInSeq
<1> QED
  BY <1>1, <1>2, <1>3

(* The next timer on the list is one that runs.                            *)
LEMMA FollowingTimed ==
  ASSUME ft_functions \in Seq(Timer), NEW c, Timed(ft_functions, c), Following(TimerOf(c)) # NULL
  PROVE  /\ Timed(ft_functions, Following(TimerOf(c)))
         /\ Behind(ft_functions, c, Following(TimerOf(c)))
<1> DEFINE i == TimerOf(c)
<1>1. i \in DOMAIN ft_functions /\ i \in Nat /\ ft_functions[i].cmd = c
  BY TimerOfTimed
<1> HIDE DEF i
<1>2. i < Len(ft_functions) /\ Following(i) = ft_functions[i + 1].cmd
  BY DEF Following, i
<1>3. i + 1 \in DOMAIN ft_functions
  BY <1>1, <1>2
<1> QED
  BY <1>1, <1>2, <1>3 DEF Timed, Behind, i

LEMMA TickReports ==
  ASSUME RInv, Tick
  PROVE  OnePlace' /\ OneTimer' /\ OwnIds' /\ Books'
<1>1. /\ pc = "idle" /\ pc' = "timers" /\ ft' = Head(ft_functions).cmd /\ ft_functions # <<>>
      /\ UNCHANGED <<can_mob, status, can_cmd_list, ft_functions, ftimer_id,
                     given, freed, sent, reports, overload>>
  BY DEF Tick, mobVars
<1>2. Reported' = Reported
  BY <1>1 DEF Reported
<1>3. \A f \in Frames : Leaving(f) => Leaving(f)'
  BY <1>1 DEF Leaving
<1>4. OnePlace'
  BY <1>1, <1>3, PlacesUntouched
<1>5. Timed(ft_functions, ft)'
  <2>1. ft_functions \in Seq(Timer)
    BY DEF RInv, IInv, TypeOK
  <2>2. 1 \in DOMAIN ft_functions /\ Head(ft_functions) = ft_functions[1]
    BY <1>1, <2>1
  <2> QED
    BY <1>1, <2>2 DEF Timed
<1>6. OneTimer' /\ OwnIds'
  <2>1. \A f : Timed(ft_functions, f)' <=> Timed(ft_functions, f)
    BY <1>1 DEF Timed
  <2>2. /\ IdsDistinct(ft_functions)' <=> IdsDistinct(ft_functions)
        /\ CmdsDistinct(ft_functions)'
    BY <1>1 DEF RInv, OneTimer, IdsDistinct, CmdsDistinct
  <2>3. ASSUME NEW i \in DOMAIN ft_functions'
        PROVE  /\ ft_functions'[i].cmd \in given'
               /\ ftimer_id'[ft_functions'[i].cmd] = ft_functions'[i].id
               /\ ft_functions'[i].cmd \in Reported' => Leaving(ft_functions[i].cmd)'
    <3>1. PICK c \in Frames :
            /\ c = ft_functions[i].cmd /\ c \in given
            /\ ftimer_id[c] = ft_functions[i].id /\ (c \in Reported => Leaving(c))
      BY <1>1 DEF RInv, OneTimer, IInv, TypeOK
    <3>2. ft_functions'[i].cmd = c /\ ft_functions'[i].id = ft_functions[i].id
      BY <1>1, <3>1
    <3>3. Leaving(ft_functions[i].cmd)' <=> Leaving(c)'
      BY <3>2 DEF Leaving
    <3> QED
      BY <1>1, <1>2, <1>3, <3>1, <3>2, <3>3
  <2>4. OneTimer'
    BY <1>1, <1>5, <2>2, <2>3 DEF OneTimer
  <2>5. OwnIds'
    BY <1>1, <1>2, <2>1, <2>2 DEF RInv, OwnIds
  <2> QED
    BY <2>4, <2>5
<1>7. Books'
  BY <1>1, <1>2 DEF RInv, Books
<1> QED
  BY <1>4, <1>6, <1>7

(* A timer that counts down keeps its command and its id.                  *)
LEMMA CountedTimers ==
  ASSUME RInv, CountDown
  PROVE  /\ Timed(ft_functions, ft) /\ DOMAIN ft_functions' = DOMAIN ft_functions
         /\ \A i \in DOMAIN ft_functions :
              /\ ft_functions'[i].cmd = ft_functions[i].cmd
              /\ ft_functions'[i].id = ft_functions[i].id
<1>1. pc = "timers" /\ ft # NULL
  BY DEF CountDown
<1>2. Timed(ft_functions, ft)
  BY <1>1 DEF RInv, OneTimer
<1>3. ft_functions \in Seq(Timer)
  BY DEF RInv, IInv, TypeOK
<1> DEFINE n == TimerOf(ft)
<1>4. ft_functions' = [ft_functions EXCEPT ![n].time = ft_functions[n].time - 1]
  BY DEF CountDown
<1> HIDE DEF n
<1>5. DOMAIN ft_functions' = DOMAIN ft_functions
  BY <1>3, <1>4
<1>6. ASSUME NEW i \in DOMAIN ft_functions
      PROVE  ft_functions'[i].cmd = ft_functions[i].cmd /\ ft_functions'[i].id = ft_functions[i].id
  <2>1. ft_functions[i] \in Timer
    BY <1>3, ElementOfSeq
  <2>2. ft_functions'[i] =
          IF i = n THEN [ft_functions[i] EXCEPT !.time = ft_functions[i].time - 1] ELSE ft_functions[i]
    BY <1>3, <1>4
  <2> QED
    BY <2>1, <2>2 DEF Timer
<1> QED
  BY <1>2, <1>5, <1>6

LEMMA CountDownReports ==
  ASSUME RInv, ~Astray, CountDown
  PROVE  OnePlace' /\ OneTimer' /\ OwnIds' /\ Books' /\ ft \in given \ Reported
<1> DEFINE next == Following(TimerOf(ft))
<1>1. /\ pc = "timers" /\ ft # NULL /\ ft \in Frames
      /\ UNCHANGED <<ftimer_id, mob_handle, given, freed, sent, overload>>
  BY DEF CountDown, RInv, IInv, TypeOK
<1>2. /\ Timed(ft_functions, ft) /\ DOMAIN ft_functions' = DOMAIN ft_functions
      /\ \A i \in DOMAIN ft_functions :
           /\ ft_functions'[i].cmd = ft_functions[i].cmd
           /\ ft_functions'[i].id = ft_functions[i].id
  BY CountedTimers
<1>3. /\ CmdsDistinct(ft_functions)'
      /\ IdsDistinct(ft_functions) => IdsDistinct(ft_functions)'
  BY <1>2 DEF RInv, OneTimer, IdsDistinct, CmdsDistinct
<1>4. \A f : Timed(ft_functions', f) <=> Timed(ft_functions, f)
  BY <1>2 DEF Timed
<1>5. \A f : Timed(ft_functions, f)' <=> Timed(ft_functions, f)
  BY <1>2 DEF Timed
<1>6. next # NULL => Timed(ft_functions, next) /\ Behind(ft_functions, ft, next)
  <2>1. ft_functions \in Seq(Timer)
    BY DEF RInv, IInv, TypeOK
  <2> QED
    BY <1>2, <2>1, FollowingTimed
<1>7. \A i \in DOMAIN ft_functions' :
        /\ ft_functions'[i].cmd \in given /\ ftimer_id[ft_functions'[i].cmd] = ft_functions'[i].id
        /\ ft_functions'[i].cmd \notin Reported
  <2>1. ASSUME NEW i \in DOMAIN ft_functions
        PROVE  /\ ft_functions[i].cmd \in given /\ ftimer_id[ft_functions[i].cmd] = ft_functions[i].id
               /\ ft_functions[i].cmd \notin Reported
    <3>1. /\ ft_functions[i].cmd \in given /\ ftimer_id[ft_functions[i].cmd] = ft_functions[i].id
          /\ ft_functions[i].cmd \in Reported => Leaving(ft_functions[i].cmd)
      BY DEF RInv, OneTimer
    <3>2. ft_functions[i].cmd \notin freed
      BY DEF Astray, InUse
    <3> QED
      BY <1>1, <3>1, <3>2 DEF Leaving
  <2> QED
    BY <1>2, <2>1
<1>7a. ft \in given \ Reported
  BY <1>2, <1>7 DEF Timed
<1> HIDE DEF next
<1>8. CASE ft' = next /\ UNCHANGED <<mobVars, next_ft, pc, reports>>
  <2>1. Reported' = Reported
    BY <1>8 DEF Reported
  <2>2. \A f \in Frames : Leaving(f) => Leaving(f)'
    BY <1>1, <1>8 DEF Leaving, mobVars
  <2>3. OnePlace'
    BY <1>1, <1>8, <2>2, PlacesUntouched DEF mobVars
  <2>4. ft' # NULL => Timed(ft_functions, ft)'
    BY <1>4, <1>6, <1>8 DEF Timed
  <2>5. OneTimer'
    BY <1>1, <1>3, <1>7, <1>8, <2>1, <2>4 DEF OneTimer
  <2>5a. OwnIds'
    BY <1>1, <1>3, <1>5, <1>7, <2>1 DEF RInv, OwnIds
  <2>6. Books'
    BY <1>1, <1>8, <2>1 DEF RInv, Books, mobVars
  <2> QED
    BY <1>7a, <2>3, <2>5, <2>5a, <2>6
<1>9. CASE /\ AbortCmd(ft)
           /\ reports' = Append(reports, [frame |-> ft, rc |-> RC_TIMEOUT])
           /\ next_ft' = next /\ pc' = "timed_out" /\ UNCHANGED <<status, ft>>
  <2>1. /\ Reported' = Reported \cup {ft}
        /\ reports' # <<>> /\ reports'[Len(reports')].rc = RC_TIMEOUT
    <3>1. RC_TIMEOUT \in RCs /\ reports \in Seq([frame : Frames, rc : RCs])
      BY DEF RCs, RInv, IInv, TypeOK
    <3> QED
      BY <1>1, <1>9, <3>1, ReportedAppend
  <2>2. /\ Unique(can_mob', can_cmd_list')
        /\ \A f \in Frames : Has(can_mob', can_cmd_list', f) => Has(can_mob, can_cmd_list, f)
        /\ \A f \in Frames : Has(can_mob, can_cmd_list, f) /\ f # ft
                               => Has(can_mob', can_cmd_list', f)
        /\ \A m \in Mobs : can_mob'[m] \in Frames => can_mob'[m] = can_mob[m]
    <3>1. /\ can_mob \in [Mobs -> Cmds \cup {NULL}] /\ can_cmd_list \in Seq(Frames)
          /\ Unique(can_mob, can_cmd_list)
      BY DEF RInv, IInv, TypeOK, NoReceiverWaits, OnePlace
    <3>2. AbortCmd(ft)
      BY <1>9
    <3> QED
      BY <1>1, <3>1, <3>2, AbortedPlaces
  <2>3. \A f \in Frames : Leaving(f) \/ f = ft => Leaving(f)'
    BY <1>1, <1>9 DEF Leaving
  <2>4. OnePlace'
    <3>1. Reported \subseteq Reported'
      BY <2>1
    <3>2. \A f \in Frames : Has(can_mob, can_cmd_list, f)
                              => Has(can_mob', can_cmd_list', f) \/ f \in Reported'
      BY <2>1, <2>2
    <3>3. \A f \in Reported' \ Reported : Leaving(f)'
      BY <1>1, <2>1, <2>3
    <3> QED
      BY <1>1, <2>2, <2>3, <3>1, <3>2, <3>3, PlacesLeft
  <2>5. ft \in given
    BY <1>2, <1>7 DEF Timed
  <2>6. \A i \in DOMAIN ft_functions' :
          /\ ft_functions'[i].cmd \in given' /\ ftimer_id'[ft_functions'[i].cmd] = ft_functions'[i].id
          /\ ft_functions'[i].cmd \in Reported' => ft_functions'[i].cmd = ft
    BY <1>1, <1>7, <2>1
  <2>7. OneTimer'
    <3>1. ASSUME NEW i \in DOMAIN ft_functions', ft_functions'[i].cmd \in Reported'
          PROVE  Leaving(ft_functions[i].cmd)'
      <4>1. ft_functions'[i].cmd = ft
        BY <2>6, <3>1
      <4> QED
        BY <1>9, <4>1 DEF Leaving
    <3>3. Timed(ft_functions, ft)' /\ ft' \in Reported'
      BY <1>2, <1>9, <2>1 DEF Timed
    <3>4. next_ft' # NULL => Behind(ft_functions, ft, next_ft)'
      BY <1>2, <1>6, <1>9 DEF Behind
    <3> QED
      BY <1>3, <1>9, <2>6, <3>1, <3>3, <3>4 DEF OneTimer
  <2>8. OwnIds'
    <3>1. \A f \in given' \ Reported' : f \in given \ Reported
      BY <1>1, <2>1
    <3> QED
      BY <1>1, <1>3, <1>5, <1>9, <2>6, <3>1 DEF RInv, OwnIds
  <2>9. Books'
    BY <1>1, <1>9, <2>1, <2>2, <2>5 DEF RInv, Books
  <2> QED
    BY <1>7a, <2>4, <2>7, <2>8, <2>9
<1> QED
  BY <1>7a, <1>8, <1>9 DEF CountDown, next

LEMMA TimedOutReports ==
  ASSUME RInv, TimedOut
  PROVE  OnePlace' /\ OneTimer' /\ OwnIds' /\ Books'
<1> DEFINE id == ft_functions[TimerOf(ft)].id
<1>1. /\ pc = "timed_out" /\ pc' = "timers" /\ ft' = next_ft
      /\ freed' = freed \cup {ft} /\ ft_functions' = Unregistered(ft_functions, id)
      /\ UNCHANGED <<can_mob, status, can_cmd_list, ftimer_id, mob_handle, given, sent, reports,
                     overload>>
  BY DEF TimedOut, mobVars
<1>2. Reported' = Reported /\ ft \in Reported
  BY <1>1 DEF Reported, RInv, OneTimer
<1>3. \A f \in Frames : Leaving(f) => Leaving(f)'
  BY <1>1 DEF Leaving
<1>4. OnePlace'
  <2>1. /\ Unique(can_mob', can_cmd_list')
        /\ \A f \in Frames : Has(can_mob', can_cmd_list', f) <=> Has(can_mob, can_cmd_list, f)
    BY <1>1 DEF RInv, OnePlace
  <2> QED
    BY <1>1, <1>2, <1>3, <2>1, PlacesLeft
<1>5. /\ ft_functions \in Seq(Timer) /\ Timed(ft_functions, ft)
      /\ TimerOf(ft) \in DOMAIN ft_functions /\ ft_functions[TimerOf(ft)].cmd = ft
  <2>1. ft_functions \in Seq(Timer) /\ Timed(ft_functions, ft)
    BY <1>1 DEF RInv, IInv, TypeOK, OneTimer
  <2> QED
    BY <2>1, TimerOfTimed
<1>7. /\ ftimer_id[ft] = id
      /\ \A k \in DOMAIN ft_functions :
           /\ ft_functions[k].cmd \in given /\ ftimer_id[ft_functions[k].cmd] = ft_functions[k].id
           /\ ft_functions[k].cmd \in Reported => Leaving(ft_functions[k].cmd)
  BY <1>5 DEF RInv, OneTimer
<1> HIDE DEF id
<1>8. OneTimer'
  <2>1. CmdsDistinct(ft_functions)
    BY DEF RInv, OneTimer
  <2>2. /\ \A j \in DOMAIN ft_functions' : \E k \in DOMAIN ft_functions : ft_functions'[j] = ft_functions[k]
        /\ CmdsDistinct(ft_functions')
        /\ \A n \in DOMAIN ft_functions : ft_functions[n].id = id /\ n + 1 \in DOMAIN ft_functions =>
             \E j \in DOMAIN ft_functions' : ft_functions'[j] = ft_functions[n + 1]
    BY <1>1, <1>5, <2>1, UnregisteredLeft
  <2>3. CmdsDistinct(ft_functions)'
    BY <2>2 DEF CmdsDistinct
  <2>4. ASSUME NEW j \in DOMAIN ft_functions'
        PROVE  /\ ft_functions'[j].cmd \in given'
               /\ ftimer_id'[ft_functions'[j].cmd] = ft_functions'[j].id
               /\ ft_functions'[j].cmd \in Reported' => Leaving(ft_functions[j].cmd)'
    <3>1. PICK k \in DOMAIN ft_functions : ft_functions'[j] = ft_functions[k]
      BY <2>2
    <3>2. PICK c \in Frames :
            /\ c = ft_functions[k].cmd /\ c \in given
            /\ ftimer_id[c] = ft_functions[k].id /\ (c \in Reported => Leaving(c))
      BY DEF RInv, OneTimer, IInv, TypeOK
    <3>3. ft_functions'[j].cmd = c
      BY <3>1, <3>2
    <3>4. Leaving(ft_functions[j].cmd)' <=> Leaving(c)'
      BY <3>3 DEF Leaving
    <3> QED
      BY <1>1, <1>2, <1>3, <3>1, <3>2, <3>3, <3>4
  <2>5. ft' # NULL => Timed(ft_functions, ft)'
    <3>1. next_ft # NULL => Behind(ft_functions, ft, next_ft)
      BY <1>1 DEF RInv, OneTimer
    <3>2. next_ft # NULL => Timed(ft_functions', next_ft)
      BY <1>7, <2>2, <3>1 DEF Behind, Timed
    <3>3. Timed(ft_functions, ft)' <=> Timed(ft_functions', ft')
      BY DEF Timed
    <3> QED
      BY <1>1, <3>2, <3>3
  <2> QED
    BY <1>1, <2>3, <2>4, <2>5 DEF OneTimer
<1>9. OwnIds'
  <2> SUFFICES ASSUME ~overload' PROVE
        /\ IdsDistinct(ft_functions)'
        /\ \A f \in given' \ Reported' : Timed(ft_functions, f)'
        /\ \A j \in DOMAIN ft_functions' : ft_functions'[j].cmd \notin Reported'
    BY DEF OwnIds
  <2>1. ~overload
    BY <1>1
  <2>2. /\ IdsDistinct(ft_functions)
        /\ \A f \in given \ Reported : Timed(ft_functions, f)
        /\ \A k \in DOMAIN ft_functions : ft_functions[k].cmd \in Reported => ft_functions[k].cmd = ft
    BY <2>1 DEF RInv, OwnIds
  <2>3. \A k \in DOMAIN ft_functions : ft_functions[k].id = id <=> ft_functions[k].cmd = ft
    <3>1. ASSUME NEW k \in DOMAIN ft_functions, ft_functions[k].id = id PROVE ft_functions[k].cmd = ft
      <4>1. ft_functions[TimerOf(ft)].id = id
        BY DEF id
      <4>2. k = TimerOf(ft)
        BY <1>5, <2>2, <3>1, <4>1 DEF IdsDistinct
      <4> QED
        BY <1>5, <4>2
    <3>2. ASSUME NEW k \in DOMAIN ft_functions, ft_functions[k].cmd = ft PROVE ft_functions[k].id = id
      BY <1>7, <3>2
    <3> QED
      BY <3>1, <3>2
  <2>4. /\ IdsDistinct(ft_functions')
        /\ \A j \in DOMAIN ft_functions' : \E k \in DOMAIN ft_functions :
             ft_functions'[j] = ft_functions[k] /\ ft_functions[k].id # id
        /\ \A k \in DOMAIN ft_functions : ft_functions[k].id # id =>
             \E j \in DOMAIN ft_functions' : ft_functions'[j] = ft_functions[k]
    BY <1>1, <1>5, <2>2, UnregisteredRest
  <2>5. IdsDistinct(ft_functions)'
    BY <2>4 DEF IdsDistinct
  <2>6. \A f \in given' \ Reported' : Timed(ft_functions, f)'
    <3>1. \A f : f # ft /\ Timed(ft_functions, f) => Timed(ft_functions', f)
      BY <2>3, <2>4 DEF Timed
    <3>2. \A f : Timed(ft_functions, f)' <=> Timed(ft_functions', f)
      BY DEF Timed
    <3> QED
      BY <1>1, <1>2, <2>2, <3>1, <3>2
  <2>7. \A j \in DOMAIN ft_functions' : ft_functions'[j].cmd \notin Reported'
    BY <1>2, <2>2, <2>3, <2>4
  <2> QED
    BY <2>5, <2>6, <2>7
<1>6. Books'
  BY <1>1, <1>2 DEF RInv, Books
<1> QED
  BY <1>4, <1>6, <1>8, <1>9

(* The steps that change neither places nor timers nor reports.            *)
Idle == WakeUp \/ PassMob \/ ReportReceived \/ GoToSleep \/ TickDone

LEMMA IdleReports ==
  ASSUME RInv, Idle
  PROVE  OnePlace' /\ OneTimer' /\ OwnIds' /\ Books'
<1>1. /\ pc \notin {"sent", "timed_out"} /\ pc' \notin {"sent", "timers", "timed_out"}
      /\ pc = "timers" => ft = NULL
      /\ UNCHANGED <<can_mob, status, can_cmd_list, ft_functions, ft, next_ft, ftimer_id,
                     given, freed, sent, reports, overload>>
  BY DEF Idle, WakeUp, PassMob, AtMob, ReportReceived, GoToSleep, AfterMobs, TickDone, mobVars, timerVars
<1>2. Reported' = Reported
  BY <1>1 DEF Reported
<1>3. OnePlace' /\ OneTimer' /\ OwnIds'
  <2>1. \A f \in Frames : Leaving(f) => Leaving(f)'
    BY <1>1 DEF Leaving
  <2>2. OnePlace'
    BY <1>1, <2>1, PlacesUntouched
  <2>3. OneTimer' /\ OwnIds'
    BY <1>1, <2>1, TimersUntouched
  <2> QED
    BY <2>2, <2>3
<1>4. Books'
  BY <1>1, <1>2 DEF RInv, Books
<1> QED
  BY <1>3, <1>4

LEMMA StepRInv == RInv /\ [Next]_vars => RInv'
<1> SUFFICES ASSUME RInv, [Next]_vars PROVE RInv'
  OBVIOUS
<1>1. IInv'
  BY StepInv DEF RInv
<1>2. OnePlace' /\ OneTimer' /\ OwnIds' /\ Books'
  <2>1. CASE Next
    <3>1. CASE \E f \in Frames : CanSend(f)
      BY <2>1, <3>1, CanSendReports DEF Next
    <3>2. CASE \E m \in Mobs : Interrupt(m)
      BY <3>2, InterruptReports
    <3>3. CASE ReportSent \/ ReleaseMob \/ StartWaiting
      BY <2>1, <3>3, ReportSentReports, ReleaseMobReports, StartWaitingReports DEF Next
    <3>4. CASE Tick \/ CountDown \/ TimedOut
      BY <2>1, <3>4, TickReports, CountDownReports, TimedOutReports DEF Next
    <3>5. CASE Idle
      BY <3>5, IdleReports
    <3> QED
      BY <2>1, <3>1, <3>2, <3>3, <3>4, <3>5 DEF Next, DriverProcess, TimerProcess, Idle
  <2>2. CASE UNCHANGED vars
    <3>1. UNCHANGED <<can_mob, status, can_cmd_list, ft_functions, ft, next_ft, ftimer_id, pc,
                      mob_handle, given, freed, sent, reports, overload>>
      BY <2>2 DEF vars, mobVars, timerVars
    <3>2. Reported' = Reported
      BY <3>1 DEF Reported
    <3>3. \A f \in Frames : Leaving(f) => Leaving(f)'
      BY <3>1 DEF Leaving
    <3>4. OnePlace'
      BY <3>1, <3>3, PlacesUntouched
    <3>5. OneTimer' /\ OwnIds'
      BY <3>1, <3>3, TimersUntouched
    <3>6. Books'
      BY <3>1, <3>2 DEF RInv, Books
    <3> QED
      BY <3>4, <3>5, <3>6
  <2> QED
    BY <2>1, <2>2
<1> QED
  BY <1>1, <1>2 DEF RInv

LEMMA ReportsInvariance == Spec => []RInv
BY InitRInv, StepRInv, PTL DEF Spec

-----------------------------------------------------------------------------
(* Theorems                                                                *)

LEMMA OnlyOne ==
  ASSUME NEW S, NEW x \in S, \A y \in S : y = x
  PROVE  Cardinality(S) = 1
<1>1. S = {x}
  OBVIOUS
<1> QED
  BY <1>1, FS_Singleton

(* For any frames, MObs and timeouts: a command that has not been reported *)
(* is pending or waits, not both; and as long as there was a bit for each  *)
(* timer's id, its timer runs, and no timer's id stops another's.          *)
THEOREM CommandsAreKept == Spec => []OnePlaceOneTimer
<1>1. RInv => OnePlaceOneTimer
  <2> SUFFICES ASSUME RInv PROVE OnePlaceOneTimer
    OBVIOUS
  <2>1. ASSUME NEW f \in given \ Reported
        PROVE  Cardinality({m \in Mobs : can_mob[m] = f})
                 + Cardinality({i \in DOMAIN can_cmd_list : can_cmd_list[i] = f}) = 1
    <3> DEFINE M == {m \in Mobs : can_mob[m] = f}
               L == {i \in DOMAIN can_cmd_list : can_cmd_list[i] = f}
    <3>1. f \in Frames
      BY DEF RInv, IInv, TypeOK
    <3>3. /\ \A m, n \in M : m = n
          /\ \A i, j \in L : i = j
          /\ M = {} \/ L = {}
      BY <3>1 DEF RInv, OnePlace, Unique, Distinct
    <3>4. M # {} \/ L # {}
      BY DEF RInv, OnePlace, Has
    <3> HIDE DEF M, L
    <3>5. Cardinality(M) + Cardinality(L) = 1
      <4>1. Cardinality({}) = 0
        BY FS_EmptySet
      <4>2. CASE M # {} /\ L = {}
        <5>1. Cardinality(M) = 1
          BY <3>3, <4>2, OnlyOne
        <5> QED
          BY <4>1, <4>2, <5>1
      <4>3. CASE L # {} /\ M = {}
        <5>1. Cardinality(L) = 1
          BY <3>3, <4>3, OnlyOne
        <5> QED
          BY <4>1, <4>3, <5>1
      <4> QED
        BY <3>3, <3>4, <4>2, <4>3
    <3> QED
      BY <3>5 DEF M, L
  <2>2. ASSUME ~overload, NEW f \in given \ Reported
        PROVE  \E i \in DOMAIN ft_functions :
                 ft_functions[i].cmd = f /\ ft_functions[i].id = ftimer_id[f]
    <3>1. Timed(ft_functions, f)
      BY <2>2 DEF RInv, OwnIds
    <3> QED
      BY <3>1 DEF RInv, OneTimer, Timed
  <2>3. ASSUME ~overload
        PROVE  \A i, j \in DOMAIN ft_functions : ft_functions[i].id = ft_functions[j].id => i = j
    BY <2>3 DEF RInv, OwnIds, IdsDistinct
  <2> QED
    BY <2>1, <2>2, <2>3 DEF OnePlaceOneTimer, Owed
<1> QED
  BY <1>1, ReportsInvariance, PTL

(* What was freed is not in use as long as it was not, when nothing more   *)
(* is freed and no command comes to a place or to a timer.                 *)
LEMMA StaysOnCourse ==
  ASSUME RInv, ~Astray, freed' = freed,
         \A f \in Frames : Has(can_mob', can_cmd_list', f) => Has(can_mob, can_cmd_list, f) \/ f \notin given,
         \A f \in Frames : Timed(ft_functions', f) => Timed(ft_functions, f) \/ f \notin given
  PROVE  Astray' = FALSE /\ Astray = FALSE
<1>1. \A f \in freed : f \in Frames /\ f \in given
  BY DEF RInv, IInv, TypeOK, Books
<1>2. \A f \in freed : ~Has(can_mob, can_cmd_list, f) /\ ~Timed(ft_functions, f)
  BY DEF Astray, InUse, Has, ToSet, Timed
<1>3. \A f \in freed' : ~Has(can_mob', can_cmd_list', f) /\ ~Timed(ft_functions', f)
  BY <1>1, <1>2
<1>4. Astray' = FALSE
  BY <1>3 DEF Astray, InUse, Has, ToSet, Timed
<1>5. Astray = FALSE
  BY DEF Astray
<1> QED
  BY <1>4, <1>5

(* Each timer is of a frame that is still owed, but for the one that has   *)
(* just run out.                                                           *)
LEMMA TimersAreOwed ==
  ASSUME RInv, ~overload
  PROVE  /\ IsFiniteSet(Owed) /\ Cardinality(Owed) \in Nat
         /\ Len(ft_functions) \in Nat /\ Len(ft_functions) <= Cardinality(Owed) + 1
<1>1. /\ IsFiniteSet(Owed)
      /\ ft_functions \in Seq(Timer) /\ CmdsDistinct(ft_functions)
      /\ \A i \in DOMAIN ft_functions : ft_functions[i].cmd \in Owed \cup {ft}
  <2>1. IsFiniteSet(Owed)
    <3>1. IsFiniteSet(given) /\ Owed \subseteq given
      BY DEF RInv, Books, Owed
    <3> QED
      BY <3>1, FS_Subset
  <2>2. \A i \in DOMAIN ft_functions :
          /\ ft_functions[i].cmd \in given
          /\ ft_functions[i].cmd \in Reported => ft_functions[i].cmd = ft
    BY DEF RInv, OneTimer, OwnIds
  <2> QED
    BY <2>1, <2>2 DEF RInv, IInv, TypeOK, OneTimer, Owed
<1> DEFINE D == 1 .. Len(ft_functions)
           T == Owed \cup {ft}
           CmdAt == [i \in D |-> ft_functions[i].cmd]
<1>2. Len(ft_functions) \in Nat /\ Cardinality(D) = Len(ft_functions) /\ DOMAIN ft_functions = D
  <2>1. 1 \in Int /\ Len(ft_functions) \in Int /\ Len(ft_functions) \in Nat
        /\ DOMAIN ft_functions = 1 .. Len(ft_functions)
    BY <1>1
  <2>2. Cardinality(1 .. Len(ft_functions))
          = IF 1 > Len(ft_functions) THEN 0 ELSE Len(ft_functions) - 1 + 1
    BY <2>1, FS_Interval
  <2> QED
    BY <2>1, <2>2
<1>3. CmdAt \in Injection(D, T)
  BY <1>1, <1>2 DEF Injection, IsInjective, CmdsDistinct
<1>4. /\ IsFiniteSet(T)
      /\ Cardinality(T) = Cardinality(Owed) \/ Cardinality(T) = Cardinality(Owed) + 1
  BY <1>1, FS_AddElement
<1>5. Cardinality(D) <= Cardinality(T)
  <2> HIDE DEF D, T, CmdAt
  <2> QED
    BY <1>3, <1>4, FS_Injection
<1>6. Cardinality(Owed) \in Nat
  BY <1>1, FS_CardinalityType
<1> HIDE DEF D, T
<1> QED
  BY <1>1, <1>2, <1>4, <1>5, <1>6

(* So the driver is short of ids only when that many frames are owed.      *)
LEMMA OverloadOwed ==
  ASSUME RInv, NEW f \in Frames, CanSend(f)
  PROVE  \/ overload' = overload
         \/ Owed' \in TooMany /\ overload' = TRUE
<1>1. overload \in BOOLEAN /\ overload' = (overload \/ Len(ft_functions) > IntBits)
  BY DEF CanSend, RInv, IInv, TypeOK
<1>2. CASE overload \/ ~(Len(ft_functions) > IntBits)
  BY <1>1, <1>2, Zenon
<1>3. CASE ~overload /\ Len(ft_functions) > IntBits
  <2>1. overload' = TRUE
    BY <1>1, <1>3, Zenon
  <2>2. /\ IsFiniteSet(Owed) /\ Cardinality(Owed) \in Nat
        /\ Len(ft_functions) \in Nat /\ Len(ft_functions) <= Cardinality(Owed) + 1
    BY <1>3, TimersAreOwed
  <2>3. Owed' = Owed \cup {f} /\ f \notin Owed
    <3>1. Reported' = Reported
      BY DEF CanSend, Reported
    <3>2. Reported \subseteq given
      BY DEF RInv, Books
    <3> QED
      BY <3>1, <3>2 DEF CanSend, Owed
  <2>4. Cardinality(Owed') = Cardinality(Owed) + 1
    <3>1. IsFiniteSet(Owed) /\ f \notin Owed
      BY <2>2, <2>3
    <3> HIDE DEF Owed
    <3>2. Cardinality(Owed \cup {f}) = Cardinality(Owed) + 1
      BY <3>1, FS_AddElement
    <3> QED
      BY <2>3, <3>2
  <2>5. Cardinality(Owed') > IntBits
    <3>1. Len(ft_functions) > IntBits
      BY <1>3
    <3> QED
      BY <2>2, <2>4, <3>1, TimersAssumption
  <2>6. Owed' \in SUBSET Frames
    BY <2>3 DEF RInv, IInv, TypeOK, Owed
  <2> QED
    BY <2>1, <2>5, <2>6 DEF TooMany
<1> QED
  BY <1>2, <1>3

LEMMA StepReports ==
  ASSUME RInv, [Next]_vars
  PROVE  [Contract!Next]_(Contract!vars)
<1>1. /\ Reported \subseteq given /\ given \subseteq Frames
      /\ Contract!Taken = given
  <2>1. Reported \subseteq given /\ given \subseteq Frames
    BY DEF RInv, Books, IInv, TypeOK
  <2>2. Contract!Taken = (given \ Reported) \cup Reported
    BY DEF Contract!Taken, Reported, Owed
  <2> QED
    BY <2>1, <2>2
<1>2. Astray \in BOOLEAN
  BY DEF Astray
<1>3. ASSUME NEW f \in Frames, ~Astray, CanSend(f)
      PROVE  [Contract!Next]_(Contract!vars)
  <2>1. /\ f \notin given /\ given' = given \cup {f} /\ UNCHANGED <<sent, reports, freed>>
        /\ PostCmd(f, can_mob, status, conmob, can_cmd_list)
        /\ ft_functions' = Append(ft_functions, NewTimer(f))
    BY <1>3 DEF CanSend, Registered
  <2>2. Reported' = Reported
    BY <2>1 DEF Reported
  <2>3. \A g \in Frames : Has(can_mob', can_cmd_list', g) => Has(can_mob, can_cmd_list, g) \/ g = f
    <3>1. /\ can_mob \in [Mobs -> Cmds \cup {NULL}] /\ conmob \in SUBSET Mobs
          /\ status \in [Mobs -> {"pending", "completed"}] /\ can_cmd_list \in Seq(Frames)
          /\ Agree(can_mob, conmob)
      BY DEF RInv, IInv, TypeOK, TableMatchesController, NoReceiverWaits, Agree
    <3>2. Unique(can_mob, can_cmd_list) /\ ~Has(can_mob, can_cmd_list, f)
      BY <2>1 DEF RInv, OnePlace
    <3>3. PostCmd(f, can_mob, status, conmob, can_cmd_list)
      BY <2>1
    <3>4. \A g \in Frames : Has(can_mob', can_cmd_list', g) <=> Has(can_mob, can_cmd_list, g) \/ g = f
      BY <3>1, <3>2, <3>3, PostCmdPlaces
    <3> QED
      BY <3>4
  <2>4. \A g \in Frames : Timed(ft_functions', g) => Timed(ft_functions, g) \/ g = f
    <3>1. ft_functions \in Seq(Timer)
      BY DEF RInv, IInv, TypeOK
    <3>2. /\ DOMAIN ft_functions' = 1 .. Len(ft_functions) + 1
          /\ DOMAIN ft_functions = 1 .. Len(ft_functions) /\ Len(ft_functions) \in Nat
          /\ ft_functions'[Len(ft_functions) + 1] = NewTimer(f)
          /\ \A i \in 1 .. Len(ft_functions) : ft_functions'[i] = ft_functions[i]
      BY <2>1, <3>1
    <3> QED
      BY <3>2 DEF Timed, NewTimer
  <2>5. Astray' = FALSE /\ Astray = FALSE
    BY <1>3, <2>1, <2>3, <2>4, StaysOnCourse
  <2>6. Owed' = Owed \cup {f} /\ f \notin Owed
    BY <1>1, <2>1, <2>2 DEF Owed
  <2>7. Contract!Put(f)
    <3>1. \/ overload' = overload
          \/ Owed' \in TooMany /\ overload' = TRUE
      BY <1>3, OverloadOwed
    <3>2. /\ f \notin Contract!Taken /\ Owed' = Owed \cup {f}
          /\ UNCHANGED <<sent, reports, Astray>>
      BY <1>1, <2>1, <2>5, <2>6
    <3> HIDE DEF Contract!Taken
    <3> QED
      BY <3>1, <3>2 DEF Contract!Put
  <2> QED
    BY <2>5, <2>7 DEF Contract!Next
<1>4. ASSUME NEW m \in Mobs, ~Astray, Interrupt(m)
      PROVE  [Contract!Next]_(Contract!vars)
  <2>1. /\ UNCHANGED <<can_mob, can_cmd_list, ft_functions, given, freed, reports, overload>>
        /\ can_mob[m] # NULL /\ sent' = sent \cup ({can_mob[m]} \ {RX})
    BY <1>4 DEF Interrupt, timerVars
  <2>2. Reported' = Reported
    BY <2>1 DEF Reported
  <2>3. Astray' = FALSE /\ Astray = FALSE
    BY <1>4, <2>1, StaysOnCourse
  <2>4. Owed' = Owed
    BY <2>1, <2>2 DEF Owed
  <2>5. CASE can_mob[m] = RX
    <3>1. sent' = sent
      BY <2>1, <2>5
    <3> QED
      BY <2>1, <2>3, <2>4, <3>1 DEF Contract!vars
  <2>6. CASE can_mob[m] \in Frames
    <3>1. can_mob[m] \in given
      BY <2>6 DEF RInv, OnePlace, Has
    <3>2. sent' = sent \cup {can_mob[m]}
      BY <2>1, <2>6, CommandsAssumption
    <3>3. Contract!Send(can_mob[m])
      BY <1>1, <2>1, <2>3, <2>4, <3>1, <3>2 DEF Contract!Send
    <3> QED
      BY <2>3, <2>6, <3>3 DEF Contract!Next
  <2>7. can_mob[m] \in Frames \cup {RX, NULL}
    BY DEF RInv, IInv, TypeOK, Cmds
  <2> QED
    BY <2>1, <2>5, <2>6, <2>7
<1>5. ASSUME ~Astray, ReportSent
      PROVE  [Contract!Next]_(Contract!vars)
  <2> DEFINE f == can_mob[mob_handle]
  <2>1. /\ mob_handle \in Mobs /\ f \in Frames /\ status[mob_handle] = "completed"
        /\ ft_functions' = Unregistered(ft_functions, ftimer_id[f])
        /\ reports' = Append(reports, [frame |-> f, rc |-> RC_NORM])
        /\ UNCHANGED <<can_mob, can_cmd_list, given, freed, sent, overload>>
    BY <1>5 DEF ReportSent, AtMob, Stopped, mobVars, RInv, IInv, TypeOK, Cmds
  <2>2. f \in Owed
    BY <1>5, ReportSentReports DEF Owed
  <2>3. f \in sent
    BY <2>1 DEF RInv, Books
  <2> HIDE DEF f
  <2>4. Reported' = Reported \cup {f}
    BY <2>1, ReportedAppend DEF RCs, RInv, IInv, TypeOK
  <2>5. Astray' = FALSE /\ Astray = FALSE
    <3>1. ft_functions \in Seq(Timer)
      BY DEF RInv, IInv, TypeOK
    <3>2. \A j \in DOMAIN ft_functions' : \E k \in DOMAIN ft_functions :
            ft_functions'[j] = ft_functions[k]
      BY <2>1, <3>1, UnregisteredLeft
    <3>3. \A g \in Frames : Timed(ft_functions', g) => Timed(ft_functions, g)
      BY <3>2 DEF Timed
    <3> QED
      BY <1>5, <2>1, <3>3, StaysOnCourse
  <2>6. Owed' = Owed \ {f}
    BY <2>1, <2>4 DEF Owed
  <2>7. Contract!Report(f, RC_NORM)
    BY <2>1, <2>2, <2>3, <2>5, <2>6 DEF Contract!Report
  <2> QED
    BY <2>1, <2>5, <2>7 DEF Contract!Next, RCs
<1>6. ASSUME ~Astray, CountDown
      PROVE  [Contract!Next]_(Contract!vars)
  <2>1. /\ ft \in Frames /\ pc = "timers" /\ UNCHANGED <<given, freed, sent, overload>>
    BY <1>6 DEF CountDown, RInv, IInv, TypeOK
  <2>2. /\ Timed(ft_functions, ft) /\ DOMAIN ft_functions' = DOMAIN ft_functions
        /\ \A i \in DOMAIN ft_functions : ft_functions'[i].cmd = ft_functions[i].cmd
    BY <1>6, CountedTimers
  <2>3. \A g \in Frames : Timed(ft_functions', g) => Timed(ft_functions, g)
    BY <2>2 DEF Timed
  <2>4. CASE UNCHANGED <<can_mob, can_cmd_list, reports>>
    <3>1. Reported' = Reported
      BY <2>4 DEF Reported
    <3>2. Astray' = FALSE /\ Astray = FALSE
      BY <1>6, <2>1, <2>3, <2>4, StaysOnCourse
    <3>3. Owed' = Owed
      BY <2>1, <3>1 DEF Owed
    <3> QED
      BY <2>1, <2>4, <3>2, <3>3 DEF Contract!vars
  <2>5. CASE AbortCmd(ft) /\ reports' = Append(reports, [frame |-> ft, rc |-> RC_TIMEOUT])
    <3>1. ft \in Owed
      BY <1>6, CountDownReports DEF Owed
    <3>2. Reported' = Reported \cup {ft}
      BY <2>1, <2>5, ReportedAppend DEF RCs, RInv, IInv, TypeOK
    <3>3. \A g \in Frames : Has(can_mob', can_cmd_list', g) => Has(can_mob, can_cmd_list, g)
      <4>1. /\ can_mob \in [Mobs -> Cmds \cup {NULL}] /\ can_cmd_list \in Seq(Frames)
            /\ Unique(can_mob, can_cmd_list)
        BY DEF RInv, IInv, TypeOK, NoReceiverWaits, OnePlace
      <4>2. AbortCmd(ft)
        BY <2>5
      <4> QED
        BY <2>1, <4>1, <4>2, AbortedPlaces
    <3>4. Astray' = FALSE /\ Astray = FALSE
      BY <1>6, <2>1, <2>3, <3>3, StaysOnCourse
    <3>5. Owed' = Owed \ {ft}
      BY <2>1, <3>2 DEF Owed
    <3>6. RC_TIMEOUT # RC_NORM /\ RC_TIMEOUT \in RCs
      BY DEF RC_TIMEOUT, RC_NORM, RCs
    <3>7. Contract!Report(ft, RC_TIMEOUT)
      BY <2>1, <2>5, <3>1, <3>4, <3>5, <3>6 DEF Contract!Report
    <3> QED
      BY <2>1, <3>4, <3>6, <3>7 DEF Contract!Next
  <2> QED
    BY <1>6, <2>4, <2>5 DEF CountDown, mobVars
<1>7. ASSUME ~Astray, TimedOut
      PROVE  [Contract!Next]_(Contract!vars)
  <2>1. pc = "timed_out" /\ UNCHANGED <<given, sent, reports, overload>>
    BY <1>7 DEF TimedOut
  <2>2. Owed' = Owed
    BY <2>1 DEF Owed, Reported
  <2>3. reports # <<>> /\ reports[Len(reports)].rc # RC_NORM
    BY <2>1 DEF RInv, Books, RC_TIMEOUT, RC_NORM
  <2>4. CASE Astray'
    <3>1. Astray' = TRUE /\ Astray = FALSE
      BY <1>7, <2>4 DEF Astray
    <3>2. Contract!GiveUp
      BY <2>1, <2>2, <2>3, <3>1 DEF Contract!GiveUp
    <3> QED
      BY <3>1, <3>2 DEF Contract!Next
  <2>5. CASE ~Astray'
    <3>1. Astray' = Astray
      BY <1>7, <2>5 DEF Astray
    <3> QED
      BY <2>1, <2>2, <3>1 DEF Contract!vars
  <2> QED
    BY <2>4, <2>5
<1>8. ASSUME ~Astray, ReleaseMob \/ StartWaiting
      PROVE  [Contract!Next]_(Contract!vars)
  <2>1. UNCHANGED <<given, sent, reports, overload>>
    BY <1>8 DEF ReleaseMob, StartWaiting
  <2>2. Owed' = Owed
    BY <2>1 DEF Owed, Reported
  <2>3. overload \/ ~Astray'
    BY <1>8, ReleaseMobReports, StartWaitingReports
  <2>4. CASE Astray'
    <3>1. overload /\ Astray' = TRUE /\ Astray = FALSE
      BY <1>8, <2>3, <2>4 DEF Astray
    <3>2. Contract!GiveUp
      BY <2>1, <2>2, <3>1 DEF Contract!GiveUp
    <3> QED
      BY <3>1, <3>2 DEF Contract!Next
  <2>5. CASE ~Astray'
    <3>1. Astray' = Astray
      BY <1>8, <2>5 DEF Astray
    <3> QED
      BY <2>1, <2>2, <3>1 DEF Contract!vars
  <2> QED
    BY <2>4, <2>5
<1>9. ASSUME Idle \/ Tick \/ UNCHANGED vars
      PROVE  [Contract!Next]_(Contract!vars)
  <2>1. UNCHANGED <<can_mob, can_cmd_list, ft_functions, given, freed, sent, reports, overload>>
    BY <1>9 DEF Idle, WakeUp, PassMob, ReportReceived, GoToSleep, TickDone, Tick, vars, mobVars, timerVars
  <2>2. Owed' = Owed
    BY <2>1 DEF Owed, Reported
  <2>3. Astray' = Astray
    BY <2>1 DEF Astray, InUse
  <2> QED
    BY <2>1, <2>2, <2>3 DEF Contract!vars
<1> QED
  BY <1>3, <1>4, <1>5, <1>6, <1>7, <1>8, <1>9 DEF Next, DriverProcess, TimerProcess, Idle

(* The driver reports every frame it has taken at most once, and with      *)
(* CAN_DRV_RC_NORM only when it was sent, until it frees a command that is *)
(* still in use, which it does only after a timeout or when more than      *)
(* IntBits frames were owed at once: every step of it is a step of         *)
(* CanReports, or none.                                                    *)
THEOREM DriverImplementsReports == Spec => KeepsContract
<1>1. Init => Contract!Init
  <2> SUFFICES ASSUME Init PROVE Contract!Init
    OBVIOUS
  <2>1. Owed = {} /\ sent = {} /\ reports = <<>> /\ overload = FALSE
    BY DEF Init, Owed
  <2>2. Astray = FALSE
    BY DEF Init, Astray
  <2> QED
    BY <2>1, <2>2 DEF Contract!Init
<1>2. RInv /\ [Next]_vars => [Contract!Next]_(Contract!vars)
  BY StepReports
<1> QED
  BY <1>1, <1>2, ReportsInvariance, PTL DEF Spec, KeepsContract, Contract!Spec
=============================================================================
