-------------------------- MODULE AccessSync_proofs --------------------------
(***************************************************************************)
(* Theorems about AccessSync for any nodes, passages and databases: no     *)
(* passage vanishes but in the ways the model names, however often nodes   *)
(* and server crash, and sendings and commits fail.                        *)
(***************************************************************************)
EXTENDS AccessSync, SequenceTheorems, TLAPS

-----------------------------------------------------------------------------
(* The rows on a queue.                                                    *)

LEMMA RowsInEmpty == RowsIn(<<>>) = {}
BY DEF RowsIn

LEMMA RowsInAppend ==
  ASSUME NEW q \in Seq(LogMsg), NEW m \in LogMsg
  PROVE  RowsIn(Append(q, m)) = RowsIn(q) \cup m.rows
<1> DEFINE r == Append(q, m)
<1>1. Len(r) = Len(q) + 1 /\ r[Len(q) + 1] = m /\ \A i \in 1 .. Len(q) : r[i] = q[i]
  BY AppendProperties
<1>2. DOMAIN q = 1 .. Len(q) /\ DOMAIN r = 1 .. Len(q) + 1 /\ Len(q) \in Nat
  BY <1>1, AppendProperties, LenProperties
<1> HIDE DEF r
<1>3. RowsIn(q) \subseteq RowsIn(r)
  BY <1>1, <1>2 DEF RowsIn
<1>4. m.rows \subseteq RowsIn(r)
  BY <1>1, <1>2 DEF RowsIn
<1>5. ASSUME NEW i \in DOMAIN r PROVE r[i].rows \subseteq RowsIn(q) \cup m.rows
  <2>1. CASE i = Len(q) + 1
    BY <1>1, <2>1
  <2>2. CASE i \in DOMAIN q
    BY <1>1, <1>2, <2>2 DEF RowsIn
  <2> QED
    BY <1>2, <2>1, <2>2
<1>6. RowsIn(r) \subseteq RowsIn(q) \cup m.rows
  BY <1>5 DEF RowsIn
<1> QED
  BY <1>3, <1>4, <1>6 DEF r

LEMMA RowsInHeadTail ==
  ASSUME NEW q \in Seq(LogMsg), q # <<>>
  PROVE  RowsIn(q) \subseteq Head(q).rows \cup RowsIn(Tail(q))
<1> DEFINE t == Tail(q)
<1>1. Head(q) = q[1] /\ Len(t) = Len(q) - 1 /\ \A i \in 1 .. Len(t) : t[i] = q[i + 1]
  BY HeadTailProperties, EmptySeq
<1>2. DOMAIN q = 1 .. Len(q) /\ DOMAIN t = 1 .. Len(q) - 1 /\ Len(q) \in Nat
  BY <1>1, HeadTailProperties, LenProperties
<1>3. ASSUME NEW i \in DOMAIN q PROVE q[i].rows \subseteq Head(q).rows \cup RowsIn(t)
  <2>1. CASE i = 1
    BY <1>1, <2>1
  <2>2. CASE i # 1
    <3>1. i - 1 \in DOMAIN t /\ t[i - 1] = q[i]
      BY <1>1, <1>2, <2>2
    <3> QED
      BY <3>1 DEF RowsIn
  <2> QED
    BY <2>1, <2>2
<1> QED
  BY <1>3 DEF RowsIn

-----------------------------------------------------------------------------
(* Types                                                                   *)

LEMMA RowsInType ==
  ASSUME NEW q \in Seq(LogMsg)
  PROVE  RowsIn(q) \subseteq Passages
<1>1. ASSUME NEW i \in DOMAIN q PROVE q[i].rows \subseteq Passages
  <2>1. q[i] \in LogMsg
    OBVIOUS
  <2> QED
    BY <2>1 DEF LogMsg
<1> QED
  BY <1>1 DEF RowsIn

LEMMA TypeInit == Init => TypeOK
<1> SUFFICES ASSUME Init PROVE TypeOK
  OBVIOUS
<1> USE TriesAssumption, BoundsAssumption DEF Init
<1>1. NoThread \in Sync
  BY DEF NoThread, Sync, Versions
<1>2. dbsIn \in [Nodes -> Seq(DbMsg)] /\ logsIn \in Seq(LogMsg)
  BY EmptySeq
<1>3. db \in [Nodes -> Versions] /\ current \in Versions /\ crashes \in 0 .. MaxCrashes
  BY DEF Versions
<1>4. /\ log \in [Nodes -> SUBSET Passages] /\ rows \in [Nodes -> SUBSET Passages]
      /\ pc \in [Nodes -> {"begin", "send", "drop"}] /\ tries \in [Nodes -> 1 .. LogTries]
  OBVIOUS
<1>5. syncs \in [Threads -> Sync]
  BY <1>1
<1> QED
  BY <1>2, <1>3, <1>4, <1>5 DEF TypeOK

(* Only the first MaxCrashes crashes happen.                               *)
LEMMA CrashType ==
  ASSUME TypeOK, crashes < MaxCrashes
  PROVE  crashes + 1 \in 0 .. MaxCrashes
BY BoundsAssumption DEF TypeOK

LEMMA TurnOverType ==
  ASSUME TypeOK, NEW n \in Nodes, TurnOver(n)
  PROVE  /\ pc' \in [Nodes -> {"begin", "send", "drop"}]
         /\ rows' \in [Nodes -> SUBSET Passages]
         /\ tries' \in [Nodes -> 1 .. LogTries]
BY TriesAssumption DEF TypeOK, TurnOver

LEMMA TypeKept ==
  ASSUME TypeOK, [Next]_vars
  PROVE  TypeOK'
<1> USE TriesAssumption, BoundsAssumption
<1>1. ASSUME NEW n \in Nodes, NEW p \in Passages, LogPassage(n, p) PROVE TypeOK'
  BY <1>1 DEF TypeOK, LogPassage, serverVars
<1>2. ASSUME NEW n \in Nodes, GetLog(n) PROVE TypeOK'
  BY <1>2 DEF TypeOK, GetLog, serverVars
<1>3. ASSUME NEW n \in Nodes, SendLog(n) PROVE TypeOK'
  <2>1. [cut |-> FALSE, rows |-> rows[n]] \in LogMsg
    BY DEF TypeOK, LogMsg
  <2>2. logsIn' \in Seq(LogMsg)
    BY <1>3, <2>1 DEF TypeOK, SendLog
  <2> QED
    BY <1>3, <2>2 DEF TypeOK, SendLog
<1>4. ASSUME NEW n \in Nodes, SendLogFails(n) PROVE TypeOK'
  <2>1. CASE GiveUp(n)
    BY <1>4, <2>1, TurnOverType DEF TypeOK, SendLogFails, GiveUp, serverVars
  <2>2. CASE tries[n] > 1 /\ tries' = [tries EXCEPT ![n] = @ - 1] /\ UNCHANGED <<pc, rows>>
    <3>1. tries[n] - 1 \in 1 .. LogTries
      BY <2>2 DEF TypeOK
    <3> QED
      BY <1>4, <2>2, <3>1 DEF TypeOK, SendLogFails, serverVars
  <2> QED
    BY <1>4, <2>1, <2>2 DEF SendLogFails
<1>5. ASSUME NEW n \in Nodes, DropLog(n) PROVE TypeOK'
  BY <1>5, TurnOverType DEF TypeOK, DropLog, serverVars
<1>6. ASSUME NEW n \in Nodes, DropLogFails(n) PROVE TypeOK'
  BY <1>6, TurnOverType DEF TypeOK, DropLogFails, serverVars
<1>7. CASE LogHandler
  <2>1. Head(logsIn) \in LogMsg /\ Tail(logsIn) \in Seq(LogMsg)
    BY <1>7, EmptySeq DEF TypeOK, LogHandler
  <2> QED
    BY <1>7, <2>1 DEF TypeOK, LogHandler, LogMsg, nodeVars
<1>8. CASE EditDatabase
  BY <1>8 DEF TypeOK, EditDatabase, Versions, nodeVars
<1>9. ASSUME NEW s \in Threads, StartSync(s) PROVE TypeOK'
  <2>1. [v |-> NewDb, todo |-> Nodes, bad |-> {}, tries |-> DbTries] \in Sync
    BY DEF TypeOK, NewDb, Sync, Versions
  <2> QED
    BY <1>9, <2>1 DEF TypeOK, StartSync, nodeVars
<1>10. ASSUME NEW s \in Threads, NEW n \in Nodes, SendDb(s, n) PROVE TypeOK'
  <2>1. syncs[s] \in Sync /\ [cut |-> FALSE, v |-> syncs[s].v] \in DbMsg
    BY DEF TypeOK, Sync, DbMsg
  <2>2. Append(dbsIn[n], [cut |-> FALSE, v |-> syncs[s].v]) \in Seq(DbMsg)
    BY <2>1 DEF TypeOK
  <2>3. [syncs[s] EXCEPT !.todo = @ \ {n}] \in Sync
    BY <2>1 DEF Sync
  <2> QED
    BY <1>10, <2>2, <2>3 DEF TypeOK, SendDb
<1>11. ASSUME NEW s \in Threads, NEW n \in Nodes, SendDbFails(s, n) PROVE TypeOK'
  <2>1. [syncs[s] EXCEPT !.todo = @ \ {n}, !.bad = @ \cup {n}] \in Sync
    BY DEF TypeOK, Sync
  <2> QED
    BY <1>11, <2>1 DEF TypeOK, SendDbFails, nodeVars
<1>12. ASSUME NEW s \in Threads, EndRound(s) PROVE TypeOK'
  <2>1. NoThread \in Sync
    BY DEF NoThread, Sync, Versions
  <2>2. syncs[s] \in Sync /\ DbTries \in Nat
    BY DEF TypeOK
  <2>3. syncs[s].tries > 1 => syncs[s].tries - 1 \in 0 .. DbTries
    BY <2>2 DEF Sync
  <2>4. syncs[s].tries > 1 =>
          [syncs[s] EXCEPT !.todo = syncs[s].bad, !.bad = {}, !.tries = @ - 1] \in Sync
    BY <2>2, <2>3 DEF Sync
  <2> QED
    BY <1>12, <2>1, <2>4 DEF TypeOK, EndRound, nodeVars
<1>13. ASSUME NEW n \in Nodes, SaveDb(n) PROVE TypeOK'
  <2>1. Head(dbsIn[n]) \in DbMsg /\ Tail(dbsIn[n]) \in Seq(DbMsg)
    BY <1>13, EmptySeq DEF TypeOK, SaveDb
  <2> QED
    BY <1>13, <2>1 DEF TypeOK, SaveDb, DbMsg, serverVars
<1>14. ASSUME NEW n \in Nodes, SaveDbFails(n) PROVE TypeOK'
  <2>1. Tail(dbsIn[n]) \in Seq(DbMsg)
    BY <1>14, EmptySeq DEF TypeOK, SaveDbFails
  <2> QED
    BY <1>14, <2>1 DEF TypeOK, SaveDbFails, serverVars
<1>15. ASSUME NEW n \in Nodes, NodeCrash(n) PROVE TypeOK'
  <2>1. [cut |-> TRUE, rows |-> {}] \in LogMsg
    BY DEF LogMsg
  <2>2. logsIn' \in Seq(LogMsg)
    <3>1. logsIn \in Seq(LogMsg) /\ Append(logsIn, [cut |-> TRUE, rows |-> {}]) \in Seq(LogMsg)
      BY <2>1 DEF TypeOK
    <3>2. logsIn' = logsIn \/ logsIn' = Append(logsIn, [cut |-> TRUE, rows |-> {}])
      BY <1>15 DEF NodeCrash
    <3> QED
      BY <3>1, <3>2
  <2>3. dbsIn' \in [Nodes -> Seq(DbMsg)]
    BY <1>15, EmptySeq DEF TypeOK, NodeCrash
  <2> QED
    <3>1. TurnOver(n) /\ crashes' \in 0 .. MaxCrashes
      BY <1>15, CrashType DEF NodeCrash
    <3> QED
      BY <1>15, <2>2, <2>3, <3>1, TurnOverType DEF TypeOK, NodeCrash
<1>16. CASE ServerCrash
  <2>1. NoThread \in Sync
    BY DEF NoThread, Sync, Versions
  <2>2. RowsIn(logsIn) \subseteq Passages
    BY RowsInType DEF TypeOK
  <2>3. [cut |-> TRUE, v |-> 0] \in DbMsg
    BY DEF DbMsg, Versions
  <2>4. dbsIn' \in [Nodes -> Seq(DbMsg)]
    <3>1. ASSUME NEW s \in Threads, NEW n \in syncs[s].todo,
                 dbsIn' = [dbsIn EXCEPT ![n] = Append(@, [cut |-> TRUE, v |-> 0])]
          PROVE  dbsIn' \in [Nodes -> Seq(DbMsg)]
      BY <2>3, <3>1 DEF TypeOK, Sync
    <3> QED
      BY <1>16, <3>1 DEF TypeOK, ServerCrash
  <2>5. logsIn' \in Seq(LogMsg)
    BY <1>16, EmptySeq DEF ServerCrash
  <2>6. syncs' \in [Threads -> Sync]
    BY <1>16, <2>1 DEF ServerCrash
  <2>7. crashes' \in 0 .. MaxCrashes /\ serverHung' \in BOOLEAN
    BY <1>16, CrashType DEF ServerCrash
  <2>8. lost' \subseteq Passages
    BY <1>16, <2>2 DEF TypeOK, ServerCrash
  <2> QED
    BY <1>16, <2>4, <2>5, <2>6, <2>7, <2>8 DEF TypeOK, ServerCrash
<1>17. CASE StartSyncFails
  BY <1>17 DEF TypeOK, StartSyncFails, nodeVars
<1>18. CASE ServerEnds
  <2>1. RowsIn(logsIn) \subseteq Passages
    BY RowsInType DEF TypeOK
  <2>2. lost' \subseteq Passages /\ logsIn' \in Seq(LogMsg)
    BY <1>18, <2>1, EmptySeq DEF TypeOK, ServerEnds
  <2> QED
    BY <1>18, <2>2 DEF TypeOK, ServerEnds, nodeVars
<1>19. CASE UNCHANGED vars
  BY <1>19 DEF TypeOK, vars, nodeVars, serverVars
<1> QED
  BY <1>1, <1>2, <1>3, <1>4, <1>5, <1>6, <1>7, <1>8, <1>9, <1>10, <1>11, <1>12, <1>13,
     <1>14, <1>15, <1>16, <1>17, <1>18, <1>19
     DEF Next, LogSynchronizer, Synchronizer, SaveDbHandler

(* The state of nodes, server and connections stays well typed: tries are  *)
(* taken up again in time, and a Synchronizer knows only nodes.            *)
THEOREM TypeCorrect == Spec => []TypeOK
BY TypeInit, TypeKept, PTL DEF Spec
-----------------------------------------------------------------------------
(* The rows                                                                *)

Kept == NothingVanishes /\ SentBeforeDropped

LEMMA KeptInit == Init => Kept
BY DEF Init, Kept, NothingVanishes, SentBeforeDropped

(* What happens to a queue of logs and its rows.                           *)
LEMMA RowsStay ==
  ASSUME TypeOK, [Next]_vars
  PROVE  stored \cup lost \cup RowsIn(logsIn) \subseteq (stored \cup lost)' \cup RowsIn(logsIn')
<1>1. ASSUME NEW n \in Nodes, SendLog(n)
      PROVE  RowsIn(logsIn') = RowsIn(logsIn) \cup rows[n]
  <2>1. [cut |-> FALSE, rows |-> rows[n]] \in LogMsg
    BY DEF TypeOK, LogMsg
  <2> QED
    BY <1>1, <2>1, RowsInAppend DEF TypeOK, SendLog
<1>2. ASSUME NEW n \in Nodes, NodeCrash(n)
      PROVE  RowsIn(logsIn') = RowsIn(logsIn)
  <2>1. [cut |-> TRUE, rows |-> {}] \in LogMsg
    BY DEF LogMsg
  <2>2. RowsIn(Append(logsIn, [cut |-> TRUE, rows |-> {}])) = RowsIn(logsIn)
    BY <2>1, RowsInAppend DEF TypeOK
  <2> QED
    BY <1>2, <2>2 DEF NodeCrash
<1>3. ASSUME LogHandler
      PROVE  stored \cup lost \cup RowsIn(logsIn) \subseteq (stored \cup lost)' \cup RowsIn(logsIn')
  <2>1. CASE UNCHANGED <<stored, logsIn, lost>>
    BY <2>1
  <2>2. CASE logsIn' = Tail(logsIn)
    <3>1. RowsIn(logsIn) \subseteq Head(logsIn).rows \cup RowsIn(logsIn')
      BY <1>3, <2>2, RowsInHeadTail DEF TypeOK, LogHandler
    <3>2. Head(logsIn).rows \cup stored \cup lost \subseteq (stored \cup lost)'
      BY <1>3, <2>2 DEF LogHandler
    <3> QED
      BY <3>1, <3>2
  <2> QED
    BY <1>3, <2>1, <2>2 DEF LogHandler
<1>4. ASSUME ServerCrash \/ ServerEnds
      PROVE  stored \cup lost \cup RowsIn(logsIn) \subseteq (stored \cup lost)'
  BY <1>4 DEF ServerCrash, ServerEnds
<1>5. ASSUME NEW n \in Nodes, DropLog(n)
      PROVE  stored \cup lost \subseteq (stored \cup lost)' /\ logsIn' = logsIn
  BY <1>5 DEF DropLog, serverVars
<1>6. CASE UNCHANGED <<stored, logsIn, lost>>
  BY <1>6
<1>7. UNCHANGED <<stored, logsIn, lost>> \/ LogHandler \/ ServerCrash \/ ServerEnds
        \/ \E n \in Nodes : SendLog(n) \/ DropLog(n) \/ NodeCrash(n)
  BY DEF Next, LogSynchronizer, Synchronizer, SaveDbHandler, LogPassage, GetLog, SendLogFails,
         DropLogFails, EditDatabase, StartSync, StartSyncFails, SendDb, SendDbFails, EndRound, SaveDb,
         SaveDbFails, vars, serverVars
<1>8. ASSUME NEW n \in Nodes, SendLog(n) \/ NodeCrash(n)
      PROVE  UNCHANGED <<stored, lost>>
  BY <1>8 DEF SendLog, NodeCrash
<1> QED
  BY <1>1, <1>2, <1>3, <1>4, <1>5, <1>6, <1>7, <1>8

LEMMA KeptKept ==
  ASSUME TypeOK, Kept, [Next]_vars
  PROVE  Kept'
<1> DEFINE safe == stored \cup lost \cup RowsIn(logsIn)
<1>0. safe \subseteq safe'
  BY RowsStay
<1>1. ASSUME NEW n \in Nodes, NEW p \in Passages, LogPassage(n, p) PROVE Kept'
  <2>1. p \in log'[n] /\ \A m \in Nodes : log[m] \subseteq log'[m]
    BY <1>1 DEF TypeOK, LogPassage
  <2>2. logged' = logged \cup {p} /\ UNCHANGED <<pc, rows, stored, lost, logsIn>>
    BY <1>1 DEF LogPassage, serverVars
  <2>3. UNCHANGED RowsIn(logsIn)
    BY <2>2
  <2>4. p \in UNION {log'[m] : m \in Nodes}
    BY <2>1
  <2>5. UNION {log[m] : m \in Nodes} \subseteq UNION {log'[m] : m \in Nodes}
    BY <2>1
  <2>6. NothingVanishes'
    BY <2>2, <2>3, <2>4, <2>5 DEF Kept, NothingVanishes
  <2>7. SentBeforeDropped'
    BY <2>2, <2>3 DEF Kept, SentBeforeDropped
  <2> QED
    BY <2>6, <2>7 DEF Kept
<1>2. ASSUME NEW n \in Nodes, DropLog(n) PROVE Kept'
  <2>1. log[n] \subseteq safe'
    <3>1. rows[n] \subseteq safe
      BY <1>2 DEF Kept, SentBeforeDropped, DropLog
    <3>2. log[n] \ rows[n] \subseteq lost'
      BY <1>2 DEF DropLog
    <3> QED
      BY <3>1, <3>2, <1>0
  <2>2. \A m \in Nodes : m # n => log'[m] = log[m]
    BY <1>2 DEF TypeOK, DropLog
  <2>3. NothingVanishes'
    BY <1>0, <1>2, <2>1, <2>2 DEF Kept, NothingVanishes, DropLog
  <2>4. \A m \in Nodes : pc'[m] = "drop" => pc[m] = "drop" /\ rows'[m] = rows[m]
    BY <1>2 DEF TypeOK, DropLog, TurnOver
  <2>5. SentBeforeDropped'
    BY <1>0, <2>4 DEF Kept, SentBeforeDropped
  <2> QED
    BY <2>3, <2>5 DEF Kept
<1>3. ASSUME NEW n \in Nodes, SendLog(n) PROVE Kept'
  <2>1. rows[n] \subseteq RowsIn(logsIn')
    <3>1. [cut |-> FALSE, rows |-> rows[n]] \in LogMsg
      BY DEF TypeOK, LogMsg
    <3> QED
      BY <1>3, <3>1, RowsInAppend DEF TypeOK, SendLog
  <2>2. \A m \in Nodes : m # n => pc'[m] = pc[m]
    BY <1>3 DEF TypeOK, SendLog
  <2>3. UNCHANGED <<log, rows, logged>>
    BY <1>3 DEF SendLog
  <2> QED
    BY <1>0, <2>1, <2>2, <2>3 DEF Kept, NothingVanishes, SentBeforeDropped
<1>4. ASSUME UNCHANGED <<log, logged>>,
             \A m \in Nodes : pc'[m] = "drop" => pc[m] = "drop" /\ rows'[m] = rows[m]
      PROVE  Kept'
  BY <1>0, <1>4 DEF Kept, NothingVanishes, SentBeforeDropped
<1>5. ASSUME NEW n \in Nodes,
             GetLog(n) \/ SendLogFails(n) \/ DropLogFails(n) \/ NodeCrash(n)
      PROVE  Kept'
  <2>1. pc'[n] # "drop" \/ (pc'[n] = pc[n] /\ rows'[n] = rows[n])
    BY <1>5 DEF TypeOK, GetLog, SendLogFails, DropLogFails, NodeCrash, GiveUp, TurnOver
  <2>2. \A m \in Nodes : m # n => pc'[m] = pc[m] /\ rows'[m] = rows[m]
    BY <1>5 DEF TypeOK, GetLog, SendLogFails, DropLogFails, NodeCrash, GiveUp, TurnOver
  <2>3. UNCHANGED <<log, logged>>
    BY <1>5 DEF GetLog, SendLogFails, DropLogFails, NodeCrash
  <2> QED
    BY <2>1, <2>2, <2>3, <1>4
<1>6. ASSUME UNCHANGED <<log, logged, pc, rows>> PROVE Kept'
  BY <1>4, <1>6
<1>7. \/ UNCHANGED <<log, logged, pc, rows>>
      \/ \E n \in Nodes :
           \/ \E p \in Passages : LogPassage(n, p)
           \/ GetLog(n) \/ SendLog(n) \/ SendLogFails(n) \/ DropLog(n) \/ DropLogFails(n)
           \/ NodeCrash(n)
  BY DEF Next, LogSynchronizer, Synchronizer, SaveDbHandler, LogHandler, EditDatabase, ServerCrash,
         ServerEnds, StartSync, StartSyncFails, SendDb, SendDbFails, EndRound, SaveDb, SaveDbFails,
         vars, nodeVars
<1> QED
  BY <1>1, <1>2, <1>3, <1>5, <1>6, <1>7

(* For any nodes, passages, databases and bounds: a passage that was       *)
(* logged is kept somewhere or met with one of the three misfortunes.      *)
THEOREM PassagesAreKept == Spec => []NothingVanishes
<1>1. Init => TypeOK /\ Kept
  BY TypeInit, KeptInit
<1>2. TypeOK /\ Kept /\ [Next]_vars => (TypeOK /\ Kept)'
  BY TypeKept, KeptKept
<1>3. TypeOK /\ Kept => NothingVanishes
  BY DEF Kept
<1> QED
  BY <1>1, <1>2, <1>3, PTL DEF Spec

(* No row is deleted that has not left the node, or was written too late.  *)
THEOREM DropsWhatWasSent == Spec => []SentBeforeDropped
<1>1. Init => TypeOK /\ Kept
  BY TypeInit, KeptInit
<1>2. TypeOK /\ Kept /\ [Next]_vars => (TypeOK /\ Kept)'
  BY TypeKept, KeptKept
<1>3. TypeOK /\ Kept => SentBeforeDropped
  BY DEF Kept
<1> QED
  BY <1>1, <1>2, <1>3, PTL DEF Spec
=============================================================================
