------------------------------ MODULE AccessSync ------------------------------
(***************************************************************************)
(* The two streams of data of the access network.  A node logs passages    *)
(* and, every now and then, sends its log to the server and empties it     *)
(* (node/log_synchronizer.py); the server sends its database to the nodes  *)
(* (server/synchronizer.py), which replace theirs by it.  Both go over     *)
(* connections that carry one message each and are not answered            *)
(* (shared/network.py): a message counts as sent when it was written.      *)
(*                                                                         *)
(* A step is one statement on a database, or one message.  A node's        *)
(* database is SQLite: a transaction begins with its first write, until    *)
(* which other threads write freely, and keeps them out from there to its  *)
(* commit.  So the reading of the log is a step of its own, while deleting *)
(* and committing are one, and so is the replacement of the database.      *)
(***************************************************************************)
EXTENDS Integers, Sequences, FiniteSets

CONSTANTS
  Nodes,       (* nodes that have an address                               *)
  Passages,    (* passages, a row of a log each                            *)
  GoneFrom,    (* the version of the server's database from which on it no
                  longer holds the point of a passage                      *)
  LogTries,    (* tries of the log synchronizer                            *)
  DbTries,     (* tries of a Synchronizer                                  *)
  Threads,     (* Synchronizers: a bound on how many run at once           *)
  Backlog,     (* connections that wait for a handler, at most             *)
  MaxVersion,  (* bound on the changes of the server's database            *)
  MaxCrashes   (* bound on crashes                                         *)

ASSUME TriesAssumption == LogTries \in Nat \ {0} /\ DbTries \in Nat \ {0}
ASSUME GoneAssumption == GoneFrom \in [Passages -> Nat]
ASSUME BoundsAssumption ==
  Backlog \in Nat \ {0} /\ MaxVersion \in Nat /\ MaxCrashes \in Nat

Versions == 0 .. MaxVersion

VARIABLES
  log,       (* of each node: the rows of its table Log                    *)
  db,        (* of each node: the version of its database                  *)
  pc,        (* of each node: where its log synchronizer is                *)
  rows,      (* of each node: the rows in the message _log                 *)
  tries,     (* of each node: the tries its log synchronizer has left      *)
  dbsIn,     (* of each node: databases on connections not handled yet     *)
  hung,      (* nodes whose handler waits for the rest of a cut message    *)
  current,   (* the version of the server's database                       *)
  stored,    (* the rows of the server's table Log                         *)
  logsIn,    (* logs on connections the server has not handled yet         *)
  serverHung,
  server,    (* "runs"; "stops": its loop is over, its threads are not;
                "ended"                                                    *)
  syncs,     (* the Synchronizers that run                                 *)
  crashes,
  logged,    (* history: passages that were logged                         *)
  lost       (* history: rows that met with one of the three misfortunes
                named below: deleted unread, refused, or left in the queue
                of a server that crashed or ended                          *)

nodeVars == <<log, db, pc, rows, tries, dbsIn, hung>>
serverVars == <<current, stored, logsIn, serverHung, server, syncs>>
vars == <<nodeVars, serverVars, crashes, logged, lost>>

NoThread == [v |-> 0, todo |-> {}, bad |-> {}, tries |-> 0]
LogMsg == [cut : BOOLEAN, rows : SUBSET Passages]
DbMsg == [cut : BOOLEAN, v : Versions]
Sync == [v : Versions, todo : SUBSET Nodes, bad : SUBSET Nodes, tries : 0 .. DbTries]

(* Types.                                                                  *)
TypeOK ==
  /\ log \in [Nodes -> SUBSET Passages]
  /\ db \in [Nodes -> Versions]
  /\ pc \in [Nodes -> {"begin", "send", "drop"}]
  /\ rows \in [Nodes -> SUBSET Passages]
  /\ tries \in [Nodes -> 1 .. LogTries]
  /\ dbsIn \in [Nodes -> Seq(DbMsg)]
  /\ hung \subseteq Nodes
  /\ current \in Versions
  /\ stored \subseteq Passages
  /\ logsIn \in Seq(LogMsg)
  /\ serverHung \in BOOLEAN
  /\ server \in {"runs", "stops", "ended"}
  /\ syncs \in [Threads -> Sync]
  /\ crashes \in 0 .. MaxCrashes
  /\ logged \subseteq Passages
  /\ lost \subseteq Passages

Init ==
  /\ log = [n \in Nodes |-> {}]
  /\ db = [n \in Nodes |-> 0]
  /\ pc = [n \in Nodes |-> "begin"]
  /\ rows = [n \in Nodes |-> {}]
  /\ tries = [n \in Nodes |-> LogTries]
  /\ dbsIn = [n \in Nodes |-> <<>>]
  /\ hung = {}
  /\ current = 0
  /\ stored = {}
  /\ logsIn = <<>>
  /\ serverHung = FALSE
  /\ server = "runs"
  /\ syncs = [s \in Threads |-> NoThread]
  /\ crashes = 0
  /\ logged = {}
  /\ lost = {}

-----------------------------------------------------------------------------
(* The log, from the node to the server.                                   *)

(* turnstile._log, on the thread of a turnstile: one insert.               *)
LogPassage(n, p) ==
  /\ p \notin logged
  /\ log' = [log EXCEPT ![n] = @ \cup {p}]
  /\ logged' = logged \cup {p}
  /\ UNCHANGED <<db, pc, rows, tries, dbsIn, hung, serverVars, crashes, lost>>

(* A row whose point the node's database does not hold (any more): get_log *)
(* asks for the point, and raises.                                         *)
Orphaned(n) == \E p \in log[n] : db[n] >= GoneFrom[p]

(* get_log.  When it raises, the turn is over.                             *)
GetLog(n) ==
  /\ pc[n] = "begin"
  /\ ~Orphaned(n)
  /\ rows' = [rows EXCEPT ![n] = log[n]]
  /\ pc' = [pc EXCEPT ![n] = "send"]
  /\ UNCHANGED <<log, db, tries, dbsIn, hung, serverVars, crashes, logged, lost>>

SendLog(n) ==
  /\ pc[n] = "send"
  /\ tries[n] > 0
  /\ server # "ended"
  /\ Len(logsIn) < Backlog
  /\ logsIn' = Append(logsIn, [cut |-> FALSE, rows |-> rows[n]])
  /\ pc' = [pc EXCEPT ![n] = "drop"]
  /\ UNCHANGED <<log, db, rows, tries, dbsIn, hung, current, stored, serverHung, server,
                 syncs, crashes, logged, lost>>

(* The end of a turn: everything the next one starts from.                 *)
TurnOver(n) ==
  /\ pc' = [pc EXCEPT ![n] = "begin"]
  /\ rows' = [rows EXCEPT ![n] = {}]
  /\ tries' = [tries EXCEPT ![n] = LogTries]

(* After the last try.  Mutants: go on as if one had succeeded; do not     *)
(* take the tries up again.                                                *)
GoOn(n) == pc' = [pc EXCEPT ![n] = "drop"] /\ UNCHANGED <<rows, tries>>
WithoutReset(n) ==
  /\ pc' = [pc EXCEPT ![n] = "begin"]
  /\ rows' = [rows EXCEPT ![n] = {}]
  /\ tries' = [tries EXCEPT ![n] = 0]

GiveUp(n) == TurnOver(n)

(* No connection.                                                          *)
SendLogFails(n) ==
  /\ pc[n] = "send"
  /\ \/ /\ tries[n] > 1
        /\ tries' = [tries EXCEPT ![n] = @ - 1]
        /\ UNCHANGED <<pc, rows>>
     \/ /\ tries[n] = 1
        /\ GiveUp(n)
  /\ UNCHANGED <<log, db, dbsIn, hung, serverVars, crashes, logged, lost>>

(* drop_log deletes every row, also those logged since get_log.            *)
DropLog(n) ==
  /\ pc[n] = "drop"
  /\ log' = [log EXCEPT ![n] = {}]
  /\ lost' = lost \cup (log[n] \ rows[n])
  /\ TurnOver(n)
  /\ UNCHANGED <<db, dbsIn, hung, serverVars, crashes, logged>>

(* The deletion or the commit fails, and the rows are there again.         *)
DropLogFails(n) ==
  /\ pc[n] = "drop"
  /\ TurnOver(n)
  /\ UNCHANGED <<log, db, dbsIn, hung, serverVars, crashes, logged, lost>>

(* log_handler: the rows are stored in one transaction.  It fails when the *)
(* server's database does not hold the point of a row, which has a foreign *)
(* key there, or for reasons of its own.  While the server stops it may    *)
(* come to one more.                                                       *)
LogHandler ==
  /\ ~serverHung
  /\ server # "ended"
  /\ logsIn # <<>>
  /\ \/ /\ Head(logsIn).cut
        /\ serverHung' = TRUE
        /\ UNCHANGED <<stored, logsIn, lost>>
     \/ /\ ~Head(logsIn).cut
        /\ \A p \in Head(logsIn).rows : current < GoneFrom[p]
        /\ stored' = stored \cup Head(logsIn).rows
        /\ logsIn' = Tail(logsIn)
        /\ UNCHANGED <<serverHung, lost>>
     \/ /\ ~Head(logsIn).cut
        /\ lost' = lost \cup Head(logsIn).rows
        /\ logsIn' = Tail(logsIn)
        /\ UNCHANGED <<serverHung, stored>>
  /\ UNCHANGED <<nodeVars, current, server, syncs, crashes, logged>>

-----------------------------------------------------------------------------
(* The database, from the server to the nodes.                             *)

(* Whoever administers the server.  A point with stored passages stays:    *)
(* its foreign key is ON DELETE RESTRICT.                                  *)
EditDatabase ==
  /\ current < MaxVersion
  /\ \A p \in stored : current + 1 < GoneFrom[p]
  /\ current' = current + 1
  /\ UNCHANGED <<nodeVars, stored, logsIn, serverHung, server, syncs, crashes, logged, lost>>

(* get_sync_data; mutant: only once, before the loop.                      *)
FirstDb == 0
NewDb == current

(* Server.start, once a period, whether or not older Synchronizers run.    *)
StartSync(s) ==
  /\ server = "runs"
  /\ syncs[s] = NoThread
  /\ syncs' = [syncs EXCEPT ![s] =
                 [v |-> NewDb, todo |-> Nodes, bad |-> {}, tries |-> DbTries]]
  /\ UNCHANGED <<nodeVars, current, stored, logsIn, serverHung, server, crashes, logged, lost>>

(* get_sync_data raises, and that is the end of the loop: stop() lets no   *)
(* more logs be handled.  Synchronizers go on until they are through, and  *)
(* as long as they do, or a handler hangs, nodes can still connect.        *)
StartSyncFails ==
  /\ server = "runs"
  /\ server' = "stops"
  /\ UNCHANGED <<nodeVars, current, stored, logsIn, serverHung, syncs, crashes, logged, lost>>

SendDb(s, n) ==
  /\ n \in syncs[s].todo
  /\ Len(dbsIn[n]) < Backlog
  /\ dbsIn' = [dbsIn EXCEPT ![n] = Append(@, [cut |-> FALSE, v |-> syncs[s].v])]
  /\ syncs' = [syncs EXCEPT ![s].todo = @ \ {n}]
  /\ UNCHANGED <<log, db, pc, rows, tries, hung, current, stored, logsIn, serverHung, server,
                 crashes, logged, lost>>

SendDbFails(s, n) ==
  /\ n \in syncs[s].todo
  /\ syncs' = [syncs EXCEPT ![s].todo = @ \ {n}, ![s].bad = @ \cup {n}]
  /\ UNCHANGED <<nodeVars, current, stored, logsIn, serverHung, server, crashes, logged, lost>>

(* The thread ends, or tries the problematic nodes once more.              *)
EndRound(s) ==
  /\ syncs[s] # NoThread
  /\ syncs[s].todo = {}
  /\ \/ /\ syncs[s].bad = {} \/ syncs[s].tries = 1
        /\ syncs' = [syncs EXCEPT ![s] = NoThread]
     \/ /\ syncs[s].bad # {} /\ syncs[s].tries > 1
        /\ syncs' = [syncs EXCEPT ![s].todo = syncs[s].bad, ![s].bad = {}, ![s].tries = @ - 1]
  /\ UNCHANGED <<nodeVars, current, stored, logsIn, serverHung, server, crashes, logged, lost>>

(* save_db_handler: one transaction that empties the tables and fills them *)
(* from the message, or is rolled back.                                    *)
SaveDb(n) ==
  /\ n \notin hung
  /\ dbsIn[n] # <<>>
  /\ ~Head(dbsIn[n]).cut
  /\ db' = [db EXCEPT ![n] = Head(dbsIn[n]).v]
  /\ dbsIn' = [dbsIn EXCEPT ![n] = Tail(@)]
  /\ UNCHANGED <<log, pc, rows, tries, hung, serverVars, crashes, logged, lost>>

SaveDbFails(n) ==
  /\ n \notin hung
  /\ dbsIn[n] # <<>>
  /\ \/ /\ Head(dbsIn[n]).cut
        /\ hung' = hung \cup {n}
        /\ UNCHANGED dbsIn
     \/ /\ ~Head(dbsIn[n]).cut
        /\ dbsIn' = [dbsIn EXCEPT ![n] = Tail(@)]
        /\ UNCHANGED hung
  /\ UNCHANGED <<log, db, pc, rows, tries, serverVars, crashes, logged, lost>>

-----------------------------------------------------------------------------
(* Crashes.  The databases survive.  Whoever was sending leaves a message  *)
(* without its end, for which the other side waits for ever.               *)

NodeCrash(n) ==
  /\ crashes < MaxCrashes
  /\ crashes' = crashes + 1
  /\ TurnOver(n)
  /\ dbsIn' = [dbsIn EXCEPT ![n] = <<>>]
  /\ hung' = hung \ {n}
  /\ \/ UNCHANGED logsIn
     \/ /\ pc[n] = "send" /\ server # "ended"
        /\ Len(logsIn) < Backlog
        /\ logsIn' = Append(logsIn, [cut |-> TRUE, rows |-> {}])
  /\ UNCHANGED <<log, db, current, stored, serverHung, server, syncs, logged, lost>>

RowsIn(q) == UNION {q[i].rows : i \in DOMAIN q}

(* The process of a server that stopped ends, and its connections.         *)
ServerEnds ==
  /\ server = "stops" /\ ~serverHung
  /\ \A s \in Threads : syncs[s] = NoThread
  /\ server' = "ended"
  /\ lost' = lost \cup RowsIn(logsIn)
  /\ logsIn' = <<>>
  /\ UNCHANGED <<nodeVars, current, stored, serverHung, syncs, crashes, logged>>

(* The server dies, if it has not ended, and is started again.             *)
ServerCrash ==
  /\ crashes < MaxCrashes
  /\ crashes' = crashes + 1
  /\ syncs' = [s \in Threads |-> NoThread]
  /\ lost' = lost \cup RowsIn(logsIn)
  /\ logsIn' = <<>>
  /\ serverHung' = FALSE
  /\ server' = "runs"
  /\ \/ UNCHANGED dbsIn
     \/ \E s \in Threads : \E n \in syncs[s].todo :
          /\ Len(dbsIn[n]) < Backlog
          /\ dbsIn' = [dbsIn EXCEPT ![n] = Append(@, [cut |-> TRUE, v |-> 0])]
  /\ UNCHANGED <<log, db, pc, rows, tries, hung, current, stored, logged>>

-----------------------------------------------------------------------------
LogSynchronizer(n) == GetLog(n) \/ SendLog(n) \/ SendLogFails(n) \/ DropLog(n) \/ DropLogFails(n)
Synchronizer(s) == EndRound(s) \/ \E n \in Nodes : SendDb(s, n) \/ SendDbFails(s, n)
SaveDbHandler(n) == SaveDb(n) \/ SaveDbFails(n)

Next ==
  \/ \E n \in Nodes :
       \/ \E p \in Passages : LogPassage(n, p)
       \/ LogSynchronizer(n) \/ SaveDbHandler(n) \/ NodeCrash(n)
  \/ LogHandler \/ EditDatabase \/ StartSyncFails \/ ServerEnds \/ ServerCrash
  \/ \E s \in Threads : StartSync(s) \/ Synchronizer(s)

(* The loops run, and what is tried again and again succeeds some day: a   *)
(* connection, a transaction.  Nobody need pass, edit or crash.            *)
Fairness ==
  /\ \A n \in Nodes :
       /\ WF_vars(LogSynchronizer(n)) /\ SF_vars(SendLog(n)) /\ SF_vars(DropLog(n))
       /\ WF_vars(SaveDbHandler(n)) /\ SF_vars(SaveDb(n))
       /\ SF_vars(\E s \in Threads : SendDb(s, n))
  /\ \A s \in Threads : WF_vars(Synchronizer(s))
  /\ WF_vars(server = "runs" /\ LogHandler)
  /\ WF_vars(\E s \in Threads : StartSync(s))

Spec == Init /\ [][Next]_vars /\ Fairness

-----------------------------------------------------------------------------
(* A passage that was logged is in the log of a node, under way, or at the *)
(* server, unless it met with one of the three misfortunes the code lets   *)
(* happen; retries, failing commits and crashes of a node lose nothing     *)
(* (log_synchronizer.py:43-59).                                            *)
NothingVanishes ==
  logged \subseteq stored \cup lost \cup RowsIn(logsIn) \cup UNION {log[n] : n \in Nodes}

(* What the log synchronizer is about to delete has left the node: it is   *)
(* on its way, stored, or lost on the server's side                        *)
(* (log_synchronizer.py:48-56).                                            *)
SentBeforeDropped ==
  \A n \in Nodes : pc[n] = "drop" => rows[n] \subseteq stored \cup lost \cup RowsIn(logsIn)

(* Every passage reaches the server, or is lost in one of those ways; as   *)
(* long as the server runs, is not hung by half a message and no row of its*)
(* log is orphaned, which stops the log of the node.                       *)
EveryPassageSettled ==
  \A p \in Passages :
    p \in logged ~> \/ p \in stored \cup lost
                    \/ serverHung \/ server # "runs"
                    \/ \E n \in Nodes : p \in log[n] /\ Orphaned(n)

(* When the server's database is left alone, each node has it in the end,  *)
(* whatever Synchronizers of older versions still run                      *)
(* (synchronizer.py:33-51), unless its handler is hung, or the server has  *)
(* stopped and nobody starts it again.                                     *)
NodesCatchUp ==
  <>[](server # "runs" \/ \A n \in Nodes : db[n] = current \/ n \in hung)
=============================================================================
