------------------------------- MODULE Turnstile -------------------------------
(***************************************************************************)
(* An access point of a node of the access network: a turnstile with a     *)
(* reader and a lock in each direction                                     *)
(* (access_network/node/extensions/turnstile/turnstile.py), the node that  *)
(* collects the words of a key and starts a thread for each key            *)
(* (node/node.py, node/points_manager.py), and the confirmations its       *)
(* threads wait for.                                                       *)
(*                                                                         *)
(* The node has one thread that reads the bus, frame by frame; the threads *)
(* of the keys run at the same time, and share _is_busy and _conf_waiters  *)
(* without a lock.  A step of a thread ends where another thread may see   *)
(* the difference: between the look at one of them and its use, at every   *)
(* frame sent, at every row logged.  An exception ends the thread.         *)
(*                                                                         *)
(* Readers, locks and the controllers on the bus are outside the code: a   *)
(* controller does what a frame says that is addressed to it and confirms  *)
(* it, and any frame may be lost.  A frame to a controller carries numbers *)
(* that are packed into the same bits, so another point's may look alike.  *)
(*                                                                         *)
(* A word <<c, i>> is the i-th of card c, which is known to no code: that  *)
(* sees its data and whether it is the last.  The words of a key are added *)
(* up to a code, which may be another card's when a frame was lost.        *)
(***************************************************************************)
EXTENDS Integers, Sequences, FiniteSets

CONSTANTS
  Directions,   (* each with a reader and a lock                           *)
  Cards,
  WordsOf,      (* the data of the frames that carry the key of each card  *)
  Radix,        (* 2^element_offset                                        *)
  Rights,       (* what the scripts of the database say of the codes it
                   knows                                                   *)
  HwAddr,       (* of the controller of the turnstile                      *)
  LockOf,       (* device_id of the lock in each direction                 *)
  OtherLocks,   (* <<hw_addr, device_id>> of the locks of other points     *)
  MaxReadings,  (* bound on the cards that are put to the readers          *)
  MaxStray      (* bound on confirmations of other points' commands        *)

Helpers == {"open_lim_time", "open", "close", "deny"}

ASSUME CardsAssumption ==
  /\ WordsOf \in [Cards -> Seq(Nat)]
  /\ \A c \in Cards : WordsOf[c] # <<>>
ASSUME RightsAssumption == Rights \in [DOMAIN Rights -> Helpers]
ASSUME LocksAssumption ==
  /\ LockOf \in [Directions -> 0 .. 15]
  /\ \A d, e \in Directions : LockOf[d] = LockOf[e] => d = e
ASSUME SizesAssumption ==
  /\ Radix \in Nat \ {0} /\ HwAddr \in Nat /\ OtherLocks \subseteq Nat \X (0 .. 15)
  /\ MaxReadings \in Nat /\ MaxStray \in Nat

Words == {w \in Cards \X (Nat \ {0}) : w[2] \in DOMAIN WordsOf[w[1]]}
Data(word) == WordsOf[word[1]][word[2]]
IsLast(word) == word[2] = Len(WordsOf[word[1]])      (* last_frame_bit     *)
KeyOf(c) == [i \in 1 .. Len(WordsOf[c]) |-> <<c, i>>]
CardOf(key) == key[Len(key)][1]                      (* history            *)

(* in_lvl3_32ints.                                                         *)
Code(key) ==
  LET sum[i \in 0 .. Len(key)] ==
        IF i = 0 THEN 0 ELSE sum[i - 1] + Data(key[i]) * Radix ^ (i - 1)
  IN sum[Len(key)]

(* out_lvl2_common, out_lvl1: the lock's number is the id of the frame; in *)
(* the data it shares four bits with the controller's.                     *)
Bits(n) == {b \in 0 .. 3 : (n \div 2 ^ b) % 2 = 1}
Packed(hw_addr, device_id) ==
  [canid |-> device_id, bits |-> Bits(hw_addr) \cup Bits(device_id)]
Frames == [canid : 0 .. 15, bits : SUBSET (0 .. 3)]

(* The locks of the turnstile that a frame reaches, and those that no      *)
(* other point's frame reaches.                                            *)
Reached(frame) == {d \in Directions : Packed(HwAddr, LockOf[d]) = frame}
Alone == {d \in Directions : \A l \in OtherLocks : d \notin Reached(Packed(l[1], l[2]))}

VARIABLES
  shown,     (* history: cards that were put to each reader                *)
  readings,  (* how many                                                   *)
  words,     (* of each reader, on their way to the node                   *)
  confirmations, (* of the locks, on their way to the node                 *)
  torn,      (* history: readers of whose key in the buffer a word is
                missing or too much                                        *)
  buffer,    (* incomplete: words of a key that is not complete            *)
  threads,   (* of the keys, in the order they were started                *)
  busy,      (* _is_busy                                                   *)
  waiters,   (* _conf_waiters: locks whose confirmation nobody took        *)
  commands,  (* frames on their way to the controller                      *)
  lock,      (* "open" or "closed"                                         *)
  log,       (* keys that have a row in the log                            *)
  mixed,     (* history: sides where such a key was taken for that of a
                card that may open                                         *)
  mishaps    (* history: what else went wrong                              *)

readerVars == <<shown, readings, words, torn, buffer>>
lockVars == <<commands, lock, confirmations>>
vars == <<readerVars, waiters, threads, busy, lockVars, log, mixed, mishaps>>

(* Threads end early by these.                                             *)
Exceptions == {"no script", "database", "send", "sleep", "pop"}
Mishaps == Exceptions \cup {"race", "command", "unlimited"}

ThreadType ==
  [dir : Directions, key : Seq(Words) \ {<<>>},
   whole : BOOLEAN,      (* history: the key was not torn                  *)
   pc : {"check", "claim", "access", "do", "wait", "pop", "gone"},
   todo : Seq({"open", "sleep", "close", "log"})]

Inside(t) == threads[t].pc \in {"access", "do", "wait", "pop"}

(* Types; what is buffered is the beginning of a key, if it is not torn.   *)
TypeOK ==
  /\ shown \in [Directions -> SUBSET Cards]
  /\ readings \in 0 .. MaxReadings
  /\ words \in [Directions -> Seq(Words)]
  /\ confirmations \in Seq(Directions)
  /\ torn \subseteq Directions /\ mixed \subseteq Directions
  /\ buffer \in [Directions -> Seq(Words)]
  /\ \A d \in Directions \ torn : \A i \in DOMAIN buffer[d] : ~ IsLast(buffer[d][i])
  /\ threads \in Seq(ThreadType)
  /\ busy \in BOOLEAN
  /\ waiters \subseteq Directions
  /\ commands \in Seq([frame : Frames, signal : {"open", "closed"}, card : Cards])
  /\ lock \in [Directions -> {"open", "closed"}]
  /\ log \subseteq Seq(Words)
  /\ mishaps \subseteq Mishaps

Init ==
  /\ shown = [d \in Directions |-> {}]
  /\ readings = 0
  /\ words = [d \in Directions |-> <<>>]
  /\ confirmations = <<>>
  /\ torn = {}
  /\ mixed = {}
  /\ buffer = [d \in Directions |-> <<>>]
  /\ threads = <<>>
  /\ busy = FALSE
  /\ waiters = {}
  /\ commands = <<>>
  /\ lock = [d \in Directions |-> "closed"]
  /\ log = {}
  /\ mishaps = {}

-----------------------------------------------------------------------------
(* Outside.                                                                *)

(* A reader sends its words in order, so the next card can wait until those *)
(* of the last have come or were lost.                                     *)
ShowCard(d, c) ==
  /\ readings < MaxReadings
  /\ words[d] = <<>>
  /\ words' = [words EXCEPT ![d] = KeyOf(c)]
  /\ shown' = [shown EXCEPT ![d] = @ \cup {c}]
  /\ readings' = readings + 1
  /\ UNCHANGED <<torn, buffer, waiters, threads, busy, lockVars, log, mixed, mishaps>>

LoseWord(d) ==
  /\ words[d] # <<>>
  /\ words' = [words EXCEPT ![d] = Tail(@)]
  /\ torn' = torn \cup {d}
  /\ UNCHANGED <<shown, readings, buffer, waiters, threads, busy, lockVars, log, mixed, mishaps>>

(* The controller gets a command of the turnstile, or does not.            *)
Obey ==
  /\ commands # <<>>
  /\ commands' = Tail(commands)
  /\ \/ \E d \in Reached(Head(commands).frame) :
          /\ lock' = [lock EXCEPT ![d] = Head(commands).signal]
          /\ confirmations' \in {confirmations, Append(confirmations, d)}
          /\ UNCHANGED mishaps
     \/ /\ mishaps' = mishaps \cup {"command"}
        /\ UNCHANGED <<lock, confirmations>>
  /\ UNCHANGED <<readerVars, waiters, threads, busy, log, mixed>>

(* Another point of the network has its own lock moved.  Bound: no more    *)
(* than MaxStray confirmations are on their way when it is confirmed.      *)
OtherCommand(l, signal) ==
  /\ \E d \in Reached(Packed(l[1], l[2])) :
       /\ lock' = [lock EXCEPT ![d] = signal]
       /\ confirmations' \in {confirmations} \cup
            {c \in {Append(confirmations, d)} : Len(confirmations) < MaxStray}
  /\ UNCHANGED <<readerVars, waiters, threads, busy, commands, log, mixed, mishaps>>

-----------------------------------------------------------------------------
(* The thread that reads the bus.                                          *)

NewThread(d, key) ==
  [dir |-> d, key |-> key, whole |-> d \notin torn, pc |-> "check", todo |-> <<>>]

(* What is left of the buffer when a key is complete.  Mutant: all of it.  *)
StillThere(key) == key
Emptied(key) == <<>>

(* The last word starts a thread; where that raises, the key stays.        *)
ReceiveWord(d) ==
  /\ words[d] # <<>>
  /\ words' = [words EXCEPT ![d] = Tail(@)]
  /\ LET word == Head(words[d])
         key == Append(buffer[d], word)
     IN \/ /\ ~ IsLast(word)
           /\ buffer' = [buffer EXCEPT ![d] = key]
           /\ UNCHANGED <<threads, torn>>
        \/ /\ IsLast(word)
           /\ threads' = Append(threads, NewThread(d, key))
           /\ buffer' = [buffer EXCEPT ![d] = Emptied(key)]
           /\ torn' = torn \ {d}
        \/ /\ IsLast(word)
           /\ buffer' = [buffer EXCEPT ![d] = key]
           /\ torn' = torn \cup {d}
           /\ UNCHANGED threads
  /\ UNCHANGED <<shown, readings, waiters, busy, lockVars, log, mixed, mishaps>>

ReceiveConfirmation ==
  /\ confirmations # <<>>
  /\ confirmations' = Tail(confirmations)
  /\ waiters' = waiters \cup {Head(confirmations)}
  /\ UNCHANGED <<readerVars, threads, busy, commands, lock, log, mixed, mishaps>>

-----------------------------------------------------------------------------
(* The thread of a key.                                                    *)

Goto(t, pc) == threads' = [threads EXCEPT ![t].pc = pc]
Continue(t, pc) == threads' = [threads EXCEPT ![t].pc = pc, ![t].todo = Tail(@)]

(* process_msg catches the exception, logs it, and returns as it is.       *)
Raise(t, exception) ==
  /\ Goto(t, "gone")
  /\ mishaps' = mishaps \cup {exception}

(* Mutant: requests are never refused.                                     *)
NeverRefused == FALSE
Refused == busy

Check(t) ==
  /\ threads[t].pc = "check"
  /\ Goto(t, IF Refused THEN "gone" ELSE "claim")
  /\ UNCHANGED <<readerVars, waiters, busy, lockVars, log, mixed, mishaps>>

Claim(t) ==
  /\ threads[t].pc = "claim"
  /\ Goto(t, "access")
  /\ busy' = TRUE
  /\ mishaps' = mishaps \cup
       (IF \E u \in DOMAIN threads \ {t} : threads[u].pc = "claim" THEN {"race"} ELSE {})
  /\ UNCHANGED <<readerVars, waiters, lockVars, log, mixed>>

(* __check_access: a code that no script is about leaves res unassigned.   *)
Decision(key) == IF Code(key) \in DOMAIN Rights THEN Rights[Code(key)] ELSE "no script"

Opening == {"open_lim_time", "open"}
MayOpen == {c \in Cards : Decision(KeyOf(c)) \in Opening}

(* What the handlers of turnstile.py do.  Mutants: the signal is sent once *)
(* more; no row says that a lock was opened; a row is logged before the    *)
(* lock is closed.                                                         *)
Handler(helper) ==
  CASE helper = "open_lim_time" -> <<"open", "sleep", "close", "log", "log">>
    [] helper = "open" -> <<"open", "log">>
    [] helper = "close" -> <<"close", "log">>
    [] helper = "deny" -> <<"log">>

OpenTwice(helper) ==
  IF helper = "open_lim_time"
  THEN <<"open", "open", "sleep", "close", "log", "log">> ELSE Handler(helper)
NoRowOnOpening(helper) ==
  IF helper = "open_lim_time" THEN <<"open", "sleep", "close">> ELSE Handler(helper)
RowFirst(helper) ==
  IF helper = "open_lim_time"
  THEN <<"open", "sleep", "log", "close", "log">> ELSE Handler(helper)
Steps(helper) == Handler(helper)

Access(t) ==
  /\ threads[t].pc = "access"
  /\ LET helper == Decision(threads[t].key)
     IN \/ helper = "no script" /\ Raise(t, "no script") /\ UNCHANGED mixed
        \/ Raise(t, "database") /\ UNCHANGED mixed
        \/ /\ helper # "no script"
           /\ threads' = [threads EXCEPT ![t].pc = "do", ![t].todo = Steps(helper)]
           /\ mixed' = mixed \cup
                (IF helper \in Opening /\ ~ threads[t].whole THEN {threads[t].dir} ELSE {})
           /\ UNCHANGED mishaps
  /\ UNCHANGED <<readerVars, waiters, busy, lockVars, log>>

Does(t, step) ==
  /\ threads[t].pc = "do"
  /\ threads[t].todo # <<>>
  /\ Head(threads[t].todo) = step

(* _send_signal, until it waits for a confirmation.                        *)
SendSignal(t, step, signal) ==
  /\ Does(t, step)
  /\ \/ /\ commands' = Append(commands, [frame |-> Packed(HwAddr, LockOf[threads[t].dir]),
                                         signal |-> signal, card |-> CardOf(threads[t].key)])
        /\ Continue(t, "wait")
        /\ mishaps' = mishaps \cup
             (IF \A i \in DOMAIN threads[t].todo : threads[t].todo[i] # "close"
              THEN {"unlimited"} ELSE {})
     \/ Raise(t, "send") /\ UNCHANGED commands
  /\ UNCHANGED <<readerVars, waiters, busy, lock, confirmations, log, mixed>>

(* The argument comes from the script and need not be a duration.          *)
Sleep(t) ==
  /\ Does(t, "sleep")
  /\ \/ Continue(t, "do") /\ UNCHANGED mishaps
     \/ Raise(t, "sleep")
  /\ UNCHANGED <<readerVars, waiters, busy, lockVars, log, mixed>>

WriteRow(t) ==
  /\ Does(t, "log")
  /\ \/ log' = log \cup {threads[t].key} /\ Continue(t, "do") /\ UNCHANGED mishaps
     \/ Raise(t, "database") /\ UNCHANGED log
  /\ UNCHANGED <<readerVars, waiters, busy, lockVars, mixed>>

(* send_local_msg: there is a confirmation, or it has waited long enough.  *)
Wait(t) ==
  /\ threads[t].pc = "wait"
  /\ \/ threads[t].dir \in waiters /\ Goto(t, "pop")
     \/ Goto(t, "do")
  /\ UNCHANGED <<readerVars, waiters, busy, lockVars, log, mixed, mishaps>>

Pop(t) ==
  /\ threads[t].pc = "pop"
  /\ \/ /\ threads[t].dir \in waiters
        /\ waiters' = waiters \ {threads[t].dir}
        /\ Goto(t, "do")
        /\ UNCHANGED mishaps
     \/ /\ threads[t].dir \notin waiters
        /\ Raise(t, "pop")
        /\ UNCHANGED waiters
  /\ UNCHANGED <<readerVars, busy, lockVars, log, mixed>>

Finish(t) ==
  /\ threads[t].pc = "do"
  /\ threads[t].todo = <<>>
  /\ Goto(t, "gone")
  /\ busy' = FALSE
  /\ UNCHANGED <<readerVars, waiters, lockVars, log, mixed, mishaps>>

-----------------------------------------------------------------------------
Thread(t) ==
  \/ Check(t) \/ Claim(t) \/ Access(t)
  \/ SendSignal(t, "open", "open") \/ SendSignal(t, "close", "closed")
  \/ Sleep(t) \/ WriteRow(t)
  \/ Wait(t) \/ Pop(t) \/ Finish(t)

Next ==
  \/ \E d \in Directions : \E c \in Cards : ShowCard(d, c)
  \/ \E d \in Directions : LoseWord(d) \/ ReceiveWord(d)
  \/ ReceiveConfirmation
  \/ Obey
  \/ \E l \in OtherLocks, signal \in {"open", "closed"} : OtherCommand(l, signal)
  \/ \E t \in DOMAIN threads : Thread(t)

(* Threads go on, and the controller does what it is told or loses it.     *)
Fairness ==
  /\ WF_vars(Obey)
  /\ \A t \in 1 .. MaxReadings : WF_vars(t \in DOMAIN threads /\ Thread(t))

Spec == Init /\ [][Next]_vars /\ Fairness

-----------------------------------------------------------------------------
(* One request at a time is handled (turnstile.py:112), unless two threads *)
(* have looked at _is_busy before one of them set it; and the turnstile is *)
(* busy only while one is handled, unless an exception ended one.          *)
OneAtATime ==
  /\ "race" \notin mishaps =>
       \A t, u \in DOMAIN threads : Inside(t) /\ Inside(u) => t = u
  /\ busy => (\E t \in DOMAIN threads : Inside(t)) \/ mishaps \cap Exceptions # {}

(* A lock is open only for a card that was put to the reader on its own    *)
(* side and may open it (turnstile.py:122-135), even if words were lost of *)
(* other keys; unless words of several cards, or of one in part, came to a *)
(* code that may open (node.py:70, local_protocols.py:137), or the lock    *)
(* also hears another point's frames (local_protocols.py:59).  When all is *)
(* done there is a row about it, if no exception came in between.          *)
OpenedByItsCard ==
  \A d \in Alone \ mixed : lock[d] = "open" =>
    \E c \in shown[d] \cap MayOpen :
      \/ \E key \in log : Code(key) = Code(KeyOf(c))
      \/ \E t \in DOMAIN threads : Inside(t) /\ threads[t].key = KeyOf(c)
      \/ mishaps \cap Exceptions # {}

(* What may still open the lock of direction d for a showing of card c:    *)
(* its last word; a thread that has a key which ends with it and may have  *)
(* yet to send its signal; that signal.                                    *)
LastWords(d, c) == {i \in DOMAIN words[d] : IsLast(words[d][i]) /\ words[d][i][1] = c}
Signals(d, c) ==
  {i \in DOMAIN commands :
     /\ commands[i].signal = "open" /\ commands[i].card = c
     /\ d \in Reached(commands[i].frame)}
Openers(d, c) ==
  {t \in DOMAIN threads :
     /\ threads[t].dir = d /\ CardOf(threads[t].key) = c
     /\ \/ threads[t].pc \in {"check", "claim", "access"}
        \/ /\ threads[t].pc \in {"do", "wait", "pop"}
           /\ \E i \in DOMAIN threads[t].todo : threads[t].todo[i] = "open"}

UnderWay(d, c) ==
  Cardinality(LastWords(d, c)) + Cardinality(Openers(d, c)) + Cardinality(Signals(d, c))

Entrance == INSTANCE Gate WITH
  under_way <- [d \in Directions |-> [c \in Cards |-> UnderWay(d, c)]]

(* One showing of a card has its lock opened once at most, and not at all  *)
(* if the card may not, whatever words and signals are lost and whichever  *)
(* keys are refused or end in an exception (turnstile.py:63, node.py:70).  *)
(* Where mixed words came to a code that may open, a showing of any card   *)
(* may have been that, but still has it opened once at most.               *)
OneOpeningPerShowing == Entrance!Spec

(* A lock that was opened for a limited time is closed again               *)
(* (turnstile.py:63), also when the log cannot be written and when another *)
(* request is handled at the same time; unless a frame cannot be sent or   *)
(* gets lost, the script gave no duration to sleep, a second thread takes  *)
(* the confirmation this one has seen, or another point has it opened.     *)
ClosesAgain ==
  \A d \in Alone :
    lock[d] = "open" ~>
      lock[d] = "closed" \/ mishaps \cap {"send", "command", "sleep", "pop", "unlimited"} # {}

(* After a card without a script the next request is still processed.      *)
NextIsProcessed ==
  busy => \/ \E t \in DOMAIN threads : Inside(t)
          \/ mishaps \cap {"database", "send", "sleep", "pop"} # {}
=============================================================================
