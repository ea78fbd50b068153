--------------------------- MODULE Turnstile_proofs ---------------------------
(***************************************************************************)
(* What holds of a turnstile for any cards and scripts, any number of      *)
(* readings and any schedule of the threads.                               *)
(***************************************************************************)
EXTENDS Turnstile, SequenceTheorems, FunctionTheorems, FiniteSetTheorems, TLAPS

(* Types                                                                   *)

LEMMA KeyType ==
  ASSUME NEW c \in Cards
  PROVE  /\ KeyOf(c) \in Seq(Words) /\ KeyOf(c) # <<>>
         /\ Len(KeyOf(c)) = Len(WordsOf[c]) /\ Len(WordsOf[c]) \in Nat \ {0}
         /\ \A i \in DOMAIN KeyOf(c) : KeyOf(c)[i] = <<c, i>>
<1> DEFINE n == Len(WordsOf[c])
<1>1. n \in Nat \ {0} /\ DOMAIN WordsOf[c] = 1 .. n
  <2>1. WordsOf[c] \in Seq(Nat) /\ WordsOf[c] # <<>>
    BY CardsAssumption
  <2> QED
    BY <2>1
<1>2. KeyOf(c) = [i \in 1 .. n |-> <<c, i>>]
  BY DEF KeyOf
<1>3. \A i \in 1 .. n : <<c, i>> \in Words
  BY <1>1 DEF Words
<1> HIDE DEF n
<1>4. KeyOf(c) \in [1 .. n -> Words]
  BY <1>2, <1>3
<1>5. KeyOf(c) \in Seq(Words) /\ Len(KeyOf(c)) = n
  BY <1>1, <1>4, SeqDef
<1> QED
  BY <1>1, <1>2, <1>5 DEF n

LEMMA WordsAre == \A w \in Words : w[1] \in Cards
BY DEF Words

LEMMA CardType ==
  ASSUME NEW key \in Seq(Words), key # <<>>
  PROVE  CardOf(key) \in Cards
<1>1. Len(key) \in DOMAIN key
  OBVIOUS
<1>2. key[Len(key)] \in Words
  BY <1>1
<1> QED
  BY <1>2, WordsAre DEF CardOf

LEMMA ReachedIn == \A frame : Reached(frame) \subseteq Directions
BY DEF Reached

(* What is decided is something a handler is there for, or nothing.        *)
LEMMA DecisionType == \A key : Decision(key) \in Helpers \cup {"no script"}
BY RightsAssumption DEF Decision

Commands == [frame : Frames, signal : {"open", "closed"}, card : Cards]

LEMMA PackedType == \A d \in Directions : Packed(HwAddr, LockOf[d]) \in Frames
<1> SUFFICES ASSUME NEW d \in Directions PROVE Packed(HwAddr, LockOf[d]) \in Frames
  OBVIOUS
<1>1. LockOf[d] \in 0 .. 15
  BY LocksAssumption
<1>2. \A n : Bits(n) \subseteq 0 .. 3
  BY DEF Bits
<1> QED
  BY <1>1, <1>2 DEF Packed, Frames

LEMMA StepsAre ==
  /\ Steps("open_lim_time") = <<"open", "sleep", "close", "log", "log">>
  /\ Steps("open") = <<"open", "log">>
  /\ Steps("close") = <<"close", "log">>
  /\ Steps("deny") = <<"log">>
<1>1. Steps("open_lim_time") = <<"open", "sleep", "close", "log", "log">>
  BY DEF Steps, Handler
<1>2. Steps("open") = <<"open", "log">>
  BY DEF Steps, Handler
<1>3. Steps("close") = <<"close", "log">>
  BY DEF Steps, Handler
<1>4. Steps("deny") = <<"log">>
  BY DEF Steps, Handler
<1> QED
  BY <1>1, <1>2, <1>3, <1>4

(* What a handler does ends with a row.                                    *)
LEMMA StepsType ==
  ASSUME NEW h \in Helpers
  PROVE  /\ Steps(h) \in Seq({"open", "sleep", "close", "log"})
         /\ Len(Steps(h)) > 0 /\ Steps(h)[Len(Steps(h))] = "log"
<1>1. CASE h = "open_lim_time"
  <2> DEFINE s == <<"open", "sleep", "close", "log", "log">>
  <2>1. Len(s) = 5 /\ s[5] = "log"
    OBVIOUS
  <2>2. s \in Seq({"open", "sleep", "close", "log"})
    OBVIOUS
  <2>3. Steps(h) = s
    BY <1>1, StepsAre
  <2> HIDE DEF s
  <2>4. Len(Steps(h)) = 5 /\ Steps(h)[5] = "log"
    BY <2>1, <2>3
  <2> QED
    BY <2>2, <2>3, <2>4
<1>2. CASE h = "open"
  BY <1>2, StepsAre
<1>3. CASE h = "close"
  BY <1>3, StepsAre
<1>4. CASE h = "deny"
  BY <1>4, StepsAre
<1> QED
  BY <1>1, <1>2, <1>3, <1>4 DEF Helpers

LEMMA ThreadIs ==
  ASSUME TypeOK, NEW t \in DOMAIN threads
  PROVE  /\ threads[t] \in ThreadType
         /\ threads[t].dir \in Directions
         /\ threads[t].key \in Seq(Words) /\ threads[t].key # <<>>
         /\ CardOf(threads[t].key) \in Cards
         /\ threads[t].todo \in Seq({"open", "sleep", "close", "log"})
<1>1. threads[t] \in ThreadType
  BY DEF TypeOK
<1>2. /\ threads[t].dir \in Directions
      /\ threads[t].key \in Seq(Words) /\ threads[t].key # <<>>
      /\ threads[t].todo \in Seq({"open", "sleep", "close", "log"})
  BY <1>1 DEF ThreadType
<1> QED
  BY <1>1, <1>2, CardType

(* A thread that goes on is still a thread.                                *)
LEMMA TodoType ==
  ASSUME TypeOK, NEW t \in DOMAIN threads,
         NEW p \in {"check", "claim", "access", "do", "wait", "pop", "gone"},
         NEW s \in Seq({"open", "sleep", "close", "log"})
  PROVE  [threads EXCEPT ![t].pc = p, ![t].todo = s] \in Seq(ThreadType)
<1> DEFINE new == [threads[t] EXCEPT !.pc = p, !.todo = s]
<1>1. threads \in Seq(ThreadType)
  BY DEF TypeOK
<1>2. threads[t] \in ThreadType
  BY <1>1
<1>3. new \in ThreadType
  BY <1>2 DEF ThreadType
<1>4. [threads EXCEPT ![t] = new] \in Seq(ThreadType)
  BY <1>1, <1>3
<1>5. [threads EXCEPT ![t].pc = p, ![t].todo = s] = [threads EXCEPT ![t] = new]
  BY <1>1
<1> QED
  BY <1>4, <1>5

LEMMA GotoType ==
  ASSUME TypeOK, NEW t \in DOMAIN threads,
         NEW p \in {"check", "claim", "access", "do", "wait", "pop", "gone"}
  PROVE  [threads EXCEPT ![t].pc = p] \in Seq(ThreadType)
<1>1. threads[t] \in ThreadType
  BY DEF TypeOK
<1>2. [threads[t] EXCEPT !.pc = p] \in ThreadType
  BY <1>1 DEF ThreadType
<1> QED
  BY <1>2 DEF TypeOK

LEMMA TypeInit == Init => TypeOK
<1> SUFFICES ASSUME Init PROVE TypeOK
  OBVIOUS
<1>1. words \in [Directions -> Seq(Words)] /\ buffer \in [Directions -> Seq(Words)]
  BY DEF Init
<1>2. threads \in Seq(ThreadType) /\ confirmations \in Seq(Directions)
  BY DEF Init
<1>3. commands \in Seq(Commands)
  BY DEF Init
<1>4. \A d \in Directions : \A i \in DOMAIN buffer[d] : ~ IsLast(buffer[d][i])
  BY DEF Init
<1>5. readings \in 0 .. MaxReadings
  BY SizesAssumption DEF Init
<1> QED
  BY <1>1, <1>2, <1>3, <1>4, <1>5 DEF Init, TypeOK, Mishaps, Commands

LEMMA RaiseType ==
  ASSUME TypeOK, NEW t \in DOMAIN threads, NEW e \in Exceptions, Raise(t, e)
  PROVE  threads' \in Seq(ThreadType) /\ mishaps' \subseteq Mishaps
<1>1. threads' \in Seq(ThreadType)
  BY GotoType DEF Raise, Goto
<1>2. mishaps' \subseteq Mishaps
  BY DEF TypeOK, Raise, Mishaps
<1> QED
  BY <1>1, <1>2

LEMMA ContinueType ==
  ASSUME TypeOK, NEW t \in DOMAIN threads, threads[t].todo # <<>>,
         NEW p \in {"check", "claim", "access", "do", "wait", "pop", "gone"}, Continue(t, p)
  PROVE  threads' \in Seq(ThreadType)
<1>1. threads[t].todo \in Seq({"open", "sleep", "close", "log"})
  BY ThreadIs
<1>2. Tail(threads[t].todo) \in Seq({"open", "sleep", "close", "log"})
  BY <1>1
<1>3. threads' = [threads EXCEPT ![t].pc = p, ![t].todo = Tail(threads[t].todo)]
  BY DEF Continue, TypeOK
<1> QED
  BY <1>2, <1>3, TodoType

LEMMA ThreadTypeKept ==
  ASSUME TypeOK, NEW t \in DOMAIN threads, Thread(t)
  PROVE  TypeOK'
<1>1. ASSUME threads' \in Seq(ThreadType), mishaps' \subseteq Mishaps, busy' \in BOOLEAN,
             UNCHANGED <<readerVars, waiters, lockVars, log>>, mixed' \subseteq Directions
      PROVE  TypeOK'
  BY <1>1 DEF TypeOK, readerVars, lockVars, IsLast
<1>2. CASE Check(t)
  <2>1. threads' \in Seq(ThreadType)
    BY <1>2, GotoType DEF Check, Goto
  <2> QED
    BY <1>1, <1>2, <2>1 DEF Check, TypeOK
<1>3. CASE Claim(t)
  <2>1. threads' \in Seq(ThreadType)
    BY <1>3, GotoType DEF Claim, Goto
  <2>2. mishaps' \subseteq Mishaps /\ mixed' \subseteq Directions
    BY <1>3 DEF Claim, TypeOK, Mishaps
  <2> QED
    BY <1>1, <1>3, <2>1, <2>2 DEF Claim
<1>4. CASE Access(t)
  <2>0. mixed' \subseteq Directions
    <3>1. threads[t].dir \in Directions /\ mixed \subseteq Directions
      BY ThreadIs DEF TypeOK
    <3> QED
      BY <1>4, <3>1 DEF Access
  <2>1. CASE Raise(t, "no script") \/ Raise(t, "database")
    <3>1. threads' \in Seq(ThreadType) /\ mishaps' \subseteq Mishaps
      BY <2>1, RaiseType DEF Exceptions
    <3> QED
      BY <1>1, <1>4, <2>0, <3>1 DEF Access, TypeOK
  <2>2. CASE ~ (Raise(t, "no script") \/ Raise(t, "database"))
    <3> DEFINE h == Decision(threads[t].key)
    <3>1. /\ h # "no script" /\ UNCHANGED mishaps
          /\ threads' = [threads EXCEPT ![t].pc = "do", ![t].todo = Steps(h)]
      BY <1>4, <2>2 DEF Access
    <3>2. h \in Helpers
      BY <3>1, DecisionType
    <3>3. Steps(h) \in Seq({"open", "sleep", "close", "log"})
      BY <3>2, StepsType
    <3> HIDE DEF h
    <3>4. threads' \in Seq(ThreadType)
      BY <3>1, <3>3, TodoType
    <3> QED
      BY <1>1, <1>4, <2>0, <3>1, <3>4 DEF Access, TypeOK
  <2> QED
    BY <2>1, <2>2
<1>5. ASSUME NEW step \in {"open", "close"}, NEW signal \in {"open", "closed"},
             SendSignal(t, step, signal)
      PROVE  TypeOK'
  <2>1. CASE Raise(t, "send") /\ UNCHANGED commands
    BY <1>1, <1>5, <2>1, RaiseType DEF SendSignal, Exceptions, TypeOK, lockVars
  <2>2. CASE Continue(t, "wait")
    <3>1. threads' \in Seq(ThreadType)
      BY <1>5, <2>2, ContinueType DEF SendSignal, Does
    <3> DEFINE command == [frame |-> Packed(HwAddr, LockOf[threads[t].dir]),
                           signal |-> signal, card |-> CardOf(threads[t].key)]
    <3>2. command \in Commands
      BY ThreadIs, PackedType, <1>5 DEF Commands
    <3>3. commands' = commands \/ commands' = Append(commands, command)
      BY <1>5 DEF SendSignal
    <3> HIDE DEF command
    <3>4. commands' \in Seq(Commands)
      <4>1. commands \in Seq(Commands)
        BY DEF TypeOK, Commands
      <4> QED
        BY <3>2, <3>3, <4>1
    <3>5. mishaps' \subseteq Mishaps
      BY <1>5, RaiseType DEF SendSignal, TypeOK, Mishaps, Exceptions
    <3> QED
      BY <1>5, <3>1, <3>4, <3>5 DEF SendSignal, TypeOK, readerVars, Commands, IsLast
  <2> QED
    BY <1>5, <2>1, <2>2 DEF SendSignal
<1>6. CASE Sleep(t)
  <2>1. threads' \in Seq(ThreadType) /\ mishaps' \subseteq Mishaps
    BY <1>6, ContinueType, RaiseType DEF Sleep, Does, TypeOK, Exceptions
  <2> QED
    BY <1>1, <1>6, <2>1 DEF Sleep, TypeOK
<1>7. CASE WriteRow(t)
  <2>1. threads[t].key \in Seq(Words)
    BY ThreadIs
  <2>2. CASE Raise(t, "database") /\ UNCHANGED log
    BY <1>1, <1>7, <2>2, RaiseType DEF WriteRow, Exceptions, TypeOK
  <2>3. CASE log' = log \cup {threads[t].key} /\ Continue(t, "do") /\ UNCHANGED mishaps
    <3>1. threads' \in Seq(ThreadType)
      BY <1>7, <2>3, ContinueType DEF WriteRow, Does
    <3>2. log' \subseteq Seq(Words)
      BY <2>1, <2>3 DEF TypeOK
    <3> QED
      BY <1>7, <2>3, <3>1, <3>2 DEF WriteRow, TypeOK, readerVars, lockVars, IsLast
  <2> QED
    BY <1>7, <2>2, <2>3 DEF WriteRow
<1>8. CASE Wait(t)
  <2>1. threads' \in Seq(ThreadType)
    BY <1>8, GotoType DEF Wait, Goto
  <2> QED
    BY <1>1, <1>8, <2>1 DEF Wait, TypeOK
<1>9. CASE Pop(t)
  <2>1. threads' \in Seq(ThreadType) /\ mishaps' \subseteq Mishaps
    <3>1. CASE Goto(t, "do") /\ UNCHANGED mishaps
      BY <3>1, GotoType DEF Goto, TypeOK
    <3>2. CASE Raise(t, "pop")
      BY <3>2, RaiseType DEF Exceptions
    <3> QED
      BY <1>9, <3>1, <3>2 DEF Pop
  <2>2. waiters' \subseteq Directions
    BY <1>9 DEF Pop, TypeOK
  <2> QED
    BY <1>9, <2>1, <2>2 DEF Pop, TypeOK, readerVars, lockVars, IsLast
<1>10. CASE Finish(t)
  <2>1. threads' \in Seq(ThreadType)
    BY <1>10, GotoType DEF Finish, Goto
  <2> QED
    BY <1>1, <1>10, <2>1 DEF Finish, TypeOK
<1> QED
  BY <1>2, <1>3, <1>4, <1>5, <1>6, <1>7, <1>8, <1>9, <1>10 DEF Thread

LEMMA ReceiveWordType ==
  ASSUME TypeOK, NEW d \in Directions, ReceiveWord(d)
  PROVE  TypeOK'
<1>0. PICK word, key : word = Head(words[d]) /\ key = Append(buffer[d], word)
  OBVIOUS
<1>1. words[d] \in Seq(Words) /\ buffer[d] \in Seq(Words) /\ words[d] # <<>>
  BY DEF TypeOK, ReceiveWord
<1>2. Tail(words[d]) \in Seq(Words) /\ word \in Words
  BY <1>0, <1>1
<1>3. /\ key \in Seq(Words) /\ key # <<>>
      /\ \A i \in DOMAIN key :
           (i \in DOMAIN buffer[d] /\ key[i] = buffer[d][i]) \/ key[i] = word
  BY <1>0, <1>1, <1>2
<1>4. words' \in [Directions -> Seq(Words)]
  <2>1. words' = [words EXCEPT ![d] = Tail(words[d])]
    BY DEF ReceiveWord
  <2> QED
    BY <1>2, <2>1 DEF TypeOK
<1>5. UNCHANGED <<shown, readings, waiters, busy, lockVars, log, mixed, mishaps>>
  BY DEF ReceiveWord
<1>6. ASSUME threads' \in Seq(ThreadType), buffer' \in [Directions -> Seq(Words)],
             torn' \subseteq Directions,
             \A e \in Directions \ torn' : \A i \in DOMAIN buffer'[e] : ~ IsLast(buffer'[e][i])
      PROVE  TypeOK'
  BY <1>4, <1>5, <1>6 DEF TypeOK, lockVars, IsLast
<1>7. CASE ~ IsLast(word) /\ buffer' = [buffer EXCEPT ![d] = key] /\ UNCHANGED <<threads, torn>>
  <2>1. threads' \in Seq(ThreadType) /\ buffer' \in [Directions -> Seq(Words)] /\ torn' \subseteq Directions
    BY <1>3, <1>7 DEF TypeOK
  <2>2. \A e \in Directions \ torn' : \A i \in DOMAIN buffer'[e] : ~ IsLast(buffer'[e][i])
    BY <1>3, <1>7 DEF TypeOK
  <2> QED
    BY <1>6, <2>1, <2>2
<1>8. CASE /\ threads' = Append(threads, NewThread(d, key))
           /\ buffer' = [buffer EXCEPT ![d] = <<>>] /\ torn' = torn \ {d}
  <2>1. NewThread(d, key) \in ThreadType
    BY <1>3 DEF NewThread, ThreadType
  <2>2. threads' \in Seq(ThreadType)
    BY <1>8, <2>1 DEF TypeOK
  <2>3. <<>> \in Seq(Words) /\ buffer \in [Directions -> Seq(Words)]
    BY DEF TypeOK
  <2>4. buffer' \in [Directions -> Seq(Words)] /\ torn' \subseteq Directions
    BY <1>8, <2>3 DEF TypeOK
  <2>5. \A e \in Directions \ torn' : \A i \in DOMAIN buffer'[e] : ~ IsLast(buffer'[e][i])
    BY <1>8 DEF TypeOK
  <2> QED
    BY <1>6, <2>2, <2>4, <2>5
<1>9. CASE UNCHANGED threads /\ buffer' = [buffer EXCEPT ![d] = key] /\ torn' = torn \cup {d}
  <2>1. threads' \in Seq(ThreadType) /\ buffer' \in [Directions -> Seq(Words)] /\ torn' \subseteq Directions
    BY <1>3, <1>9 DEF TypeOK
  <2>2. \A e \in Directions \ torn' : \A i \in DOMAIN buffer'[e] : ~ IsLast(buffer'[e][i])
    BY <1>9 DEF TypeOK
  <2> QED
    BY <1>6, <2>1, <2>2
<1> QED
  BY <1>0, <1>7, <1>8, <1>9 DEF ReceiveWord, Emptied

LEMMA TypeKept == TypeOK /\ [Next]_vars => TypeOK'
<1> SUFFICES ASSUME TypeOK, [Next]_vars PROVE TypeOK'
  OBVIOUS
<1>1. ASSUME NEW d \in Directions, NEW c \in Cards, ShowCard(d, c) PROVE TypeOK'
  <2>1. words' \in [Directions -> Seq(Words)]
    BY <1>1, KeyType DEF ShowCard, TypeOK
  <2>2. shown' \in [Directions -> SUBSET Cards] /\ readings' \in 0 .. MaxReadings
    BY <1>1, SizesAssumption DEF ShowCard, TypeOK
  <2> QED
    BY <1>1, <2>1, <2>2 DEF ShowCard, TypeOK, lockVars, IsLast
<1>2. ASSUME NEW d \in Directions, LoseWord(d) PROVE TypeOK'
  <2>1. words[d] \in Seq(Words) /\ words[d] # <<>>
    BY <1>2 DEF LoseWord, TypeOK
  <2>2. Tail(words[d]) \in Seq(Words)
    BY <2>1
  <2>3. words' \in [Directions -> Seq(Words)]
    BY <1>2, <2>2 DEF LoseWord, TypeOK
  <2>4. torn' \subseteq Directions /\ torn \subseteq torn'
    BY <1>2 DEF LoseWord, TypeOK
  <2> QED
    BY <1>2, <2>3, <2>4 DEF LoseWord, TypeOK, lockVars, IsLast
<1>3. CASE Obey
  <2>1. commands \in Seq(Commands) /\ commands # <<>>
    BY <1>3 DEF Obey, TypeOK, Commands
  <2>2. Tail(commands) \in Seq(Commands) /\ Head(commands) \in Commands
    BY <2>1
  <2>3. Head(commands).signal \in {"open", "closed"}
    BY <2>2 DEF Commands
  <2>4. mishaps' \subseteq Mishaps
    BY <1>3 DEF Obey, TypeOK, Mishaps
  <2>5. lock' \in [Directions -> {"open", "closed"}]
    BY <1>3, <2>3, ReachedIn DEF Obey, TypeOK
  <2>6. confirmations' \in Seq(Directions)
    <3>1. \A d \in Directions : Append(confirmations, d) \in Seq(Directions)
      BY DEF TypeOK
    <3> QED
      BY <1>3, <3>1, ReachedIn DEF Obey, TypeOK
  <2> QED
    BY <1>3, <2>2, <2>4, <2>5, <2>6 DEF Obey, TypeOK, readerVars, Commands, IsLast
<1>4. ASSUME NEW l \in OtherLocks, NEW signal \in {"open", "closed"}, OtherCommand(l, signal)
      PROVE  TypeOK'
  <2>1. lock' \in [Directions -> {"open", "closed"}]
    BY <1>4, ReachedIn DEF OtherCommand, TypeOK
  <2>2. confirmations' \in Seq(Directions)
    <3>1. \A d \in Directions : Append(confirmations, d) \in Seq(Directions)
      BY DEF TypeOK
    <3> QED
      BY <1>4, <3>1, ReachedIn DEF OtherCommand, TypeOK
  <2> QED
    BY <1>4, <2>1, <2>2 DEF OtherCommand, TypeOK, readerVars, IsLast
<1>5. ASSUME NEW d \in Directions, ReceiveWord(d) PROVE TypeOK'
  BY <1>5, ReceiveWordType
<1>6. CASE ReceiveConfirmation
  <2>1. confirmations \in Seq(Directions) /\ confirmations # <<>>
    BY <1>6 DEF ReceiveConfirmation, TypeOK
  <2>2. Tail(confirmations) \in Seq(Directions) /\ Head(confirmations) \in Directions
    BY <2>1
  <2> QED
    BY <1>6, <2>2 DEF ReceiveConfirmation, TypeOK, readerVars, IsLast
<1>7. ASSUME NEW t \in DOMAIN threads, Thread(t) PROVE TypeOK'
  BY <1>7, ThreadTypeKept
<1>8. CASE UNCHANGED vars
  BY <1>8 DEF TypeOK, vars, readerVars, lockVars, IsLast
<1> QED
  BY <1>1, <1>2, <1>3, <1>4, <1>5, <1>6, <1>7, <1>8 DEF Next

(* The state of a node and its turnstile stays well typed: what is         *)
(* buffered is the beginning of a key, never its end, unless words were    *)
(* lost or a thread could not be started.                                  *)
THEOREM TypeCorrect == Spec => []TypeOK
<1>1. Init => TypeOK
  BY TypeInit
<1>2. TypeOK /\ [Next]_vars => TypeOK'
  BY TypeKept
<1> QED
  BY <1>1, <1>2, PTL DEF Spec

-----------------------------------------------------------------------------
(* One request at a time                                                   *)

Checks(t) == /\ threads[t].pc = "check" /\ threads'[t].pc \in {"gone", "claim"}
             /\ threads'[t].pc = "claim" => ~ busy
             /\ UNCHANGED busy
Claims(t) == /\ threads[t].pc = "claim" /\ threads'[t].pc = "access" /\ busy'
             /\ (\E u \in DOMAIN threads \ {t} : threads[u].pc = "claim") => "race" \in mishaps'
GoesOn(t) == /\ Inside(t) /\ threads'[t].pc \in {"do", "wait", "pop"}
             /\ UNCHANGED busy
Fails(t) == /\ Inside(t) /\ threads'[t].pc = "gone" /\ mishaps' \cap Exceptions # {}
            /\ UNCHANGED busy
Finishes(t) == /\ threads[t].pc = "do" /\ threads[t].todo = <<>> /\ threads'[t].pc = "gone"
               /\ ~ busy'

(* What a step of a thread is to the others.                               *)
LEMMA ThreadMoves ==
  ASSUME TypeOK, NEW t \in DOMAIN threads, Thread(t)
  PROVE  Checks(t) \/ Claims(t) \/ GoesOn(t) \/ Fails(t) \/ Finishes(t)
<1>1. threads \in Seq(ThreadType) /\ threads[t] \in ThreadType
  BY ThreadIs DEF TypeOK
<1>2. ASSUME NEW p, Goto(t, p) \/ Continue(t, p) PROVE threads'[t].pc = p
  BY <1>1, <1>2 DEF Goto, Continue, ThreadType
<1>3. ASSUME NEW e \in Exceptions, Raise(t, e), Inside(t), UNCHANGED busy PROVE Fails(t)
  <2>1. threads'[t].pc = "gone" /\ e \in mishaps'
    BY <1>2, <1>3 DEF Raise
  <2> QED
    BY <1>3, <2>1 DEF Fails
<1>4. CASE Check(t)
  BY <1>2, <1>4 DEF Check, Checks, Refused
<1>5. CASE Claim(t)
  BY <1>2, <1>5 DEF Claim, Claims
<1>6. CASE Access(t)
  <2>1. CASE Raise(t, "no script") \/ Raise(t, "database")
    BY <1>3, <1>6, <2>1 DEF Access, Inside, Exceptions
  <2>2. CASE threads' = [threads EXCEPT ![t].pc = "do",
                                        ![t].todo = Steps(Decision(threads[t].key))]
    <3>1. threads'[t].pc = "do"
      BY <1>1, <2>2 DEF ThreadType
    <3> QED
      BY <1>6, <3>1 DEF Access, Inside, GoesOn
  <2> QED
    BY <1>6, <2>1, <2>2 DEF Access
<1>7. ASSUME NEW step, NEW signal, SendSignal(t, step, signal) PROVE GoesOn(t) \/ Fails(t)
  BY <1>2, <1>3, <1>7 DEF SendSignal, Does, Inside, GoesOn, Exceptions
<1>8. CASE Sleep(t)
  BY <1>2, <1>3, <1>8 DEF Sleep, Does, Inside, GoesOn, Exceptions
<1>9. CASE WriteRow(t)
  BY <1>2, <1>3, <1>9 DEF WriteRow, Does, Inside, GoesOn, Exceptions
<1>10. CASE Wait(t)
  BY <1>2, <1>10 DEF Wait, Inside, GoesOn
<1>11. CASE Pop(t)
  BY <1>2, <1>3, <1>11 DEF Pop, Inside, GoesOn, Exceptions
<1>12. CASE Finish(t)
  BY <1>2, <1>12 DEF Finish, Finishes
<1> QED
  BY <1>4, <1>5, <1>6, <1>7, <1>8, <1>9, <1>10, <1>11, <1>12 DEF Thread

Same(t) == /\ threads'[t].key = threads[t].key /\ threads'[t].dir = threads[t].dir
           /\ threads'[t].whole = threads[t].whole

LEMMA OthersStay ==
  ASSUME TypeOK, NEW t \in DOMAIN threads, Thread(t)
  PROVE  /\ DOMAIN threads' = DOMAIN threads
         /\ \A u \in DOMAIN threads \ {t} : threads'[u] = threads[u]
         /\ Same(t)
         /\ mishaps \subseteq mishaps' /\ mixed \subseteq mixed'
         /\ log \subseteq log'
         /\ UNCHANGED <<readerVars, lock>>
<1>1. threads \in Seq(ThreadType) /\ threads[t] \in ThreadType
  BY ThreadIs DEF TypeOK
<1>2. ASSUME NEW p, Goto(t, p) \/ Continue(t, p)
      PROVE  /\ DOMAIN threads' = DOMAIN threads
             /\ \A u \in DOMAIN threads \ {t} : threads'[u] = threads[u]
             /\ Same(t)
  BY <1>1, <1>2 DEF Goto, Continue, ThreadType, Same
<1>3. CASE \E p : Goto(t, p) \/ Continue(t, p)
  <2>1. mishaps \subseteq mishaps' /\ log \subseteq log' /\ mixed \subseteq mixed'
    BY DEF Thread, Check, Claim, Access, SendSignal, Sleep, WriteRow, Wait, Pop, Finish, Raise
  <2>2. UNCHANGED <<readerVars, lock>>
    BY DEF Thread, Check, Claim, Access, SendSignal, Sleep, WriteRow, Wait, Pop, Finish, lockVars
  <2> QED
    BY <1>2, <1>3, <2>1, <2>2
<1>4. CASE Access(t)
  <2>1. CASE threads' = [threads EXCEPT ![t].pc = "do",
                                        ![t].todo = Steps(Decision(threads[t].key))]
    <3>1. /\ DOMAIN threads' = DOMAIN threads
          /\ \A u \in DOMAIN threads \ {t} : threads'[u] = threads[u]
          /\ Same(t)
      BY <1>1, <2>1 DEF ThreadType, Same
    <3> QED
      BY <1>4, <3>1 DEF Access, Raise, lockVars
  <2> QED
    BY <1>3, <1>4, <2>1 DEF Access, Raise
<1>5. Access(t) \/ \E p : Goto(t, p) \/ Continue(t, p)
  BY DEF Thread, Check, Claim, SendSignal, Sleep, WriteRow, Wait, Pop, Finish, Raise
<1> QED
  BY <1>3, <1>4, <1>5

(* Who is inside has claimed it, and nobody else is inside or about to be. *)
Only(t) == busy /\ \A u \in DOMAIN threads : Inside(u) \/ threads[u].pc = "claim" => u = t

OneInv ==
  /\ "race" \notin mishaps => \A t \in DOMAIN threads : Inside(t) => Only(t)
  /\ busy => (\E t \in DOMAIN threads : Inside(t)) \/ mishaps \cap Exceptions # {}

LEMMA OneInvThread ==
  ASSUME TypeOK, OneInv, NEW t \in DOMAIN threads, Thread(t)
  PROVE  OneInv'
<1>1. /\ DOMAIN threads' = DOMAIN threads
      /\ \A u \in DOMAIN threads \ {t} : threads'[u] = threads[u]
      /\ mishaps \subseteq mishaps'
  BY OthersStay
<1>2. \A u \in DOMAIN threads \ {t} : Inside(u)' <=> Inside(u)
  BY <1>1 DEF Inside
<1>3. CASE Checks(t)
  <2>1. ~ Inside(t) /\ ~ Inside(t)'
    BY <1>3 DEF Checks, Inside
  <2>2. ASSUME "race" \notin mishaps', NEW u \in DOMAIN threads', Inside(u)' PROVE Only(u)'
    <3>1. u # t /\ Inside(u) /\ "race" \notin mishaps
      BY <1>1, <1>2, <2>1, <2>2
    <3>2. Only(u)
      BY <1>1, <2>2, <3>1 DEF OneInv
    <3>3. threads'[t].pc # "claim"
      BY <1>3, <3>2 DEF Only, Checks
    <3> QED
      BY <1>1, <1>2, <1>3, <2>1, <3>2, <3>3 DEF Only, Checks
  <2>3. busy' => (\E u \in DOMAIN threads' : Inside(u)') \/ mishaps' \cap Exceptions # {}
    BY <1>1, <1>2, <1>3, <2>1 DEF OneInv, Checks
  <2> QED
    BY <2>2, <2>3 DEF OneInv
<1>4. CASE Claims(t)
  <2>1. ~ Inside(t) /\ Inside(t)' /\ busy'
    BY <1>4 DEF Claims, Inside
  <2>2. ASSUME "race" \notin mishaps', NEW u \in DOMAIN threads', Inside(u)' PROVE Only(u)'
    <3>1. "race" \notin mishaps
      BY <1>1, <2>2
    <3>2. \A v \in DOMAIN threads : ~ Inside(v)
      BY <1>4, <2>1, <3>1 DEF OneInv, Only, Claims
    <3>3. u = t
      BY <1>1, <1>2, <2>2, <3>2
    <3>4. \A v \in DOMAIN threads \ {t} : threads[v].pc # "claim"
      BY <1>4, <2>2 DEF Claims
    <3> QED
      BY <1>1, <1>2, <2>1, <3>2, <3>3, <3>4 DEF Only
  <2> QED
    BY <1>1, <2>1, <2>2 DEF OneInv
<1>5. CASE GoesOn(t)
  <2>1. Inside(t) /\ Inside(t)' /\ busy' = busy /\ threads'[t].pc # "claim"
    BY <1>5 DEF GoesOn, Inside
  <2>2. ASSUME "race" \notin mishaps', NEW u \in DOMAIN threads', Inside(u)' PROVE Only(u)'
    <3>1. Only(u)
      BY <1>1, <1>2, <2>1, <2>2 DEF OneInv
    <3> QED
      BY <1>1, <1>2, <2>1, <3>1 DEF Only
  <2> QED
    BY <1>1, <1>2, <2>1, <2>2 DEF OneInv
<1>6. CASE Fails(t)
  <2>1. Inside(t) /\ ~ Inside(t)' /\ busy' = busy /\ threads'[t].pc # "claim"
    BY <1>6 DEF Fails, Inside
  <2>2. ASSUME "race" \notin mishaps', NEW u \in DOMAIN threads', Inside(u)' PROVE Only(u)'
    <3>1. Only(u) /\ u # t
      BY <1>1, <1>2, <2>1, <2>2 DEF OneInv
    <3> QED
      BY <1>1, <1>2, <2>1, <3>1 DEF Only
  <2> QED
    BY <1>6, <2>2 DEF OneInv, Fails
<1>7. CASE Finishes(t)
  <2>1. Inside(t) /\ ~ Inside(t)' /\ ~ busy'
    BY <1>7 DEF Finishes, Inside
  <2>2. ASSUME "race" \notin mishaps', NEW u \in DOMAIN threads', Inside(u)' PROVE FALSE
    <3>1. Inside(u) /\ u # t /\ u \in DOMAIN threads /\ "race" \notin mishaps
      BY <1>1, <1>2, <2>1, <2>2
    <3> QED
      BY <2>1, <3>1 DEF OneInv, Only
  <2> QED
    BY <2>1, <2>2 DEF OneInv
<1> QED
  BY <1>3, <1>4, <1>5, <1>6, <1>7, ThreadMoves

LEMMA OneInvKept == TypeOK /\ OneInv /\ [Next]_vars => OneInv'
<1> SUFFICES ASSUME TypeOK, OneInv, [Next]_vars PROVE OneInv'
  OBVIOUS
<1>1. CASE UNCHANGED <<threads, busy>> /\ mishaps \subseteq mishaps'
  BY <1>1 DEF OneInv, Only, Inside
<1>2. ASSUME NEW b \in Directions, ReceiveWord(b) PROVE OneInv'
  <2>1. UNCHANGED <<busy, mishaps>>
    BY <1>2 DEF ReceiveWord
  <2>2. CASE UNCHANGED threads
    BY <1>1, <2>1, <2>2
  <2>3. CASE \E d, w : threads' = Append(threads, NewThread(d, w))
    <3>1. PICK d, w : threads' = Append(threads, NewThread(d, w))
      BY <2>3
    <3>2. /\ DOMAIN threads' = DOMAIN threads \cup {Len(threads) + 1}
          /\ threads'[Len(threads) + 1].pc = "check"
          /\ \A u \in DOMAIN threads : threads'[u] = threads[u]
      <4>1. threads \in Seq(ThreadType)
        BY DEF TypeOK
      <4>2. threads'[Len(threads) + 1] = NewThread(d, w)
        BY <3>1, <4>1
      <4>3. \A u \in DOMAIN threads : threads'[u] = threads[u]
        BY <3>1, <4>1
      <4>4. DOMAIN threads' = DOMAIN threads \cup {Len(threads) + 1}
        BY <3>1, <4>1
      <4> QED
        BY <4>2, <4>3, <4>4 DEF NewThread
    <3>3. \A u \in DOMAIN threads' :
            Inside(u)' \/ threads'[u].pc = "claim" => u \in DOMAIN threads
      BY <3>2 DEF Inside
    <3>4. \A u \in DOMAIN threads : Inside(u)' <=> Inside(u)
      BY <3>2 DEF Inside
    <3> QED
      BY <2>1, <3>2, <3>3, <3>4 DEF OneInv, Only
  <2> QED
    BY <1>2, <2>2, <2>3 DEF ReceiveWord
<1>3. ASSUME NEW t \in DOMAIN threads, Thread(t) PROVE OneInv'
  BY <1>3, OneInvThread
<1> QED
  BY <1>1, <1>2, <1>3
  DEF Next, LoseWord, ShowCard, Obey, OtherCommand, ReceiveConfirmation, vars

(* One request at a time is handled, unless two threads were about to      *)
(* claim the turnstile at once; and it is busy only while a request is     *)
(* handled, or after an exception.                                         *)
THEOREM OneRequest == Spec => []OneAtATime
<1>1. Init => TypeOK /\ OneInv
  BY TypeInit DEF Init, OneInv, Inside
<1>2. TypeOK /\ OneInv /\ [Next]_vars => (TypeOK /\ OneInv)'
  BY TypeKept, OneInvKept
<1>3. OneInv => OneAtATime
  BY DEF OneInv, Only, OneAtATime
<1> QED
  BY <1>1, <1>2, <1>3, PTL DEF Spec

-----------------------------------------------------------------------------
(* Whose card opened it                                                    *)

(* Of the words on their way only the last is a last one; where none is    *)
(* missing, those in the buffer and those on their way are one key of a    *)
(* card that was put to the reader; and a whole key is of such a card.     *)
ComesWhole(d) ==
  \/ words[d] = <<>> /\ buffer[d] = <<>>
  \/ words[d] # <<>> /\ \E c \in shown[d] : buffer[d] \o words[d] = KeyOf(c)

IsWhole(t) == \E c \in shown[threads[t].dir] : threads[t].key = KeyOf(c)

WordsInv ==
  /\ \A d \in Directions : \A i \in DOMAIN words[d] : IsLast(words[d][i]) <=> i = Len(words[d])
  /\ \A d \in Directions \ torn : ComesWhole(d)
  /\ \A t \in DOMAIN threads : threads[t].whole => IsWhole(t)

(* What a thread has still to do ends with a row, and has a lock opened    *)
(* only for a card that was shown and may, or where words were mixed.      *)
Working(t) == threads[t].pc \in {"do", "wait", "pop"}

Entitled(t) ==
  \/ threads[t].dir \in mixed
  \/ \E c \in shown[threads[t].dir] \cap MayOpen : threads[t].key = KeyOf(c)

Willing(t) ==
  /\ threads[t].todo # <<>> => threads[t].todo[Len(threads[t].todo)] = "log"
  /\ threads[t].todo = <<>> => threads[t].key \in log
  /\ \A i \in DOMAIN threads[t].todo : threads[t].todo[i] = "open" => Entitled(t)

WorkInv == \A t \in DOMAIN threads : Working(t) => Willing(t)

Known(c) ==
  \/ KeyOf(c) \in log
  \/ \E t \in DOMAIN threads : Inside(t) /\ threads[t].key = KeyOf(c)
  \/ mishaps \cap Exceptions # {}

MayBeOpen(d) == \E c \in shown[d] \cap MayOpen : Known(c)

OpenInv ==
  /\ \A i \in DOMAIN commands : commands[i].signal = "open" =>
       \A d \in Reached(commands[i].frame) :
         d \in mixed \/ (commands[i].card \in MayOpen /\ MayBeOpen(d))
  /\ \A d \in Alone : lock[d] = "open" => d \in mixed \/ MayBeOpen(d)

LEMMA TailEnds ==
  ASSUME NEW S, NEW s \in Seq(S), s # <<>>, s[Len(s)] = "log"
  PROVE  /\ Tail(s) = <<>> => Head(s) = "log"
         /\ Tail(s) # <<>> => Tail(s)[Len(Tail(s))] = "log"
         /\ \A i \in DOMAIN Tail(s) : i + 1 \in DOMAIN s /\ Tail(s)[i] = s[i + 1]
<1>1. Len(s) > 0 /\ Len(s) \in Nat /\ Len(Tail(s)) = Len(s) - 1 /\ Tail(s) \in Seq(S)
  OBVIOUS
<1>2. \A i \in DOMAIN Tail(s) : i + 1 \in DOMAIN s /\ Tail(s)[i] = s[i + 1]
  BY <1>1
<1>3. ASSUME Tail(s) = <<>> PROVE Head(s) = "log"
  <2>1. Len(s) = 1
    BY <1>1, <1>3
  <2> QED
    BY <2>1
<1>4. ASSUME Tail(s) # <<>> PROVE Tail(s)[Len(Tail(s))] = "log"
  <2>1. Len(Tail(s)) \in DOMAIN Tail(s)
    BY <1>1, <1>4
  <2> QED
    BY <1>1, <1>2, <2>1
<1> QED
  BY <1>2, <1>3, <1>4

LEMMA TailIn ==
  ASSUME NEW S, NEW s \in Seq(S), s # <<>>
  PROVE  /\ Head(s) = s[1] /\ 1 \in DOMAIN s
         /\ \A i \in DOMAIN Tail(s) : i + 1 \in DOMAIN s /\ Tail(s)[i] = s[i + 1]
<1>1. Len(s) > 0 /\ Len(s) \in Nat /\ Len(Tail(s)) = Len(s) - 1
  OBVIOUS
<1> QED
  BY <1>1

LEMMA AppendIn ==
  ASSUME NEW S, NEW s \in Seq(S), NEW e \in S, NEW i \in DOMAIN Append(s, e)
  PROVE  \/ i \in DOMAIN s /\ Append(s, e)[i] = s[i]
         \/ Append(s, e)[i] = e
OBVIOUS

LEMMA WordComes ==
  ASSUME NEW b \in Seq(Words), NEW w \in Seq(Words), w # <<>>
  PROVE  /\ Append(b, Head(w)) \o Tail(w) = b \o w
         /\ Tail(w) = <<>> => Append(b, Head(w)) = b \o w
<1>1. Head(w) \in Words /\ Tail(w) \in Seq(Words) /\ w = <<Head(w)>> \o Tail(w) /\ <<Head(w)>> \in Seq(Words)
  BY HeadTailProperties, AppendProperties
<1>2. Append(b, Head(w)) = b \o <<Head(w)>>
  BY <1>1, AppendIsConcat
<1>3. b \o w = (b \o <<Head(w)>>) \o Tail(w)
  BY <1>1, ConcatAssociative
<1>4. Append(b, Head(w)) \in Seq(Words)
  BY <1>1
<1>5. Append(b, Head(w)) \o <<>> = Append(b, Head(w))
  BY <1>4, ConcatEmptySeq
<1> QED
  BY <1>2, <1>3, <1>5

LEMMA TailLast ==
  ASSUME NEW w \in Seq(Words), w # <<>>, \A i \in DOMAIN w : IsLast(w[i]) <=> i = Len(w)
  PROVE  /\ \A i \in DOMAIN Tail(w) : IsLast(Tail(w)[i]) <=> i = Len(Tail(w))
         /\ IsLast(Head(w)) <=> Tail(w) = <<>>
<1>1. /\ Len(w) \in Nat \ {0} /\ Len(Tail(w)) = Len(w) - 1 /\ DOMAIN Tail(w) = 1 .. Len(w) - 1
      /\ DOMAIN w = 1 .. Len(w) /\ Head(w) = w[1] /\ \A i \in DOMAIN Tail(w) : Tail(w)[i] = w[i + 1]
  OBVIOUS
<1>2. Tail(w) = <<>> <=> Len(w) = 1
  <2>1. Tail(w) \in Seq(Words)
    OBVIOUS
  <2>2. Tail(w) = <<>> <=> Len(Tail(w)) = 0
    BY <2>1, EmptySeq
  <2> QED
    BY <1>1, <2>2
<1> QED
  BY <1>1, <1>2

LEMMA StaysWhole ==
  ASSUME NEW d, ComesWhole(d),
         words'[d] = words[d], buffer'[d] = buffer[d], shown[d] \subseteq shown'[d]
  PROVE  ComesWhole(d)'
<1>1. CASE words[d] = <<>> /\ buffer[d] = <<>>
  <2>1. words'[d] = <<>> /\ buffer'[d] = <<>>
    BY <1>1
  <2> QED
    BY <2>1 DEF ComesWhole
<1>2. ASSUME words[d] # <<>>, NEW c \in shown[d], buffer[d] \o words[d] = KeyOf(c)
      PROVE  ComesWhole(d)'
  <2>1. words'[d] # <<>> /\ c \in shown'[d] /\ buffer'[d] \o words'[d] = KeyOf(c)
    BY <1>2
  <2> QED
    BY <2>1 DEF ComesWhole, KeyOf
<1> QED
  BY <1>1, <1>2 DEF ComesWhole

LEMMA WordsInvReceive ==
  ASSUME TypeOK, WordsInv, NEW d \in Directions, ReceiveWord(d)
  PROVE  WordsInv'
<1>0. PICK word, key : word = Head(words[d]) /\ key = Append(buffer[d], word)
  OBVIOUS
<1>1. /\ words[d] \in Seq(Words) /\ buffer[d] \in Seq(Words) /\ words[d] # <<>>
      /\ threads \in Seq(ThreadType)
  BY DEF TypeOK, ReceiveWord
<1>2. words' = [words EXCEPT ![d] = Tail(words[d])] /\ UNCHANGED shown
  BY DEF ReceiveWord
<1>3. /\ \A i \in DOMAIN Tail(words[d]) : IsLast(Tail(words[d])[i]) <=> i = Len(Tail(words[d]))
      /\ IsLast(word) <=> Tail(words[d]) = <<>>
  BY <1>0, <1>1, TailLast DEF WordsInv
<1>4. \A e \in Directions : \A i \in DOMAIN words'[e] : IsLast(words'[e][i]) <=> i = Len(words'[e])
  BY <1>2, <1>3 DEF WordsInv, TypeOK
<1>5. words'[d] = Tail(words[d]) /\ \A e \in Directions \ {d} : words'[e] = words[e]
  BY <1>2 DEF TypeOK
<1>6. /\ key \o Tail(words[d]) = buffer[d] \o words[d]
      /\ Tail(words[d]) = <<>> => key = buffer[d] \o words[d]
  BY <1>0, <1>1, WordComes
<1>7. key \in Seq(Words) /\ key # <<>>
  <2>1. word \in Words
    BY <1>0, <1>1
  <2> QED
    BY <1>0, <1>1, <2>1
<1>8. \A e \in Directions \ {d} : buffer'[e] = buffer[e]
  BY DEF ReceiveWord, TypeOK
<1>9. \A e \in Directions \ {d} : e \notin torn => ComesWhole(e)'
  BY <1>2, <1>5, <1>8 DEF WordsInv, ComesWhole, KeyOf
<1>10. CASE ~ IsLast(word) /\ buffer' = [buffer EXCEPT ![d] = key] /\ UNCHANGED <<threads, torn>>
  <2>1. buffer'[d] = key
    BY <1>10 DEF TypeOK
  <2>2. ASSUME d \notin torn PROVE ComesWhole(d)'
    <3>1. ComesWhole(d)
      BY <2>2 DEF WordsInv
    <3>2. PICK c \in shown[d] : buffer[d] \o words[d] = KeyOf(c)
      BY <1>1, <3>1 DEF ComesWhole
    <3>3. words'[d] # <<>> /\ buffer'[d] \o words'[d] = KeyOf(c)
      BY <1>3, <1>5, <1>6, <1>10, <2>1, <3>2
    <3> QED
      BY <1>2, <3>3 DEF ComesWhole, KeyOf
  <2> QED
    BY <1>2, <1>4, <1>9, <1>10, <2>2 DEF WordsInv, IsWhole, KeyOf, IsLast
<1>11. CASE /\ IsLast(word) /\ threads' = Append(threads, NewThread(d, key))
            /\ buffer' = [buffer EXCEPT ![d] = <<>>] /\ torn' = torn \ {d}
  <2>1. buffer'[d] = <<>> /\ words'[d] = <<>>
    BY <1>3, <1>5, <1>11 DEF TypeOK
  <2>2. ComesWhole(d)'
    BY <2>1 DEF ComesWhole
  <2>3. NewThread(d, key) \in ThreadType
    BY <1>7 DEF NewThread, ThreadType
  <2>4. \A t \in DOMAIN threads' :
          (t \in DOMAIN threads /\ threads'[t] = threads[t]) \/ threads'[t] = NewThread(d, key)
    BY <1>1, <1>11, <2>3
  <2>5. ASSUME d \notin torn PROVE \E c \in shown[d] : key = KeyOf(c)
    <3>1. ComesWhole(d)
      BY <2>5 DEF WordsInv
    <3>2. PICK c \in shown[d] : buffer[d] \o words[d] = KeyOf(c)
      BY <1>1, <3>1 DEF ComesWhole
    <3> QED
      BY <1>3, <1>6, <1>11, <3>2
  <2>6. ASSUME NEW t \in DOMAIN threads', threads'[t].whole PROVE IsWhole(t)'
    <3>1. CASE t \in DOMAIN threads /\ threads'[t] = threads[t]
      BY <1>2, <2>6, <3>1 DEF WordsInv, IsWhole, KeyOf
    <3>2. CASE threads'[t] = NewThread(d, key)
      <4>1. threads'[t].dir = d /\ threads'[t].key = key /\ threads'[t].whole = (d \notin torn)
        BY <3>2 DEF NewThread
      <4>2. PICK c \in shown[d] : key = KeyOf(c)
        BY <2>5, <2>6, <4>1
      <4> QED
        BY <1>2, <4>1, <4>2 DEF IsWhole, KeyOf
    <3> QED
      BY <2>4, <3>1, <3>2
  <2> QED
    BY <1>4, <1>9, <1>11, <2>2, <2>6 DEF WordsInv, IsLast
<1>12. CASE UNCHANGED threads /\ torn' = torn \cup {d}
  BY <1>2, <1>4, <1>9, <1>12 DEF WordsInv, IsWhole, KeyOf, IsLast
<1> QED
  BY <1>0, <1>10, <1>11, <1>12 DEF ReceiveWord, Emptied

LEMMA WordsInvKept ==
  ASSUME TypeOK, WordsInv, [Next]_vars
  PROVE  WordsInv'
<1>1. ASSUME NEW d \in Directions, NEW c \in Cards, ShowCard(d, c) PROVE WordsInv'
  <2>1. /\ words[d] = <<>> /\ words' = [words EXCEPT ![d] = KeyOf(c)]
        /\ shown' = [shown EXCEPT ![d] = shown[d] \cup {c}]
        /\ UNCHANGED <<buffer, torn, threads>>
    BY <1>1 DEF ShowCard
  <2>2. /\ words'[d] = KeyOf(c) /\ c \in shown'[d]
        /\ \A e \in Directions \ {d} : words'[e] = words[e] /\ shown'[e] = shown[e]
        /\ \A e \in Directions : shown[e] \subseteq shown'[e]
    BY <2>1 DEF TypeOK
  <2>3. /\ KeyOf(c) \in Seq(Words) /\ KeyOf(c) # <<>>
        /\ \A i \in DOMAIN KeyOf(c) : IsLast(KeyOf(c)[i]) <=> i = Len(KeyOf(c))
    BY KeyType DEF IsLast
  <2>4. ASSUME NEW e \in Directions, NEW i \in DOMAIN words'[e]
        PROVE  IsLast(words'[e][i]) <=> i = Len(words'[e])
    <3>1. CASE e = d
      BY <2>2, <2>3, <2>4, <3>1
    <3>2. CASE e # d
      <4>1. words'[e] = words[e]
        BY <2>2, <3>2
      <4> QED
        BY <2>4, <4>1 DEF WordsInv
    <3> QED
      BY <3>1, <3>2
  <2>5. ASSUME NEW e \in Directions \ torn, e # d PROVE ComesWhole(e)'
    <3>1. /\ words'[e] = words[e] /\ buffer'[e] = buffer[e] /\ shown[e] \subseteq shown'[e]
          /\ ComesWhole(e)
      BY <2>1, <2>2, <2>5 DEF WordsInv
    <3> QED
      BY <3>1, StaysWhole
  <2>6. ASSUME d \notin torn PROVE ComesWhole(d)'
    <3>1. buffer[d] = <<>>
      BY <2>1, <2>6 DEF WordsInv, ComesWhole
    <3>2. buffer'[d] \o words'[d] = KeyOf(c)
      BY <2>1, <2>2, <2>3, <3>1, ConcatEmptySeq
    <3> QED
      BY <2>2, <2>3, <3>2 DEF ComesWhole, KeyOf
  <2>7. ASSUME NEW t \in DOMAIN threads, threads[t].whole PROVE IsWhole(t)'
    <3>1. threads[t].dir \in Directions
      BY ThreadIs
    <3> QED
      BY <2>1, <2>2, <2>7, <3>1 DEF WordsInv, IsWhole, KeyOf
  <2> QED
    BY <2>1, <2>4, <2>5, <2>6, <2>7 DEF WordsInv, IsLast
<1>2. ASSUME NEW d \in Directions, LoseWord(d) PROVE WordsInv'
  <2>1. /\ words[d] # <<>> /\ words' = [words EXCEPT ![d] = Tail(words[d])]
        /\ torn' = torn \cup {d} /\ UNCHANGED <<shown, buffer, threads>>
    BY <1>2 DEF LoseWord
  <2>2. \A i \in DOMAIN Tail(words[d]) : IsLast(Tail(words[d])[i]) <=> i = Len(Tail(words[d]))
    BY <2>1, TailLast DEF WordsInv, TypeOK
  <2>3. words'[d] = Tail(words[d]) /\ \A e \in Directions \ {d} : words'[e] = words[e]
    BY <2>1 DEF TypeOK
  <2>4. ASSUME NEW e \in Directions, NEW i \in DOMAIN words'[e]
        PROVE  IsLast(words'[e][i]) <=> i = Len(words'[e])
    <3>1. CASE e = d
      BY <2>2, <2>3, <2>4, <3>1
    <3>2. CASE e # d
      <4>1. words'[e] = words[e]
        BY <2>3, <3>2
      <4> QED
        BY <2>4, <4>1 DEF WordsInv
    <3> QED
      BY <3>1, <3>2
  <2>5. ASSUME NEW e \in Directions \ torn' PROVE ComesWhole(e)'
    <3>1. /\ words'[e] = words[e] /\ buffer'[e] = buffer[e] /\ shown[e] \subseteq shown'[e]
          /\ ComesWhole(e)
      BY <2>1, <2>3, <2>5 DEF WordsInv
    <3> QED
      BY <3>1, StaysWhole
  <2> QED
    BY <2>1, <2>4, <2>5 DEF WordsInv, IsWhole, KeyOf, IsLast
<1>3. ASSUME NEW d \in Directions, ReceiveWord(d) PROVE WordsInv'
  BY <1>3, WordsInvReceive
<1>4. ASSUME NEW t \in DOMAIN threads, Thread(t) PROVE WordsInv'
  <2>1. /\ DOMAIN threads' = DOMAIN threads /\ Same(t)
        /\ \A u \in DOMAIN threads \ {t} : threads'[u] = threads[u]
        /\ UNCHANGED <<shown, words, torn, buffer>>
    BY <1>4, OthersStay DEF readerVars
  <2>2. \A u \in DOMAIN threads : threads'[u].whole => IsWhole(u)'
    BY <2>1 DEF WordsInv, IsWhole, KeyOf, Same
  <2> QED
    BY <2>1, <2>2 DEF WordsInv, ComesWhole, KeyOf, IsLast
<1>5. CASE UNCHANGED <<readerVars, threads>>
  BY <1>5 DEF WordsInv, ComesWhole, IsWhole, KeyOf, IsLast, readerVars
<1> QED
  BY <1>1, <1>2, <1>3, <1>4, <1>5
  DEF Next, Obey, OtherCommand, ReceiveConfirmation, vars

(* Where it is decided that a lock is opened, a lock may be opened.        *)
LEMMA StepsOpen ==
  ASSUME NEW h \in Helpers, NEW i \in DOMAIN Steps(h), Steps(h)[i] = "open"
  PROVE  h \in Opening
<1>1. CASE h = "close"
  BY <1>1, StepsAre
<1>2. CASE h = "deny"
  BY <1>2, StepsAre
<1>3. CASE h \in {"open_lim_time", "open"}
  BY <1>3 DEF Opening
<1> QED
  BY <1>1, <1>2, <1>3 DEF Helpers

(* What is kept of what has been.                                          *)
LEMMA HistoryKept ==
  ASSUME TypeOK, [Next]_vars
  PROVE  /\ mixed \subseteq mixed' /\ log \subseteq log' /\ mishaps \subseteq mishaps'
         /\ \A d \in Directions : shown[d] \subseteq shown'[d]
<1>1. ASSUME NEW d \in Directions, NEW c \in Cards, ShowCard(d, c)
      PROVE  UNCHANGED <<mixed, log, mishaps>> /\ \A e \in Directions : shown[e] \subseteq shown'[e]
  BY <1>1 DEF ShowCard, TypeOK
<1>2. ASSUME NEW t \in DOMAIN threads, Thread(t)
      PROVE  /\ mixed \subseteq mixed' /\ log \subseteq log' /\ mishaps \subseteq mishaps'
             /\ UNCHANGED shown
  BY <1>2, OthersStay DEF readerVars
<1>3. CASE UNCHANGED <<mixed, log, shown>> /\ mishaps \subseteq mishaps'
  BY <1>3
<1> QED
  BY <1>1, <1>2, <1>3
  DEF Next, LoseWord, Obey, OtherCommand, ReceiveWord, ReceiveConfirmation, vars, readerVars

LEMMA EntitledKept ==
  ASSUME TypeOK, [Next]_vars, NEW t \in DOMAIN threads, t \in DOMAIN threads',
         threads'[t].key = threads[t].key, threads'[t].dir = threads[t].dir, Entitled(t)
  PROVE  Entitled(t)'
<1>1. mixed \subseteq mixed' /\ \A d \in Directions : shown[d] \subseteq shown'[d]
  BY HistoryKept
<1>2. threads[t].dir \in Directions
  BY ThreadIs
<1> QED
  BY <1>1, <1>2 DEF Entitled, KeyOf, MayOpen, Decision, Code, Data

LEMMA TodoKept ==
  ASSUME TypeOK, [Next]_vars, NEW t \in DOMAIN threads, t \in DOMAIN threads',
         threads'[t].key = threads[t].key, threads'[t].dir = threads[t].dir,
         threads'[t].todo = threads[t].todo, Willing(t)
  PROVE  Willing(t)'
<1>1. Entitled(t) => Entitled(t)'
  BY EntitledKept
<1>2. log \subseteq log'
  BY HistoryKept
<1> QED
  BY <1>1, <1>2 DEF Willing

LEMMA WorkInvThread ==
  ASSUME TypeOK, WordsInv, WorkInv, NEW t \in DOMAIN threads, Thread(t), Working(t)'
  PROVE  Willing(t)'
<1> DEFINE todo == threads[t].todo
           key == threads[t].key
<1>1. /\ threads \in Seq(ThreadType) /\ threads[t] \in ThreadType
      /\ todo \in Seq({"open", "sleep", "close", "log"})
  BY ThreadIs DEF TypeOK
<1>2. /\ threads'[t].key = key /\ threads'[t].dir = threads[t].dir
      /\ log \subseteq log' /\ t \in DOMAIN threads'
  BY OthersStay DEF Same
<1>3. ASSUME NEW p, Goto(t, p) PROVE threads'[t].pc = p /\ threads'[t].todo = todo
  BY <1>1, <1>3 DEF Goto, ThreadType
<1>4. ASSUME NEW p, Continue(t, p) PROVE threads'[t].todo = Tail(todo)
  BY <1>1, <1>4 DEF Continue, ThreadType
<1>5. \A e : ~ Raise(t, e)
  BY <1>3 DEF Raise, Working
<1>step. [Next]_vars
  BY DEF Next
<1>6. ASSUME Working(t), todo # <<>>,
             threads'[t].todo = Tail(todo), Head(todo) = "log" => key \in log'
      PROVE  Willing(t)'
  <2>1. Willing(t) /\ todo[Len(todo)] = "log"
    BY <1>6 DEF WorkInv, Willing
  <2>2. /\ Tail(todo) = <<>> => Head(todo) = "log"
        /\ Tail(todo) # <<>> => Tail(todo)[Len(Tail(todo))] = "log"
        /\ \A i \in DOMAIN Tail(todo) : i + 1 \in DOMAIN todo /\ Tail(todo)[i] = todo[i + 1]
    BY <1>1, <1>6, <2>1, TailEnds
  <2>3. \A i \in DOMAIN todo : todo[i] = "open" => Entitled(t)
    BY <2>1 DEF Willing
  <2>4. Entitled(t) => Entitled(t)'
    BY <1>2, <1>step, EntitledKept
  <2> HIDE DEF todo, key
  <2>5. \A i \in DOMAIN Tail(todo) : Tail(todo)[i] = "open" => Entitled(t)'
    BY <2>2, <2>3, <2>4
  <2> QED
    BY <1>2, <1>6, <2>2, <2>5 DEF Willing
<1>7. CASE Access(t)
  <2>0. PICK h : h = Decision(key)
    OBVIOUS
  <2>1. /\ h # "no script" /\ UNCHANGED readerVars
        /\ threads' = [threads EXCEPT ![t].pc = "do", ![t].todo = Steps(h)]
        /\ h \in Opening /\ ~ threads[t].whole => threads[t].dir \in mixed'
    BY <1>5, <1>7, <2>0 DEF Access
  <2>2. threads'[t].todo = Steps(h)
    BY <1>1, <2>1 DEF ThreadType
  <2>3. h \in Helpers
    BY <2>0, <2>1, DecisionType
  <2>4. Len(Steps(h)) > 0 /\ Steps(h)[Len(Steps(h))] = "log" /\ Steps(h) # <<>>
    BY <2>3, StepsType
  <2>5. ASSUME NEW i \in DOMAIN Steps(h), Steps(h)[i] = "open" PROVE Entitled(t)'
    <3>1. h \in Opening
      BY <2>3, <2>5, StepsOpen
    <3>2. CASE ~ threads[t].whole
      BY <1>2, <2>1, <3>1, <3>2 DEF Entitled
    <3>3. CASE threads[t].whole
      <4>1. PICK c \in shown[threads[t].dir] : key = KeyOf(c)
        BY <3>3 DEF WordsInv, IsWhole
      <4>2. c \in Cards
        BY ThreadIs DEF TypeOK
      <4>3. c \in MayOpen
        BY <2>0, <3>1, <4>1, <4>2 DEF MayOpen
      <4>4. Entitled(t)
        BY <4>1, <4>3 DEF Entitled
      <4> QED
        BY <1>2, <1>step, <4>4, EntitledKept
    <3> QED
      BY <3>2, <3>3
  <2> QED
    BY <2>2, <2>4, <2>5 DEF Willing
<1>8. CASE \E step, signal : SendSignal(t, step, signal) /\ step # "log"
  <2>1. Working(t) /\ todo # <<>> /\ Head(todo) # "log" /\ threads'[t].todo = Tail(todo)
    BY <1>4, <1>5, <1>8 DEF SendSignal, Does, Working
  <2> QED
    BY <1>6, <2>1
<1>9. CASE Sleep(t)
  <2>1. Working(t) /\ todo # <<>> /\ Head(todo) # "log" /\ threads'[t].todo = Tail(todo)
    BY <1>4, <1>5, <1>9 DEF Sleep, Does, Working
  <2> QED
    BY <1>6, <2>1
<1>10. CASE WriteRow(t)
  <2>1. Working(t) /\ todo # <<>> /\ key \in log' /\ threads'[t].todo = Tail(todo)
    BY <1>4, <1>5, <1>10 DEF WriteRow, Does, Working
  <2> QED
    BY <1>6, <2>1
<1>11. CASE Wait(t) \/ Pop(t)
  <2>1. Working(t) /\ threads'[t].todo = todo
    BY <1>3, <1>5, <1>11 DEF Wait, Pop, Working
  <2>2. Willing(t)
    BY <2>1 DEF WorkInv
  <2> QED
    BY <1>2, <1>step, <2>1, <2>2, TodoKept
<1>12. CASE Check(t) \/ Claim(t) \/ Finish(t)
  BY <1>3, <1>12 DEF Check, Claim, Finish, Working
<1> QED
  BY <1>7, <1>8, <1>9, <1>10, <1>11, <1>12 DEF Thread

(* A thread that is new has decided nothing yet.                           *)
LEMMA ThreadsAfter ==
  ASSUME TypeOK, NEW d \in Directions, ReceiveWord(d)
  PROVE  /\ \A t \in DOMAIN threads : t \in DOMAIN threads' /\ threads'[t] = threads[t]
         /\ \A t \in DOMAIN threads' :
              (t \in DOMAIN threads /\ threads'[t] = threads[t]) \/ threads'[t].pc = "check"
<1>1. CASE UNCHANGED threads
  BY <1>1
<1>2. ASSUME NEW key, threads' = Append(threads, NewThread(d, key))
      PROVE  /\ \A t \in DOMAIN threads : t \in DOMAIN threads' /\ threads'[t] = threads[t]
             /\ \A t \in DOMAIN threads' :
                  (t \in DOMAIN threads /\ threads'[t] = threads[t]) \/ threads'[t].pc = "check"
  <2>1. threads \in Seq(ThreadType)
    BY DEF TypeOK
  <2>2. /\ \A t \in DOMAIN threads : t \in DOMAIN threads' /\ threads'[t] = threads[t]
        /\ \A t \in DOMAIN threads' :
             (t \in DOMAIN threads /\ threads'[t] = threads[t]) \/ threads'[t] = NewThread(d, key)
    BY <1>2, <2>1
  <2> QED
    BY <2>2 DEF NewThread
<1> QED
  BY <1>1, <1>2 DEF ReceiveWord

LEMMA WorkInvKept ==
  ASSUME TypeOK, WordsInv, WorkInv, [Next]_vars
  PROVE  WorkInv'
<1>1. CASE UNCHANGED threads
  <2>1. ASSUME NEW t \in DOMAIN threads, Working(t) PROVE Willing(t)'
    BY <1>1, <2>1, TodoKept DEF WorkInv
  <2> QED
    BY <1>1, <2>1 DEF WorkInv, Working
<1>2. ASSUME NEW d \in Directions, ReceiveWord(d) PROVE WorkInv'
  <2> SUFFICES ASSUME NEW t \in DOMAIN threads', Working(t)' PROVE Willing(t)'
    BY DEF WorkInv
  <2>1. t \in DOMAIN threads /\ threads'[t] = threads[t]
    BY <1>2, ThreadsAfter DEF Working
  <2>2. Willing(t)
    BY <2>1 DEF WorkInv, Working
  <2> QED
    BY <2>1, <2>2, TodoKept
<1>3. ASSUME NEW t \in DOMAIN threads, Thread(t) PROVE WorkInv'
  <2>1. /\ DOMAIN threads' = DOMAIN threads
        /\ \A u \in DOMAIN threads \ {t} : threads'[u] = threads[u]
    BY <1>3, OthersStay
  <2> SUFFICES ASSUME NEW u \in DOMAIN threads, Working(u)' PROVE Willing(u)'
    BY <2>1 DEF WorkInv
  <2>2. CASE u = t
    BY <1>3, <2>2, WorkInvThread
  <2>3. CASE u # t
    <3>1. threads'[u] = threads[u] /\ Willing(u) /\ u \in DOMAIN threads'
      BY <2>1, <2>3 DEF WorkInv, Working
    <3> QED
      BY <3>1, TodoKept
  <2> QED
    BY <2>2, <2>3
<1> QED
  BY <1>1, <1>2, <1>3
  DEF Next, LoseWord, ShowCard, Obey, OtherCommand, ReceiveConfirmation, vars

(* Who may have a lock open, may so for ever.                              *)
LEMMA KnownKept ==
  ASSUME TypeOK, WorkInv, [Next]_vars, NEW c, Known(c)
  PROVE  Known(c)'
<1>1. log \subseteq log' /\ mishaps \subseteq mishaps'
  BY HistoryKept
<1>2. CASE KeyOf(c) \in log \/ mishaps \cap Exceptions # {}
  <2>1. KeyOf(c) \in log' \/ mishaps' \cap Exceptions # {}
    BY <1>1, <1>2
  <2> QED
    BY <2>1 DEF Known, KeyOf
<1>3. ASSUME NEW t \in DOMAIN threads, Inside(t), threads[t].key = KeyOf(c) PROVE Known(c)'
  <2>1. CASE t \in DOMAIN threads' /\ threads'[t] = threads[t]
    <3>1. Inside(t)' /\ threads'[t].key = KeyOf(c)
      BY <1>3, <2>1 DEF Inside
    <3> QED
      BY <2>1, <3>1 DEF Known, KeyOf
  <2>2. ASSUME NEW d \in Directions, ReceiveWord(d) PROVE Known(c)'
    BY <2>1, <2>2, ThreadsAfter
  <2>3. ASSUME NEW u \in DOMAIN threads, Thread(u) PROVE Known(c)'
    <3>1. /\ DOMAIN threads' = DOMAIN threads
          /\ t # u => threads'[t] = threads[t]
      BY <2>3, OthersStay
    <3>2. CASE t # u
      BY <2>1, <3>1, <3>2
    <3>3. CASE t = u
      <4>1. threads'[t].key = KeyOf(c)
        BY <1>3, <2>3, <3>3, OthersStay DEF Same
      <4>2. CASE Inside(t)'
        BY <3>1, <4>1, <4>2 DEF Known, KeyOf
      <4>3. CASE Fails(t)
        BY <4>3 DEF Known, Fails
      <4>4. CASE Finishes(t)
        <5>1. KeyOf(c) \in log
          BY <1>3, <4>4 DEF WorkInv, Willing, Working, Finishes
        <5> QED
          BY <1>2, <5>1
      <4>5. CASE GoesOn(t)
        BY <4>2, <4>5 DEF GoesOn, Inside
      <4>6. CASE Checks(t) \/ Claims(t)
        BY <1>3, <4>6 DEF Checks, Claims, Inside
      <4> QED
        BY <2>3, <3>3, <4>3, <4>4, <4>5, <4>6, ThreadMoves
    <3> QED
      BY <3>2, <3>3
  <2>4. CASE UNCHANGED threads
    BY <1>3, <2>1, <2>4
  <2> QED
    BY <2>2, <2>3, <2>4
    DEF Next, LoseWord, ShowCard, Obey, OtherCommand, ReceiveConfirmation, vars
<1> QED
  BY <1>2, <1>3 DEF Known

LEMMA MayBeOpenKept ==
  ASSUME TypeOK, WorkInv, [Next]_vars, NEW d \in Directions, MayBeOpen(d)
  PROVE  MayBeOpen(d)'
<1>1. shown[d] \subseteq shown'[d]
  BY HistoryKept
<1>2. PICK c \in shown[d] \cap MayOpen : Known(c)
  BY DEF MayBeOpen
<1>3. Known(c)'
  BY <1>2, KnownKept
<1> QED
  BY <1>1, <1>2, <1>3 DEF MayBeOpen, MayOpen, Decision, Code, Data, KeyOf

(* A frame for a lock of the turnstile reaches that lock and no other.     *)
LEMMA OwnFrame ==
  ASSUME NEW d \in Directions, NEW e \in Directions
  PROVE  e \in Reached(Packed(HwAddr, LockOf[d])) <=> e = d
<1>1. Packed(HwAddr, LockOf[e]) = Packed(HwAddr, LockOf[d]) => LockOf[e] = LockOf[d]
  BY DEF Packed
<1> QED
  BY <1>1, LocksAssumption DEF Reached

LEMMA KeyEnds ==
  ASSUME NEW c \in Cards
  PROVE  /\ CardOf(KeyOf(c)) = c
         /\ \A i \in DOMAIN KeyOf(c) : IsLast(KeyOf(c)[i]) /\ KeyOf(c)[i][1] = c <=> i = Len(KeyOf(c))
         /\ \A i \in DOMAIN KeyOf(c) : KeyOf(c)[i][1] = c
         /\ Len(KeyOf(c)) \in DOMAIN KeyOf(c)
<1>1. /\ KeyOf(c) \in Seq(Words) /\ KeyOf(c) # <<>> /\ Len(KeyOf(c)) = Len(WordsOf[c])
      /\ \A i \in DOMAIN KeyOf(c) : KeyOf(c)[i] = <<c, i>>
  BY KeyType
<1>2. Len(KeyOf(c)) \in DOMAIN KeyOf(c)
  BY <1>1
<1> QED
  BY <1>1, <1>2 DEF CardOf, IsLast

LEMMA OpenInvIsNext ==
  ASSUME \A i \in DOMAIN commands' : commands'[i].signal = "open" =>
           \A d \in Reached(commands'[i].frame) :
             d \in mixed' \/ (commands'[i].card \in MayOpen /\ MayBeOpen(d)'),
         \A d \in Alone : lock'[d] = "open" => d \in mixed' \/ MayBeOpen(d)'
  PROVE  OpenInv'
BY DEF OpenInv, Reached, Alone, Packed, Bits, MayOpen, Decision, Code, Data, KeyOf

LEMMA OpenInvKept ==
  ASSUME TypeOK, WordsInv, WorkInv, OpenInv, [Next]_vars
  PROVE  OpenInv'
<1>1. commands \in Seq(Commands)
  BY DEF TypeOK, Commands
<1>2. Alone \subseteq Directions
  BY DEF Alone
<1>3. ASSUME NEW d \in Directions, d \in mixed \/ MayBeOpen(d) PROVE d \in mixed' \/ MayBeOpen(d)'
  BY <1>3, HistoryKept, MayBeOpenKept
<1>4. ASSUME NEW i \in DOMAIN commands, commands[i].signal = "open",
             NEW d \in Reached(commands[i].frame)
      PROVE  d \in mixed' \/ (commands[i].card \in MayOpen /\ MayBeOpen(d)')
  <2>1. d \in mixed \/ (commands[i].card \in MayOpen /\ MayBeOpen(d))
    BY <1>4 DEF OpenInv
  <2>2. d \in Directions
    BY <1>4, ReachedIn
  <2> QED
    BY <2>1, <2>2, HistoryKept, MayBeOpenKept
<1>5. ASSUME NEW d \in Alone, lock[d] = "open" PROVE d \in mixed' \/ MayBeOpen(d)'
  BY <1>2, <1>3, <1>5 DEF OpenInv
<1>6. CASE UNCHANGED <<commands, lock>>
  BY <1>4, <1>5, <1>6, OpenInvIsNext
<1>7. CASE Obey
  <2>0. PICK first : first = Head(commands)
    OBVIOUS
  <2>1. commands # <<>> /\ commands' = Tail(commands)
    BY <1>7 DEF Obey
  <2>2. first = commands[1] /\ 1 \in DOMAIN commands
    BY <1>1, <2>0, <2>1, TailIn
  <2>3. \A i \in DOMAIN commands' : i + 1 \in DOMAIN commands /\ commands'[i] = commands[i + 1]
    BY <1>1, <2>1, TailIn
  <2>4. UNCHANGED lock \/ \E d \in Reached(first.frame) : lock' = [lock EXCEPT ![d] = first.signal]
    BY <1>7, <2>0 DEF Obey
  <2>5. ASSUME NEW i \in DOMAIN commands', commands'[i].signal = "open",
               NEW d \in Reached(commands'[i].frame)
        PROVE  d \in mixed' \/ (commands'[i].card \in MayOpen /\ MayBeOpen(d)')
    BY <1>4, <2>3, <2>5
  <2>6. ASSUME NEW d \in Alone, lock'[d] = "open" PROVE d \in mixed' \/ MayBeOpen(d)'
    <3>1. CASE lock[d] = "open"
      BY <1>5, <3>1
    <3>2. CASE lock[d] # "open"
      <4>1. d \in Reached(first.frame) /\ first.signal = "open"
        BY <1>2, <2>4, <2>6, <3>2 DEF TypeOK
      <4> QED
        BY <1>4, <2>2, <4>1
    <3> QED
      BY <3>1, <3>2
  <2> QED
    BY <2>5, <2>6, OpenInvIsNext
<1>8. ASSUME NEW l \in OtherLocks, NEW signal, OtherCommand(l, signal) PROVE OpenInv'
  <2>1. PICK e \in Reached(Packed(l[1], l[2])) : lock' = [lock EXCEPT ![e] = signal]
    BY <1>8 DEF OtherCommand
  <2>2. e \notin Alone
    BY <2>1 DEF Alone
  <2>3. \A d \in Alone : lock'[d] = lock[d]
    BY <1>2, <2>1, <2>2 DEF TypeOK
  <2>4. UNCHANGED commands
    BY <1>8 DEF OtherCommand
  <2> QED
    BY <1>4, <1>5, <2>3, <2>4, OpenInvIsNext
<1>9. ASSUME NEW t \in DOMAIN threads, NEW step, NEW signal, SendSignal(t, step, signal),
             signal = "open" => step = "open", signal \in {"open", "closed"}
      PROVE  OpenInv'
  <2>0. PICK d, command :
          /\ d = threads[t].dir
          /\ command = [frame |-> Packed(HwAddr, LockOf[d]), signal |-> signal,
                        card |-> CardOf(threads[t].key)]
    OBVIOUS
  <2>1. d \in Directions /\ CardOf(threads[t].key) \in Cards
    BY <2>0, ThreadIs
  <2>2. command \in Commands
    BY <1>9, <2>0, <2>1, PackedType DEF Commands
  <2>3. CASE UNCHANGED commands
    BY <1>6, <1>9, <2>3 DEF SendSignal
  <2>4. CASE commands' = Append(commands, command)
    <3>1. \A i \in DOMAIN commands' : (i \in DOMAIN commands /\ commands'[i] = commands[i])
                                      \/ commands'[i] = command
      BY <1>1, <2>2, <2>4, AppendIn
    <3>2. ASSUME signal = "open"
          PROVE  d \in mixed \/ (command.card \in MayOpen /\ MayBeOpen(d))
      <4>1. /\ threads[t].pc = "do" /\ threads[t].todo # <<>>
            /\ Head(threads[t].todo) = "open"
        BY <1>9, <3>2 DEF SendSignal, Does
      <4>2. threads[t].todo \in Seq({"open", "sleep", "close", "log"})
        BY ThreadIs
      <4>3. 1 \in DOMAIN threads[t].todo /\ threads[t].todo[1] = "open"
        BY <4>1, <4>2, TailIn
      <4>4. Entitled(t) /\ Inside(t)
        BY <4>1, <4>3 DEF WorkInv, Working, Willing, Inside
      <4>5. ASSUME NEW c \in shown[d] \cap MayOpen, threads[t].key = KeyOf(c)
            PROVE  command.card \in MayOpen /\ MayBeOpen(d)
        <5>1. command.card = c
          BY <2>0, <4>5, KeyEnds DEF MayOpen
        <5>2. MayBeOpen(d)
          BY <4>4, <4>5 DEF MayBeOpen, Known
        <5> QED
          BY <4>5, <5>1, <5>2
      <4> QED
        BY <2>0, <4>4, <4>5 DEF Entitled
    <3>3. ASSUME NEW e \in Reached(command.frame), signal = "open"
          PROVE  e \in mixed' \/ (command.card \in MayOpen /\ MayBeOpen(e)')
      <4>1. e = d
        BY <2>0, <2>1, <3>3, ReachedIn, OwnFrame
      <4> QED
        BY <2>1, <3>2, <3>3, <4>1, HistoryKept, MayBeOpenKept
    <3>4. command.signal = signal
      BY <2>0
    <3>5. ASSUME NEW i \in DOMAIN commands', commands'[i].signal = "open",
                 NEW e \in Reached(commands'[i].frame)
          PROVE  e \in mixed' \/ (commands'[i].card \in MayOpen /\ MayBeOpen(e)')
      BY <1>4, <3>1, <3>3, <3>4, <3>5
    <3>6. UNCHANGED lock
      BY <1>9 DEF SendSignal
    <3> QED
      BY <1>5, <3>5, <3>6, OpenInvIsNext
  <2> QED
    BY <1>9, <2>0, <2>3, <2>4 DEF SendSignal
<1>10. ASSUME NEW t \in DOMAIN threads, Thread(t) PROVE OpenInv'
  <2>1. CASE UNCHANGED <<commands, lock>>
    BY <1>6, <2>1
  <2>2. CASE SendSignal(t, "open", "open") \/ SendSignal(t, "close", "closed")
    BY <1>9, <2>2
  <2> QED
    BY <1>10, <2>1, <2>2
    DEF Thread, Check, Claim, Access, Sleep, WriteRow, Wait, Pop, Finish, lockVars
<1> QED
  BY <1>6, <1>7, <1>8, <1>10
  DEF Next, LoseWord, ShowCard, ReceiveWord, ReceiveConfirmation, vars, lockVars

(* A lock that hears nobody else is open only for a card that was put to   *)
(* the reader on its side and may open it, whatever words are lost of      *)
(* other keys and however threads interleave, until mixed words were       *)
(* taken there for a card that may; and a row is written about it, unless  *)
(* there was an exception.                                                 *)
THEOREM OpenedByCard == Spec => []OpenedByItsCard
<1> DEFINE CardInv == TypeOK /\ WordsInv /\ WorkInv /\ OpenInv
<1>1. Init => CardInv
  <2> SUFFICES ASSUME Init PROVE CardInv
    OBVIOUS
  <2>1. WordsInv /\ WorkInv /\ OpenInv
    BY DEF Init, WordsInv, ComesWhole, WorkInv, OpenInv, Alone
  <2> QED
    BY <2>1, TypeInit
<1>2. CardInv /\ [Next]_vars => CardInv'
  BY TypeKept, WordsInvKept, WorkInvKept, OpenInvKept
<1>3. CardInv => OpenedByItsCard
  BY DEF OpenInv, MayBeOpen, Known, OpenedByItsCard
<1> QED
  BY <1>1, <1>2, <1>3, PTL DEF Spec

-----------------------------------------------------------------------------
(* One opening for one showing                                             *)

(* How many elements of a sequence are in a set.                           *)
Places(s, S) == {i \in DOMAIN s : s[i] \in S}
Count(s, S) == Cardinality(Places(s, S))

LEMMA PlacesFinite ==
  ASSUME NEW T, NEW s \in Seq(T), NEW S
  PROVE  IsFiniteSet(Places(s, S)) /\ Count(s, S) \in Nat
<1>1. IsFiniteSet(1 .. Len(s))
  BY FS_Interval
<1>2. Places(s, S) \subseteq 1 .. Len(s)
  BY DEF Places
<1>3. IsFiniteSet(Places(s, S))
  BY <1>1, <1>2, FS_Subset
<1> QED
  BY <1>3, FS_CardinalityType DEF Count

LEMMA CountAppend ==
  ASSUME NEW T, NEW s \in Seq(T), NEW e \in T, NEW S
  PROVE  Count(Append(s, e), S) = Count(s, S) + (IF e \in S THEN 1 ELSE 0)
<1> DEFINE new == Append(s, e)
           n == Len(s) + 1
<1>1. /\ DOMAIN new = DOMAIN s \cup {n} /\ n \notin DOMAIN s
      /\ new[n] = e /\ \A i \in DOMAIN s : new[i] = s[i]
  OBVIOUS
<1> HIDE DEF new, n
<1>2. IsFiniteSet(Places(s, S)) /\ Count(s, S) \in Nat
  BY PlacesFinite
<1>3. CASE e \in S
  <2>1. Places(new, S) = Places(s, S) \cup {n} /\ n \notin Places(s, S)
    BY <1>1, <1>3 DEF Places
  <2> QED
    BY <1>2, <1>3, <2>1, FS_AddElement DEF Count, new
<1>4. CASE e \notin S
  <2>1. Places(new, S) = Places(s, S)
    BY <1>1, <1>4 DEF Places
  <2> QED
    BY <1>2, <1>4, <2>1 DEF Count, new
<1> QED
  BY <1>3, <1>4

LEMMA CountTail ==
  ASSUME NEW T, NEW s \in Seq(T), s # <<>>, NEW S
  PROVE  Count(Tail(s), S) = Count(s, S) - (IF Head(s) \in S THEN 1 ELSE 0)
<1> DEFINE A == Places(s, S) \ {1}
           B == Places(Tail(s), S)
           f == [i \in A |-> i - 1]
<1>1. /\ Tail(s) \in Seq(T) /\ Len(Tail(s)) = Len(s) - 1 /\ Len(s) \in Nat \ {0}
      /\ Head(s) = s[1] /\ DOMAIN s = 1 .. Len(s) /\ DOMAIN Tail(s) = 1 .. Len(Tail(s))
      /\ \A i \in DOMAIN Tail(s) : Tail(s)[i] = s[i + 1]
  OBVIOUS
<1>2. IsFiniteSet(Places(s, S)) /\ Count(s, S) \in Nat
  BY PlacesFinite
<1>3. \A i \in A : i - 1 \in B
  BY <1>1 DEF Places
<1>4. \A j \in B : j + 1 \in A /\ (j + 1) - 1 = j
  BY <1>1 DEF Places
<1>5. \A i, j \in A : i - 1 = j - 1 => i = j
  BY <1>1 DEF Places
<1> HIDE DEF A, B
<1>6. f \in Bijection(A, B)
  <2>1. f \in [A -> B] /\ \A i, j \in A : f[i] = f[j] => i = j
    BY <1>3, <1>5
  <2>2. \A j \in B : \E i \in A : f[i] = j
    BY <1>4
  <2> QED
    BY <2>1, <2>2, Fun_IsBij
<1>7. ExistsBijection(A, B)
  BY <1>6, Fun_ExistsBij
<1>8. IsFiniteSet(A) /\ Cardinality(A) = Count(s, S) - (IF 1 \in Places(s, S) THEN 1 ELSE 0)
  BY <1>2, FS_RemoveElement DEF A, Count
<1>9. Cardinality(B) = Cardinality(A)
  BY <1>7, <1>8, FS_Bijection
<1>10. 1 \in Places(s, S) <=> Head(s) \in S
  BY <1>1 DEF Places
<1> QED
  BY <1>8, <1>9, <1>10 DEF Count, B

LastOf(c) == {w \in Words : IsLast(w) /\ w[1] = c}
OpenSignals(d, c) ==
  {k \in Commands : k.signal = "open" /\ k.card = c /\ d \in Reached(k.frame)}

(* What is under way, as counts.                                           *)
LEMMA UnderWayIs ==
  ASSUME TypeOK, NEW d \in Directions, NEW c \in Cards
  PROVE  /\ UnderWay(d, c) = Count(words[d], LastOf(c)) + Cardinality(Openers(d, c))
                             + Count(commands, OpenSignals(d, c))
         /\ Count(words[d], LastOf(c)) \in Nat /\ Count(commands, OpenSignals(d, c)) \in Nat
         /\ IsFiniteSet(Openers(d, c)) /\ Cardinality(Openers(d, c)) \in Nat
         /\ UnderWay(d, c) \in Nat
<1>1. words[d] \in Seq(Words) /\ commands \in Seq(Commands) /\ threads \in Seq(ThreadType)
  BY DEF TypeOK, Commands
<1>2. LastWords(d, c) = Places(words[d], LastOf(c))
  <2>1. \A i \in DOMAIN words[d] : words[d][i] \in Words
    BY <1>1
  <2> QED
    BY <2>1 DEF LastWords, Places, LastOf
<1>3. Signals(d, c) = Places(commands, OpenSignals(d, c))
  <2>1. \A i \in DOMAIN commands : commands[i] \in Commands
    BY <1>1
  <2> QED
    BY <2>1 DEF Signals, Places, OpenSignals
<1>4. Count(words[d], LastOf(c)) \in Nat /\ Count(commands, OpenSignals(d, c)) \in Nat
  BY <1>1, PlacesFinite
<1>5. IsFiniteSet(Openers(d, c))
  <2>1. IsFiniteSet(1 .. Len(threads))
    BY <1>1, FS_Interval
  <2>2. Openers(d, c) \subseteq 1 .. Len(threads)
    BY <1>1 DEF Openers
  <2> QED
    BY <2>1, <2>2, FS_Subset
<1>6. Cardinality(Openers(d, c)) \in Nat
  BY <1>5, FS_CardinalityType
<1>7. UnderWay(d, c) = Count(words[d], LastOf(c)) + Cardinality(Openers(d, c))
                       + Count(commands, OpenSignals(d, c))
  BY <1>2, <1>3 DEF UnderWay, Count
<1> QED
  BY <1>4, <1>5, <1>6, <1>7

(* The same in the next state.                                             *)
LEMMA UnderWayIsNext ==
  ASSUME TypeOK', NEW d \in Directions, NEW c \in Cards
  PROVE  /\ UnderWay(d, c)' = Count(words'[d], LastOf(c)) + Cardinality(Openers(d, c)')
                              + Count(commands', OpenSignals(d, c))
         /\ Count(words'[d], LastOf(c)) \in Nat /\ Count(commands', OpenSignals(d, c)) \in Nat
         /\ IsFiniteSet(Openers(d, c)') /\ Cardinality(Openers(d, c)') \in Nat
         /\ UnderWay(d, c)' \in Nat
<1>1. words'[d] \in Seq(Words) /\ commands' \in Seq(Commands) /\ threads' \in Seq(ThreadType)
  BY DEF TypeOK, Commands
<1>2. LastWords(d, c)' = Places(words'[d], LastOf(c))
  <2>1. \A i \in DOMAIN words'[d] : words'[d][i] \in Words
    BY <1>1
  <2> QED
    BY <2>1 DEF LastWords, Places, LastOf, IsLast
<1>3. Signals(d, c)' = Places(commands', OpenSignals(d, c))
  <2>1. \A i \in DOMAIN commands' : commands'[i] \in Commands
    BY <1>1
  <2> QED
    BY <2>1 DEF Signals, Places, OpenSignals, Reached, Packed, Bits
<1>4. Count(words'[d], LastOf(c)) \in Nat /\ Count(commands', OpenSignals(d, c)) \in Nat
  BY <1>1, PlacesFinite
<1>5. IsFiniteSet(Openers(d, c)')
  <2>1. IsFiniteSet(1 .. Len(threads'))
    BY <1>1, FS_Interval
  <2>2. Openers(d, c)' \subseteq 1 .. Len(threads')
    BY <1>1 DEF Openers
  <2> QED
    BY <2>1, <2>2, FS_Subset
<1>6. Cardinality(Openers(d, c)') \in Nat
  BY <1>5, FS_CardinalityType
<1>7. UnderWay(d, c)' = Count(words'[d], LastOf(c)) + Cardinality(Openers(d, c)')
                        + Count(commands', OpenSignals(d, c))
  BY <1>2, <1>3 DEF UnderWay, Count
<1> QED
  BY <1>4, <1>5, <1>6, <1>7

(* What is under way, as a gate sees it.                                   *)
Shows == [d \in Directions |-> [c \in Cards |-> UnderWay(d, c)]]

LEMMA ShowsAre ==
  /\ \A d \in Directions, c \in Cards : Shows[d][c] = UnderWay(d, c)
  /\ \A d \in Directions, c \in Cards : Shows'[d][c] = UnderWay(d, c)'
BY DEF Shows

LEMMA ShowsStay ==
  ASSUME \A d \in Directions, c \in Cards : UnderWay(d, c)' = UnderWay(d, c)
  PROVE  Shows' = Shows
BY DEF Shows

LEMMA ShowsChange ==
  ASSUME NEW d \in Directions, NEW c \in Cards, NEW n,
         UnderWay(d, c)' = n,
         \A e \in Directions, b \in Cards : <<e, b>> # <<d, c>> => UnderWay(e, b)' = UnderWay(e, b)
  PROVE  Shows' = [Shows EXCEPT ![d][c] = n]
<1> DEFINE new == [Shows EXCEPT ![d][c] = n]
<1>1. new = [e \in Directions |-> IF e = d THEN [Shows[d] EXCEPT ![c] = n] ELSE Shows[e]]
  BY DEF Shows
<1>2. Shows[d] = [b \in Cards |-> UnderWay(d, b)]
  BY DEF Shows
<1>3. [Shows[d] EXCEPT ![c] = n] = [b \in Cards |-> UnderWay(d, b)']
  BY <1>2
<1>4. \A e \in Directions \ {d} : Shows[e] = [b \in Cards |-> UnderWay(e, b)']
  BY DEF Shows
<1>5. Shows' = [e \in Directions |-> [b \in Cards |-> UnderWay(e, b)']]
  BY DEF Shows
<1> QED
  BY <1>1, <1>3, <1>4, <1>5

(* Where nothing changes but one showing, it has come to nothing.          *)
LEMMA LapseOrStutter ==
  ASSUME TypeOK, TypeOK', UNCHANGED <<readings, mixed, lock>>,
         NEW d \in Directions, NEW c \in Cards,
         \A e \in Directions, b \in Cards : <<e, b>> # <<d, c>> => UnderWay(e, b)' = UnderWay(e, b),
         UnderWay(d, c)' = UnderWay(d, c) \/ UnderWay(d, c)' = UnderWay(d, c) - 1
  PROVE  [Entrance!Next]_(Entrance!vars)
<1>1. UnderWay(d, c) \in Nat /\ UnderWay(d, c)' \in Nat
  BY UnderWayIs, UnderWayIsNext
<1>2. CASE UnderWay(d, c)' = UnderWay(d, c)
  <2>1. Shows' = Shows
    BY <1>2, ShowsStay
  <2> QED
    BY <2>1 DEF Entrance!vars, Shows
<1>3. CASE UnderWay(d, c)' = UnderWay(d, c) - 1
  <2>1. Shows[d][c] > 0
    BY <1>1, <1>3, ShowsAre
  <2>2. Shows' = [Shows EXCEPT ![d][c] = Shows[d][c] - 1]
    BY <1>3, ShowsAre, ShowsChange
  <2>3. Entrance!Lapse(d, c)
    BY <2>1, <2>2 DEF Entrance!Lapse, Shows
  <2> QED
    BY <2>3 DEF Entrance!Next
<1> QED
  BY <1>2, <1>3

(* A lock is opened by the first step of a thread, and by no later one.    *)
OpenFirst ==
  \A t \in DOMAIN threads : Working(t) =>
    \A i \in DOMAIN threads[t].todo : threads[t].todo[i] = "open" => i = 1

LEMMA StepsOpenFirst ==
  ASSUME NEW h \in Helpers, NEW i \in DOMAIN Steps(h), Steps(h)[i] = "open"
  PROVE  i = 1
<1>1. CASE h = "open_lim_time"
  BY <1>1, StepsAre
<1>2. CASE h = "open"
  BY <1>2, StepsAre
<1>3. CASE h \in {"close", "deny"}
  BY <1>3, StepsAre
<1> QED
  BY <1>1, <1>2, <1>3 DEF Helpers

(* What a step of a thread does with what it has still to do.              *)
LEMMA TodoMoves ==
  ASSUME TypeOK, NEW t \in DOMAIN threads, Thread(t)
  PROVE  \/ ~ Working(t) /\ ~ Working(t)' /\ threads[t].pc \in {"check", "claim", "access"}
         \/ Working(t) /\ ~ Working(t)'
         \/ Working(t) /\ Working(t)' /\ threads'[t].todo = threads[t].todo
         \/ /\ Working(t) /\ Working(t)' /\ threads[t].todo # <<>>
            /\ threads'[t].todo = Tail(threads[t].todo)
         \/ /\ threads[t].pc = "access" /\ Working(t)'
            /\ Decision(threads[t].key) # "no script"
            /\ threads'[t].todo = Steps(Decision(threads[t].key))
<1>1. threads \in Seq(ThreadType) /\ threads[t] \in ThreadType
  BY ThreadIs DEF TypeOK
<1>2. ASSUME NEW p, Goto(t, p) PROVE threads'[t].pc = p /\ threads'[t].todo = threads[t].todo
  BY <1>1, <1>2 DEF Goto, ThreadType
<1>3. ASSUME NEW p, Continue(t, p)
      PROVE  threads'[t].pc = p /\ threads'[t].todo = Tail(threads[t].todo)
  BY <1>1, <1>3 DEF Continue, ThreadType
<1>4. ASSUME NEW e, Raise(t, e) PROVE ~ Working(t)'
  BY <1>2, <1>4 DEF Raise, Working
<1>5. CASE Check(t) \/ Claim(t)
  BY <1>2, <1>5 DEF Check, Claim, Working
<1>6. CASE Access(t)
  <2>1. ~ Working(t)
    BY <1>6 DEF Access, Working
  <2>2. CASE threads' = [threads EXCEPT ![t].pc = "do",
                                        ![t].todo = Steps(Decision(threads[t].key))]
             /\ Decision(threads[t].key) # "no script"
    <3>1. threads'[t].pc = "do" /\ threads'[t].todo = Steps(Decision(threads[t].key))
      BY <1>1, <2>2 DEF ThreadType
    <3> QED
      BY <1>6, <2>2, <3>1 DEF Access, Working
  <2> QED
    BY <1>4, <1>6, <2>1, <2>2 DEF Access
<1>7. CASE Sleep(t) \/ WriteRow(t)
  BY <1>3, <1>4, <1>7 DEF Sleep, WriteRow, Does, Working
<1>8. ASSUME NEW step, NEW signal, SendSignal(t, step, signal)
      PROVE  /\ Working(t) /\ threads[t].todo # <<>>
             /\ ~ Working(t)' \/ (Working(t)' /\ threads'[t].todo = Tail(threads[t].todo))
  BY <1>3, <1>4, <1>8 DEF SendSignal, Does, Working
<1>9. CASE Wait(t) \/ Pop(t) \/ Finish(t)
  BY <1>2, <1>4, <1>9 DEF Wait, Pop, Finish, Working
<1> QED
  BY <1>5, <1>6, <1>7, <1>8, <1>9 DEF Thread

LEMMA OpenFirstThread ==
  ASSUME TypeOK, OpenFirst, NEW t \in DOMAIN threads, Thread(t), Working(t)'
  PROVE  \A i \in DOMAIN threads'[t].todo : threads'[t].todo[i] = "open" => i = 1
<1> DEFINE todo == threads[t].todo
<1>1. todo \in Seq({"open", "sleep", "close", "log"})
  BY ThreadIs
<1>2. CASE Working(t) /\ threads'[t].todo = todo
  BY <1>2 DEF OpenFirst
<1>3. CASE Working(t) /\ todo # <<>> /\ threads'[t].todo = Tail(todo)
  <2>1. \A i \in DOMAIN todo : todo[i] = "open" => i = 1
    BY <1>3 DEF OpenFirst
  <2>2. \A i \in DOMAIN Tail(todo) : i \in Nat \ {0} /\ i + 1 \in DOMAIN todo
                                     /\ Tail(todo)[i] = todo[i + 1]
    BY <1>1, <1>3
  <2> HIDE DEF todo
  <2>3. \A i \in DOMAIN Tail(todo) : Tail(todo)[i] # "open"
    BY <2>1, <2>2
  <2> QED
    BY <1>3, <2>3
<1>4. CASE Decision(threads[t].key) # "no script"
           /\ threads'[t].todo = Steps(Decision(threads[t].key))
  <2>1. Decision(threads[t].key) \in Helpers
    BY <1>4, DecisionType
  <2> QED
    BY <1>4, <2>1, StepsOpenFirst
<1> QED
  BY <1>2, <1>3, <1>4, TodoMoves

LEMMA OpenFirstKept ==
  ASSUME TypeOK, OpenFirst, [Next]_vars
  PROVE  OpenFirst'
<1>1. CASE UNCHANGED threads
  BY <1>1 DEF OpenFirst, Working
<1>2. ASSUME NEW d \in Directions, ReceiveWord(d) PROVE OpenFirst'
  BY <1>2, ThreadsAfter DEF OpenFirst, Working
<1>3. ASSUME NEW t \in DOMAIN threads, Thread(t) PROVE OpenFirst'
  <2>1. /\ DOMAIN threads' = DOMAIN threads
        /\ \A u \in DOMAIN threads \ {t} : threads'[u] = threads[u]
    BY <1>3, OthersStay
  <2> SUFFICES ASSUME NEW u \in DOMAIN threads, Working(u)',
                      NEW i \in DOMAIN threads'[u].todo, threads'[u].todo[i] = "open"
               PROVE  i = 1
    BY <2>1 DEF OpenFirst
  <2>2. CASE u = t
    BY <1>3, <2>2, OpenFirstThread
  <2>3. CASE u # t
    BY <2>1, <2>3 DEF OpenFirst, Working
  <2> QED
    BY <2>2, <2>3
<1> QED
  BY <1>1, <1>2, <1>3
  DEF Next, LoseWord, ShowCard, Obey, OtherCommand, ReceiveConfirmation, vars

(* A thread that may have yet to send the signal.                          *)
MayYet(t) ==
  \/ threads[t].pc \in {"check", "claim", "access"}
  \/ Working(t) /\ \E i \in DOMAIN threads[t].todo : threads[t].todo[i] = "open"

LEMMA OpenersAre ==
  /\ \A d, c : Openers(d, c) = {t \in DOMAIN threads :
       threads[t].dir = d /\ CardOf(threads[t].key) = c /\ MayYet(t)}
  /\ \A d, c : Openers(d, c)' = {t \in DOMAIN threads' :
       threads'[t].dir = d /\ CardOf(threads'[t].key) = c /\ MayYet(t)'}
BY DEF Openers, MayYet, Working, CardOf

LEMMA OpenersStay ==
  ASSUME UNCHANGED threads
  PROVE  \A d, c : Openers(d, c)' = Openers(d, c)
BY DEF Openers, CardOf

LEMMA OpenersThread ==
  ASSUME TypeOK, NEW t \in DOMAIN threads, NEW d, d = threads[t].dir,
         NEW c, c = CardOf(threads[t].key),
         DOMAIN threads' = DOMAIN threads, \A u \in DOMAIN threads \ {t} : threads'[u] = threads[u],
         Same(t), MayYet(t)' => MayYet(t)
  PROVE  /\ d \in Directions /\ c \in Cards
         /\ \A e, b : <<e, b>> # <<d, c>> => Openers(e, b)' = Openers(e, b)
         /\ t \in Openers(d, c) <=> MayYet(t)
         /\ Openers(d, c)' = IF MayYet(t)' THEN Openers(d, c) ELSE Openers(d, c) \ {t}
<1>1. d \in Directions /\ c \in Cards
  BY ThreadIs
<1>2. \A u \in DOMAIN threads \ {t} : MayYet(u)' <=> MayYet(u)
  BY DEF MayYet, Working
<1>3. threads'[t].dir = d /\ CardOf(threads'[t].key) = c
  BY DEF Same, CardOf
<1>4. t \in Openers(d, c) <=> MayYet(t)
  BY OpenersAre
<1>5. ASSUME NEW e, NEW b, <<e, b>> # <<d, c>> PROVE Openers(e, b)' = Openers(e, b)
  <2>1. ~ (threads[t].dir = e /\ CardOf(threads[t].key) = b)
    BY <1>5
  <2>2. ~ (threads'[t].dir = e /\ CardOf(threads'[t].key) = b)
    BY <1>3, <1>5
  <2> QED
    BY <1>2, <2>1, <2>2, OpenersAre
<1>6. Openers(d, c)' = IF MayYet(t)' THEN Openers(d, c) ELSE Openers(d, c) \ {t}
  BY <1>2, <1>3, OpenersAre
<1> QED
  BY <1>1, <1>4, <1>5, <1>6

(* No step of a thread has it send a signal that was not yet to come.      *)
LEMMA MayYetKept ==
  ASSUME TypeOK, NEW t \in DOMAIN threads, Thread(t), MayYet(t)'
  PROVE  MayYet(t)
<1> DEFINE todo == threads[t].todo
<1>1. todo \in Seq({"open", "sleep", "close", "log"})
  BY ThreadIs
<1>2. threads'[t].pc \in {"check", "claim", "access"} => threads[t].pc \in {"check", "claim"}
  BY ThreadMoves DEF Checks, Claims, GoesOn, Fails, Finishes, Inside
<1>3. CASE ~ Working(t)'
  BY <1>2, <1>3 DEF MayYet, Working
<1>4. CASE Working(t) /\ Working(t)' /\ threads'[t].todo = todo
  BY <1>2, <1>4 DEF MayYet, Working
<1>5. CASE Working(t) /\ Working(t)' /\ todo # <<>> /\ threads'[t].todo = Tail(todo)
  <2>1. PICK i \in DOMAIN Tail(todo) : Tail(todo)[i] = "open"
    BY <1>5 DEF MayYet, Working
  <2>2. i + 1 \in DOMAIN todo /\ todo[i + 1] = "open"
    BY <1>1, <1>5, <2>1, TailIn
  <2> QED
    BY <1>5, <2>2 DEF MayYet
<1>6. CASE threads[t].pc = "access"
  BY <1>6 DEF MayYet
<1> QED
  BY <1>3, <1>4, <1>5, <1>6, TodoMoves

LEMMA GateShow ==
  ASSUME TypeOK, TypeOK', NEW d \in Directions, NEW c \in Cards, ShowCard(d, c)
  PROVE  Entrance!Show(d, c)
<1>1. /\ words[d] = <<>> /\ words' = [words EXCEPT ![d] = KeyOf(c)] /\ readings' = readings + 1
      /\ UNCHANGED <<threads, commands, lock, mixed>>
  BY DEF ShowCard, lockVars
<1>2. words'[d] = KeyOf(c) /\ \A e \in Directions \ {d} : words'[e] = words[e]
  BY <1>1 DEF TypeOK
<1>3. \A b : Count(words[d], LastOf(b)) = 0
  <2>1. \A b : Places(words[d], LastOf(b)) = {}
    BY <1>1 DEF Places
  <2> QED
    BY <2>1, FS_EmptySet DEF Count
<1>4. \A i \in DOMAIN KeyOf(c) : KeyOf(c)[i] \in Words
  BY KeyType
<1>5. Count(KeyOf(c), LastOf(c)) = 1
  <2>1. Places(KeyOf(c), LastOf(c)) = {Len(KeyOf(c))}
    BY <1>4, KeyEnds DEF Places, LastOf
  <2> QED
    BY <2>1, FS_Singleton DEF Count
<1>6. ASSUME NEW b, b # c PROVE Count(KeyOf(c), LastOf(b)) = 0
  <2>1. Places(KeyOf(c), LastOf(b)) = {}
    BY <1>6, KeyEnds DEF Places, LastOf
  <2> QED
    BY <2>1, FS_EmptySet DEF Count
<1>7. UnderWay(d, c)' = UnderWay(d, c) + 1
  <2>1. Openers(d, c)' = Openers(d, c) /\ commands' = commands
    BY <1>1, OpenersStay
  <2>2. Count(words'[d], LastOf(c)) = Count(words[d], LastOf(c)) + 1
    BY <1>2, <1>3, <1>5
  <2> QED
    BY <2>1, <2>2, UnderWayIs, UnderWayIsNext
<1>8. ASSUME NEW e \in Directions, NEW b \in Cards, <<e, b>> # <<d, c>>
      PROVE  UnderWay(e, b)' = UnderWay(e, b)
  <2>1. Openers(e, b)' = Openers(e, b) /\ commands' = commands
    BY <1>1, OpenersStay
  <2>2. Count(words'[e], LastOf(b)) = Count(words[e], LastOf(b))
    BY <1>2, <1>3, <1>6, <1>8
  <2> QED
    BY <2>1, <2>2, UnderWayIs, UnderWayIsNext
<1>9. Shows' = [Shows EXCEPT ![d][c] = Shows[d][c] + 1]
  BY <1>7, <1>8, ShowsAre, ShowsChange
<1> QED
  BY <1>1, <1>9 DEF Entrance!Show, Shows

(* The word at the head of those of a reader: the last of a card's, or not.*)
Went(d, word) ==
  /\ word \in Words /\ word[1] \in Cards
  /\ \A e \in Directions, b \in Cards :
       <<e, b>> # <<d, word[1]>> \/ ~ IsLast(word) =>
         Count(words'[e], LastOf(b)) = Count(words[e], LastOf(b))
  /\ IsLast(word) =>
       Count(words'[d], LastOf(word[1])) = Count(words[d], LastOf(word[1])) - 1

LEMMA WordGoes ==
  ASSUME TypeOK, NEW d \in Directions, words[d] # <<>>,
         words' = [words EXCEPT ![d] = Tail(words[d])],
         NEW word, word = Head(words[d])
  PROVE  Went(d, word)
<1>1. words[d] \in Seq(Words)
  BY DEF TypeOK
<1>2. word \in Words /\ word[1] \in Cards
  BY <1>1, WordsAre
<1>3. words'[d] = Tail(words[d]) /\ \A e \in Directions \ {d} : words'[e] = words[e]
  BY DEF TypeOK
<1>4. \A b : word \in LastOf(b) <=> IsLast(word) /\ word[1] = b
  BY <1>2 DEF LastOf
<1>5. \A b : Count(words'[d], LastOf(b)) = Count(words[d], LastOf(b)) - (IF word \in LastOf(b) THEN 1 ELSE 0)
  BY <1>1, <1>3, CountTail
<1>6. \A b : Count(words[d], LastOf(b)) \in Nat
  BY <1>1, PlacesFinite
<1>7. ASSUME NEW e \in Directions, NEW b \in Cards, <<e, b>> # <<d, word[1]>> \/ ~ IsLast(word)
      PROVE  Count(words'[e], LastOf(b)) = Count(words[e], LastOf(b))
  <2>1. CASE e # d
    BY <1>3, <2>1
  <2>2. CASE e = d
    <3>1. word \notin LastOf(b)
      BY <1>4, <1>7, <2>2
    <3>2. Count(words'[d], LastOf(b)) = Count(words[d], LastOf(b)) - 0
      BY <1>5, <3>1
    <3> QED
      BY <1>6, <2>2, <3>2
  <2> QED
    BY <2>1, <2>2
<1>8. ASSUME IsLast(word)
      PROVE  Count(words'[d], LastOf(word[1])) = Count(words[d], LastOf(word[1])) - 1
  BY <1>4, <1>5, <1>8
<1> QED
  BY <1>2, <1>7, <1>8 DEF Went

(* A word that goes, and nothing comes of it.                              *)
LEMMA GateWordLost ==
  ASSUME TypeOK, TypeOK', NEW d \in Directions, words[d] # <<>>,
         words' = [words EXCEPT ![d] = Tail(words[d])],
         UNCHANGED <<threads, commands, readings, mixed, lock>>
  PROVE  [Entrance!Next]_(Entrance!vars)
<1>0. PICK word : word = Head(words[d])
  OBVIOUS
<1>1. Went(d, word)
  BY <1>0, WordGoes
<1>2. PICK c \in Cards : c = word[1]
  BY <1>1 DEF Went
<1>3. \A e, b : Openers(e, b)' = Openers(e, b)
  BY OpenersStay
<1>4. ASSUME NEW e \in Directions, NEW b \in Cards, <<e, b>> # <<d, c>>
      PROVE  UnderWay(e, b)' = UnderWay(e, b)
  <2>1. Count(words'[e], LastOf(b)) = Count(words[e], LastOf(b))
    BY <1>1, <1>2, <1>4 DEF Went
  <2> QED
    BY <1>3, <2>1, UnderWayIs, UnderWayIsNext
<1>5. UnderWay(d, c)' = UnderWay(d, c) \/ UnderWay(d, c)' = UnderWay(d, c) - 1
  <2>1. \/ Count(words'[d], LastOf(c)) = Count(words[d], LastOf(c))
        \/ Count(words'[d], LastOf(c)) = Count(words[d], LastOf(c)) - 1
    BY <1>1, <1>2 DEF Went
  <2> QED
    BY <1>3, <2>1, UnderWayIs, UnderWayIsNext
<1> QED
  BY <1>4, <1>5, LapseOrStutter

LEMMA GateReceiveWord ==
  ASSUME TypeOK, TypeOK', NEW d \in Directions, ReceiveWord(d)
  PROVE  [Entrance!Next]_(Entrance!vars)
<1>0. PICK word, key, t :
        word = Head(words[d]) /\ key = Append(buffer[d], word) /\ t = Len(threads) + 1
  OBVIOUS
<1>1. /\ words[d] # <<>> /\ words' = [words EXCEPT ![d] = Tail(words[d])]
      /\ UNCHANGED <<commands, readings, mixed, lock>>
  BY DEF ReceiveWord, lockVars
<1>2. CASE UNCHANGED threads
  BY <1>1, <1>2, GateWordLost
<1>3. CASE IsLast(word) /\ threads' = Append(threads, NewThread(d, key))
  <2>1. Went(d, word)
    BY <1>0, <1>1, WordGoes
  <2>2. PICK c \in Cards : c = word[1] /\ word \in Words
    BY <2>1 DEF Went
  <2>3. key \in Seq(Words) /\ key # <<>> /\ CardOf(key) = c
    <3>1. buffer[d] \in Seq(Words)
      BY DEF TypeOK
    <3>2. key \in Seq(Words) /\ key # <<>> /\ key[Len(key)] = word
      BY <1>0, <2>2, <3>1
    <3> QED
      BY <2>2, <3>2 DEF CardOf
  <2>4. /\ NewThread(d, key) \in ThreadType /\ NewThread(d, key).pc = "check"
        /\ NewThread(d, key).dir = d /\ NewThread(d, key).key = key
    BY <2>3 DEF NewThread, ThreadType
  <2>5. /\ DOMAIN threads' = DOMAIN threads \cup {t} /\ t \notin DOMAIN threads
        /\ \A u \in DOMAIN threads : threads'[u] = threads[u]
        /\ threads'[t] = NewThread(d, key)
    <3>1. threads \in Seq(ThreadType)
      BY DEF TypeOK
    <3> QED
      BY <1>0, <1>3, <2>4, <3>1
  <2>6. /\ \A u \in DOMAIN threads : MayYet(u)' <=> MayYet(u)
        /\ MayYet(t)' /\ threads'[t].dir = d /\ CardOf(threads'[t].key) = c
    BY <2>3, <2>4, <2>5 DEF MayYet, Working
  <2>7. ASSUME NEW e, NEW b, <<e, b>> # <<d, c>> PROVE Openers(e, b)' = Openers(e, b)
    <3>1. ~ (threads'[t].dir = e /\ CardOf(threads'[t].key) = b)
      BY <2>6, <2>7
    <3> QED
      BY <2>5, <2>6, <3>1, OpenersAre
  <2>8. Openers(d, c)' = Openers(d, c) \cup {t} /\ t \notin Openers(d, c)
    BY <2>5, <2>6, OpenersAre
  <2>9. Cardinality(Openers(d, c)') = Cardinality(Openers(d, c)) + 1
    <3>1. IsFiniteSet(Openers(d, c))
      BY UnderWayIs
    <3> QED
      BY <2>8, <3>1, FS_AddElement
  <2>10. ASSUME NEW e \in Directions, NEW b \in Cards, <<e, b>> # <<d, c>>
         PROVE  UnderWay(e, b)' = UnderWay(e, b)
    <3>1. Count(words'[e], LastOf(b)) = Count(words[e], LastOf(b))
      BY <2>1, <2>2, <2>10 DEF Went
    <3>2. Openers(e, b)' = Openers(e, b)
      BY <2>7, <2>10
    <3> QED
      BY <1>1, <3>1, <3>2, UnderWayIs, UnderWayIsNext
  <2>11. UnderWay(d, c)' = UnderWay(d, c)
    <3>1. Count(words'[d], LastOf(c)) = Count(words[d], LastOf(c)) - 1
      BY <1>3, <2>1, <2>2 DEF Went
    <3> QED
      BY <1>1, <2>9, <3>1, UnderWayIs, UnderWayIsNext
  <2> QED
    BY <1>1, <2>10, <2>11, LapseOrStutter
<1> QED
  BY <1>0, <1>2, <1>3 DEF ReceiveWord

(* Nothing is under way that was not, nor is it less.                      *)
LEMMA NothingGoes ==
  ASSUME UNCHANGED <<words, threads, commands>>
  PROVE  Shows' = Shows
<1>1. \A d \in Directions, c \in Cards : UnderWay(d, c)' = UnderWay(d, c)
  BY DEF UnderWay, LastWords, IsLast, Openers, CardOf, Signals, Reached, Packed, Bits
<1> QED
  BY <1>1, ShowsStay

LEMMA OneReached ==
  ASSUME NEW frame, NEW d \in Reached(frame), NEW e \in Reached(frame)
  PROVE  d = e
<1>1. Packed(HwAddr, LockOf[d]) = Packed(HwAddr, LockOf[e]) /\ d \in Directions /\ e \in Directions
  BY DEF Reached
<1>2. LockOf[d] = LockOf[e]
  BY <1>1 DEF Packed
<1> QED
  BY <1>1, <1>2, LocksAssumption

LEMMA GateObey ==
  ASSUME TypeOK, TypeOK', OpenInv, Obey
  PROVE  [Entrance!Next]_(Entrance!vars)
<1>0. PICK first, c : first = Head(commands) /\ c = first.card
  OBVIOUS
<1>1. commands \in Seq(Commands) /\ commands # <<>>
  BY DEF Obey, TypeOK, Commands
<1>2. first \in Commands /\ first = commands[1] /\ 1 \in DOMAIN commands
  BY <1>0, <1>1, TailIn
<1>3. first.signal \in {"open", "closed"} /\ c \in Cards
  BY <1>0, <1>2 DEF Commands
<1>4. /\ commands' = Tail(commands) /\ UNCHANGED <<readings, words, threads, mixed>>
      /\ \/ UNCHANGED lock
         \/ \E d \in Reached(first.frame) : lock' = [lock EXCEPT ![d] = first.signal]
  BY <1>0 DEF Obey, readerVars
<1>5. \A e, b : Openers(e, b)' = Openers(e, b)
  BY <1>4, OpenersStay
<1>6. \A e, b : Count(commands', OpenSignals(e, b))
                = Count(commands, OpenSignals(e, b)) - (IF first \in OpenSignals(e, b) THEN 1 ELSE 0)
  BY <1>0, <1>1, <1>4, CountTail
<1>7. \A e, b : first \in OpenSignals(e, b) <=>
                  first.signal = "open" /\ b = c /\ e \in Reached(first.frame)
  BY <1>0, <1>2 DEF OpenSignals
<1>8. ASSUME NEW e \in Directions, NEW b \in Cards, first \notin OpenSignals(e, b)
      PROVE  UnderWay(e, b)' = UnderWay(e, b)
  <2>1. Count(commands', OpenSignals(e, b)) = Count(commands, OpenSignals(e, b)) - 0
    BY <1>6, <1>8
  <2> QED
    BY <1>4, <1>5, <2>1, UnderWayIs, UnderWayIsNext
<1>9. ASSUME NEW e \in Directions, first \in OpenSignals(e, c)
      PROVE  UnderWay(e, c)' = UnderWay(e, c) - 1 /\ UnderWay(e, c) > 0
  <2>1. Count(commands', OpenSignals(e, c)) = Count(commands, OpenSignals(e, c)) - 1
    BY <1>6, <1>9
  <2> QED
    BY <1>3, <1>4, <1>5, <2>1, UnderWayIs, UnderWayIsNext
<1>10. CASE ~ \E e \in Directions, b \in Cards : first \in OpenSignals(e, b)
  <2>1. Shows' = Shows
    BY <1>8, <1>10, ShowsStay
  <2>2. CASE UNCHANGED lock
    BY <1>4, <2>1, <2>2 DEF Entrance!vars, Shows
  <2>3. ASSUME NEW d \in Reached(first.frame), lock' = [lock EXCEPT ![d] = first.signal]
        PROVE  [Entrance!Next]_(Entrance!vars)
    <3>1. d \in Directions /\ first.signal = "closed"
      BY <1>3, <1>7, <1>10, <2>3, ReachedIn
    <3>2. Entrance!Close(d)
      BY <1>4, <2>1, <2>3, <3>1 DEF Entrance!Close, Shows
    <3> QED
      BY <3>1, <3>2 DEF Entrance!Next
  <2> QED
    BY <1>4, <2>2, <2>3
<1>11. ASSUME NEW d \in Directions, NEW b \in Cards, first \in OpenSignals(d, b)
       PROVE  [Entrance!Next]_(Entrance!vars)
  <2>1. b = c /\ first.signal = "open" /\ d \in Reached(first.frame)
    BY <1>7, <1>11
  <2>2. UnderWay(d, c)' = UnderWay(d, c) - 1 /\ UnderWay(d, c) > 0
    BY <1>9, <1>11, <2>1
  <2>3. ASSUME NEW e \in Directions, NEW a \in Cards, <<e, a>> # <<d, c>>
        PROVE  UnderWay(e, a)' = UnderWay(e, a)
    <3>1. first \notin OpenSignals(e, a)
      BY <1>7, <2>1, <2>3, OneReached
    <3> QED
      BY <1>8, <3>1
  <2>4. CASE UNCHANGED lock
    BY <1>3, <1>4, <2>2, <2>3, <2>4, LapseOrStutter
  <2>5. ASSUME NEW e \in Reached(first.frame), lock' = [lock EXCEPT ![e] = first.signal]
        PROVE  [Entrance!Next]_(Entrance!vars)
    <3>1. e = d
      BY <2>1, <2>5, OneReached
    <3>2. c \in MayOpen \/ d \in mixed
      BY <1>0, <1>2, <2>1 DEF OpenInv
    <3>3. Shows[d][c] > 0 /\ Shows' = [Shows EXCEPT ![d][c] = Shows[d][c] - 1]
      BY <1>3, <2>2, <2>3, ShowsAre, ShowsChange
    <3>4. Entrance!Open(d, c)
      BY <1>4, <2>1, <2>5, <3>1, <3>2, <3>3 DEF Entrance!Open, Shows
    <3> QED
      BY <1>3, <3>4 DEF Entrance!Next
  <2> QED
    BY <1>4, <2>4, <2>5
<1> QED
  BY <1>10, <1>11

LEMMA GateOther ==
  ASSUME NEW l \in OtherLocks, NEW signal \in {"open", "closed"}, OtherCommand(l, signal)
  PROVE  [Entrance!Next]_(Entrance!vars)
<1>1. PICK d \in Reached(Packed(l[1], l[2])) : lock' = [lock EXCEPT ![d] = signal]
  BY DEF OtherCommand
<1>2. d \in Directions /\ d \notin Alone
  BY <1>1, ReachedIn DEF Alone
<1>3. UNCHANGED <<readings, words, threads, commands, mixed>>
  BY DEF OtherCommand, readerVars
<1>4. Shows' = Shows
  BY <1>3, NothingGoes
<1>5. Entrance!Stray(d) \/ Entrance!Close(d)
  BY <1>1, <1>2, <1>3, <1>4 DEF Entrance!Stray, Entrance!Close, Shows
<1> QED
  BY <1>2, <1>5 DEF Entrance!Next

LEMMA UnderWaySum ==
  ASSUME TypeOK, TypeOK', NEW d \in Directions, NEW c \in Cards, NEW x \in Nat, NEW y \in Nat,
         words' = words,
         Cardinality(Openers(d, c)') = Cardinality(Openers(d, c)) - x,
         Count(commands', OpenSignals(d, c)) = Count(commands, OpenSignals(d, c)) + y
  PROVE  UnderWay(d, c)' = (UnderWay(d, c) - x) + y
<1> DEFINE a == Count(words[d], LastOf(c))
           b == Cardinality(Openers(d, c))
           e == Count(commands, OpenSignals(d, c))
<1>1. a \in Nat /\ b \in Nat /\ e \in Nat /\ UnderWay(d, c) = a + b + e
  BY UnderWayIs
<1>2. UnderWay(d, c)' = a + (b - x) + (e + y)
  BY UnderWayIsNext
<1> HIDE DEF a, b, e
<1> QED
  BY <1>1, <1>2

LEMMA OneLess ==
  ASSUME NEW S, NEW x, IsFiniteSet(S)
  PROVE  Cardinality(S \ {x}) = Cardinality(S) - (IF x \in S THEN 1 ELSE 0)
<1>1. Cardinality(S) \in Nat
  BY FS_CardinalityType
<1> QED
  BY <1>1, FS_RemoveElement

(* What a key is taken for is decided while its showing is under way.      *)
LEMMA MixedThread ==
  ASSUME TypeOK, NEW t \in DOMAIN threads, Thread(t), mixed' # mixed
  PROVE  /\ mixed' = mixed \cup {threads[t].dir}
         /\ MayYet(t) /\ MayYet(t)' /\ UNCHANGED commands
<1>1. Access(t)
  BY DEF Thread, Check, Claim, SendSignal, Sleep, WriteRow, Wait, Pop, Finish
<1>2. PICK h : h = Decision(threads[t].key)
  OBVIOUS
<1>3. /\ h \in Opening /\ mixed' = mixed \cup {threads[t].dir}
      /\ threads' = [threads EXCEPT ![t].pc = "do", ![t].todo = Steps(h)]
  BY <1>1, <1>2 DEF Access
<1>4. threads'[t].pc = "do" /\ threads'[t].todo = Steps(h)
  <2>1. threads \in Seq(ThreadType) /\ threads[t] \in ThreadType
    BY ThreadIs DEF TypeOK
  <2> QED
    BY <1>3, <2>1 DEF ThreadType
<1>5. 1 \in DOMAIN Steps(h) /\ Steps(h)[1] = "open"
  <2>1. CASE h = "open_lim_time"
    BY <2>1, StepsAre
  <2>2. CASE h = "open"
    BY <2>2, StepsAre
  <2> QED
    BY <1>3, <2>1, <2>2 DEF Opening
<1>6. MayYet(t)'
  BY <1>4, <1>5 DEF MayYet, Working
<1>7. MayYet(t) /\ UNCHANGED commands
  BY <1>1 DEF Access, MayYet, lockVars
<1> QED
  BY <1>3, <1>6, <1>7

LEMMA GateThread ==
  ASSUME TypeOK, TypeOK', OpenFirst, NEW t \in DOMAIN threads, Thread(t)
  PROVE  [Entrance!Next]_(Entrance!vars)
<1>0. PICK d, c : d = threads[t].dir /\ c = CardOf(threads[t].key)
  OBVIOUS
<1>1. /\ DOMAIN threads' = DOMAIN threads
      /\ \A u \in DOMAIN threads \ {t} : threads'[u] = threads[u]
      /\ Same(t)
      /\ UNCHANGED <<readings, words, lock>>
  BY OthersStay DEF readerVars
<1>2. MayYet(t)' => MayYet(t)
  BY MayYetKept
<1>3. /\ d \in Directions /\ c \in Cards
      /\ \A e, b : <<e, b>> # <<d, c>> => Openers(e, b)' = Openers(e, b)
      /\ t \in Openers(d, c) <=> MayYet(t)
      /\ Openers(d, c)' = IF MayYet(t)' THEN Openers(d, c) ELSE Openers(d, c) \ {t}
  BY <1>0, <1>1, <1>2, OpenersThread
<1>4. IsFiniteSet(Openers(d, c)) /\ Cardinality(Openers(d, c)) \in Nat
  BY <1>3, UnderWayIs
<1>5. ASSUME NEW e \in Directions, NEW b \in Cards, <<e, b>> # <<d, c>>,
             Count(commands', OpenSignals(e, b)) = Count(commands, OpenSignals(e, b))
      PROVE  UnderWay(e, b)' = UnderWay(e, b)
  <2>1. Openers(e, b)' = Openers(e, b)
    BY <1>3, <1>5
  <2> QED
    BY <1>1, <1>5, <2>1, UnderWayIs, UnderWayIsNext
<1>6. CASE mixed' # mixed
  <2>1. mixed' = mixed \cup {d} /\ MayYet(t) /\ MayYet(t)' /\ UNCHANGED commands
    BY <1>0, <1>6, MixedThread
  <2>2. Openers(d, c)' = Openers(d, c)
    BY <1>3, <2>1
  <2>3. UnderWay(d, c)' = UnderWay(d, c)
    BY <1>1, <1>3, <2>1, <2>2, UnderWayIs, UnderWayIsNext
  <2>4. \A e \in Directions, b \in Cards : UnderWay(e, b)' = UnderWay(e, b)
    BY <1>5, <2>1, <2>3
  <2>5. Shows' = Shows
    BY <2>4, ShowsStay
  <2>6. UnderWay(d, c) > 0
    <3>1. Openers(d, c) # {}
      BY <1>3, <2>1
    <3>2. Cardinality(Openers(d, c)) > 0
      BY <1>4, <3>1, FS_EmptySet
    <3> QED
      BY <1>3, <3>2, UnderWayIs
  <2>7. Shows[d][c] > 0
    BY <1>3, <2>6, ShowsAre
  <2>8. Entrance!Mistake(d, c)
    BY <1>1, <2>1, <2>5, <2>7 DEF Entrance!Mistake, Shows
  <2> QED
    BY <1>3, <2>8 DEF Entrance!Next
<1>7. ASSUME UNCHANGED <<mixed, commands>> PROVE [Entrance!Next]_(Entrance!vars)
  <2>1. \A e \in Directions, b \in Cards : <<e, b>> # <<d, c>> => UnderWay(e, b)' = UnderWay(e, b)
    BY <1>5, <1>7
  <2>2. CASE MayYet(t)'
    <3>1. Openers(d, c)' = Openers(d, c)
      BY <1>3, <2>2
    <3>2. UnderWay(d, c)' = UnderWay(d, c)
      BY <1>1, <1>3, <1>7, <3>1, UnderWayIs, UnderWayIsNext
    <3> QED
      BY <1>1, <1>3, <1>7, <2>1, <3>2, LapseOrStutter
  <2>3. CASE ~ MayYet(t)'
    <3>1. PICK x \in {0, 1} : Cardinality(Openers(d, c)') = Cardinality(Openers(d, c)) - x
      <4>1. Openers(d, c)' = Openers(d, c) \ {t}
        BY <1>3, <2>3
      <4> QED
        BY <1>4, <4>1, OneLess
    <3>2. /\ x \in Nat /\ 0 \in Nat /\ words' = words /\ UnderWay(d, c) \in Nat
          /\ Count(commands', OpenSignals(d, c)) = Count(commands, OpenSignals(d, c)) + 0
      BY <1>1, <1>3, <1>7, UnderWayIs
    <3>3. UnderWay(d, c)' = (UnderWay(d, c) - x) + 0
      BY <1>3, <3>1, <3>2, UnderWaySum
    <3>4. UnderWay(d, c)' = UnderWay(d, c) \/ UnderWay(d, c)' = UnderWay(d, c) - 1
      BY <3>1, <3>2, <3>3
    <3> QED
      BY <1>1, <1>3, <1>7, <2>1, <3>4, LapseOrStutter
  <2> QED
    BY <2>2, <2>3
<1>8. ASSUME NEW step, NEW signal, SendSignal(t, step, signal), ~ UNCHANGED commands,
             \/ step = "open" /\ signal = "open"
             \/ step = "close" /\ signal = "closed"
      PROVE  [Entrance!Next]_(Entrance!vars)
  <2>0. PICK command : command = [frame |-> Packed(HwAddr, LockOf[d]), signal |-> signal, card |-> c]
    OBVIOUS
  <2>1. /\ Does(t, step) /\ Continue(t, "wait") /\ UNCHANGED mixed
        /\ commands' = Append(commands, command)
    BY <1>0, <1>8, <2>0 DEF SendSignal
  <2>2. commands \in Seq(Commands) /\ command \in Commands
    BY <1>3, <1>8, <2>0, PackedType DEF TypeOK, Commands
  <2>3. \A e, b : Count(commands', OpenSignals(e, b))
                  = Count(commands, OpenSignals(e, b)) + (IF command \in OpenSignals(e, b) THEN 1 ELSE 0)
    BY <2>1, <2>2, CountAppend
  <2>4. \A e \in Directions : \A b : command \in OpenSignals(e, b) <=> e = d /\ b = c /\ signal = "open"
    <3>1. command.signal = signal /\ command.card = c /\ command.frame = Packed(HwAddr, LockOf[d])
      BY <2>0
    <3> QED
      BY <1>3, <2>2, <3>1, OwnFrame DEF OpenSignals
  <2>5. ASSUME NEW e \in Directions, NEW b \in Cards, command \notin OpenSignals(e, b)
        PROVE  Count(commands', OpenSignals(e, b)) = Count(commands, OpenSignals(e, b))
    <3>1. Count(commands', OpenSignals(e, b)) = Count(commands, OpenSignals(e, b)) + 0
      BY <2>3, <2>5
    <3> QED
      BY <3>1, UnderWayIs
  <2>6. \A e \in Directions, b \in Cards : <<e, b>> # <<d, c>> => UnderWay(e, b)' = UnderWay(e, b)
    BY <1>5, <2>4, <2>5
  <2>7. CASE signal = "closed"
    <3>1. step = "close" /\ Count(commands', OpenSignals(d, c)) = Count(commands, OpenSignals(d, c))
      BY <1>3, <1>8, <2>4, <2>5, <2>7
    <3>2. PICK x \in {0, 1} : Cardinality(Openers(d, c)') = Cardinality(Openers(d, c)) - x
      <4>1. Openers(d, c)' = Openers(d, c) \ {t} \/ Openers(d, c)' = Openers(d, c)
        BY <1>3
      <4>2. Cardinality(Openers(d, c)) = Cardinality(Openers(d, c)) - 0
        BY <1>4
      <4> QED
        BY <1>4, <4>1, <4>2, OneLess
    <3>3. /\ x \in Nat /\ 0 \in Nat /\ words' = words /\ UnderWay(d, c) \in Nat
          /\ Count(commands', OpenSignals(d, c)) = Count(commands, OpenSignals(d, c)) + 0
      BY <1>1, <1>3, <3>1, UnderWayIs
    <3>4. UnderWay(d, c)' = (UnderWay(d, c) - x) + 0
      BY <1>3, <3>2, <3>3, UnderWaySum
    <3>5. UnderWay(d, c)' = UnderWay(d, c) \/ UnderWay(d, c)' = UnderWay(d, c) - 1
      BY <3>2, <3>3, <3>4
    <3> QED
      BY <1>1, <1>3, <2>1, <2>6, <3>5, LapseOrStutter
  <2>8. CASE signal = "open"
    <3>0. PICK todo : todo = threads[t].todo
      OBVIOUS
    <3>1. todo \in Seq({"open", "sleep", "close", "log"}) /\ threads[t] \in ThreadType
          /\ threads \in Seq(ThreadType)
      BY <3>0, ThreadIs DEF TypeOK
    <3>2. threads[t].pc = "do" /\ todo # <<>> /\ todo[1] = "open" /\ 1 \in DOMAIN todo
      BY <1>8, <2>1, <2>8, <3>0, <3>1, TailIn DEF Does
    <3>3. threads'[t].pc = "wait" /\ threads'[t].todo = Tail(todo)
      BY <2>1, <3>0, <3>1 DEF Continue, ThreadType
    <3>4. MayYet(t)
      BY <3>0, <3>2 DEF MayYet, Working
    <3>5. \A i \in DOMAIN Tail(todo) : i \in Nat \ {0} /\ i + 1 \in DOMAIN todo
                                       /\ Tail(todo)[i] = todo[i + 1]
      BY <3>1, <3>2
    <3>6. \A i \in DOMAIN todo : todo[i] = "open" => i = 1
      BY <3>0, <3>2 DEF OpenFirst, Working
    <3>7. \A i \in DOMAIN Tail(todo) : Tail(todo)[i] # "open"
      BY <3>5, <3>6
    <3>8. ~ MayYet(t)'
      BY <3>3, <3>7 DEF MayYet, Working
    <3>9. Cardinality(Openers(d, c)') = Cardinality(Openers(d, c)) - 1
      BY <1>3, <1>4, <3>4, <3>8, OneLess
    <3>10. Count(commands', OpenSignals(d, c)) = Count(commands, OpenSignals(d, c)) + 1
      BY <1>3, <2>3, <2>4, <2>8
    <3>11. UnderWay(d, c)' = UnderWay(d, c)
      <4>1. words' = words /\ 1 \in Nat /\ UnderWay(d, c) \in Nat
        BY <1>1, <1>3, UnderWayIs
      <4>2. UnderWay(d, c)' = (UnderWay(d, c) - 1) + 1
        BY <1>3, <3>9, <3>10, <4>1, UnderWaySum
      <4> QED
        BY <4>1, <4>2
    <3> QED
      BY <1>1, <1>3, <2>1, <2>6, <3>11, LapseOrStutter
  <2> QED
    BY <1>8, <2>7, <2>8
<1>9. UNCHANGED <<mixed, commands>> \/ mixed' # mixed
      \/ SendSignal(t, "open", "open") \/ SendSignal(t, "close", "closed")
  BY DEF Thread, Check, Claim, Access, Sleep, WriteRow, Wait, Pop, Finish, lockVars
<1>10. \A step, signal : SendSignal(t, step, signal) => UNCHANGED mixed
  BY DEF SendSignal
<1> QED
  BY <1>6, <1>7, <1>8, <1>9, <1>10

LEMMA GateStep ==
  ASSUME TypeOK, TypeOK', OpenInv, OpenFirst, [Next]_vars
  PROVE  [Entrance!Next]_(Entrance!vars)
<1>1. ASSUME NEW d \in Directions, NEW c \in Cards, ShowCard(d, c)
      PROVE  [Entrance!Next]_(Entrance!vars)
  <2>1. Entrance!Show(d, c)
    BY <1>1, GateShow
  <2> QED
    BY <2>1 DEF Entrance!Next
<1>2. ASSUME NEW d \in Directions, LoseWord(d) PROVE [Entrance!Next]_(Entrance!vars)
  BY <1>2, GateWordLost DEF LoseWord, lockVars
<1>3. ASSUME NEW d \in Directions, ReceiveWord(d) PROVE [Entrance!Next]_(Entrance!vars)
  BY <1>3, GateReceiveWord
<1>4. CASE Obey
  BY <1>4, GateObey
<1>5. ASSUME NEW l \in OtherLocks, NEW signal \in {"open", "closed"}, OtherCommand(l, signal)
      PROVE  [Entrance!Next]_(Entrance!vars)
  BY <1>5, GateOther
<1>6. ASSUME NEW t \in DOMAIN threads, Thread(t) PROVE [Entrance!Next]_(Entrance!vars)
  BY <1>6, GateThread
<1>7. CASE ReceiveConfirmation \/ UNCHANGED vars
  <2>1. UNCHANGED <<readings, words, threads, commands, mixed, lock>>
    BY <1>7 DEF ReceiveConfirmation, vars, readerVars, lockVars
  <2>2. Shows' = Shows
    BY <2>1, NothingGoes
  <2> QED
    BY <2>1, <2>2 DEF Entrance!vars, Shows
<1> QED
  BY <1>1, <1>2, <1>3, <1>4, <1>5, <1>6, <1>7 DEF Next

LEMMA GateInit == Init => Entrance!Init
<1> SUFFICES ASSUME Init PROVE Entrance!Init
  OBVIOUS
<1>1. TypeOK
  BY TypeInit
<1>2. \A d \in Directions : words[d] = <<>> /\ threads = <<>> /\ commands = <<>>
  BY DEF Init
<1>3. ASSUME NEW d \in Directions, NEW c \in Cards PROVE UnderWay(d, c) = 0
  <2>1. /\ Places(words[d], LastOf(c)) = {} /\ Openers(d, c) = {}
        /\ Places(commands, OpenSignals(d, c)) = {}
    BY <1>2 DEF Places, Openers
  <2>2. /\ Count(words[d], LastOf(c)) = 0 /\ Cardinality(Openers(d, c)) = 0
        /\ Count(commands, OpenSignals(d, c)) = 0
    BY <2>1, FS_EmptySet DEF Count
  <2> QED
    BY <1>1, <2>2, UnderWayIs
<1> QED
  BY <1>3 DEF Init, Entrance!Init

(* The turnstile keeps the promise of a gate: its lock opens only for a    *)
(* showing of a card that may open it, or of one that was taken for such   *)
(* a card, and for each showing once at most, whatever is lost, refused or *)
(* ended by an exception; unless the lock hears another point's frames.    *)
THEOREM TurnstileKeepsGate == Spec => OneOpeningPerShowing
<1> DEFINE GateInv == TypeOK /\ WordsInv /\ WorkInv /\ OpenInv /\ OpenFirst
<1>1. Init => GateInv
  <2> SUFFICES ASSUME Init PROVE GateInv
    OBVIOUS
  <2>1. WordsInv /\ WorkInv /\ OpenInv /\ OpenFirst
    BY DEF Init, WordsInv, ComesWhole, WorkInv, OpenInv, Alone, OpenFirst
  <2> QED
    BY <2>1, TypeInit
<1>2. GateInv /\ [Next]_vars => GateInv'
  BY TypeKept, WordsInvKept, WorkInvKept, OpenInvKept, OpenFirstKept
<1>3. GateInv /\ GateInv' /\ [Next]_vars => [Entrance!Next]_(Entrance!vars)
  BY GateStep
<1> QED
  BY <1>1, <1>2, <1>3, GateInit, PTL DEF Spec, OneOpeningPerShowing, Entrance!Spec
=============================================================================
