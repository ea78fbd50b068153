--------------------------- MODULE PmdSystem_proofs ---------------------------
(***************************************************************************)
(* What holds of a device for any buttons, any size of the event queue and *)
(* any sequence of edges, interrupts and messages.                         *)
(***************************************************************************)
EXTENDS PmdSystem, FiniteSetTheorems, TLAPS

(* The ring: a place, counted from the first event, less than a turn away. *)
LEMMA RingValue ==
  ASSUME NEW a \in 0 .. Slots - 1, NEW i \in 0 .. Slots
  PROVE  Ring(a + i) = IF a + i < Slots THEN a + i ELSE a + i - Slots
<1> USE SizesAssumption DEF Ring
<1>1. CASE a + i < Slots
  BY <1>1
<1>2. CASE a + i >= Slots
  <2>1. a + i - Slots \in 0 .. Slots - 1
    BY <1>2
  <2>2. (a + i - Slots) % Slots = a + i - Slots
    BY <2>1
  <2>3. (a + i - Slots + Slots) % Slots = (a + i - Slots) % Slots
    BY <2>1
  <2> QED
    BY <1>2, <2>2, <2>3
<1> QED
  BY <1>1, <1>2

LEMMA RingType ==
  ASSUME NEW i \in Nat
  PROVE  Ring(i) \in 0 .. Slots - 1
BY SizesAssumption DEF Ring

-----------------------------------------------------------------------------
(* Types                                                                   *)

(* What is counted down was there: an interrupt only counts up.            *)
Counted == /\ pc = "count" => nevents > 0
           /\ pc = "down" => reg > 0

LEMMA TypeInit == Init => TypeOK
<1> SUFFICES ASSUME Init PROVE TypeOK
  OBVIOUS
<1> USE SizesAssumption DEF Init
<1>1. events \in [0 .. Slots - 1 -> Events] /\ cur \in Events
  BY DEF Events
<1>2. handler \in [Buttons -> 0 .. MaxConfigs] /\ config \in [Buttons -> 0 .. MaxConfigs]
  OBVIOUS
<1>3. fevent \in 0 .. Slots - 1 /\ nevents \in 0 .. MaxEvents /\ reg \in 0 .. MaxEvents
  OBVIOUS
<1>4. heart \in 1 .. HeartbeatTicks /\ configs \in 0 .. MaxConfigs
  OBVIOUS
<1> QED
  BY <1>1, <1>2, <1>3, <1>4 DEF TypeOK, Mishaps

(* A section is a pair of a button and a version.                          *)
LEMMA SectionParts ==
  ASSUME NEW s \in Sections
  PROVE  s[1] \in Buttons /\ s[2] \in Versions /\ s = <<s[1], s[2]>>
BY DEF Sections

LEMMA DevicesType ==
  ASSUME TypeOK, NEW c \in [Buttons -> 0 .. MaxConfigs], MakeDevices(c)
  PROVE  /\ devices' \subseteq Buttons /\ sensed' \subseteq Buttons /\ flags' \subseteq Buttons
         /\ handler' \in [Buttons -> 0 .. MaxConfigs]
         /\ mishaps' \subseteq Mishaps
<1>1. PICK ok \in SUBSET Present(c) :
        /\ devices' = ok
        /\ handler' = Registered(c, ok)
        /\ sensed' = sensed \cup ok
        /\ \E raised \in SUBSET (ok \ sensed) :
             /\ flags' = flags \cup raised
             /\ mishaps' = mishaps \cup (IF raised \subseteq flags THEN {} ELSE {"edge"})
  BY DEF MakeDevices
<1>2. ok \subseteq Buttons
  BY DEF Present
<1>3. handler' \in [Buttons -> 0 .. MaxConfigs]
  BY <1>1, SizesAssumption DEF Registered
<1>4. flags' \subseteq Buttons /\ mishaps' \subseteq Mishaps
  BY <1>1, <1>2 DEF TypeOK, Mishaps
<1> QED
  BY <1>1, <1>2, <1>3, <1>4 DEF TypeOK

LEMMA TypeKept == TypeOK /\ Counted /\ [Next]_vars => TypeOK'
<1> SUFFICES ASSUME TypeOK, Counted, [Next]_vars PROVE TypeOK'
  OBVIOUS
<1> USE SizesAssumption
<1>1. ASSUME NEW b \in Buttons, Edge(b) PROVE TypeOK'
  BY <1>1 DEF TypeOK, Edge, Mishaps, confVars, queueVars, mainVars, timerVars
<1>2. ASSUME NEW b \in Buttons, Interrupt(b) PROVE TypeOK'
  <2>1. handler' \in [Buttons -> 0 .. MaxConfigs] /\ flags' \subseteq Buttons
    BY <1>2 DEF TypeOK, Interrupt, Served
  <2>2. <<b, handler[b]>> \in Events
    BY <1>2 DEF TypeOK, Interrupt, Events, Sections, Versions
  <2>3. events' \in [0 .. Slots - 1 -> Events]
    BY <1>2, <2>2 DEF TypeOK, Interrupt
  <2>4. nevents' \in 0 .. MaxEvents
    BY <1>2 DEF TypeOK, Interrupt
  <2>5. mishaps' \subseteq Mishaps
    BY <1>2 DEF TypeOK, Interrupt, Mishaps
  <2> QED
    BY <1>2, <2>1, <2>3, <2>4, <2>5 DEF TypeOK, Interrupt, confVars, mainVars, timerVars
<1>3. ASSUME TakeEvent PROVE TypeOK'
  <2>1. fevent' \in 0 .. Slots - 1
    BY <1>3, RingType DEF TypeOK, TakeEvent
  <2>2. cur' \in Events
    BY <1>3 DEF TypeOK, TakeEvent
  <2> QED
    BY <1>3, <2>1, <2>2 DEF TypeOK, TakeEvent, pinVars, confVars, timerVars
<1>4. ASSUME LoadCount("count", "down") \/ LoadCount("load", "up") PROVE TypeOK'
  BY <1>4 DEF TypeOK, LoadCount, pinVars, confVars, queueVars, timerVars
<1>5. ASSUME StoreDown PROVE TypeOK'
  BY <1>5 DEF TypeOK, Counted, StoreDown, pinVars, confVars, timerVars
<1>6. ASSUME Deliver PROVE TypeOK'
  <2>1. cur' \in Events
    BY <1>6 DEF Deliver, Events
  <2>2. CASE cur \in {Tick, Nothing} /\ DeliverTick
    <3>1. heart' \in 1 .. HeartbeatTicks /\ et' \in {"set", "posted"}
      BY <2>2 DEF TypeOK, DeliverTick, EtimerReset
    <3> QED
      BY <1>6, <2>1, <2>2, <3>1 DEF TypeOK, Deliver, DeliverTick, confVars, queueVars
  <2>3. CASE cur \in Sections /\ DeliverClick(cur[1], cur[2])
    <3>1. cur[1] \in Buttons /\ cur[2] \in Versions
      BY <2>3, SectionParts
    <3>2. handler' \in [Buttons -> 0 .. MaxConfigs]
      BY <2>3, <3>1 DEF TypeOK, DeliverClick, Versions
    <3>3. state' \in {"up", "down"} /\ mishaps' \subseteq Mishaps
      BY <2>3 DEF TypeOK, DeliverClick, Mishaps
    <3> QED
      BY <1>6, <2>1, <2>3, <3>2, <3>3 DEF TypeOK, Deliver, DeliverClick, confVars, queueVars, timerVars
  <2> QED
    BY <1>6, <2>2, <2>3 DEF Deliver
<1>7. ASSUME StartPost PROVE TypeOK'
  <2>1. reg' \in 0 .. MaxEvents
    BY <1>7, RingType DEF TypeOK, StartPost
  <2> QED
    BY <1>7, <2>1 DEF TypeOK, StartPost, pinVars, confVars, queueVars, timerVars
<1>8. ASSUME WriteSlot PROVE TypeOK'
  <2>1. events' \in [0 .. Slots - 1 -> Events]
    BY <1>8 DEF TypeOK, WriteSlot, Events
  <2> QED
    BY <1>8, <2>1 DEF TypeOK, WriteSlot, pinVars, confVars, timerVars
<1>9. ASSUME StoreUp PROVE TypeOK'
  BY <1>9 DEF TypeOK, StoreUp, pinVars, confVars
<1>10. ASSUME ConfigMessage, MakeDevices(config'), config' \in [Buttons -> 0 .. MaxConfigs],
              freed' \subseteq Sections
       PROVE  TypeOK'
  <2>1. configs' \in 0 .. MaxConfigs
    BY <1>10 DEF TypeOK, ConfigMessage
  <2>2. /\ devices' \subseteq Buttons /\ sensed' \subseteq Buttons /\ flags' \subseteq Buttons
        /\ handler' \in [Buttons -> 0 .. MaxConfigs]
        /\ mishaps' \subseteq Mishaps
    BY <1>10, DevicesType
  <2> QED
    BY <1>10, <2>1, <2>2 DEF TypeOK, ConfigMessage, queueVars, mainVars, timerVars
<1>11. ASSUME NEW bs \in SUBSET Buttons, FullConfig(bs) PROVE TypeOK'
  <2>1. config' \in [Buttons -> 0 .. MaxConfigs]
    BY <1>11 DEF TypeOK, FullConfig, ConfigMessage
  <2>2. \A b \in Present(config) : <<b, config[b]>> \in Sections
    BY DEF TypeOK, Present, Sections, Versions
  <2>3. freed' \subseteq Sections
    BY <1>11, <2>2 DEF TypeOK, FullConfig
  <2> QED
    BY <1>10, <1>11, <2>1, <2>3 DEF FullConfig
<1>12. ASSUME NEW b \in Buttons, AddSection(b) \/ DelSection(b) PROVE TypeOK'
  <2>1. config' \in [Buttons -> 0 .. MaxConfigs] /\ freed' \subseteq Sections
    BY <1>12 DEF TypeOK, AddSection, DelSection, ConfigMessage
  <2> QED
    BY <1>10, <1>12, <2>1 DEF AddSection, DelSection
<1>13. CASE UNCHANGED vars
  BY <1>13 DEF TypeOK, vars, pinVars, confVars, queueVars, mainVars, timerVars
<1> QED
  BY <1>1, <1>2, <1>3, <1>4, <1>5, <1>6, <1>7, <1>8, <1>9, <1>11, <1>12, <1>13
  DEF Next, EventStep, PostStep

LEMMA CountedKept == TypeOK /\ Counted /\ [Next]_vars => Counted'
<1> SUFFICES ASSUME TypeOK, Counted, [Next]_vars PROVE Counted'
  OBVIOUS
<1>1. ASSUME NEW b \in Buttons, Interrupt(b) PROVE Counted'
  <2>1. nevents' \in {nevents, nevents + 1} /\ UNCHANGED <<pc, reg>>
    BY <1>1 DEF Interrupt, mainVars
  <2> QED
    BY <2>1 DEF TypeOK, Counted
<1>2. CASE TakeEvent
  BY <1>2 DEF Counted, TakeEvent
<1>3. CASE LoadCount("count", "down") \/ LoadCount("load", "up")
  BY <1>3 DEF Counted, LoadCount
<1>4. CASE StoreDown \/ Deliver \/ StartPost \/ WriteSlot \/ StoreUp
  BY <1>4 DEF Counted, StoreDown, Deliver, StartPost, WriteSlot, StoreUp
<1>5. CASE UNCHANGED <<pc, reg, nevents>>
  BY <1>5 DEF Counted
<1>6. \/ UNCHANGED <<pc, reg, nevents>>
      \/ \E b \in Buttons : Interrupt(b)
      \/ TakeEvent \/ LoadCount("count", "down") \/ LoadCount("load", "up")
      \/ StoreDown \/ Deliver \/ StartPost \/ WriteSlot \/ StoreUp
  BY DEF Next, EventStep, PostStep, Edge, FullConfig, AddSection, DelSection, ConfigMessage,
         vars, queueVars, mainVars
<1> QED
  BY <1>1, <1>2, <1>3, <1>4, <1>5, <1>6

(* The state of a device stays well typed, whatever meets the queue: an    *)
(* event is never counted down that is not there.                          *)
THEOREM TypeCorrect == Spec => []TypeOK
<1>1. Init => TypeOK /\ Counted
  BY TypeInit DEF Init, Counted
<1>2. TypeOK /\ Counted /\ [Next]_vars => (TypeOK /\ Counted)'
  BY TypeKept, CountedKept
<1> QED
  BY <1>1, <1>2, PTL DEF Spec

-----------------------------------------------------------------------------
(* Who is heard                                                            *)

Calm == mishaps \cap {"race", "full", "stale"} = {}

(* Unless an interrupt met it there, the main loop has what it thinks it   *)
(* has: the number of events, and the first slot behind them.              *)
QueueInv ==
  /\ nevents <= Slots
  /\ pc = "down" => reg = nevents
  /\ pc \in {"write", "load", "up"} => nevents < Slots
  /\ pc = "write" => reg = Ring(fevent + nevents)
  /\ pc = "up" => reg = nevents

(* A section of the configuration has not been freed.                      *)
ConfInv ==
  /\ \A b \in Buttons : config[b] <= configs /\ <<b, config[b]>> \notin freed
  /\ \A s \in freed : s[2] <= configs

(* Handlers are of the sections there are.                                 *)
HandlerInv == \A b \in Buttons : handler[b] \in {0, config[b]}

Heard(b) == handler[b] = config[b] \/ <<b, config[b]>> \in Underway

Inv == /\ TypeOK /\ Counted /\ ConfInv
       /\ Calm => QueueInv /\ HandlerInv /\ \A b \in devices : Heard(b)

LEMMA InvInit == Init => Inv
<1> SUFFICES ASSUME Init PROVE Inv
  OBVIOUS
<1>1. TypeOK /\ Counted
  BY TypeInit DEF Init, Counted
<1>2. ConfInv
  <2>1. \A b \in Buttons : config[b] <= configs
    BY DEF Init
  <2> QED
    BY <2>1 DEF Init, ConfInv
<1>3. QueueInv /\ HandlerInv /\ \A b \in devices : Heard(b)
  BY SizesAssumption DEF Init, QueueInv, HandlerInv
<1> QED
  BY <1>1, <1>2, <1>3 DEF Inv

(* Misfortunes are not forgotten.                                          *)
LEMMA CalmBefore == ASSUME [Next]_vars, Calm' PROVE Calm
<1>1. mishaps \subseteq mishaps'
  BY DEF Next, EventStep, PostStep, Edge, Interrupt, TakeEvent, LoadCount, StoreDown, Deliver,
         DeliverTick, DeliverClick, StartPost, WriteSlot, StoreUp, FullConfig, AddSection,
         DelSection, MakeDevices, vars
<1> QED
  BY <1>1 DEF Calm

LEMMA ConfInvKept == ASSUME TypeOK, ConfInv, [Next]_vars PROVE ConfInv'
<1>1. CASE UNCHANGED confVars
  BY <1>1 DEF ConfInv, confVars
<1>2. ASSUME NEW bs \in SUBSET Buttons, FullConfig(bs) PROVE ConfInv'
  <2>1. configs' = configs + 1 /\ configs \in Nat
    BY <1>2, SizesAssumption DEF TypeOK, FullConfig, ConfigMessage
  <2>2. \A s \in freed' : s[2] <= configs
    BY <1>2 DEF ConfInv, FullConfig, Present
  <2>3. \A b \in Buttons : config'[b] \in {0, configs + 1}
    BY <1>2 DEF FullConfig
  <2>4. \A s \in freed' : s[2] \in Versions
    <3>1. \A b \in Present(config) : config[b] \in Versions
      BY DEF TypeOK, Present, Versions
    <3> QED
      BY <1>2, <3>1 DEF TypeOK, FullConfig, Sections
  <2>5. \A b \in Buttons : <<b, config'[b]>> \notin freed'
    BY <2>1, <2>2, <2>3, <2>4, SizesAssumption DEF Versions
  <2>6. \A s \in freed' : s[2] <= configs'
    BY <2>1, <2>2, <2>4, SizesAssumption DEF Versions
  <2> QED
    BY <2>1, <2>3, <2>5, <2>6 DEF ConfInv
<1>3. ASSUME NEW c \in Buttons, AddSection(c) \/ DelSection(c) PROVE ConfInv'
  <2>1. configs' = configs + 1 /\ configs \in Nat /\ freed' = freed
    BY <1>3, SizesAssumption DEF TypeOK, AddSection, DelSection, ConfigMessage
  <2>2. \A b \in Buttons : config'[b] \in {0, config[b], configs + 1}
    BY <1>3 DEF TypeOK, AddSection, DelSection
  <2>3. \A s \in freed : s[2] \in Versions
    BY DEF TypeOK, Sections
  <2>4. \A s \in freed' : s[2] <= configs'
    BY <2>1, <2>3, SizesAssumption DEF ConfInv, Versions
  <2>5. \A b \in Buttons : config'[b] <= configs'
    <3> SUFFICES ASSUME NEW b \in Buttons PROVE config'[b] <= configs'
      OBVIOUS
    <3>1. config[b] <= configs
      BY DEF ConfInv
    <3>2. config[b] \in 0 .. MaxConfigs
      BY DEF TypeOK
    <3>3. config'[b] = 0 \/ config'[b] = config[b] \/ config'[b] = configs + 1
      BY <2>2
    <3> QED
      BY <2>1, <3>1, <3>2, <3>3, SizesAssumption
  <2>6. \A b \in Buttons : <<b, config'[b]>> \notin freed'
    BY <2>1, <2>2, <2>3, SizesAssumption DEF ConfInv, Versions
  <2> QED
    BY <2>4, <2>5, <2>6 DEF ConfInv
<1> QED
  BY <1>1, <1>2, <1>3
  DEF Next, EventStep, PostStep, Edge, Interrupt, TakeEvent, LoadCount, StoreDown, Deliver,
      StartPost, WriteSlot, StoreUp, vars

(* An event on its way: in a live slot, or in hand.                        *)
LEMMA UnderwayIs ==
  ASSUME NEW e
  PROVE  e \in Underway <=>
           \/ \E i \in 0 .. Queued - 1 : events[Ring(fevent + i)] = e
           \/ pc \in {"count", "down", "deliver"} /\ cur = e
BY DEF Underway, Live, InHand

LEMMA UnderwayIsNext ==
  ASSUME NEW e
  PROVE  e \in Underway' <=>
           \/ \E i \in 0 .. Queued' - 1 : events'[Ring(fevent' + i)] = e
           \/ pc' \in {"count", "down", "deliver"} /\ cur' = e
BY DEF Underway, Live, InHand, Ring

(* The first free slot is none of the slots in use.                        *)
LEMMA FreeSlot ==
  ASSUME TypeOK, nevents < Slots, NEW i \in 0 .. nevents - 1
  PROVE  Ring(fevent + i) # Ring(fevent + nevents)
<1>1. fevent \in 0 .. Slots - 1 /\ nevents \in 0 .. Slots /\ i \in 0 .. Slots
  BY SizesAssumption DEF TypeOK
<1>2. Ring(fevent + i) = IF fevent + i < Slots THEN fevent + i ELSE fevent + i - Slots
  BY <1>1, RingValue
<1>3. Ring(fevent + nevents)
        = IF fevent + nevents < Slots THEN fevent + nevents ELSE fevent + nevents - Slots
  BY <1>1, RingValue
<1> QED
  BY <1>1, <1>2, <1>3, SizesAssumption

(* Whatever is on its way stays so until it is delivered.                  *)
LEMMA UnderwayStays ==
  ASSUME TypeOK, Counted, QueueInv, Calm', [Next]_vars, ~Deliver
  PROVE  Underway \subseteq Underway'
<1> SUFFICES ASSUME NEW e \in Underway PROVE e \in Underway'
  OBVIOUS
<1> USE SizesAssumption
<1>1. ASSUME NEW b \in Buttons, Interrupt(b) PROVE e \in Underway'
  <2>1. /\ pc \in {"idle", "deliver"} /\ nevents < Slots /\ nevents' = nevents + 1
        /\ events' = [events EXCEPT ![Ring(fevent + nevents)] = <<b, handler[b]>>]
        /\ UNCHANGED <<fevent, pc, cur>>
    <3>1. "race" \notin mishaps' /\ "full" \notin mishaps'
      BY DEF Calm
    <3>2. nevents # Slots /\ pc \in {"idle", "deliver"}
      BY <1>1, <3>1 DEF Interrupt
    <3> QED
      BY <1>1, <3>2 DEF TypeOK, QueueInv, Interrupt, mainVars
  <2>2. Queued = nevents /\ Queued' = nevents + 1
    BY <2>1 DEF Queued
  <2>3. ASSUME NEW i \in 0 .. nevents - 1, events[Ring(fevent + i)] = e
        PROVE  i \in 0 .. Queued' - 1 /\ events'[Ring(fevent' + i)] = e
    <3>1. Ring(fevent + i) # Ring(fevent + nevents)
      BY <2>1, FreeSlot
    <3>2. Ring(fevent + i) \in 0 .. Slots - 1
      <4>1. fevent + i \in Nat
        BY DEF TypeOK
      <4> QED
        BY <4>1, RingType
    <3>3. events'[Ring(fevent + i)] = e
      BY <2>1, <2>3, <3>1, <3>2 DEF TypeOK
    <3>4. i \in 0 .. Queued' - 1
      BY <2>2 DEF TypeOK
    <3> QED
      BY <2>1, <3>3, <3>4
  <2> QED
    BY <2>1, <2>2, <2>3, UnderwayIs, UnderwayIsNext
<1>2. CASE TakeEvent
  <2>1. /\ pc = "idle" /\ nevents > 0 /\ cur' = events[fevent] /\ fevent' = Ring(fevent + 1)
        /\ pc' = "count" /\ UNCHANGED <<events, nevents>>
    BY <1>2 DEF TakeEvent
  <2>2. Queued = nevents /\ Queued' = nevents - 1
    BY <2>1 DEF Queued
  <2>3. PICK i \in 0 .. nevents - 1 : events[Ring(fevent + i)] = e
    BY <2>1, <2>2, UnderwayIs
  <2>4. /\ fevent \in 0 .. Slots - 1 /\ nevents \in 0 .. Slots /\ i \in 0 .. Slots
        /\ 1 \in 0 .. Slots
    BY DEF TypeOK, QueueInv
  <2>5. Ring(fevent + i) = IF fevent + i < Slots THEN fevent + i ELSE fevent + i - Slots
    BY <2>4, RingValue
  <2>6. fevent' = IF fevent + 1 < Slots THEN fevent + 1 ELSE fevent + 1 - Slots
    BY <2>1, <2>4, RingValue
  <2>7. CASE i = 0
    BY <2>1, <2>3, <2>4, <2>5, <2>7, UnderwayIsNext
  <2>8. CASE i > 0
    <3>1. fevent' \in 0 .. Slots - 1 /\ i - 1 \in 0 .. Slots
      BY <2>4, <2>6, <2>8
    <3>2. Ring(fevent' + (i - 1))
            = IF fevent' + (i - 1) < Slots THEN fevent' + (i - 1) ELSE fevent' + (i - 1) - Slots
      BY <3>1, RingValue
    <3>3. Ring(fevent' + (i - 1)) = Ring(fevent + i)
      BY <2>3, <2>4, <2>5, <2>6, <2>8, <3>2 DEF TypeOK, QueueInv
    <3>4. i - 1 \in 0 .. Queued' - 1
      BY <2>2, <2>3, <2>8 DEF TypeOK
    <3> QED
      BY <2>1, <2>3, <3>3, <3>4, UnderwayIsNext
  <2> QED
    BY <2>4, <2>7, <2>8
<1>3. CASE LoadCount("count", "down") \/ LoadCount("load", "up")
  <2>1. /\ UNCHANGED <<events, fevent, nevents, cur>>
        /\ \/ pc = "count" /\ pc' = "down"
           \/ pc = "load" /\ pc' = "up"
    BY <1>3 DEF LoadCount, queueVars
  <2>2. Queued' = Queued
    BY <2>1 DEF Queued
  <2> QED
    BY <2>1, <2>2, UnderwayIs, UnderwayIsNext
<1>4. CASE StoreDown
  <2>1. /\ pc = "down" /\ nevents' = nevents - 1 /\ pc' = "deliver"
        /\ UNCHANGED <<events, fevent, cur>>
    BY <1>4 DEF QueueInv, StoreDown
  <2>2. Queued' = Queued
    BY <2>1 DEF Queued
  <2> QED
    BY <2>1, <2>2, UnderwayIs, UnderwayIsNext
<1>5. CASE StartPost
  <2>1. UNCHANGED <<events, fevent, nevents, cur>> /\ pc = "idle" /\ pc' = "write"
    BY <1>5 DEF StartPost, queueVars
  <2>2. Queued' = Queued
    BY <2>1 DEF Queued
  <2> QED
    BY <2>1, <2>2, UnderwayIs, UnderwayIsNext
<1>6. CASE WriteSlot
  <2>1. /\ pc = "write" /\ pc' = "load" /\ nevents < Slots
        /\ events' = [events EXCEPT ![Ring(fevent + nevents)] = Tick]
        /\ UNCHANGED <<fevent, nevents, cur>>
    BY <1>6 DEF QueueInv, WriteSlot
  <2>2. Queued = nevents /\ Queued' = nevents
    BY <2>1 DEF Queued
  <2>3. ASSUME NEW i \in 0 .. nevents - 1
        PROVE  events'[Ring(fevent + i)] = events[Ring(fevent + i)]
    <3>1. Ring(fevent + i) # Ring(fevent + nevents)
      BY <2>1, FreeSlot
    <3>2. Ring(fevent + i) \in 0 .. Slots - 1
      <4>1. fevent + i \in Nat
        BY DEF TypeOK
      <4> QED
        BY <4>1, RingType
    <3> QED
      BY <2>1, <3>1, <3>2 DEF TypeOK
  <2> QED
    BY <2>1, <2>2, <2>3, UnderwayIs, UnderwayIsNext
<1>7. CASE StoreUp
  <2>1. pc = "up" /\ pc' = "idle" /\ nevents' = nevents + 1 /\ UNCHANGED <<events, fevent, cur>>
    BY <1>7 DEF QueueInv, StoreUp
  <2>2. Queued = nevents /\ Queued' = nevents + 1
    BY <2>1 DEF Queued
  <2>3. 0 .. Queued - 1 \subseteq 0 .. Queued' - 1
    BY <2>2 DEF TypeOK
  <2> QED
    BY <2>1, <2>3, UnderwayIs, UnderwayIsNext
<1>8. CASE UNCHANGED <<events, fevent, nevents, pc, cur>>
  <2>1. Queued' = Queued
    BY <1>8 DEF Queued
  <2> QED
    BY <1>8, <2>1, UnderwayIs, UnderwayIsNext
<1> QED
  BY <1>1, <1>2, <1>3, <1>4, <1>5, <1>6, <1>7, <1>8
  DEF Next, EventStep, PostStep, Edge, FullConfig, AddSection, DelSection, ConfigMessage,
      vars, queueVars, mainVars

LEMMA QueueInvKept ==
  ASSUME TypeOK, Counted, QueueInv, mishaps' \cap {"race", "full"} = {}, [Next]_vars
  PROVE  QueueInv'
<1> USE SizesAssumption
<1>1. ASSUME NEW b \in Buttons, Interrupt(b) PROVE QueueInv'
  <2>1. "race" \notin mishaps' /\ "full" \notin mishaps'
    OBVIOUS
  <2>2. nevents # Slots /\ pc \in {"idle", "deliver"} /\ nevents' = nevents + 1 /\ pc' = pc
    BY <1>1, <2>1 DEF Interrupt, mainVars
  <2> QED
    BY <2>2 DEF TypeOK, QueueInv
<1>2. CASE TakeEvent
  BY <1>2 DEF QueueInv, TakeEvent
<1>3. CASE LoadCount("count", "down") \/ LoadCount("load", "up")
  BY <1>3 DEF QueueInv, LoadCount, queueVars
<1>4. CASE StoreDown
  BY <1>4 DEF TypeOK, QueueInv, StoreDown
<1>5. CASE Deliver
  BY <1>5 DEF QueueInv, Deliver, queueVars
<1>6. CASE StartPost
  <2>1. nevents < Slots
    BY <1>6 DEF TypeOK, QueueInv, StartPost
  <2> QED
    BY <1>6, <2>1 DEF QueueInv, StartPost, queueVars, Ring
<1>7. CASE WriteSlot
  BY <1>7 DEF QueueInv, WriteSlot
<1>8. CASE StoreUp
  BY <1>8 DEF TypeOK, QueueInv, StoreUp
<1>9. CASE UNCHANGED <<fevent, nevents, pc, reg>>
  BY <1>9 DEF QueueInv, Ring
<1> QED
  BY <1>1, <1>2, <1>3, <1>4, <1>5, <1>6, <1>7, <1>8, <1>9
  DEF Next, EventStep, PostStep, Edge, FullConfig, AddSection, DelSection, ConfigMessage,
      vars, queueVars, mainVars

(* What a message about the configuration leaves of each button: it is     *)
(* heard, if its driver got to work.                                       *)
LEMMA DevicesMade ==
  ASSUME MakeDevices(config')
  PROVE  /\ devices' \subseteq Buttons
         /\ \A b \in Buttons : handler'[b] \in {0, config'[b]}
         /\ \A b \in devices' : handler'[b] = config'[b]
<1>1. PICK ok \in SUBSET Present(config') : devices' = ok /\ handler' = Registered(config', ok)
  BY DEF MakeDevices
<1> QED
  BY <1>1 DEF Present, Registered

(* A click that is not of a section of the past registers the handler of   *)
(* the section there is: that section has not been freed.                  *)
LEMMA ClickRegisters ==
  ASSUME TypeOK, ConfInv, HandlerInv, Calm', cur \in Sections, DeliverClick(cur[1], cur[2])
  PROVE  /\ cur[2] = config[cur[1]] /\ config[cur[1]] # 0
         /\ handler' = [handler EXCEPT ![cur[1]] = config[cur[1]]]
<1>1. cur[1] \in Buttons /\ cur[2] \in Versions
  BY SectionParts
<1>2. "stale" \notin mishaps'
  BY DEF Calm
<1>3. config[cur[1]] = cur[2]
  BY <1>2 DEF DeliverClick
<1>4. <<cur[1], cur[2]>> \notin freed
  BY <1>1, <1>3 DEF ConfInv
<1>5. handler[cur[1]] \in {0, config[cur[1]]}
  BY <1>1 DEF HandlerInv
<1>6. handler' = IF handler[cur[1]] = 0 THEN [handler EXCEPT ![cur[1]] = cur[2]] ELSE handler
  BY <1>4 DEF DeliverClick
<1>7. CASE handler[cur[1]] = 0
  BY <1>1, <1>3, <1>6, <1>7 DEF Versions
<1>8. CASE handler[cur[1]] # 0
  <2>1. handler' = handler /\ handler[cur[1]] = config[cur[1]]
    BY <1>5, <1>6, <1>8
  <2>2. handler = [handler EXCEPT ![cur[1]] = config[cur[1]]]
    BY <1>1, <2>1 DEF TypeOK
  <2> QED
    BY <1>1, <1>3, <2>1, <2>2 DEF Versions
<1> QED
  BY <1>7, <1>8

LEMMA HandlerInvKept ==
  ASSUME TypeOK, ConfInv, HandlerInv, Calm', [Next]_vars
  PROVE  HandlerInv'
<1>1. ASSUME NEW b \in Buttons, Interrupt(b) PROVE HandlerInv'
  BY <1>1 DEF TypeOK, HandlerInv, Interrupt, confVars
<1>2. CASE Deliver
  <2>1. UNCHANGED config
    BY <1>2 DEF Deliver, confVars
  <2>2. CASE DeliverTick
    BY <2>1, <2>2 DEF HandlerInv, DeliverTick
  <2>3. CASE cur \in Sections /\ DeliverClick(cur[1], cur[2])
    <3>1. handler' = [handler EXCEPT ![cur[1]] = config[cur[1]]]
      BY <2>3, ClickRegisters
    <3> QED
      BY <2>1, <3>1 DEF TypeOK, HandlerInv
  <2> QED
    BY <1>2, <2>2, <2>3 DEF Deliver
<1>3. CASE MakeDevices(config')
  BY <1>3, DevicesMade DEF HandlerInv
<1>4. CASE UNCHANGED <<handler, config>>
  BY <1>4 DEF HandlerInv
<1> QED
  BY <1>1, <1>2, <1>3, <1>4
  DEF Next, EventStep, PostStep, Edge, TakeEvent, LoadCount, StoreDown, StartPost, WriteSlot,
      StoreUp, FullConfig, AddSection, DelSection, vars, pinVars, confVars

LEMMA HeardKept ==
  ASSUME TypeOK, Counted, ConfInv, QueueInv, HandlerInv, \A b \in devices : Heard(b),
         Calm', [Next]_vars
  PROVE  \A b \in devices' : Heard(b)'
<1>1. ASSUME NEW b \in Buttons, Interrupt(b) PROVE \A c \in devices' : Heard(c)'
  <2>1. Underway \subseteq Underway'
    <3>1. ~Deliver
      BY <1>1 DEF Deliver, Interrupt, mainVars
    <3> QED
      BY <3>1, UnderwayStays
  <2>2. UNCHANGED <<config, devices, fevent, pc>> /\ handler' = [handler EXCEPT ![b] = 0]
    BY <1>1 DEF Interrupt, confVars, mainVars
  <2>3. handler[b] = config[b]
    BY <1>1 DEF HandlerInv, Interrupt
  <2>4. <<b, config[b]>> \in Underway'
    <3>1. "race" \notin mishaps' /\ "full" \notin mishaps'
      BY DEF Calm
    <3>2. /\ pc \in {"idle", "deliver"} /\ nevents' = nevents + 1
          /\ events' = [events EXCEPT ![Ring(fevent + nevents)] = <<b, handler[b]>>]
      BY <1>1, <3>1 DEF Interrupt
    <3>3. Queued' = nevents + 1 /\ nevents \in 0 .. Queued' - 1
      BY <2>2, <3>2, SizesAssumption DEF TypeOK, Queued
    <3>4. Ring(fevent + nevents) \in 0 .. Slots - 1
      <4>1. fevent + nevents \in Nat
        BY SizesAssumption DEF TypeOK
      <4> QED
        BY <4>1, RingType
    <3>5. events'[Ring(fevent' + nevents)] = <<b, config[b]>>
      BY <2>2, <2>3, <3>2, <3>4 DEF TypeOK
    <3> QED
      BY <3>3, <3>5, UnderwayIsNext
  <2>5. ASSUME NEW c \in devices' PROVE Heard(c)'
    <3>1. CASE c = b
      BY <2>2, <2>4, <3>1 DEF Heard
    <3>2. CASE c # b
      <4>1. c \in Buttons /\ handler'[c] = handler[c] /\ Heard(c)
        BY <2>2, <2>5, <3>2 DEF TypeOK
      <4> QED
        BY <2>1, <2>2, <4>1 DEF Heard
    <3> QED
      BY <3>1, <3>2
  <2> QED
    BY <2>5
<1>2. CASE Deliver
  <2>1. UNCHANGED <<config, devices, events, fevent, nevents>> /\ pc = "deliver" /\ pc' = "idle"
    BY <1>2 DEF Deliver, confVars, queueVars
  <2>2. Queued' = Queued
    BY <2>1 DEF Queued
  <2>3. \A e : e \in Underway => e = cur \/ e \in Underway'
    BY <2>1, <2>2, UnderwayIs, UnderwayIsNext
  <2> SUFFICES ASSUME NEW c \in devices' PROVE Heard(c)'
    OBVIOUS
  <2>4. c \in Buttons /\ Heard(c)
    BY <2>1 DEF TypeOK
  <2>5. CASE cur \in {Tick, Nothing} /\ DeliverTick
    <3>1. UNCHANGED handler
      BY <2>5 DEF DeliverTick
    <3>2. CASE config[c] = 0
      BY <2>1, <2>4, <3>1, <3>2 DEF HandlerInv, Heard
    <3>3. CASE config[c] # 0
      <4>1. <<c, config[c]>> \in Sections
        BY <2>4, <3>3 DEF TypeOK, Sections, Versions
      <4>2. <<c, config[c]>> # cur
        BY <2>5, <4>1, EventsAssumption
      <4> QED
        BY <2>1, <2>3, <2>4, <3>1, <4>2 DEF Heard
    <3> QED
      BY <3>2, <3>3
  <2>6. CASE cur \in Sections /\ DeliverClick(cur[1], cur[2])
    <3>1. handler' = [handler EXCEPT ![cur[1]] = config[cur[1]]]
      BY <2>6, ClickRegisters
    <3>2. CASE cur[1] = c
      BY <2>1, <2>4, <3>1, <3>2 DEF TypeOK, Heard
    <3>3. CASE cur[1] # c
      <4>1. <<c, config[c]>> # cur /\ handler'[c] = handler[c]
        BY <2>4, <3>1, <3>3 DEF TypeOK
      <4> QED
        BY <2>1, <2>3, <2>4, <4>1 DEF Heard
    <3> QED
      BY <3>2, <3>3
  <2> QED
    BY <1>2, <2>5, <2>6 DEF Deliver
<1>3. CASE MakeDevices(config')
  BY <1>3, DevicesMade DEF Heard
<1>4. CASE UNCHANGED <<handler, config, devices>> /\ ~Deliver
  BY <1>4, UnderwayStays DEF Heard
<1> QED
  BY <1>1, <1>2, <1>3, <1>4
  DEF Next, EventStep, PostStep, Edge, TakeEvent, LoadCount, StoreDown, StartPost, WriteSlot,
      StoreUp, FullConfig, AddSection, DelSection, vars, pinVars, confVars

(* A button that was set up is heard, however interrupts, events and       *)
(* messages about the configuration interleave, as long as no event is     *)
(* refused or lost and none of a section of the past is delivered.         *)
THEOREM EveryButtonHeard == Spec => []NeverDeaf
<1>1. Init => Inv
  BY InvInit
<1>2. Inv /\ [Next]_vars => Inv'
  <2> SUFFICES ASSUME Inv, [Next]_vars PROVE Inv'
    OBVIOUS
  <2>1. TypeOK' /\ Counted' /\ ConfInv'
    BY TypeKept, CountedKept, ConfInvKept DEF Inv
  <2>2. ASSUME Calm' PROVE QueueInv' /\ HandlerInv' /\ \A b \in devices' : Heard(b)'
    <3>1. QueueInv /\ HandlerInv /\ \A b \in devices : Heard(b)
      BY <2>2, CalmBefore DEF Inv
    <3>2. mishaps' \cap {"race", "full"} = {}
      BY <2>2 DEF Calm
    <3> QED
      BY <2>2, <3>1, <3>2, QueueInvKept, HandlerInvKept, HeardKept DEF Inv
  <2> QED
    BY <2>1, <2>2 DEF Inv
<1>3. Inv => NeverDeaf
  BY DEF Inv, Calm, Heard, NeverDeaf
<1> QED
  BY <1>1, <1>2, <1>3, PTL DEF Spec

-----------------------------------------------------------------------------
(* What is reported follows the pins                                       *)

(* The n slots from the slot f on, and those that hold an edge.            *)
Window(f, n) == {Ring(f + i) : i \in 0 .. n - 1}
Kept(ev, f, n) == {s \in Window(f, n) : ev[s] \in Sections}

LEMMA WindowGrows ==
  ASSUME NEW f \in 0 .. Slots - 1, NEW n \in 0 .. Slots - 1
  PROVE  /\ Window(f, n + 1) = Window(f, n) \cup {Ring(f + n)}
         /\ Ring(f + n) \notin Window(f, n)
<1> USE SizesAssumption
<1>1. 0 .. (n + 1) - 1 = (0 .. n - 1) \cup {n}
  OBVIOUS
<1>2. Window(f, n + 1) = Window(f, n) \cup {Ring(f + n)}
  BY <1>1 DEF Window
<1>3. ASSUME NEW i \in 0 .. n - 1 PROVE Ring(f + i) # Ring(f + n)
  <2>1. i \in 0 .. Slots /\ n \in 0 .. Slots
    OBVIOUS
  <2>2. Ring(f + i) = IF f + i < Slots THEN f + i ELSE f + i - Slots
    BY <2>1, RingValue
  <2>3. Ring(f + n) = IF f + n < Slots THEN f + n ELSE f + n - Slots
    BY <2>1, RingValue
  <2> QED
    BY <2>2, <2>3
<1> QED
  BY <1>2, <1>3 DEF Window

LEMMA WindowShrinks ==
  ASSUME NEW f \in 0 .. Slots - 1, NEW n \in 1 .. Slots
  PROVE  /\ f \in Window(f, n)
         /\ Window(Ring(f + 1), n - 1) = Window(f, n) \ {f}
<1> USE SizesAssumption
<1> DEFINE g == Ring(f + 1)
<1>1. g = IF f + 1 < Slots THEN f + 1 ELSE f + 1 - Slots
  <2>1. 1 \in 0 .. Slots
    OBVIOUS
  <2> QED
    BY <2>1, RingValue
<1>2. g \in 0 .. Slots - 1
  BY <1>1
<1> HIDE DEF g
<1>3. \A i \in 0 .. n - 1 : Ring(f + i) = IF f + i < Slots THEN f + i ELSE f + i - Slots
  BY RingValue
<1>4. \A i \in 0 .. n - 2 : Ring(g + i) = IF g + i < Slots THEN g + i ELSE g + i - Slots
  BY <1>2, RingValue
<1>5. ASSUME NEW i \in 0 .. n - 2
      PROVE  i + 1 \in 0 .. n - 1 /\ Ring(g + i) = Ring(f + (i + 1)) /\ Ring(g + i) # f
  <2>1. i + 1 \in 0 .. n - 1
    OBVIOUS
  <2>2. Ring(f + (i + 1)) = IF f + (i + 1) < Slots THEN f + (i + 1) ELSE f + (i + 1) - Slots
    BY <1>3, <2>1
  <2>3. Ring(g + i) = IF g + i < Slots THEN g + i ELSE g + i - Slots
    BY <1>4
  <2> QED
    BY <1>1, <2>1, <2>2, <2>3
<1>6. Ring(f + 0) = f /\ 0 \in 0 .. n - 1
  BY <1>3
<1>7. ASSUME NEW i \in 1 .. n - 1
      PROVE  i - 1 \in 0 .. n - 2 /\ Ring(g + (i - 1)) = Ring(f + i)
  <2>1. i - 1 \in 0 .. n - 2 /\ i \in 0 .. n - 1
    OBVIOUS
  <2>2. Ring(f + i) = IF f + i < Slots THEN f + i ELSE f + i - Slots
    BY <1>3, <2>1
  <2>3. Ring(g + (i - 1)) = IF g + (i - 1) < Slots THEN g + (i - 1) ELSE g + (i - 1) - Slots
    BY <1>4, <2>1
  <2> QED
    BY <1>1, <2>1, <2>2, <2>3
<1>8. Window(g, n - 1) = {Ring(g + i) : i \in 0 .. n - 2}
  BY DEF Window
<1>9. ASSUME NEW x \in Window(g, n - 1) PROVE x \in Window(f, n) \ {f}
  BY <1>5, <1>8 DEF Window
<1>10. ASSUME NEW x \in Window(f, n), x # f PROVE x \in Window(g, n - 1)
  <2>1. PICK i \in 0 .. n - 1 : x = Ring(f + i)
    BY DEF Window
  <2>2. i \in 1 .. n - 1
    BY <1>6, <1>10, <2>1
  <2> QED
    BY <1>7, <1>8, <2>1, <2>2
<1>11. f \in Window(f, n)
  BY <1>6 DEF Window
<1> QED
  BY <1>9, <1>10, <1>11 DEF g

LEMMA WindowFinite ==
  ASSUME NEW f \in 0 .. Slots - 1, NEW n \in 0 .. Slots, NEW ev
  PROVE  /\ Window(f, n) \subseteq 0 .. Slots - 1
         /\ IsFiniteSet(Kept(ev, f, n)) /\ Cardinality(Kept(ev, f, n)) \in Nat
<1>1. Window(f, n) \subseteq 0 .. Slots - 1
  BY RingType, SizesAssumption DEF Window
<1>2. IsFiniteSet(0 .. Slots - 1)
  BY FS_Interval, SizesAssumption
<1>3. Kept(ev, f, n) \subseteq 0 .. Slots - 1
  BY <1>1 DEF Kept
<1>4. IsFiniteSet(Kept(ev, f, n))
  BY <1>2, <1>3, FS_Subset
<1> QED
  BY <1>1, <1>4, FS_CardinalityType

Plain == mishaps \cap {"race", "full", "edge"} = {}

LEMMA PlainBefore == ASSUME [Next]_vars, Plain' PROVE Plain
<1>1. mishaps \subseteq mishaps'
  BY DEF Next, EventStep, PostStep, Edge, Interrupt, TakeEvent, LoadCount, StoreDown, Deliver,
         DeliverTick, DeliverClick, StartPost, WriteSlot, StoreUp, FullConfig, AddSection,
         DelSection, MakeDevices, vars
<1> QED
  BY <1>1 DEF Plain

(* The slot that is written but not counted yet holds a tick.              *)
TickWritten == pc \in {"load", "up"} => events[Ring(fevent + nevents)] = Tick

KeptEdges == Cardinality(Kept(events, fevent, Queued))
HandCount == IF InHand \cap Sections = {} THEN 0 ELSE 1
StateCount == IF state = "up" THEN 0 ELSE 1
Total == Cardinality(level) + Cardinality(flags) + KeptEdges + HandCount + StateCount

Follows ==
  /\ QueueInv /\ TickWritten
  /\ IsFiniteSet(level) /\ IsFiniteSet(flags)
  /\ Total % 2 = 0

LEMMA QueuedType ==
  ASSUME TypeOK, Counted, QueueInv
  PROVE  Queued \in 0 .. Slots
BY SizesAssumption DEF TypeOK, Counted, QueueInv, Queued

LEMMA CountsType ==
  ASSUME TypeOK, Counted, Follows
  PROVE  /\ KeptEdges \in Nat /\ HandCount \in Nat /\ StateCount \in Nat
         /\ Cardinality(level) \in Nat /\ Cardinality(flags) \in Nat
<1>1. Queued \in 0 .. Slots /\ fevent \in 0 .. Slots - 1
  BY QueuedType DEF TypeOK, Follows
<1>2. KeptEdges \in Nat
  BY <1>1, WindowFinite DEF KeptEdges
<1>3. HandCount \in Nat /\ StateCount \in Nat
  BY DEF HandCount, StateCount
<1> QED
  BY <1>2, <1>3, FS_CardinalityType DEF Follows

LEMMA TickWrittenKept ==
  ASSUME TypeOK, QueueInv, TickWritten, Plain', [Next]_vars
  PROVE  TickWritten'
<1>1. ASSUME NEW b \in Buttons, Interrupt(b) PROVE TickWritten'
  <2>1. "race" \notin mishaps' /\ "full" \notin mishaps'
    BY DEF Plain
  <2>2. pc \in {"idle", "deliver"} /\ pc' = pc
    BY <1>1, <2>1 DEF Interrupt, mainVars
  <2> QED
    BY <2>2 DEF TickWritten
<1>2. CASE TakeEvent
  BY <1>2 DEF TickWritten, TakeEvent
<1>3. CASE LoadCount("count", "down") \/ LoadCount("load", "up")
  BY <1>3 DEF TickWritten, LoadCount, queueVars, Ring
<1>4. CASE StoreDown \/ Deliver \/ StartPost \/ StoreUp
  BY <1>4 DEF TickWritten, StoreDown, Deliver, StartPost, StoreUp
<1>5. CASE WriteSlot
  <2>1. reg = Ring(fevent + nevents) /\ reg \in 0 .. Slots - 1
    <3>1. reg = Ring(fevent + nevents)
      BY <1>5 DEF QueueInv, WriteSlot
    <3>2. fevent + nevents \in Nat
      BY SizesAssumption DEF TypeOK
    <3> QED
      BY <3>1, <3>2, RingType
  <2>2. events'[reg] = Tick
    BY <1>5, <2>1 DEF TypeOK, WriteSlot
  <2> QED
    BY <1>5, <2>1, <2>2 DEF TickWritten, WriteSlot, Ring
<1>6. CASE UNCHANGED <<events, fevent, nevents, pc>>
  BY <1>6 DEF TickWritten, Ring
<1> QED
  BY <1>1, <1>2, <1>3, <1>4, <1>5, <1>6
  DEF Next, EventStep, PostStep, Edge, FullConfig, AddSection, DelSection, ConfigMessage,
      vars, queueVars, mainVars

(* What the queue and the main loop hold, after a step.                    *)
LEMMA KeptNext == KeptEdges' = Cardinality(Kept(events', fevent', Queued'))
BY DEF KeptEdges, Kept, Window, Ring

LEMMA EdgeTotal ==
  ASSUME TypeOK, Counted, Follows, Plain', NEW b \in Buttons, Edge(b)
  PROVE  IsFiniteSet(level') /\ IsFiniteSet(flags') /\ Total' \in {Total, Total + 2}
<1>1. b \in sensed /\ b \notin flags
  BY DEF Edge, Plain
<1>2. flags' = flags \cup {b}
  BY <1>1 DEF Edge
<1>3. IsFiniteSet(flags') /\ Cardinality(flags') = Cardinality(flags) + 1
  BY <1>1, <1>2, FS_AddElement DEF Follows
<1>4. /\ IsFiniteSet(level')
      /\ Cardinality(level') \in {Cardinality(level) + 1, Cardinality(level) - 1}
  <2>1. CASE b \in level
    BY <2>1, FS_RemoveElement DEF Edge, Follows
  <2>2. CASE b \notin level
    BY <2>2, FS_AddElement DEF Edge, Follows
  <2> QED
    BY <2>1, <2>2
<1>5. Cardinality(level) \in Nat /\ Cardinality(flags) \in Nat
  BY FS_CardinalityType DEF Follows
<1>6. UNCHANGED <<events, fevent, nevents, pc, cur, state>>
  BY DEF Edge, queueVars, mainVars
<1>7. UNCHANGED <<KeptEdges, HandCount, StateCount>>
  <2>1. Queued' = Queued /\ InHand' = InHand
    BY <1>6 DEF Queued, InHand
  <2> QED
    BY <1>6, <2>1, KeptNext DEF KeptEdges, HandCount, StateCount
<1>8. KeptEdges \in Nat /\ HandCount \in Nat /\ StateCount \in Nat
  BY CountsType
<1> QED
  BY <1>3, <1>4, <1>5, <1>7, <1>8 DEF Total

(* An interrupt: what was due is in the queue.                             *)
LEMMA InterruptTotal ==
  ASSUME TypeOK, Counted, Follows, Plain', NEW b \in Buttons, Interrupt(b)
  PROVE  IsFiniteSet(level') /\ IsFiniteSet(flags') /\ Total' = Total
<1> DEFINE s == Ring(fevent + nevents)
           e == <<b, handler[b]>>
<1>1. "race" \notin mishaps' /\ "full" \notin mishaps'
  BY DEF Plain
<1>2. /\ nevents # Slots /\ nevents' = nevents + 1 /\ pc \in {"idle", "deliver"}
      /\ events' = [events EXCEPT ![s] = e]
      /\ b \in flags /\ flags' = flags \ {b} /\ handler[b] # 0
      /\ UNCHANGED <<level, fevent, pc, cur, state>>
  BY <1>1 DEF Interrupt, Served, mainVars
<1>3. fevent \in 0 .. Slots - 1 /\ nevents \in 0 .. Slots - 1
  BY <1>2, SizesAssumption DEF TypeOK, Follows, QueueInv
<1>4. s \in 0 .. Slots - 1
  <2>1. fevent + nevents \in Nat
    BY <1>3, SizesAssumption
  <2> QED
    BY <2>1, RingType
<1>5. e \in Sections
  BY <1>2 DEF TypeOK, Sections, Versions
<1>6. Queued = nevents /\ Queued' = nevents + 1
  BY <1>2 DEF Queued
<1>7. Window(fevent, nevents + 1) = Window(fevent, nevents) \cup {s} /\ s \notin Window(fevent, nevents)
  BY <1>3, WindowGrows
<1>8. Kept(events', fevent', Queued') = Kept(events, fevent, Queued) \cup {s}
  <2>1. Window(fevent, nevents) \subseteq 0 .. Slots - 1
    BY <1>3, WindowFinite, SizesAssumption
  <2>2. events'[s] = e /\ \A x \in Window(fevent, nevents) : events'[x] = events[x]
    BY <1>2, <1>4, <1>7, <2>1 DEF TypeOK
  <2> HIDE DEF s, e
  <2> QED
    BY <1>2, <1>5, <1>6, <1>7, <2>2 DEF Kept
<1>9. KeptEdges' = KeptEdges + 1
  <2>1. s \notin Kept(events, fevent, Queued)
    BY <1>6, <1>7 DEF Kept
  <2>2. IsFiniteSet(Kept(events, fevent, Queued))
    BY <1>3, <1>6, WindowFinite, SizesAssumption
  <2> HIDE DEF s
  <2> QED
    BY <1>8, <2>1, <2>2, FS_AddElement, KeptNext DEF KeptEdges
<1>10. IsFiniteSet(flags') /\ Cardinality(flags') = Cardinality(flags) - 1
  BY <1>2, FS_RemoveElement DEF Follows
<1>11. UNCHANGED <<HandCount, StateCount>>
  BY <1>2 DEF HandCount, InHand, StateCount
<1>12. /\ KeptEdges \in Nat /\ HandCount \in Nat /\ StateCount \in Nat
       /\ Cardinality(level) \in Nat /\ Cardinality(flags) \in Nat
  BY CountsType
<1> QED
  BY <1>2, <1>9, <1>10, <1>11, <1>12 DEF Total, Follows

(* The main loop takes an event: it is in hand.                            *)
LEMMA TakeTotal ==
  ASSUME TypeOK, Counted, Follows, TakeEvent
  PROVE  Total' = Total
<1>1. /\ pc = "idle" /\ nevents > 0 /\ cur' = events[fevent] /\ fevent' = Ring(fevent + 1)
      /\ pc' = "count" /\ UNCHANGED <<events, nevents, level, flags, state>>
  BY DEF TakeEvent, pinVars
<1>2. fevent \in 0 .. Slots - 1 /\ nevents \in 1 .. Slots
  BY <1>1, SizesAssumption DEF TypeOK, Follows, QueueInv
<1>3. Queued = nevents /\ Queued' = nevents - 1
  BY <1>1 DEF Queued
<1>4. fevent \in Window(fevent, nevents) /\ Window(fevent', nevents - 1) = Window(fevent, nevents) \ {fevent}
  BY <1>1, <1>2, WindowShrinks
<1>5. Kept(events', fevent', Queued') = Kept(events, fevent, Queued) \ {fevent}
  BY <1>1, <1>3, <1>4 DEF Kept
<1>6. IsFiniteSet(Kept(events, fevent, Queued)) /\ KeptEdges \in Nat
  BY <1>2, <1>3, WindowFinite, SizesAssumption DEF KeptEdges
<1>7. KeptEdges' = IF fevent \in Kept(events, fevent, Queued) THEN KeptEdges - 1 ELSE KeptEdges
  BY <1>5, <1>6, FS_RemoveElement, KeptNext DEF KeptEdges
<1>8. fevent \in Kept(events, fevent, Queued) <=> events[fevent] \in Sections
  BY <1>3, <1>4 DEF Kept
<1>9. InHand = {} /\ InHand' = {events[fevent]}
  BY <1>1 DEF InHand
<1>10. HandCount = 0 /\ HandCount' = IF events[fevent] \in Sections THEN 1 ELSE 0
  BY <1>9 DEF HandCount
<1>11. StateCount' = StateCount
  BY <1>1 DEF StateCount
<1>12. StateCount \in Nat /\ Cardinality(level) \in Nat /\ Cardinality(flags) \in Nat
  BY CountsType
<1> QED
  BY <1>1, <1>6, <1>7, <1>8, <1>10, <1>11, <1>12 DEF Total

(* It is delivered: what was said last is the other state.                 *)
LEMMA DeliverTotal ==
  ASSUME TypeOK, Counted, Follows, Deliver
  PROVE  Total' \in {Total - 2, Total}
<1>1. /\ pc = "deliver" /\ pc' = "idle" /\ UNCHANGED <<events, fevent, nevents, level, flags>>
  BY DEF Deliver, queueVars
<1>2. KeptEdges' = KeptEdges
  <2>1. Queued' = Queued
    BY <1>1 DEF Queued
  <2> QED
    BY <1>1, <2>1, KeptNext DEF KeptEdges
<1>3. InHand = {cur} /\ InHand' = {}
  BY <1>1 DEF InHand
<1>4. HandCount' = 0 /\ HandCount = IF cur \in Sections THEN 1 ELSE 0
  BY <1>3 DEF HandCount
<1>5. /\ KeptEdges \in Nat /\ StateCount \in Nat
      /\ Cardinality(level) \in Nat /\ Cardinality(flags) \in Nat
  BY CountsType
<1>6. CASE cur \in {Tick, Nothing} /\ DeliverTick
  <2>1. cur \notin Sections
    BY <1>6, EventsAssumption
  <2>2. StateCount' = StateCount
    BY <1>6 DEF DeliverTick, StateCount
  <2> QED
    BY <1>1, <1>2, <1>4, <1>5, <2>1, <2>2 DEF Total
<1>7. CASE cur \in Sections /\ DeliverClick(cur[1], cur[2])
  <2>1. StateCount' = 1 - StateCount
    BY <1>7 DEF DeliverClick, StateCount, TypeOK
  <2>2. StateCount \in {0, 1}
    BY DEF StateCount
  <2> QED
    BY <1>1, <1>2, <1>4, <1>5, <1>7, <2>1, <2>2 DEF Total
<1> QED
  BY <1>6, <1>7 DEF Deliver

(* A tick is posted: no edge is counted with it.                           *)
LEMMA PostTotal ==
  ASSUME TypeOK, Counted, Follows, WriteSlot \/ StoreUp
  PROVE  Total' = Total
<1> DEFINE s == Ring(fevent + nevents)
<1>1. fevent \in 0 .. Slots - 1 /\ nevents \in 0 .. Slots - 1
  BY SizesAssumption DEF TypeOK, Follows, QueueInv, WriteSlot, StoreUp
<1>2. UNCHANGED <<fevent, cur, level, flags, state>> /\ pc \in {"write", "up"} /\ pc' \in {"load", "idle"}
  BY DEF WriteSlot, StoreUp, pinVars
<1>3. Window(fevent, nevents + 1) = Window(fevent, nevents) \cup {s} /\ s \notin Window(fevent, nevents)
  BY <1>1, WindowGrows
<1>4. Window(fevent, nevents) \subseteq 0 .. Slots - 1
  BY <1>1, WindowFinite, SizesAssumption
<1>5. Queued = nevents
  BY <1>2 DEF Queued
<1>6. Kept(events', fevent', Queued') = Kept(events, fevent, Queued)
  <2>1. CASE WriteSlot
    <3>1. events' = [events EXCEPT ![s] = Tick] /\ Queued' = nevents
      BY <2>1 DEF WriteSlot, Follows, QueueInv, Queued
    <3>2. \A x \in Window(fevent, nevents) : events'[x] = events[x]
      BY <1>3, <1>4, <3>1 DEF TypeOK
    <3> QED
      BY <1>2, <1>5, <3>1, <3>2 DEF Kept
  <2>2. CASE StoreUp
    <3>1. events' = events /\ Queued' = nevents + 1
      BY <2>2 DEF StoreUp, Follows, QueueInv, Queued
    <3>2. events[s] \notin Sections
      BY <2>2, EventsAssumption DEF StoreUp, Follows, TickWritten
    <3> HIDE DEF s
    <3> QED
      BY <1>2, <1>3, <1>5, <3>1, <3>2 DEF Kept
  <2> QED
    BY <2>1, <2>2
<1>7. KeptEdges' = KeptEdges
  BY <1>6, KeptNext DEF KeptEdges
<1>8. UNCHANGED <<HandCount, StateCount>>
  BY <1>2 DEF HandCount, InHand, StateCount
<1> QED
  BY <1>2, <1>7, <1>8 DEF Total

(* The steps that move no edge: the rest of taking an event and of         *)
(* posting, and messages, which raise a flag only by a mishap.             *)
Still ==
  \/ LoadCount("count", "down")
  \/ LoadCount("load", "up")
  \/ StoreDown
  \/ StartPost
  \/ ConfigMessage /\ MakeDevices(config')
  \/ UNCHANGED vars

LEMMA StillTotal ==
  ASSUME TypeOK, Counted, Follows, Plain', Still
  PROVE  Total' = Total /\ UNCHANGED <<level, flags>>
<1>1. flags' = flags
  <2>1. CASE ConfigMessage /\ MakeDevices(config')
    <3>1. PICK ok \in SUBSET Present(config') : \E raised \in SUBSET (ok \ sensed) :
             /\ flags' = flags \cup raised
             /\ mishaps' = mishaps \cup (IF raised \subseteq flags THEN {} ELSE {"edge"})
      BY <2>1 DEF MakeDevices
    <3> QED
      BY <3>1 DEF Plain
  <2> QED
    BY <2>1 DEF Still, LoadCount, StoreDown, StartPost, vars, pinVars
<1>2. UNCHANGED <<events, fevent, level, cur, state>>
  BY DEF Still, LoadCount, StoreDown, StartPost, ConfigMessage, vars, pinVars, queueVars, mainVars
<1>3. Queued' = Queued /\ InHand' = InHand
  <2>1. CASE StoreDown
    BY <2>1, <1>2 DEF StoreDown, Follows, QueueInv, Queued, InHand
  <2>2. CASE LoadCount("count", "down") \/ LoadCount("load", "up")
    BY <2>2, <1>2 DEF LoadCount, queueVars, Queued, InHand
  <2>3. CASE StartPost
    BY <2>3, <1>2 DEF StartPost, queueVars, Queued, InHand
  <2>4. CASE UNCHANGED <<pc, nevents, cur>>
    BY <2>4 DEF Queued, InHand
  <2> QED
    BY <2>1, <2>2, <2>3, <2>4 DEF Still, ConfigMessage, vars, queueVars, mainVars
<1>4. UNCHANGED <<KeptEdges, HandCount, StateCount>>
  BY <1>2, <1>3, KeptNext DEF KeptEdges, HandCount, StateCount
<1> QED
  BY <1>1, <1>2, <1>4 DEF Total

LEMMA EvenByTwo ==
  ASSUME NEW x \in Int, x % 2 = 0, NEW y \in {x - 2, x, x + 2}
  PROVE  y % 2 = 0
<1>1. (x - 2) % 2 = 0
  OBVIOUS
<1>2. (x + 2) % 2 = 0
  OBVIOUS
<1> QED
  BY <1>1, <1>2

LEMMA FollowsKept ==
  ASSUME TypeOK, Counted, Follows, Plain', [Next]_vars
  PROVE  Follows'
<1>1. QueueInv'
  <2>1. mishaps' \cap {"race", "full"} = {}
    BY DEF Plain
  <2> QED
    BY <2>1, QueueInvKept DEF Follows
<1>2. TickWritten'
  BY TickWrittenKept DEF Follows
<1>3. /\ IsFiniteSet(level') /\ IsFiniteSet(flags')
      /\ Total' \in {Total - 2, Total, Total + 2}
  <2>1. ASSUME NEW b \in Buttons, Edge(b) \/ Interrupt(b)
        PROVE  /\ IsFiniteSet(level') /\ IsFiniteSet(flags')
               /\ Total' \in {Total, Total + 2}
    BY <2>1, EdgeTotal, InterruptTotal
  <2>2. CASE TakeEvent \/ Deliver
    <3>1. UNCHANGED <<level, flags>>
      BY <2>2 DEF TakeEvent, Deliver, pinVars
    <3> QED
      BY <2>2, <3>1, TakeTotal, DeliverTotal DEF Follows
  <2>3. CASE WriteSlot \/ StoreUp
    <3>1. UNCHANGED <<level, flags>>
      BY <2>3 DEF WriteSlot, StoreUp, pinVars
    <3> QED
      BY <2>3, <3>1, PostTotal DEF Follows
  <2>4. CASE Still
    BY <2>4, StillTotal DEF Follows
  <2> QED
    BY <2>1, <2>2, <2>3, <2>4
    DEF Next, EventStep, PostStep, FullConfig, AddSection, DelSection, Still
<1>4. Total \in Int /\ Total % 2 = 0
  <2>1. /\ KeptEdges \in Nat /\ HandCount \in Nat /\ StateCount \in Nat
        /\ Cardinality(level) \in Nat /\ Cardinality(flags) \in Nat
    BY CountsType
  <2> QED
    BY <2>1 DEF Total, Follows
<1>5. Total' % 2 = 0
  BY <1>3, <1>4, EvenByTwo
<1> QED
  BY <1>1, <1>2, <1>3, <1>5 DEF Follows

(* button.c counts edges: what it last said, the events and the interrupts *)
(* to come add up to the pins, for any buttons and any size of the queue,  *)
(* as long as no event is refused or lost and no edge goes unseen.         *)
THEOREM ReportsFollowPins == Spec => []StateFollowsPins
<1> DEFINE PInv == TypeOK /\ Counted /\ (Plain => Follows)
<1>1. Init => PInv
  <2> SUFFICES ASSUME Init PROVE PInv
    OBVIOUS
  <2>1. TypeOK /\ Counted
    BY TypeInit DEF Init, Counted
  <2>2. QueueInv /\ TickWritten
    BY SizesAssumption DEF Init, QueueInv, TickWritten
  <2>3. Cardinality({}) = 0 /\ IsFiniteSet({})
    BY FS_EmptySet
  <2>4. level = {} /\ flags = {}
    BY DEF Init
  <2>5. Window(fevent, Queued) = {}
    BY DEF Init, Queued, Window
  <2>6. KeptEdges = 0
    BY <2>3, <2>5 DEF KeptEdges, Kept
  <2>7. HandCount = 0 /\ StateCount = 0
    BY DEF Init, HandCount, InHand, StateCount
  <2>8. Total = 0
    BY <2>3, <2>4, <2>6, <2>7 DEF Total
  <2> QED
    BY <2>1, <2>2, <2>3, <2>4, <2>8 DEF Follows
<1>2. PInv /\ [Next]_vars => PInv'
  BY TypeKept, CountedKept, PlainBefore, FollowsKept
<1>3. PInv => StateFollowsPins
  <2> SUFFICES ASSUME Plain, Follows PROVE StateFollowsPins
    BY DEF Plain, StateFollowsPins
  <2>1. Kept(events, fevent, Queued) = {i \in Live : events[i] \in Sections}
    BY DEF Kept, Window, Live
  <2>2. Total = Cardinality(level) + Cardinality(flags)
                + Cardinality({i \in Live : events[i] \in Sections})
                + (IF InHand \cap Sections = {} THEN 0 ELSE 1)
                + (IF state = "up" THEN 0 ELSE 1)
    BY <2>1 DEF Total, KeptEdges, HandCount, StateCount
  <2> QED
    BY <2>2 DEF Follows, StateFollowsPins
<1> HIDE DEF PInv
<1> QED
  BY <1>1, <1>2, <1>3, PTL DEF Spec
=============================================================================
