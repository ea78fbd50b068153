------------------------------- MODULE PmdSystem -------------------------------
(***************************************************************************)
(* A device: its buttons (drivers/button/button.c), the configuration that *)
(* the network may change at any time (core/pmd_system.c), the event queue *)
(* of Contiki between the interrupts and the main loop                     *)
(* (core/sys/process.c), and the heartbeat, which lives on the ticks of a  *)
(* timer that go through the same queue (core/sys/etimer.c, lib/ftimer.c). *)
(*                                                                         *)
(* The main loop runs one process at a time.  An interrupt comes between   *)
(* any two of its instructions and is not interrupted itself.  The queue   *)
(* is not protected from it: taking an event and posting one from the main *)
(* loop are cut where an interrupt that posts makes a difference, around   *)
(* the load and the store of the counter nevents.  Everything else the     *)
(* main loop does is one step: an interrupt in its middle is as good as    *)
(* one before or after it.                                                 *)
(*                                                                         *)
(* A section of the configuration is <<b, v>>: the button b as the v-th    *)
(* message about the configuration brought it.                             *)
(***************************************************************************)
EXTENDS Integers, FiniteSets

CONSTANTS
  Buttons,         (* ids of sections; each has an interrupt of its own    *)
  Slots,           (* PROCESS_CONF_NUMEVENTS                               *)
  HeartbeatTicks,  (* ticks between two heartbeats                         *)
  MaxConfigs,      (* bound on the messages about the configuration        *)
  MaxEvents,       (* bound on nevents, a byte in the code                 *)
  MaxMishaps,      (* bound on the kinds of misfortune after which nobody
                      touches the device any more                          *)
  Tick, Nothing    (* an event of the timer; a slot never written          *)

ASSUME SizesAssumption ==
  /\ Slots \in Nat \ {0} /\ HeartbeatTicks \in Nat \ {0}
  /\ MaxConfigs \in Nat /\ MaxEvents \in Nat /\ MaxEvents > Slots
  /\ MaxMishaps \in Nat

Versions == 1 .. MaxConfigs
Sections == Buttons \X Versions
Events == Sections \cup {Tick, Nothing}

ASSUME EventsAssumption == Tick # Nothing /\ {Tick, Nothing} \cap Sections = {}

VARIABLES
  level,    (* buttons that are held down                                  *)
  flags,    (* interrupts that are due (EIFR)                              *)
  sensed,   (* interrupts that were set up to come on every edge (EICR)    *)
  handler,  (* irq_handlers: the version of the section; 0, and masked,
               when there is none                                          *)
  config,   (* the configuration: the version of each section, 0 if none   *)
  devices,  (* net_device_list                                             *)
  freed,    (* sections whose memory was given back                        *)
  events, fevent, nevents,
  pc,       (* where the main loop is                                      *)
  reg,      (* what it holds in a register: nevents, or a slot; else 0     *)
  cur,      (* the event it delivers; else Nothing                         *)
  et,       (* the event timer: "set", or "posted" and off the list        *)
  heart,    (* ticks until the next heartbeat                              *)
  state,    (* of the button: one for all buttons                          *)
  configs,  (* messages about the configuration so far                     *)
  mishaps   (* history: which of the misfortunes below have happened       *)

pinVars == <<level, flags, sensed, handler>>
confVars == <<config, devices, freed, configs>>
queueVars == <<events, fevent, nevents>>
mainVars == <<pc, reg, cur>>
timerVars == <<et, heart>>
vars == <<pinVars, confVars, queueVars, mainVars, timerVars, state, mishaps>>

(* "race": an interrupt posted while the main loop was at the queue;       *)
(* "full": an event was refused; "stale": an event was delivered whose     *)
(* section is not in the configuration any more; "edge": there was an edge *)
(* that no flag counts, or a flag without an edge.                         *)
Mishaps == {"race", "full", "stale", "edge"}

(* Types.                                                                  *)
TypeOK ==
  /\ level \subseteq Buttons /\ flags \subseteq Buttons /\ sensed \subseteq Buttons
  /\ handler \in [Buttons -> 0 .. MaxConfigs]
  /\ config \in [Buttons -> 0 .. MaxConfigs]
  /\ devices \subseteq Buttons
  /\ freed \subseteq Sections
  /\ events \in [0 .. Slots - 1 -> Events]
  /\ fevent \in 0 .. Slots - 1
  /\ nevents \in 0 .. MaxEvents
  /\ pc \in {"idle", "count", "down", "deliver", "write", "load", "up"}
  /\ reg \in 0 .. MaxEvents
  /\ cur \in Events
  /\ et \in {"set", "posted"}
  /\ heart \in 1 .. HeartbeatTicks
  /\ state \in {"up", "down"}
  /\ configs \in 0 .. MaxConfigs
  /\ mishaps \subseteq Mishaps

(* After pmd_system_init, with a configuration that has no button.         *)
Init ==
  /\ level = {} /\ flags = {} /\ sensed = {}
  /\ handler = [b \in Buttons |-> 0]
  /\ config = [b \in Buttons |-> 0]
  /\ devices = {} /\ freed = {} /\ configs = 0
  /\ events = [i \in 0 .. Slots - 1 |-> Nothing]
  /\ fevent = 0 /\ nevents = 0
  /\ pc = "idle" /\ reg = 0 /\ cur = Nothing
  /\ et = "set" /\ heart = HeartbeatTicks
  /\ state = "up"
  /\ mishaps = {}

-----------------------------------------------------------------------------
(* Pins and interrupts.                                                    *)

(* A button is pressed or let go.  Edges that come while one is due are    *)
(* one interrupt; nothing watches a pin that was never set up.             *)
Edge(b) ==
  /\ Cardinality(mishaps) < MaxMishaps
  /\ level' = IF b \in level THEN level \ {b} ELSE level \cup {b}
  /\ flags' = flags \cup ({b} \cap sensed)
  /\ mishaps' = mishaps \cup (IF b \in sensed \ flags THEN {} ELSE {"edge"})
  /\ UNCHANGED <<sensed, handler, confVars, queueVars, mainVars, timerVars, state>>

(* Where the slot number i is in the ring.  Mutant: a ring of one more.    *)
RingOfOneMore(i) == i % (Slots + 1)
Ring(i) == i % Slots

(* What is left of the flags when b's interrupt is served.  Mutant: the    *)
(* others are cleared with it.                                             *)
AllServed(b) == {}
Served(b) == flags \ {b}

(* ISR(INTb_vect): the handler is off, button_handle_irq posts.            *)
Interrupt(b) ==
  /\ b \in flags
  /\ handler[b] # 0
  /\ flags' = Served(b)
  /\ handler' = [handler EXCEPT ![b] = 0]
  /\ \/ /\ nevents = Slots
        /\ mishaps' = mishaps \cup {"full"}
        /\ UNCHANGED <<events, nevents>>
     \/ /\ nevents # Slots /\ nevents < MaxEvents
        /\ events' = [events EXCEPT ![Ring(fevent + nevents)] = <<b, handler[b]>>]
        /\ nevents' = nevents + 1
        /\ mishaps' = mishaps \cup (IF pc \in {"idle", "deliver"} THEN {} ELSE {"race"})
  /\ UNCHANGED <<level, sensed, fevent, confVars, mainVars, timerVars, state>>

-----------------------------------------------------------------------------
(* The main loop.                                                          *)

(* do_event: the first event is taken, then nevents counted down.          *)
TakeEvent ==
  /\ pc = "idle"
  /\ nevents > 0
  /\ cur' = events[fevent]
  /\ fevent' = Ring(fevent + 1)
  /\ pc' = "count"
  /\ UNCHANGED <<pinVars, confVars, events, nevents, reg, timerVars, state, mishaps>>

LoadCount(here, there) ==
  /\ pc = here
  /\ reg' = nevents
  /\ pc' = there
  /\ UNCHANGED <<pinVars, confVars, queueVars, cur, timerVars, state, mishaps>>

StoreDown ==
  /\ pc = "down"
  /\ nevents' = reg - 1
  /\ reg' = 0
  /\ pc' = "deliver"
  /\ UNCHANGED <<pinVars, confVars, events, fevent, cur, timerVars, state, mishaps>>

(* The button's process: the state changes, a message says so, and the     *)
(* interrupt is registered again, unless it is already.  A section that    *)
(* was freed has no options any more: nothing useful is registered.        *)
DeliverClick(b, v) ==
  /\ state' = IF state = "up" THEN "down" ELSE "up"
  /\ mishaps' = mishaps \cup (IF config[b] = v THEN {} ELSE {"stale"})
  /\ handler' = IF handler[b] = 0 /\ <<b, v>> \notin freed
                THEN [handler EXCEPT ![b] = v] ELSE handler
  /\ UNCHANGED timerVars

(* The timer process takes any event for a tick, also one made of a slot   *)
(* never written, which is for all processes.  The heartbeat registers     *)
(* itself again, and the event timer is set again.  Mutant: it is not.     *)
OneShot == et
EtimerReset == "set"

DeliverTick ==
  /\ heart' = IF heart = 1 THEN HeartbeatTicks ELSE heart - 1
  /\ et' = EtimerReset
  /\ UNCHANGED <<handler, state, mishaps>>

Deliver ==
  /\ pc = "deliver"
  /\ pc' = "idle"
  /\ cur' = Nothing
  /\ \/ cur \in {Tick, Nothing} /\ DeliverTick
     \/ cur \in Sections /\ DeliverClick(cur[1], cur[2])
  /\ UNCHANGED <<level, flags, sensed, confVars, queueVars, reg>>

(* etimer_process posts when the timer has expired.  When the queue is     *)
(* full the timer stays set, and it asks to be polled again.               *)
StartPost ==
  /\ pc = "idle"
  /\ et = "set"
  /\ nevents # Slots /\ nevents + 1 < MaxEvents
  /\ reg' = Ring(fevent + nevents)
  /\ pc' = "write"
  /\ UNCHANGED <<pinVars, confVars, queueVars, cur, timerVars, state, mishaps>>

WriteSlot ==
  /\ pc = "write"
  /\ events' = [events EXCEPT ![reg] = Tick]
  /\ pc' = "load"
  /\ UNCHANGED <<pinVars, confVars, fevent, nevents, reg, cur, timerVars, state, mishaps>>

StoreUp ==
  /\ pc = "up"
  /\ reg < MaxEvents
  /\ nevents' = reg + 1
  /\ reg' = 0
  /\ et' = "posted"
  /\ pc' = "idle"
  /\ UNCHANGED <<pinVars, confVars, events, fevent, cur, heart, state, mishaps>>

-----------------------------------------------------------------------------
(* Messages about the configuration.  Each handler masks all interrupts    *)
(* and forgets their handlers, changes the configuration, and makes the    *)
(* devices anew; that ends at the first section whose driver fails, which  *)
(* nobody looks at.                                                        *)

Present(c) == {b \in Buttons : c[b] # 0}

(* The handlers after net_device_init has got as far as ok.  Mutant:       *)
(* interrupt_init comes after it.                                          *)
ForgottenLast(c, ok) == [b \in Buttons |-> 0]
Registered(c, ok) == [b \in Buttons |-> IF b \in ok THEN c[b] ELSE 0]

(* To change what a pin is sensed for may itself raise its flag.           *)
MakeDevices(c) ==
  \E ok \in SUBSET Present(c) :
    /\ devices' = ok
    /\ handler' = Registered(c, ok)
    /\ sensed' = sensed \cup ok
    /\ \E raised \in SUBSET (ok \ sensed) :
         /\ flags' = flags \cup raised
         /\ mishaps' = mishaps \cup (IF raised \subseteq flags THEN {} ELSE {"edge"})

ConfigMessage ==
  /\ pc = "idle"
  /\ configs < MaxConfigs
  /\ Cardinality(mishaps) < MaxMishaps
  /\ configs' = configs + 1
  /\ UNCHANGED <<level, queueVars, mainVars, timerVars, state>>

(* config_full_handler: config_set frees the sections there are.           *)
FullConfig(bs) ==
  /\ ConfigMessage
  /\ config' = [b \in Buttons |-> IF b \in bs THEN configs + 1 ELSE 0]
  /\ freed' = freed \cup {<<b, config[b]>> : b \in Present(config)}
  /\ MakeDevices(config')

(* config_section_add_handler: nothing happens if there is such a section. *)
AddSection(b) ==
  /\ ConfigMessage
  /\ config[b] = 0
  /\ config' = [config EXCEPT ![b] = configs + 1]
  /\ UNCHANGED freed
  /\ MakeDevices(config')

(* config_section_del_handler: the section leaves the list, it is not      *)
(* freed.                                                                  *)
DelSection(b) ==
  /\ ConfigMessage
  /\ config[b] # 0
  /\ config' = [config EXCEPT ![b] = 0]
  /\ UNCHANGED freed
  /\ MakeDevices(config')

-----------------------------------------------------------------------------
EventStep == LoadCount("count", "down") \/ StoreDown \/ Deliver
PostStep == WriteSlot \/ LoadCount("load", "up") \/ StoreUp

Next ==
  \/ TakeEvent \/ EventStep
  \/ StartPost \/ PostStep
  \/ \E bs \in SUBSET Buttons : FullConfig(bs)
  \/ \E b \in Buttons : Edge(b) \/ Interrupt(b) \/ AddSection(b) \/ DelSection(b)

(* The processor goes on, interrupts that are due come, and process_run    *)
(* turns to the polled processes and to the queue in turn.                 *)
Fairness ==
  /\ WF_vars(EventStep) /\ WF_vars(PostStep)
  /\ SF_vars(TakeEvent) /\ SF_vars(StartPost)
  /\ \A b \in Buttons : WF_vars(Interrupt(b))

Spec == Init /\ [][Next]_vars /\ Fairness

-----------------------------------------------------------------------------
(* The slots that hold events, and what is on its way: in them or taken.   *)
(* While nevents lags behind fevent, or behind the slot that was written,  *)
(* there is one less.                                                      *)
Queued == IF pc \in {"count", "down"} THEN nevents - 1 ELSE nevents
Live == {Ring(fevent + i) : i \in 0 .. Queued - 1}
InHand == IF pc \in {"count", "down", "deliver"} THEN {cur} ELSE {}
Underway == {events[i] : i \in Live} \cup InHand

(* A button that was set up is heard: its handler waits for the interrupt, *)
(* or an event is on its way that will register it again (button.c:101).   *)
(* It is deaf for ever after an event that was refused or lost             *)
(* (button.c:38), or was of a section of the past.                         *)
NeverDeaf ==
  mishaps \cap {"race", "full", "stale"} = {} =>
    \A b \in devices : handler[b] = config[b] \/ <<b, config[b]>> \in Underway

(* As long as no event of process_post is refused, every button is heard.  *)
DeafOnlyWhenFull ==
  mishaps \cap {"full", "stale"} = {} =>
    \A b \in devices : handler[b] = config[b] \/ <<b, config[b]>> \in Underway

(* button.c counts edges instead of reading pins: what it last said about  *)
(* the buttons, the events and the interrupts to come add up to the        *)
(* buttons held down (button.c:56), across changes of the configuration.   *)
StateFollowsPins ==
  mishaps \cap {"race", "full", "edge"} = {} =>
    ( Cardinality(level) + Cardinality(flags)
    + Cardinality({i \in Live : events[i] \in Sections})
    + (IF InHand \cap Sections = {} THEN 0 ELSE 1)
    + (IF state = "up" THEN 0 ELSE 1) ) % 2 = 0

(* Heartbeats go on (pmd_system.c:298), unless an interrupt met the main   *)
(* loop at the queue, where the tick that sets the timer again may have    *)
(* been lost, or events without end keep the queue full.                   *)
HeartbeatsGoOn ==
  \/ <>("race" \in mishaps)
  \/ []<>(nevents >= Slots)
  \/ []<>(heart = 1) /\ []<>(heart = HeartbeatTicks)
=============================================================================
