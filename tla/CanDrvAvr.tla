------------------------------ MODULE CanDrvAvr ------------------------------
(***************************************************************************)
(* The CAN driver of a device, uc/platform/avr-one/dev/can_drv.c, with the *)
(* soft timers of uc/pmd/core/lib/ftimer.c that time its commands out.     *)
(*                                                                         *)
(* A command sends or receives one frame.  It occupies a message object    *)
(* (MOb) of the controller, or waits in can_cmd_list when none is free.    *)
(* The interrupt handler marks what is completed and polls the driver's    *)
(* process, which reports it, frees the MOb and starts what waits.  The    *)
(* processes of Contiki run to their next wait, one at a time; interrupts  *)
(* come at any time.  Callbacks run inside a process and may call can_send.*)
(***************************************************************************)
EXTENDS Integers, Sequences, FiniteSets, SequencesExt

CONSTANTS
  Frames,             (* frames, each the argument of one call of can_send *)
  NB_MOB,             (* 15 in the controller                              *)
  CAN_RECV_BUF_MAX,   (* MObs that are to receive                          *)
  SendTimeout,        (* can_send_timeout_ms, in ticks of ftimer_process   *)
  IntBits,            (* 16, the bits of an int: 1 << i is 0 from there on *)
  RX, NULL            (* a command to receive; no command                  *)

RC_NORM == "norm"
RC_TIMEOUT == "timeout"
RCs == {RC_NORM, RC_TIMEOUT}

Mobs == 1 .. NB_MOB

ASSUME CommandsAssumption == RX # NULL /\ RX \notin Frames /\ NULL \notin Frames
ASSUME MobsAssumption ==
  NB_MOB \in Nat /\ CAN_RECV_BUF_MAX \in Nat /\ CAN_RECV_BUF_MAX <= NB_MOB
ASSUME TimersAssumption == SendTimeout \in Nat /\ IntBits \in Nat

VARIABLES
  can_mob,        (* the command in each MOb                               *)
  status,         (* of the command in each MOb                            *)
  conmob,         (* MObs that the controller has enabled (CONMOB)         *)
  can_cmd_list,
  stale,          (* commands that list_pop left with a next               *)
  ftimer_id,      (* of the command of each frame                          *)
  ft_functions,   (* the running timers, in list order: [id, cmd, time]    *)
  pc,             (* what runs: nothing ("idle"), the driver's process on
                     its MObs ("mobs") or in a callback ("sent",
                     "received"), the timers' process ("timers") or
                     send_timeout_handler in its callback ("timed_out")    *)
  mob_handle,     (* the driver's process has come to this MOb             *)
  ft, next_ft,    (* the timers' process, to these timers                  *)
  polled,         (* the driver's process has been polled                  *)
  given,          (* frames can_send was called for                        *)
  freed,          (* frames whose command has been freed                   *)
  sent,           (* history: frames on the bus                            *)
  reports,        (* history: calls of can_send_callback                   *)
  overload        (* history: a timer was started when no id was left      *)

mobVars == <<can_mob, status, conmob, can_cmd_list>>
timerVars == <<ft_functions, ft, next_ft>>
vars == <<mobVars, timerVars, stale, ftimer_id, pc, mob_handle, polled,
          given, freed, sent, reports, overload>>

-----------------------------------------------------------------------------
(* Message objects                                                         *)

(* can_get_mob_free asks the controller, not the table.                    *)
FreeMobs(con) == Mobs \ con

(* post_cmd of command c, with the table, the statuses, the controller and *)
(* the list as the steps of the same handler before it have left them.     *)
PostCmd(c, table, st, con, list) ==
  \/ \E m \in FreeMobs(con) :
       /\ \A n \in FreeMobs(con) : m <= n
       /\ can_mob' = [table EXCEPT ![m] = c]
       /\ status' = [st EXCEPT ![m] = "pending"]
       /\ conmob' = con \cup {m}
       /\ can_cmd_list' = list
  \/ /\ FreeMobs(con) = {}
     /\ can_cmd_list' = Append(list, c)
     /\ can_mob' = table /\ status' = st /\ conmob' = con

-----------------------------------------------------------------------------
(* Timers (ftimer.c)                                                       *)

Ids(timers) == {timers[i].id : i \in DOMAIN timers}

(* Mutants: the count of the timers for an id; an id that is in use.       *)
CountedId(timers) == Len(timers)
SetBitId(timers) == IF timers = <<>> THEN -1 ELSE Last(timers).id

(* The first id whose bit is not set in funcs; an int has only so many, so *)
(* from then on every timer gets the same id, 1 << IntBits being 0.        *)
FreshId(timers) ==
  CHOOSE id \in 0 .. IntBits :
    /\ id \notin Ids(timers) \/ id = IntBits
    /\ \A j \in 0 .. id - 1 : j \in Ids(timers)

(* ftimer_unregister_func.                                                 *)
Unregistered(timers, id) == RemoveFirstMatch(timers, LAMBDA t : t.id = id)

TimerOf(c) == SelectInSeq(ft_functions, LAMBDA t : t.cmd = c)

-----------------------------------------------------------------------------
NewTimer(f) == [id |-> FreshId(ft_functions), cmd |-> f, time |-> SendTimeout]

(* Mutant: a command that waits is not timed.                              *)
OnlyPending(f) ==
  IF FreeMobs(conmob) = {} THEN ft_functions ELSE Append(ft_functions, NewTimer(f))

Registered(f) == Append(ft_functions, NewTimer(f))

Reported == {reports[i].frame : i \in DOMAIN reports}
Owed == given \ Reported

(* The driver's users: can_send from another process, from a callback of   *)
(* the driver, or from the function of a timer that is not the driver's.   *)
CanSend(f) ==
  /\ f \notin given
  /\ pc \in {"idle", "sent", "received", "timers", "timed_out"}
  /\ given' = given \cup {f}
  /\ PostCmd(f, can_mob, status, conmob, can_cmd_list)
  /\ ftimer_id' = [ftimer_id EXCEPT ![f] = NewTimer(f).id]
  /\ ft_functions' = Registered(f)
  /\ overload' = (overload \/ Len(ft_functions) > IntBits)
  /\ UNCHANGED <<stale, pc, mob_handle, ft, next_ft, polled, freed, sent, reports>>

(* The controller completes a MOb: int_handler, which may come between any *)
(* two steps of the processes.                                             *)
Interrupt(m) ==
  /\ m \in conmob
  /\ can_mob[m] # NULL /\ status[m] = "pending"
  /\ status' = [status EXCEPT ![m] = "completed"]
  /\ sent' = sent \cup ({can_mob[m]} \ {RX})
  /\ polled' = TRUE
  /\ UNCHANGED <<can_mob, conmob, can_cmd_list, timerVars, stale, ftimer_id, pc, mob_handle,
                 given, freed, reports, overload>>

-----------------------------------------------------------------------------
(* The driver's process                                                    *)

WakeUp ==
  /\ pc = "idle" /\ polled
  /\ pc' = "mobs"
  /\ mob_handle' = 1
  /\ polled' = FALSE
  /\ UNCHANGED <<mobVars, timerVars, stale, ftimer_id, given, freed, sent, reports, overload>>

AtMob == pc = "mobs" /\ mob_handle \in Mobs

PassMob ==
  /\ AtMob
  /\ can_mob[mob_handle] = NULL \/ status[mob_handle] = "pending"
  /\ mob_handle' = mob_handle + 1
  /\ UNCHANGED <<mobVars, timerVars, stale, ftimer_id, pc, polled, given, freed, sent,
                 reports, overload>>

(* Mutant: the timer runs on.                                              *)
TimerRunsOn(f) == ft_functions

Stopped(f) == Unregistered(ft_functions, ftimer_id[f])

ReportSent ==
  LET f == can_mob[mob_handle]
  IN  /\ AtMob
      /\ f \notin {NULL, RX} /\ status[mob_handle] = "completed"
      /\ ft_functions' = Stopped(f)
      /\ reports' = Append(reports, [frame |-> f, rc |-> RC_NORM])
      /\ pc' = "sent"
      /\ UNCHANGED <<mobVars, ft, next_ft, stale, ftimer_id, mob_handle, polled, given, freed,
                     sent, overload>>

ReportReceived ==
  /\ AtMob
  /\ can_mob[mob_handle] = RX /\ status[mob_handle] = "completed"
  /\ pc' = "received"
  /\ UNCHANGED <<mobVars, timerVars, stale, ftimer_id, mob_handle, polled, given, freed, sent,
                 reports, overload>>

(* Mutants: the MOb is left enabled; a buffer is not replaced.             *)
StillEnabled(m) == conmob
NoNewBuffer == "nothing"

Disabled(m) == conmob \ {m}
NewBuffer == "received"

(* The callback is done: the MOb is given up, and a receive command is     *)
(* replaced by a new one (create_recv_buf).                                *)
ReleaseMob ==
  LET table == [can_mob EXCEPT ![mob_handle] = NULL]
      con == Disabled(mob_handle)
  IN  /\ \/ /\ pc = "sent"
            /\ freed' = freed \cup {can_mob[mob_handle]}
         \/ /\ pc = "received"
            /\ UNCHANGED freed
      /\ \/ /\ pc = NewBuffer
            /\ PostCmd(RX, table, status, con, can_cmd_list)
         \/ /\ pc # NewBuffer
            /\ can_mob' = table /\ conmob' = con
            /\ UNCHANGED <<status, can_cmd_list>>
      /\ pc' = "mobs"
      /\ mob_handle' = mob_handle + 1
      /\ UNCHANGED <<timerVars, stale, ftimer_id, polled, given, sent, reports, overload>>

AfterMobs == pc = "mobs" /\ mob_handle = NB_MOB + 1

(* Start the first command that waits: list_pop leaves its next as it was. *)
StartWaiting ==
  /\ AfterMobs
  /\ can_cmd_list # <<>> /\ FreeMobs(conmob) # {}
  /\ stale' = stale \cup (IF Len(can_cmd_list) > 1 THEN {Head(can_cmd_list)} ELSE {})
  /\ PostCmd(Head(can_cmd_list), can_mob, status, conmob, Tail(can_cmd_list))
  /\ UNCHANGED <<timerVars, ftimer_id, pc, mob_handle, polled, given, freed, sent, reports,
                 overload>>

GoToSleep ==
  /\ AfterMobs
  /\ can_cmd_list = <<>> \/ FreeMobs(conmob) = {}
  /\ pc' = "idle"
  /\ UNCHANGED <<mobVars, timerVars, stale, ftimer_id, mob_handle, polled, given, freed, sent,
                 reports, overload>>

-----------------------------------------------------------------------------
(* The timers' process                                                     *)

Tick ==
  /\ pc = "idle" /\ ft_functions # <<>>
  /\ pc' = "timers"
  /\ ft' = Head(ft_functions).cmd
  /\ UNCHANGED <<mobVars, ft_functions, next_ft, stale, ftimer_id, mob_handle, polled, given,
                 freed, sent, reports, overload>>

Following(i) == IF i < Len(ft_functions) THEN ft_functions[i + 1].cmd ELSE NULL

HasNext(f) == IF Contains(can_cmd_list, f) THEN Last(can_cmd_list) # f ELSE f \in stale

(* abort_cmd tells by its next where a command is: one without is looked   *)
(* for in the table, although the last of the list has none, and one that  *)
(* was popped may have kept its.                                           *)
AbortCmd(f) ==
  \/ /\ HasNext(f)
     /\ can_cmd_list' = RemoveFirst(can_cmd_list, f)
     /\ UNCHANGED <<can_mob, conmob>>
  \/ /\ ~HasNext(f)
     /\ can_mob' = [m \in Mobs |-> IF can_mob[m] = f THEN NULL ELSE can_mob[m]]
     /\ conmob' = conmob \ {m \in Mobs : can_mob[m] = f}
     /\ UNCHANGED can_cmd_list

(* One timer counts down; at the end send_timeout_handler aborts its       *)
(* command and reports it.  The next timer is read before that.            *)
CountDown ==
  LET i == TimerOf(ft)
      left == ft_functions[i].time - 1
  IN  /\ pc = "timers" /\ ft # NULL
      /\ ft_functions' = [ft_functions EXCEPT ![i].time = left]
      /\ \/ /\ left >= 1
            /\ ft' = Following(i)
            /\ UNCHANGED <<mobVars, next_ft, pc, reports>>
         \/ /\ left < 1
            /\ AbortCmd(ft)
            /\ reports' = Append(reports, [frame |-> ft, rc |-> RC_TIMEOUT])
            /\ next_ft' = Following(i)
            /\ pc' = "timed_out"
            /\ UNCHANGED <<status, ft>>
      /\ UNCHANGED <<stale, ftimer_id, mob_handle, polled, given, freed, sent, overload>>

(* The callback is done: the command is freed and the timer unregistered.  *)
TimedOut ==
  /\ pc = "timed_out"
  /\ freed' = freed \cup {ft}
  /\ ft_functions' = Unregistered(ft_functions, ft_functions[TimerOf(ft)].id)
  /\ ft' = next_ft
  /\ next_ft' = NULL
  /\ pc' = "timers"
  /\ UNCHANGED <<mobVars, stale, ftimer_id, mob_handle, polled, given, sent, reports,
                 overload>>

TickDone ==
  /\ pc = "timers" /\ ft = NULL
  /\ pc' = "idle"
  /\ UNCHANGED <<mobVars, timerVars, stale, ftimer_id, mob_handle, polled, given, freed, sent,
                 reports, overload>>

-----------------------------------------------------------------------------
Init ==
  /\ can_mob = [m \in Mobs |-> IF m <= CAN_RECV_BUF_MAX THEN RX ELSE NULL]
  /\ status = [m \in Mobs |-> "pending"]
  /\ conmob = 1 .. CAN_RECV_BUF_MAX
  /\ can_cmd_list = <<>>
  /\ stale = {}
  /\ ftimer_id = [f \in Frames |-> 0]
  /\ ft_functions = <<>>
  /\ pc = "idle"
  /\ mob_handle = 1
  /\ ft = NULL /\ next_ft = NULL
  /\ polled = FALSE
  /\ given = {}
  /\ freed = {}
  /\ sent = {}
  /\ reports = <<>>
  /\ overload = FALSE

DriverProcess ==
  WakeUp \/ PassMob \/ ReportSent \/ ReportReceived \/ ReleaseMob \/ StartWaiting \/ GoToSleep

TimerProcess == Tick \/ CountDown \/ TimedOut \/ TickDone

(* A command that was freed is still in use: the program may do anything,  *)
(* and the model stops.                                                    *)
InUse == ToSet(can_cmd_list) \cup {can_mob[m] : m \in Mobs}
           \cup {ft_functions[i].cmd : i \in DOMAIN ft_functions}
Astray == freed \cap InUse # {}

Next ==
  /\ ~Astray
  /\ \/ \E f \in Frames : CanSend(f)
     \/ \E m \in Mobs : Interrupt(m)
     \/ DriverProcess
     \/ TimerProcess

Spec == Init /\ [][Next]_vars

(* process_run serves polls and events in turn, so each process that has   *)
(* something to do runs sooner or later, however many interrupts there are.*)
FairSpec == Spec /\ SF_vars(~Astray /\ DriverProcess) /\ SF_vars(~Astray /\ TimerProcess)

-----------------------------------------------------------------------------
(* Properties                                                              *)

Cmds == Frames \cup {RX}
Timer == [id : 0 .. IntBits, cmd : Frames, time : Int]

(* Type invariant of the driver and of the timers it uses.                 *)
TypeOK ==
  /\ can_mob \in [Mobs -> Cmds \cup {NULL}]
  /\ status \in [Mobs -> {"pending", "completed"}]
  /\ conmob \subseteq Mobs
  /\ can_cmd_list \in Seq(Cmds)
  /\ stale \subseteq Cmds
  /\ ftimer_id \in [Frames -> 0 .. IntBits]
  /\ ft_functions \in Seq(Timer)
  /\ pc \in {"idle", "mobs", "sent", "received", "timers", "timed_out"}
  /\ mob_handle \in 1 .. NB_MOB + 1
  /\ ft \in Frames \cup {NULL} /\ next_ft \in Frames \cup {NULL}
  /\ polled \in BOOLEAN
  /\ given \subseteq Frames /\ freed \subseteq Frames /\ sent \subseteq Frames
  /\ reports \in Seq([frame : Frames, rc : RCs])
  /\ overload \in BOOLEAN

(* The table of pending commands and the controller agree on which MObs    *)
(* are taken: can_get_mob_free asks one of them and post_cmd overwrites    *)
(* the other.                                                              *)
TableMatchesController == conmob = {m \in Mobs : can_mob[m] # NULL}

(* The device never stops listening: as many MObs as can_init made are     *)
(* enabled to receive, or hold a frame that has just come.                 *)
KeepsListening == Cardinality({m \in Mobs : can_mob[m] = RX}) = CAN_RECV_BUF_MAX

(* A command that has not been reported is in one place, waiting or        *)
(* pending, and its timer runs: it can be found, sent once, and timed out. *)
(* No two timers have the same id, so stopping one stops no other, as long *)
(* as there were never more than IntBits + 1 timers.                       *)
OnePlaceOneTimer ==
  /\ \A f \in Owed :
       Cardinality({m \in Mobs : can_mob[m] = f})
         + Cardinality({i \in DOMAIN can_cmd_list : can_cmd_list[i] = f}) = 1
  /\ overload \/
       /\ \A f \in Owed : \E i \in DOMAIN ft_functions :
            ft_functions[i].cmd = f /\ ft_functions[i].id = ftimer_id[f]
       /\ \A i, j \in DOMAIN ft_functions : ft_functions[i].id = ft_functions[j].id => i = j

TooMany == {S \in SUBSET Frames : Cardinality(S) > IntBits}

Contract == INSTANCE CanReports WITH owed <- Owed, void <- Astray

(* The driver reports every frame once, with CAN_DRV_RC_NORM only when it  *)
(* was sent, whatever the order of interrupts and timeouts; it goes astray *)
(* only after it has reported a timeout, or was given more than IntBits    *)
(* frames at once.                                                         *)
KeepsContract == Contract!Spec

(* Every frame is reported, unless the driver has gone astray: it is sent, *)
(* or it times out, also when it never gets a MOb.                         *)
EveryFrameReported == \A f \in Frames : f \in given ~> f \in Reported \/ Astray

(* can_drv.c:294 and :297, "remove command from waiting queue", "remove    *)
(* from pending table": a command that timed out, and is freed, is in      *)
(* neither.                                                                *)
AbortedIsGone == ~Astray

=============================================================================
