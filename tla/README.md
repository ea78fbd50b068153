# Project Master Device, specified and checked

Project Master Device connects small devices (buttons, leds, card readers, a turnstile)
to a master computer over a CAN bus, and builds an access network on it: nodes that decide
who may pass, and a server that keeps the rights and the log. This directory holds TLA+
modules of the network a node runs over the bus, the drivers below it, the blocking
interface above it, the device with its buttons and its configuration, the turnstile of the
access network, and the exchange of data between its nodes and its server. The modules are
translated from the code; TLC checks them on small instances, and TLAPS proves the central
safety properties for every value of the constants. `PROJECT.json` lists the runs, the
source lines each definition stands for, the hazards of the code and the property that
watches each of them.

## 1. The system

| component | code | state it keeps | operations | status |
|---|---|---|---|---|
| network of a node | `common/net/can_net.c`, `can_net_core.c`, `can_net_middle.c` | ports, nodes and *atoms* (one per port, address, id and system bit: buffered frames, count and queue of messages to send), confirmation waiters | `can_net_start_sending_msg`, driver reports (`msg_send_handler`), received frames (`frame_recv_handler`), expiry (`check_confirm_waiters`) | modelled, without the registration of receive callbacks |
| driver of the master | `master/local_net_CAN/can_drv_lin.c`, `can_socket.c` | list of frames to send | `can_send`, the driver thread's loop | modelled; the socket as taking a frame or not |
| blocking front | `master/CAN_NET_fronts/can_net_sync_wrapper.c` | a descriptor per send, a bounded buffer per port | `can_net_sync_send`, `can_net_sync_recv`, the two callbacks | modelled |
| frame formats | `common/net/can_protocols.c` | none | packing and unpacking | not modelled |
| Python front | `master/CAN_NET_fronts/can_net_sync_py.c` | none | conversion of arguments | not modelled |
| driver of the device | `uc/platform/avr-one/dev/can_drv.c` | message objects of the controller, waiting list, send timers | `can_send`, interrupt handler, process, timeout | modelled, without malloc failures |
| soft timers, interrupts | `uc/pmd/core/lib/ftimer.c`, `interrupt.c` | registered functions, masks | register, unregister, tick; register, init, handlers | the timers of the driver; the heartbeat; the interrupts of buttons |
| device core, drivers | `uc/pmd` | devices, state of the buttons, heartbeat | messages about the configuration, clicks, heartbeat | modelled for buttons; not led, reader, operation mode |
| configuration | `common/lib/config_core.c`, `uc/pmd/core/lib/config.c` | sections with options | set, add, delete | which sections there are and which were freed |
| Contiki | `uc/core/sys/process.c`, `etimer.c` | event queue, event timers | post, take, deliver | the queue at the level of loads and stores, one event timer |
| system protocol | `common/pmd_net` | none of its own | packing of heartbeats, configuration, events | what the messages do, not how they are packed |
| registrator, console | `master/*.py` | table of devices | register, expire, list | not modelled: it cannot run |
| lists | `common/lib/list.c` | none of their own | add, pop, remove | as sequences, where used |
| access network, node | `access_network/node` | buffers of keys, confirmations, `_is_busy` of a turnstile, log and database | a card is read, a lock is driven, the log is sent, a database is received | modelled, without start-up and the bit fields that no property tells apart |
| access network, server | `access_network/server` | database, log, threads that send | a log is received, a database is sent | modelled |
| access network, shared | `access_network/shared` | connections, transactions | send and read a message, commit or roll back | as far as they succeed, fail or are cut short |
| tools, generated code, the rest of `uc` | `access_network/tools`, `man_db_msg_pb2.py`, `uc` | | | not modelled: scripts run by hand, generated, or vendored |

How they interact. An application calls `can_net_start_sending_msg` on its own thread; the
first frame of the message goes to `can_send` on that thread, every further frame on the
driver's thread, from inside the report of the frame before. Received frames come in on the
driver's thread, which also runs the receive callbacks. A third thread counts the tics of
the messages that wait for a confirmation. They share the atoms (`data_mutex`), the waiters
(`confirm_waiters_mutex`) and the driver's list (`frames_out_mutex`). The blocking front
turns the callbacks into calls that poll, with a mutex per descriptor and one for the ports.

On a device Contiki runs one process at a time; interrupts come between any two instructions
and talk to the processes through the event queue, which is not protected from them.
Messages about the configuration are handled on the driver's process: they mask the
interrupts, change the sections and make the devices anew, while events of the old
sections may still be queued.

A node of the access network has one thread that reads the bus, one per key that is handled,
one that sends the log, and one that handles the server's messages. The threads of keys
share `_is_busy` and the table of confirmations without a lock; the others share the
database. The server starts a thread for each period's database, whether or not the one
before has ended. A connection carries one message and is not answered.

What is hard: a message is freed by whichever of three threads answers it, while another may still
hold a pointer to it; an atom is shared by the two directions and freed by both; the driver's
list, the receive path and the front's buffer each give up a lock half way; confirmations, frames
and reports may be lost, and are matched by key and not by message. On the device a counter is
read, changed and written while an interrupt does the same. In the access network whoever sends
never learns what became of it, exceptions end threads half way, and either side may crash in the
middle of a message. `PROJECT.json` lists these places as hazards, each at its line.

What makes each component correct: the network answers each message once, sends the messages of a
key in order, loses none, and puts messages together as they were sent; the driver loses, doubles
and reorders nothing and reports every frame; the front returns what the network answered, never
touches a freed descriptor, and counts its buffer right; the devices' driver reports every frame
once, sent or timed out, and never stops listening; a button that was set up is heard, what is
said of it is what its pin says, and heartbeats go on; a lock opens only for a card that may open
it and was shown to its own reader, once for each showing, and closes again; a passage that was
logged reaches the server, and the server's database every node.

## 2. The modules

```
SyncService   <--- kept by (proved) ---  SyncWrapper
                                             |
                                         runs over
                                             v
                                         MsgService   <--- kept by (proved) ---  CanNet
                                                                                  |
                                                                     relies on the contract of
                                                                                  v
                              CanService   <--- kept by (proved) ---  CanDrvLin (master)

                              CanReports   <--- kept by (proved) ---  CanDrvAvr (device)

                                    Gate   <--- kept by (proved) ---  Turnstile

PmdSystem: a device's buttons, its configuration, Contiki's event queue, the heartbeat
Turnstile: an access point, the node that feeds it, readers and locks around it
AccessSync: nodes and server of the access network, their logs and databases
```

| module | kind | what it is |
|---|---|---|
| `MsgService` | abstract | what `can_net.h` promises a sender: a message is given once, the messages of a key are sent one at a time in the order given, each is answered once |
| `CanNet` | detailed | one node of the network, with its three kinds of threads |
| `SyncWrapper` | detailed | one port of the blocking front over `MsgService` |
| `SyncService` | abstract | what `can_net_sync_wrapper.h` promises a caller: the answer once it has heard of it, or `RC_UNKNOWN` out of time; each message that finds room for one receiver, in order |
| `CanService` | abstract | what `can_drv.h` promises the network: frames are taken, sent and reported in order, once, as sent only those that were, until one that was not sent has been reported; with the exception of one that the socket did not take in time |
| `CanDrvLin` | detailed | the driver of the master, statement by statement where a lock is given up |
| `CanReports` | abstract | the weaker promise of the device's driver: each frame is reported once, as sent only when it was, in any order, until a timeout or too many frames at once |
| `CanDrvAvr` | detailed | the driver of a device with its interrupt handler and soft timers |
| `PmdSystem` | composition | interrupts, event queue, button driver, configuration and timer of a device |
| `Turnstile` | composition | the node's receiving thread, the threads of keys, the controller that obeys or loses, other points on the same bus |
| `Gate` | abstract | what a turnstile owes its owner: a lock opens only for a showing of a card that may pass, or that was taken for one, and once at most for each |
| `AccessSync` | composition | log synchronizers of the nodes, Synchronizers and handlers of the server, connections, crashes |
| `MCCanNet`, `MCSyncWrapper`, `MCTurnstile`, `MCAccessSync` | instances | messages, frames, cards and passages for TLC; the others need none |
| `CanNet_proofs`, `SyncWrapper_proofs`, `CanDrvLin_proofs`, `CanDrvAvr_proofs`, `PmdSystem_proofs`, `Turnstile_proofs`, `AccessSync_proofs` | proofs | theorems of the module of that name |
| `CanDrvAvrReports_proofs` | proofs | more theorems of `CanDrvAvr`: where a command is until it is reported, and the refinement of `CanReports` |

### CanNet

`atoms` is `can_node->atoms` of every node, in list order; the lists of ports and nodes
only lead to it. The model has one port, and an id stands for the pair (id, system bit).
An atom keeps `last_frame_num`, its buffered frames, `is_receiving`, `sending` (modulo
`SendingMod`) and its queue. `stage` and `pos` are the send context of a message and
its segmentator; `framesOut` is the driver's list; `waiters` is `confirm_waiters_g`;
`answers` collects the codes the send callback was given, and so tells whether a message
has been freed. `window` is open while `accept_frame` has given up `data_mutex` to run the
receive callbacks. `confirms` is the bus and the peer: confirmations on their way.

| action | code |
|---|---|
| `StartSending`, `ProcessFirst` | the two halves of `can_net_start_sending_msg`, under `data_mutex` and after it |
| `DriverSentConfirm`, `DriverSentFrame`, `DriverSentLast`, `DriverFailed` | `msg_send_handler`, by what the driver reports about the first frame of its list |
| `Dispatch` | its "not last frame" branch: segment, register the waiter, `can_send` |
| `ReceiveConfirm`, `LoseConfirm` | `frame_recv_handler`, the confirmation case; the bus |
| `CheckConfirmWaiters` | `check_confirm_waiters`, the whole list under its mutex |
| `RejectFrame`, `AcceptFrame`, `AcceptLastFrame`, `FinishReceive` | `frame_recv_handler` and `accept_frame`, with the callbacks' window before the last |

Atomicity. A step is what one thread does under one mutex. `DriverSentLast` joins the part
under `data_mutex` with the parts after it (`msh_finish` and the first frame of the next
message): they run on the driver's thread, which nothing but itself lets touch the
context. A heartbeat's callback, the only thing these parts show to others, comes in the same
step. The driver is its contract: reports come in order and one by one, and none comes
while the receive callbacks run, since the same thread does both.
A handler that reads a freed message reads any key at all (`Meta` with a free `g`).

Data. Payloads are left out; a message has a size in frames and a flag that says whether
the packing functions accept its header. Sizes are counted in frames. Frames of peers come
from a set, any number of times and in any order, which covers loss, repetition and
restarts.

### SyncWrapper

`call`, `cycles`, `descr`, `callback` and `result` follow one `can_net_sync_send` per
message; the callback is two steps, so that `is_sending` can be seen before `rc` is there.
`buffer`, `msgs_num`, `recv` and `tries` follow one port. Popping and counting down are two
steps, as in the code. The network is `MsgService`, so what holds here holds for every
network that keeps that promise; a message is given to it by the one call it is the argument
of, so `given` is the set of calls that have begun.

Callers do not see descriptors, cycles, callbacks and `msgs_num`. For `SyncService` a call has
heard of its answer from the moment on when the callback clears `is_sending` (`Hearing`): from
then on it must return that answer, although `rc` is set one step later and the polling thread
may be quicker. There is room for a message as long as those in the buffer and those
in the hands of receivers, popped and not yet counted down, are fewer than the limit.

### CanDrvLin

`pc`, `frame_descr` and `rc_s` are the program counter and the locals of `drv_main_cycle`.
`Faults` says what may go wrong when a frame is offered: it cannot be packed (`bad`), the socket
does not take it and its time is up (`late`) or not (`in_time`), the clock fails (`timer`). When
its time is not up, line 104 leaves `rc_s` as the frame before has left it, and that is what is
reported, against the comment of line 114. After a report of a frame that was not sent the
descriptor is freed on the list, whatever the code; as soon as somebody walks the list then
(`UseFreed`), `undefined` is set and the model stops: the program may do anything.

`CanService` says all this: a frame that was sent is reported with NORM, one that was not with
an error, unless the socket has refused it in time (`inTime`), and only after such a report does the
promise end. For `CanNet` a frame that was not sent and is reported with NORM is one that
the bus has lost.

### CanDrvAvr

A command is the frame it sends, or `RX`. `can_mob`, `status` and `can_cmd_list` are those of the
code; `conmob` is what the controller itself says of a message object (MOb) and `can_get_mob_free`
asks. `stale` are the commands whose `next` `list_pop` left as it was: `abort_cmd` goes by that
pointer. `pc`, `mob_handle`, `ft` and `next_ft` say how far the driver's process or the timers'
process has come. Contiki runs a process to its next wait, so one at a time; `Interrupt` may come
between any two steps, and `CanSend` wherever foreign code runs: in other processes, in the
callbacks, and in the functions of other timers.

| action | code |
|---|---|
| `CanSend` | `can_send`, `post_cmd`, `ftimer_register_func` |
| `Interrupt` | `int_handler`, for one MOb |
| `WakeUp`, `PassMob`, `ReportSent`, `ReportReceived`, `ReleaseMob`, `StartWaiting`, `GoToSleep` | `can_drv_process`, cut where a callback is called and returns |
| `Tick`, `CountDown`, `TimedOut`, `TickDone` | `ftimer_process` with `send_timeout_handler`, cut in the same way |

A command that is freed while the list, the table or a timer still leads to it leaves the program
to chance: the model stops there (`Astray`), and `CanReports` promises nothing more. `ftimer.c`
has a bit of an `int` for the id of each timer; when all are taken, the next timers share one id,
and stopping one stops another (`FreshId`; nothing in the code bounds the timers). `KeepsContract`
shows that the driver goes astray only after a timeout was reported, or more frames than an `int`
has bits were owed at once (`overload`, `TooMany`); `CanDrvAvrAbort`, that it does happen. The
network of `CanNet` relies on `CanService`, whose reports come in the order of the frames. The
device's driver does not promise that: after a timeout a new command takes the MOb for which
others wait. It has several frames on their way at once, of different messages; those of one
message are given to it one by one.

### PmdSystem

`events`, `fevent`, `nevents` are the queue of `process.c`. `pc` and `reg` say where the
main loop is between the loads and the stores of `nevents`: an interrupt that posts there
is lost or overwrites (`mishaps` remembers it as `"race"`). `handler` is `irq_handlers`:
an interrupt takes its handler off, and only the delivery of its event puts one on again.
`config`, `devices` and `freed` follow the configuration; a section is a button and the
message that brought it, so an event of an old section can be told from one of a new.
`level`, `flags` and `sensed` are the pins and the interrupt registers. `et` is the one
event timer, `heart` the ticks to the next heartbeat.

| action | code |
|---|---|
| `Edge` | the pin and the flag register |
| `Interrupt` | `ISR(INTn_vect)`, `button_handle_irq`, `process_post` at one go: interrupts are not interrupted |
| `TakeEvent`, `LoadCount`, `StoreDown`, `Deliver` | `do_event`, with `process_handle_button` or `ftimer_process` and `send_heartbeat` in the last |
| `StartPost`, `WriteSlot`, `LoadCount`, `StoreUp` | `process_post` as called by `etimer_process` |
| `FullConfig`, `AddSection`, `DelSection` | the handlers of `pmd_system.c`, with `interrupt_init`, `net_device_terminate` and `net_device_init`, which ends at the first driver that fails |

### Turnstile

`words`, `confirmations` and `commands` are frames on their way, `buffer` is `incomplete`,
`waiters` is `_conf_waiters`, `busy` is `_is_busy`; `threads` holds a record per key that was
completed: its place, and what is left of its handler. A step ends where another thread may see the
difference. `mishaps` remembers exceptions, lost commands, and two threads between the look at
`_is_busy` and its setting.

| action | code |
|---|---|
| `ReceiveWord`, `ReceiveConfirmation` | `local_message_handler` with `_handle_common_msg` and `_handle_confirmation_msg`, on the thread that reads the bus; where `process_msg` raises, the key stays in the buffer (`node.py:72`) |
| `Check`, `Claim`, `Access`, `Finish` | `process_msg`; `Decision` is `__check_access` of the code that the words add up to |
| `SendSignal`, `Sleep`, `WriteRow` | the handlers `_open`, `_open_lim_time`, `_close`, `_deny`, by the steps of `Handler`; each may raise, `Sleep` when the script's argument is no duration |
| `Wait`, `Pop` | `send_local_msg`, with `has_key` and `pop` apart |
| `ShowCard`, `LoseWord`, `Obey`, `OtherCommand` | people, readers, the controllers, other points and the bus |

Codes. A word is the i-th of a card, but the code sees only its data and whether it is the last.
`Code` adds the words up as `in_lvl3_32ints` does, and `Decision` looks at that sum. So a key that
a word was lost of, or that begins with what was left of another, may come to the code of a card
that nobody has shown: then the node opens for it, and nothing on the bus or in the node could
tell. The model follows where that happens: `torn` are the readers of whose key in the buffer a
word is missing or too much, and `mixed` the sides where such a key was taken for that of a card
that may open. Until then the properties hold as one would state them; after it, a showing may
have been taken for another's, but still has the lock opened once at most.

Addresses. `out_lvl2_common.pack_msg` puts the controller's address and the lock's number on
the same four bits of the data (`local_protocols.py:50-63`; its comment says
`< 32 | 1 | 4 | 20 >`), and `out_lvl1` makes the lock's number the id of the frame. `Packed` does the
same. The lock of another point whose frames come out alike is moved by this one's signals, and
this one's by its (`OtherCommand`); `Alone` are the locks that no other point's frames reach. The
locks of one turnstile are told apart by the id of the frame.

For `Gate` the showings that may still open a lock (`UnderWay`) are counted per reader and card
wherever they are: the last word of a key; a thread with a key that ends with that word, was not
refused and has not sent its signal; a signal. Each of them leads to one opening at most, or comes
to nothing (`Lapse`); `Mistake` is the decision on a mixed key, `Stray` a frame of another point.

### AccessSync

`log`, `db`, `pc`, `rows`, `tries` are a node's: its log, the version of its database, and its
log synchronizer. `current`, `stored`, `syncs` are the server's. `dbsIn` and `logsIn` are
connections not handled yet, at most `Backlog`; a message in them may be `cut`. `server` says
whether the server's loop runs, is over while its threads are not, or the process has ended. `lost`
names the three ways in which the code lets a row vanish: `drop_log` deletes it unread, the server
refuses it, or crashes or ends with it in its queue.

| action | code |
|---|---|
| `LogPassage` | `turnstile._log` |
| `GetLog`, `SendLog`, `SendLogFails`, `DropLog`, `DropLogFails` | a turn of `LogSynchronizer.run`, with `get_log`, `send_message`, `drop_log` and the end of the transaction |
| `LogHandler` | `log_handler` and the reading of its message |
| `StartSync`, `SendDb`, `SendDbFails`, `EndRound` | `Server.start` and `Synchronizer.run` |
| `StartSyncFails`, `ServerEnds` | `get_sync_data` raises: the loop of `Server.start` is over, `stop` lets no more logs be handled, and the process ends when its Synchronizers are through and no handler hangs |
| `SaveDb`, `SaveDbFails` | `save_db_handler` and the reading of its message |
| `EditDatabase` | whoever administers the server, within the foreign key of the log |
| `NodeCrash`, `ServerCrash` | the databases survive; a message that was being sent stays without its end |

Not in it: the columns of rows, and what a commit that raises leaves of the connection it was
made on (`database.py:53-68` puts the old one back only after it).

## 3. The runs

| run | expected | properties | what it shows |
|---|---|---|---|
| `CanNetSend` | pass | `AnsweredOnce`, `ContextOwnsMessage`, `NormsAreBacked`, `KeepsPromise`, `EveryMessageAnswered` | sending by the threads of the node is sending as promised; every message is answered, once, nobody reads a freed one, and what is reported as sent has been received |
| `CanNetDuplex` | pass | `TypeOK`, `WireInOrder`, `AnsweredOnceButFailed`, `CountMatchesQueue`, `BufferedInOrder`, `AssembledFits` | order on the bus, the books of the atoms, and reassembly, with both directions, a failing driver and lost confirmations; a message is answered twice only when the driver failed a frame of its key |
| `SyncWrapper` | pass | `TypeOK`, `DescrOutlivesCallback`, `BufferCounted`, `ServesPort`, `CallsReturn` | the blocking calls do what their header promises under every order of timeout and callback, touch no freed descriptor, and return |
| `CanDrvLin` | pass | `TypeOK`, `FramesConserved`, `KeepsContract`, `EveryFrameReported` | the driver does what `CanNet` relies on, up to the report of a frame that was not sent, with every fault the code knows |
| `CanDrvAvr` | pass | `TypeOK`, `TableMatchesController`, `KeepsListening`, `OnePlaceOneTimer`, `KeepsContract`, `EveryFrameReported` | the books of the device's driver agree under any order of interrupts and timeouts, it goes on listening, and reports each frame, once, until a timeout or too many frames lead it astray |
| `AccessSync` | pass | `TypeOK`, `NothingVanishes`, `SentBeforeDropped`, `EveryPassageSettled`, `NodesCatchUp` | with failing connections, half messages, overlapping Synchronizers, a crash and a server that an exception ends, no passage vanishes but in three ways, each is settled as long as the server runs, and the nodes get the last database |
| `PmdSystem` | pass | `TypeOK`, `NeverDeaf`, `StateFollowsPins`, `HeartbeatsGoOn` | a button stays heard until an event is lost, refused or stale; what is reported follows the pins; heartbeats go on |
| `Turnstile` | pass | `TypeOK`, `OneAtATime`, `OpenedByItsCard`, `ClosesAgain`, `OneOpeningPerShowing` | one request at a time; a lock that hears nobody else is open only for its own card, unless mixed words were taken for one, and once for each showing; what was opened for a time is closed |
| `CanNetFaulty` | violation | `AnsweredOnce` | `can_net.c:370` removes another message's waiter; one callback is called twice |
| `CanDrvAvrAbort` | violation | `AbortedIsGone` | `can_drv.c:293`: the last command that waits is freed and stays on the list |
| `PmdDeaf` | violation | `DeafOnlyWhenFull` | `button.c:38` posts in the interrupt: an event is overwritten, the button is deaf from then on |
| `TurnstileDeaf` | violation | `NextIsProcessed` | `points_manager.py:63`: a card no script is about leaves the turnstile busy for ever |

`NeverDeaf`, `StateFollowsPins`, `HeartbeatsGoOn`, `OneAtATime`, `OpenedByItsCard` and
`ClosesAgain` name in their hypotheses the misfortunes after which the code cannot keep them (a
race at the queue, an exception, a lost frame, mixed words, a lock that others move). Each is
needed: without it in the property, TLC finds the run's property violated (for `"stale"` in
`NeverDeaf` it takes three messages about the configuration: the section is taken out while its
event waits, and there is a new one for the same button; `NeverDeaf` itself is proved for any
number). `PmdDeaf` and `TurnstileDeaf` are two of these.

### Other disagreements

Five more places where the code does not do what its comments say. Each has a configuration
beside the runs, which TLC finds violated; `tlc -config <name>.cfg <module>` shows how.

| configuration, module | property | what happens |
|---|---|---|
| `CanNetStuck`, `MCCanNet` | `EveryMessageAnswered` | `can_net.c:303` refuses a message and leaves its atom busy for ever; what is queued behind it is never sent ("allows fast msgs sending in right order", `can_net_core.h:33`) |
| `CanNetOverlap`, `MCCanNet` | `QueuedKept` | `can_net.c:534` frees the atom exactly when messages wait on it; the test is the wrong way round ("at least, clean it for next read", `can_net.c:543`) |
| `CanNetRestart`, `MCCanNet` | `DeliveredAsSent` | `can_net.c:517` clears the id of the atom that is receiving: what follows is delivered, and confirmed, under id 0 ("just a warning, start to read new msg", `can_net.c:515`) |
| `SyncForever`, `MCSyncWrapper` | `ReturnsWhenDone` | `can_net_sync_wrapper.c:117`: without a timeout the call never returns ("no timeout = when it's done") |
| `CanDrvLinStale`, `CanDrvLin` | `RcIsUpdated` | `can_drv_lin.c:104`: a frame that was not sent is reported with the code of the one before ("rc is always updated!", line 114) |

Seen while reading, outside the models: `turnstile._log` (`turnstile.py:76`) writes
`'allow_lim_time'` whatever decision it is given; the last-frame bit of a signal's frame is that
of its data (`local_protocols.py:61`); `net_device.c:73` takes the length of a string that was
never written; `pmd_system_init` makes a fresh configuration at every start; `accept_frame`
(`can_net.c:414`) takes the hardware address as a byte, and `can_net_core.h:64` counts messages in
one; after a timeout `can_net_sync_wrapper.c:65` never frees the descriptor; `can_net.c:544`
leaves an atom of id 0 for every received message; a send callback that sends again on the
driver's thread takes `data_mutex` twice (`can_net.c:561`).

`AnsweredOnce` and `EveryMessageAnswered` each pass in one run and fail under another
configuration: the passing run shows under which conditions the code keeps them (a driver that
sends; refused messages on an atom of their own), the failing one that each condition is needed.
`QueuedKept` is checked in no passing run: what could break it is a peer on the node's own ids, and
then the code does. For nodes whose peers keep to other ids it is a theorem
(`QueueKeepsMessage`), a step of the proofs of `CountMatchesQueue` and `WireInOrder`.

### Bounds

* Messages: three on one atom are what it takes for one in flight, one that starts and one
  that waits; a fourth is refused, or a heartbeat. One message has two frames, so that there
  is a first, a last, and an only frame.
* `MaxNum = 2`: the longest message; three frames are too long.
* `Tics = 2`: a waiter lives through one tic and falls at the next.
* `MaxAtoms`, `MaxFramesOut`: no frame is received while the list of atoms or the driver's
  list is that long. Without the first, the list of atoms would grow for ever (every
  received message leaves an atom of id 0). In `CanNetSend` `MaxAtoms = 0` and nothing is received.
* `SendingMod = HwaMod = 256`: the widths of the code; nothing wraps in these runs.
* `CanDrvLin`: four frames, so that one is in hand while others are added before and
  behind. `SyncWrapper`: one call (calls share nothing but the network), two receivers, a
  buffer of two, three messages (`MaxArrived`), so that one is dropped; a timeout of one cycle.
* `CanDrvAvr`: two MObs, one of them to receive, so that of three frames one is pending and two
  wait, one with a `next` and one without; a timer lives through one tick and falls at the
  next. `IntBits = 1` instead of 16, so that there are two ids for three timers and the third
  shares one (`ftimer.c:47`: `1 << i` is 0 from there on).
* `AccessSync`: one node and one passage. A batch of rows is sent, stored, refused and deleted as
  one, and nodes share nothing but the server's queue, so more of either only repeats what one
  does; what matters is what happens meanwhile: two Synchronizers at once (an old version
  against a new one), two tries, a crash at any time, a point that leaves the database under the
  passage. `NothingVanishes` and `SentBeforeDropped` are proved without these bounds.
* `PmdSystem`: two buttons (flags and events of one can hide the other's), two slots (the queue is
  full when both wait), two messages about the configuration (a section, and its successor), two
  ticks per heartbeat. `MaxEvents` caps `nevents`, which a race makes outgrow the queue.
  `MaxMishaps = 1`: after the first kind of misfortune nobody presses or configures any more, so
  that the properties that exclude several of them are checked up to each.
* `Turnstile`: words of two bits (`Radix = 4`) and two cards: a visitor's of two words, <<1, 2>>,
  which is the code 9 and may open for a time, and a stranger's of one, <<2>>, which no script is
  about. The second word of the one is the whole of the other, so a stranger may complete a
  visitor's key, and a lost first word makes a visitor a stranger. The scripts know two more
  codes, which only mixed words come to: 10 (the stranger's twice, after an exception at
  `node.py:72`) closes, 37 (the visitor's without its end, and once more) opens. The controller's
  address is 223; the lock `out` (4) packs like one of another controller (123), the lock `in` (2)
  like nobody's. Two readings: the second may meet the first at any step. No confirmation of
  another point's command (`MaxStray = 0`); `TurnstileDeaf` has one. The theorems hold for any
  cards, codes, addresses and numbers of readings and confirmations.
* `SlowDriver = FALSE`: a tic passes only when the driver has sent what it has.
  `confirmation_tics` is meant to be that long, and nothing enforces it; with `TRUE`,
  `ContextOwnsMessage` fails (`can_net.c:336` reads a freed message). `StaleConfirms =
  FALSE`: a confirmation arrives before its waiter expires, or not at all; with `TRUE`,
  `NormsAreBacked` fails, since a confirmation carries no number. Both are listed as hazards.
* `NormsAreBacked` is checked with a driver that sends. When the driver may fail it is not kept
  (four messages on two keys show it): the waiter that `can_net.c:370` removes may be an older
  message's, whose confirmation is then taken for that of a message that never arrived.

`CHECK_DEADLOCK FALSE` in all runs: applications need not send, receivers need not
receive and peers need not speak, so all these systems may come to rest; the drivers also
stop when they are `undefined` or `Astray`. A device rests when a tick was lost and nobody
presses; a turnstile, when nobody has a card left; the access network, when its server has
ended, and its nodes with empty logs have nobody to hear from.

### Fairness

`CanNet`: the thread that called `can_net_start_sending_msg` finishes its call (weak); the
driver's thread finishes its receive callbacks (weak) and in every turn of its loop offers a frame
(strong, since received frames keep interrupting it); the checker's loop never ends (strong: it
waits while the driver has frames, and finds the list empty at times); a confirmation arrives or
is lost (strong). Peers and applications are not fair. `SyncWrapper`: each thread inside a call
goes on (weak); the network and its answers are not fair, so that `CallsReturn` says that a
timeout ends the call by itself. `CanDrvLin`: the driver's loop goes on (weak). `CanDrvAvr`:
`process_run` serves polls and events in turn, so each of the two processes runs again and again
while it has something to do, however often it is kept waiting (strong); the controller and the
users are not fair, a frame may never get a MOb nor the bus. `AccessSync`: the loops and handlers
run (weak; the server's only while its loop does), and a connection or a transaction that is tried
again and again succeeds some day (strong: each failure takes the action's turn away); nobody need
pass, edit or crash, and crashes are bounded. `PmdSystem`: the main loop goes on and interrupts
that are due come (weak); taking an event and posting a tick are strong, because `process_run`
serves polls and the queue in turn and an interrupt may fill the queue in between. `Turnstile`:
threads go on and the controller obeys or loses what it is told (weak); nobody need show a card,
and frames need not arrive. Mutexes are held for a bounded number of steps everywhere, so that a
thread that waits for one gets it.

## 4. The proofs

| theorem | statement | along |
|---|---|---|
| `CanNet_proofs!TypeCorrect` | `Spec => []TypeOK` | one lemma per action; the parts an action leaves alone are dealt with once |
| `CanNet_proofs!Reassembly` | `Spec => [](BufferedInOrder /\ AssembledFits)` | inductive: `TypeOK /\ BufferedInOrder /\ AssembledFits` |
| `CanNet_proofs!UnbrokenRun` | `Spec => []BufferedInOrder` | from `Reassembly` |
| `CanNet_proofs!AnsweredByOne`, `NormsBacked` | `Orderly => (Spec => []AnsweredOnce)`, `... []NormsAreBacked` | the books of the three threads, below; for the second also counting by cardinalities |
| `CanNet_proofs!ContextKeepsMessage`, `FaultStaysInAtom` | `Prompt /\ (FaultyDriver => Apart) => (Spec => []ContextOwnsMessage)`, `... []AnsweredOnceButFailed` | the books, without those of the keys the driver failed |
| `CanNet_proofs!QueueKeepsMessage`, `CountIsQueue`, `SentInOrder` | `Prompt /\ Apart => (Spec => []QueuedKept)`, `... []CountMatchesQueue`, `... []WireInOrder` | the order of sending, below |
| `CanNet_proofs!NetworkKeepsPromise` | `Orderly /\ Apart /\ RefusedAlone => (Spec => KeepsPromise)` | refinement of `MsgService`, from the same invariants |
| `SyncWrapper_proofs!TypeCorrect`, `SendIsSafe`, `ReturnsAnswer`, `BufferAccounting`, `ReceiveInOrder` | the invariants of the run, `ResultIsAnswer` and `TakenInOrder` | `CallsSafe` below; the counts of `BufferCounted` by cardinalities of finite sets; `TakenInOrder` strengthened by a bound on what arrived |
| `SyncWrapper_proofs!PortIsServed` | `Spec => ServesPort` | refinement of `SyncService`, from `CallsSafe`, `BufferCounted` and two more invariants, below |
| `CanDrvLin_proofs!TypeCorrect`, `Conservation` | `TypeOK`, `FramesConserved` | below |
| `CanDrvLin_proofs!DriverImplementsService` | `Spec => KeepsContract`, for any faults | refinement, from the same invariant |
| `CanDrvAvr_proofs!TypeCorrect`, `TableAgrees`, `AlwaysListens` | `TypeOK`, `TableMatchesController`, `KeepsListening` | below; the number of receivers by cardinalities |
| `CanDrvAvrReports_proofs!CommandsAreKept` | `Spec => []OnePlaceOneTimer` | below |
| `CanDrvAvrReports_proofs!DriverImplementsReports` | `Spec => KeepsContract` | refinement, from the same invariant |
| `AccessSync_proofs!TypeCorrect`, `PassagesAreKept`, `DropsWhatWasSent` | `TypeOK`, `NothingVanishes`, `SentBeforeDropped` | below |
| `PmdSystem_proofs!TypeCorrect`, `EveryButtonHeard`, `ReportsFollowPins` | `TypeOK`, `NeverDeaf`, `StateFollowsPins` | below; the last by a parity |
| `Turnstile_proofs!TypeCorrect`, `OneRequest`, `OpenedByCard` | `TypeOK`, `OneAtATime`, `OpenedByItsCard` | below |
| `Turnstile_proofs!TurnstileKeepsGate` | `Spec => OneOpeningPerShowing` | refinement of `Gate`, by counting, below |

The inductive invariants. `BufferedInOrder` alone is not inductive: the frame that is about
to be appended must follow `last_frame_num`, which it does because the buffer holds exactly
`last_frame_num + 1` frames outside the window and one more inside it, and because no frame
is received while the window is open.

The sending half of `CanNet` rests on three invariants. `AInv` keeps the books of the three
threads: a message is with the driver, waits for its confirmation, or is done; the waiters
stand in the order in which the last frames were given to the driver, so of the waiters of
one key the first was sent first; a confirmation on its way has a waiter, and stands before
those that are not sent yet. A confirmation removes the first waiter of its key, which is
therefore done: its context is gone, and it was not answered before. For `NormsBacked` it is
enough to count: a confirmation may answer another message of the key, but of the messages of
a key as many wait as were sent and not answered. `OInv` is about order: an atom on
which this node sends counts its queue and the message before it, one message of a key is in
progress and the queue holds those submitted after it, and the last frame of a key on the wire
says what comes next, a frame of the same message or the first of the message submitted next.

Neither survives a frame that the driver fails as it stands: `msg_send_handler` answers the
message, leaves its atom and its queue as they are, and removes the first waiter of its key,
which may be another message's. The order is kept all the same, because nothing of this key is
sent any more: `CInv(F)` is `OInv` read as if the messages `F` that failed still were with the
driver. The books are kept of the other keys, `AInv(Broken(F))`: a waiter of a broken one may
take a confirmation that was meant for another, whose own waiter then ends at the tic, once.
`Kept` joins the two; `ContextOwnsMessage`, `QueuedKept`, `CountMatchesQueue` and `WireInOrder`
follow from it, and instead of `AnsweredOnce`, which `CanNetFaulty` refutes,
`AnsweredOnceButFailed`: a message is answered twice only when the driver failed a frame of its
key.

From the books and the order without failures, `NetworkKeepsPromise` takes each step to
`Accept`, `Leave`, `Answer` or a stutter: what is pending of a key is the message in progress,
followed by the queue of its atom. What has been submitted never becomes idle again (`Begun`),
so a message is given once.

In `SyncWrapper`, `CallsSafe` adds to `DescrOutlivesCallback` and `ResultIsAnswer` what ties
`is_sending`, `actual` and the callback's place together: `is_sending` falls only in a callback
that holds the mutex, `actual` only in a call that found it still up, so exactly one of them sees
the other late. `PortIsServed` needs besides that the network neither holds nor answers a message
before its call (`Fresh`), and that the polling loop ends only where there is a timeout
(`LoopLeft`). In `CanDrvLin`: the frame in hand is the head of the list until it is unlinked
(`InHand`), a freed head occurs only between turns, after a report of a frame that was not sent
(`FreedAtRest`, `FailedStays`), a frame is listed once (`ListedOnce`) and not sent while it is
(`ListedUnsent`), and the code in hand is NORM for a frame on the bus, and otherwise only for one
refused in time (`CodeInHand`), which is why the contract may end where it does. In `CanDrvAvr`:
the MOb of the command whose callback runs is given to no other (`InCallback`), since the table
and the controller agree, and a command to receive never has to wait (`NoReceiverWaits`), since it
is made for the MOb just released. `CommandsAreKept` adds that no command has two places among the
table and the list (`OnePlace`), that each timer is of a command of its own, and that what a timer
or a place still leads to was not reported, or is on its way out (`OneTimer`): its callback runs,
or the driver is astray (`Leaving`). As long as there was an id for each timer, ids are distinct
and stopping one stops no other, so just the commands that were not reported are timed (`OwnIds`).
So a report is always of a command that was not reported before, which is what each step of
`CanReports` asks.

In `PmdSystem`, `NeverDeaf` needs that the register agrees with the queue as long as nothing went
wrong (`QueueInv`), that no section of the configuration has been freed (`ConfInv`), and that
handlers are of the sections there are (`HandlerInv`); a button is then heard by its handler or by
an event, and each step moves it from one to the other. That several kinds of misfortune do not
come together is part of it (`Counted`), since after one nothing more is promised.
`ReportsFollowPins` adds up the pins held down, the flags of interrupts, the edges in the queue
and in hand, and the state that was last told: the sum is even at first, and every step changes it
by an even number (`Follows`). A slot that is written and not yet counted holds a tick, no edge
(`TickWritten`). In `Turnstile`, `OneRequest` says of a thread that is inside that it is alone
with those about to claim (`Only`); `OpenedByCard` follows a card from the reader to the lock: a
reader's words are of cards shown there and, unless a word is missing, what is in the buffer and
what is still to come make up one card's key (`WordsInv`); a thread that has yet to open has a key
whose code may, which is then a card's that was shown, or the side is mixed (`WorkInv`); and each
signal on its way to open, and each lock that hears nobody else and is open, has such a card, with
a row of its code, a thread or an exception (`OpenInv`). `TurnstileKeepsGate` counts the showings
under way: each step moves one from the last word to a thread, a signal and the lock, or drops it,
and none makes two of one; that a thread's handler opens first, and once, is part of it
(`OpenFirst`). In `AccessSync`, a row leaves a log only when what was read of it has left the
node, so `SentBeforeDropped` comes first and `NothingVanishes` from it.

Assumptions. The proofs rest on the `ASSUME`s of the modules. These type the constants, and say
that a command to receive is none of the frames, that no more MObs receive than there are, that a
card has a word and that the locks of a turnstile have distinct numbers: the theorems hold for any
sets of messages, receivers, frames and peers, any limits and timeouts, any number of MObs,
timers, buttons, slots, cards, nodes, threads and crashes. Those of `CanNet` about sending have
more, and name them:

* `Prompt`: the driver reports every frame before the next tic, as sent or failed, a
  confirmation comes once and in time or not at all, and an address fits the byte
  `accept_frame` keeps of it. What a slow driver and a late confirmation do is said under
  "Bounds".
* `Orderly`: `Prompt`, and the driver reports no error. Only `AnsweredByOne`, `NormsBacked` and
  `NetworkKeepsPromise` need it; `CanNetFaulty` shows what an error does to them.
* `Apart`: no peer sends on an atom this node sends on, no message is sent on id 0, and there
  are fewer messages than `sending` can count. `CanNetOverlap` shows what happens otherwise.
* `RefusedAlone`: a message that `can_net.c` refuses has an atom of its own. `CanNetStuck`
  shows that the messages behind it wait for ever otherwise.

`CanNetSend` is an instance of all of them, with messages of one frame and of two that share an
atom, and a refused one; `CanNetDuplex` is one of `Prompt` and `Apart` with a driver that reports
errors.

Only model-checked: liveness (`EveryMessageAnswered`, `CallsReturn`, `EveryFrameReported`,
`EveryPassageSettled`, `NodesCatchUp`, `HeartbeatsGoOn`, `ClosesAgain`), which is out of the
prover's reach. Every other property of the passing runs is a theorem.

## 5. The plan

Done: the modules of section 2, the runs of section 3, the proofs of section 4. Left:

1. `CanProtocols`: pack and unpack as operators, inverse to each other over bounded fields, and
   the fields of `local_protocols.py` that `Turnstile` takes as they are.
2. A buffer to receive that cannot be replaced (`CanDrvAvr`), the reader's driver, which counts
   the bits of a card in its interrupt (`PmdSystem`).

### Not modelled

* The registrator of the master (`standard_registrator.py`): its methods have no `self`
  and name the attributes of their class without it, so no call gets as far as a change of state.
* Frame formats, the packing of `common/pmd_net`, the conversions of the Python front: no state.
* The tools and generators of the access network run by hand.
* Most of `uc` is Contiki with its ports, network stacks and register tables
  (`uip.c`, `stm32f10x_map.h`, ...), vendored and not used by the device: of its 270000 lines
  the device needs the processes, the event timers and a list. That is why the lines the
  modules stand for are a small share of the repository's.

Left out for good: opening sockets, threads and interrupts, the conversions of the Python front, the
generators, Contiki, and everything that only formats or logs.
