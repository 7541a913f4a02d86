# Verification of the SEED FIC LoRa datalogger

TLA+ models, TLC runs and TLAPS proofs for the firmware in this repository: a
Zephyr application (`app/src`) on a small message framework (`lib/framework`).
The definitions are translated from the source; `PROJECT.json` ("map") names
the lines each of them stands for.

## 1. The system

### Components, state, operations

| Component | Source | State | Operations |
|---|---|---|---|
| Message router | `lib/framework/sys_core.c` | registry of tasks; one `k_msgq` of message POINTERS per task; one timer per task | register, `msg_send`, `msg_unicast`, `msg_broadcast`, `msg_receiver`, `msg_flush`, start/stop timer, timer interrupt |
| Message creation | `lib/framework/sys_msg.c` | none of its own | `sysmsg_*`: take a buffer, write a header, send, free on error; reply and send-to of a received message |
| Buffer pool | `lib/framework/buffer_pool.c` | a heap of 1024 bytes; statistics when configured | take, free |
| Control task | `app/src/control_task.c` | `dev_nonce`, `tx_data`, `b_send_msg_lorawan`, the heartbeat timer | start-up, heartbeat, join, sensor event, send data, downlink callback |
| Sensor task | `app/src/sensor_task.c` | interval timer, power timer | measure (reads the water-flow count from the NVS), two timer interrupts |
| Event task | `app/src/event_task.c` | event id | passes an event on to the control task |
| Configuration store | `lib/framework/sys_cfg.c` | NVS, keys hashed to 16 bits | get, set, unset, blobs |
| Board support | `app/src/bsp.c` | relay pins, water-flow counter | relay control and toggle, the counter's interrupt |
| Shell | `lib/framework/*_shell.c` | none | `syscfg get/set`, pool statistics |
| Not in the running program | `shtc3.c`, `modbus_rtu.c` (not built), `adc.c` (not called), `drivers/`, `lib/custom_lib` | | |

### How they interact

    timer isr ----MEASURE----> sensor task --EVENT_TRIGGER--> event task
                                 ^                               | SENSOR_EVENT
             MEASURE (heartbeat, |                               v
              after a join)      +------------------------- control task <-- JOIN,
                                                           |   |    ^       SEND_DATA
                                     lorawan_join/_send <--+   |    +-- PERIODIC
                                     NVS (dev_nonce)    <------+        (timer isr)
    LoRaWAN thread --dl_callback--> relay <--toggle-- control task

All messages come from the one pool and cross between threads of the same
priority as pointers. Handlers run in the thread of their task, to their end:
the control task does nothing else while it joins or sends. Interrupts run
between any two steps of a thread and post messages themselves.

### What is hard about it, and what has to hold

* **Ownership.** A pointer in a queue, the message a handler runs with, a buffer
  a sender has filled, the copy a broadcast makes: each buffer must be freed
  exactly once whichever call fails, and nobody may use it after passing it on.
* **Partial failure.** A broadcast that reaches some receivers only.
* **Resource bounds.** Three queues of 32 entries over a pool with room for about
  60 plain messages or 30 events: the pool is exhausted first.
* **Self-perpetuating timers.** Both periodic activities are one-shot timers that
  are started again by the handler of the message their interrupt posted; a
  dropped message breaks the chain.
* **Blocking on the radio.** A join lasts as long as the network likes.
* **Power loss** anywhere in a join, and lost answers of the network.
* **One NVS** written by a task, an interrupt and the shell, which may fail to
  mount, and whose keys are told apart by a 16-bit hash.
* **Statistics beside the heap**: updated in steps of their own, with unsigned
  arithmetic.
* **Two threads and one relay.**

`PROJECT.json` ("hazards") lists each at its line, with the properties that
cover it, or the reason why none does.

`SYSCORE_ASSERT` expands to nothing in the shipped configuration: `prj.conf` sets
`SYS_ASSRET_ENABLED` (sic, `lib/framework/Kconfig:14`), the code tests
`CONFIG_SYS_ASSERT_ENABLED` (`sys_core.h:37`). A failing assertion therefore
changes no state in the models; what assertions claim is checked as properties.

## 2. The models

### MsgRouter (with Mailboxes): the framework

One TLA+ action per atomic step of a framework call, so that the steps of
threads and interrupts interleave as the kernel allows.

| In the model | In the code |
|---|---|
| `msg[b]` | the message in a block of the pool; `Freed` when it is in the pool |
| `queue[t]` | `p_queue` of task `t`: pointers |
| `rxpc/cur/res[t]` | where the thread of `t` is in `msg_receiver`, its `p_msg`, its `res` |
| `pc/buf/dest[a]` | the framework call thread `a` is in, its message, its receiver or loop index |
| `copy/ret[a]` | `p_new_msg` and `ret` of `msg_broadcast` |
| `missed`, `issued`, `called` | history, read by properties only |

`Create`, `CreateWithCallback`, `CreateBroadcast` take and fill a buffer;
`MsgSend`, `MsgUnicast` and the `Scan*`/`PutCopy`/`BroadcastDone` steps route it;
`Deallocate` is `deallocate_on_error`. `Receive`, `Dispatch`, `Return`, `Options`,
`Release` are `msg_receiver`; between `Dispatch` and `Return` the handler makes
whatever framework calls `Senders` and `HandOff` allow it. `TimerIsr` and
`IsrSend` run to completion in one step, as interrupts do with respect to
threads (nested interrupts that both use the framework are not modelled; they
touch the pool and the queue under the kernel's locks, in separate calls).
A take may fail with buffers free, as the pool's comment says; `called` stops
at 2.

A buffer of the model has the header and the callback; payloads are not
modelled. All buffers are of one size (sizes are `Datalogger`'s subject).

`Mailboxes` is what users of the framework think they have: per receiver a
bounded FIFO of message values. `ImplementsMailboxes` is the refinement, under
the mapping `box <- Boxes` (each queued pointer replaced by what it points to).
It would break if anybody wrote to, freed or reused a queued buffer.

### Datalogger: the application's traffic

The three tasks, with their queues bounded and the pool counted in units of 16
bytes including the heap's overhead: a `msg_t` takes one, an `event_msg_t` two.
A take of an event may also fail when what is free lies in pieces (`MayMiss`: a
free piece of less than two units needs allocated neighbours). A tick is 60 s,
the sensor's interval; an expired timer's interrupt comes at any moment in the
tick in which it is due. Work that does not wait for the radio is quick against
a tick (`Tick` waits until every task is idle). Start-up, the six handlers that
messages are sent for, and the unhandled `SMC_READ_POWER` are actions.

A join may last for ever. A send returns within a tick if `RadioStalls` is
FALSE; with TRUE, `EAGAIN` may go on as long as the code would retry.

### DevNonce: joining

`Boot` (start-up, `syscfg_init`, `lorawan_init` with `get_dev_nonce`), `Request`, `Answer`/`TimeOut` (external:
the network and `lorawan_join`), `IncDevNonce`, and `Reset` anywhere. The
network accepts a nonce above all it accepted before. The NVS may
fail to mount, to be read or to be written: the code ignores all three results. (`if ((ret = -ETIMEDOUT))` assigns, but
only changes one negative value into another.) `lorawan_start` may fail as well: then
the nonce is not read and no JOIN is posted, and since the result of `lorawan_init` is
ignored, the device stays without the network (`pc = "down"`) until its next boot.

`ShellSet` is `syscfg set dev_nonce`, at any time: the next `inc_dev_nonce`
overwrites it, a reset before that takes it up.

### WaterFlow: the count of the flow meter

`BspInit` (the interrupt is enabled), `SysCfgInit` (the NVS is mounted, or not),
`Pulse` (the interrupt `water_flower_check`, whose write may fail), `Measure(n)`
(`sensor_measure_msg_handler` reports `n`: the count in the NVS, or 0 when the
read fails), `FlowSet(n)` (the shell), `FlowReset`. `count` is in RAM, `stored` in the
NVS; `age` says whether the NVS holds a count of this boot, and the last one
(`pulses`, `age` and `shown` are history). A count of an earlier boot stays in the NVS
until the first pulse of this boot overwrites it.

### KeyHash and Storage: one NVS

`KeyHash` is `MurmurOATT_16` in 16-bit arithmetic, over the characters of a key.
`Storage` composes `DevNonce` and `WaterFlow`: both are reset together, both depend
on the same mount, `main` starts the control task after `bsp_init` and
`syscfg_init`, and the interrupt, the sensor task and the shell come between any two
steps of the control task. An access that interrupts another may make either
fail. Two keys with one id would share their value (`NonceWritten`,
`FlowWritten`); `MCStorage` takes the ids from `KeyHash`. `KeysApart`, the
specifications of the two components, says that they do not: `Storage` refines both.

### PoolStats: the statistics of the pool

Present with `CONFIG_BUFFER_POOL_STATS`, which `CONFIG_BUFFER_POOL_SHELL` selects (the
shipped configuration sets neither). A call is two steps: `HeapAlloc` and `TakeStat`,
`HeapFull` and `FailStat`, `GiveStat` and `HeapFree`; each holds the heap's lock, other
calls come between them. `bps` is the record of `struct bp_stats`. `Minus32` is the
difference of an `int` and a `size_t`. The heap is external: a block needs its
overhead, and a take may fail with room left as long as there are other blocks.
`buffer_pool_get_stats` copies `bps` under the lock, so an invariant of the model is
what any snapshot, and `bp stats`, shows. The least-room history `low` is computed
from the blocks, not from `bps`. `PoolAssumption` says that the pool with a block of
any size callers ask for is less than the range of `size_t`: they ask for messages,
which are structures of a few words, so that a difference that wraps is larger than
the pool and cannot be taken for a minimum.

### Uplink: measurements, transmissions, the relay

The control task's `tx_data`, `b_send_msg_lorawan`, its self-sent `SEND_DATA`
messages and the retry loop of `send_data_lorawan_msg_handler`, attempt by attempt:
`Sent`, `SendError` (counted, and given up at the seventh), `SendAgain` (`EAGAIN`, which
is not counted), and `Resume` after the pause; the downlink callback in the LoRaWAN
thread. `ret` is the last answer of the radio. Measurements are numbered so that stale
or repeated ones can be told; a message is dropped when the queue is full (`Put`) or the
pool has no buffer for it, which here may happen at any time. `Downlink`
distinguishes payloads as `dl_callback` does: `strncmp` over the length of the
payload accepts every prefix of a command.

## 3. The runs

| Run | Question | Bounds |
|---|---|---|
| `router_ownership` | ownership, nobody touches a message while it is handled, refinement to mailboxes | 2 tasks, 1 thread, 3 buffers, queues of 2, one forwarding/replying handler, one flusher |
| `router_callbacks` | callbacks once and eventually, owed until they are called; buffers return | 2 tasks, 2 buffers, queues of 2, one callback, a sending handler, interrupts that send |
| `router_broadcast` | *violated*: success means all were routed (`sys_core.c:170`) | 3 buffers |
| `router_handoff` | *violated*: options are read from a live message (`sys_core.c:255`) | 3 buffers |
| `datalogger_progress` | the heartbeat's interrupt always finds room, so that it is never lost or doubled; measuring goes on; the backlog ends | 30 units, queues of 16 |
| `datalogger_pool` | *violated*: the take of the sensor timer's interrupt finds a buffer (`sys_msg.c:51`) | shipped sizes |
| `datalogger_stall` | *violated*: the heartbeat goes on, with long `EAGAIN` | 30 units, queues of 16 |
| `storage` | the two keys stay apart; nonces never fall; the device joins if its radio has started; no pulse is lost for good; reports never fall, the last one comes | 4 nonces, 2 resets, 1 loss, 1 command for the nonce, any for the count, 3 pulses per boot |
| `nonce_reset` | *violated*: a nonce is used once (`control_task.c:221`) | 1 reset |
| `uplink_progress` | order of uplinks, end of transmissions (unless `EAGAIN` never ends), no retry undoes a command for the relay | 5 measurements, queue of 4 |
| `pool_stats` | what the statistics show | 3 buffers, sizes 1, 3, 5 and an overhead of 1 in a pool of 12, 5 takes |

Why the bounds suffice. Router: three buffers let an original and its copy exist
next to a queued message, and run out; queues of two fill; two tasks are enough
for a broadcast to fail for one and succeed for the next. What is proved holds
for all sizes anyway. Callbacks have no flusher and no handing-off handler: the
code loses the callback of a flushed message by design, and a reply keeps the
option so that it can run once per hop; the properties are stated for users that
do neither, and the proofs say what of this they need (section 5). Datalogger: the pool and the queues have half the shipped sizes (60
units, queues of 32), in the same proportion, so that the pool is exhausted
before a queue is full, and the states contain every length of a join, because
an exhausted pool only drops; where the shipped number is the point
(`datalogger_pool`), it is used. Storage: 4 nonces overflow within the resets,
the loss and the command allowed, a reset falls between any request and its write, and the
first pulses of a boot come before the mount, after it, or with writes that
fail. Statistics: the three largest blocks exceed the pool, two fit, and 5 takes
let a failure come before, between and after successful ones.

Fairness. Router: threads block when idle and have equal priority, so each runs
again (WF of calls and of the receive loop); handlers return, but may send any
number of messages first (SF of `Return`). Datalogger: threads, interrupts and
time proceed (WF); nothing is assumed of the radio, and the properties say "if
the control task comes back from the radio again and again" themselves.
Storage: WF of `main`, of the whole joining loop, and of a measurement that
reads the NVS, if it stays mounted (not every read fails); nothing is assumed of
the interrupt and its writes; resets, losses and commands for the nonce end
with their bounds, and a command for the count does not count as one of this boot.
Uplink: WF of the control task's steps (the thread runs, `lorawan_send` returns, a
pause ends), and nothing about what the radio answers: a transmission must end even if
the radio never accepts anything, and the one answer with which it need not, `EAGAIN`
for ever, is an alternative of `SendEnds` itself.

Every property has a mutant of the code's model that violates it (`PROJECT.json`,
"mutants"; the definitions marked "Mutant:" in the modules).

## 4. What the runs found

1. `msg_broadcast` reports success, and frees the original, when only the last
   receiver that wanted the message got it.
2. `msg_receiver` looks at the options of a message its handler has given away:
   after `sysmsg_reply` the buffer may be free or somebody else's.
3. The pool is smaller than the traffic of a join that takes a while (about half
   an hour). While it lasts, only takes of events fail; the sensor timer's interrupt
   still finds the one unit it needs. When the join is over, the measurement it asks
   for at its end becomes one event more, and an interrupt that comes before the
   control task has worked off the first of the backlog finds the pool exhausted. The
   assertion that would show it is compiled out by a misspelt option. The
   measurements come back with the heartbeat, whose message is in the backlog.
4. The heartbeat survives joins of any length if transmissions end within a tick, at
   the sizes of `datalogger_progress` and, by proof, at the shipped ones: its first
   message is queued long before the pool is exhausted, and its timer is started again
   only after the join, when the backlog gives its buffers back. It does not survive
   two long stalls of `lorawan_send` with one heartbeat between them: its message is
   dropped and nothing restarts its timer, so measuring stops for good when the
   sensor's chain breaks too.
5. A reset in the middle of a join reuses a nonce. The network refuses it and the
   next attempt succeeds; nonces never go back further than that.

Seen while modelling, without a text of the repository that says otherwise: a device
whose `lorawan_start` fails measures and sends in vain until its next boot
(`control_task.c:265`; `JoinsInTheEnd` has this as an outcome of its own), and every
transmission toggles the relay that the network server controls (`control_task.c:419`).

Confirmed, though a reader of the code might doubt it: pulses before the mount
and failed writes are made up for by the next write; the hash keeps the two
keys apart; a shell that sets the nonce back delays a join, but does not
prevent it; and a take that fails for want of room leaves the least space of
the statistics alone, because its difference wraps (so `min space available` never
shows how much was missing), while one that fails with the room in pieces
lowers it to what would have been left.

## 5. The proofs

`MsgRouterProofs` proves, for any number of tasks, clients, buffers, codes,
callbacks and any depth of the queues, from `RouterAssumption` and
`FreedIsNoMessage`:

* `TypeCorrect`, `OwnershipIsExclusive`, `NothingLeaks`, `QueuesHoldMessages`:
  the four invariants of `router_ownership`;
* `HandledStaysUndisturbed`: while a receive loop has a message that its handler has
  not passed on, nobody frees or rewrites it;
* `RefinesMailboxes`: the refinement.

The inductive invariant (`Invariance`) adds to them what they need from the
program counters: where `pc[a]` is "idle", `a` holds no buffer; in "put" it holds
an original and a copy; `cur[t]` is set between `Receive` and `Release`; a task
that has handed its message on (`res[t] = "DO_NOT_FREE"`) owns it no more, and
the call it made does. Ownership is expressed as a function from owners (queues,
receive loops, calls, copies) to sets of buffers, so that each action is one of
a few moves of a buffer between owners (take, hand over, free), each a lemma about
that function; every action then only has to show which move it is. The
refinement needs that a step writes to no queued buffer, which is `SingleOwner`,
and that appending and removing pointers append and remove letters. So does
`HandledUndisturbed`: every write goes to a buffer that the writer owns or takes
from the pool, and none of these is the receive loop's.

`CallbackProofs` proves, in the same generality, that a callback runs at most once, that
it is not lost, and that the options are read from a live message: `CallbackOnceUnlessPassedOn` and
`OptionsUnlessPassedOn`, in every behaviour in which no handler passes its own message
on (`NoHandOff`), and `CallbackOnce`, for every system whose handlers cannot
(`HandOff = {}`). No handler of `app/src` does, and flushing needs no condition: a
flushed callback message is freed, and its callback never runs. The condition is
the exact one of finding 2: `router_handoff` violates `OptionsOfMessage` with one
reply. A callback is a word of a message, so the invariant (`CbInv`) follows that
word: no two messages have the same callback, a message that is being broadcast
(copied) has none, a callback that was not given out is in no message and has not
run, and when it has run, the message that has it is the one its receiver is
about to free. Each step keeps the word, frees it, leaves it out of a new message,
or puts a fresh one into a buffer from the pool (`CallbackStep`), and only the
receive loop calls; that the loop calls for its own message is the ownership
invariant of `MsgRouterProofs`.

`OwedUnlessPassedOnOrFlushed` is the other half, the step property that
`AcceptedCallbackRuns` rests on: a callback whose message waits in the queue of a task
that handles it, or is in that task's hands, is still there after every step, or is
called in that very step. It needs `NoHandOff` and that nobody is in `msg_flush`
(`NoFlush`), and `CallbackNotLost` needs neither where no handler passes messages on and no
thread flushes. That no other thread, copy or interrupt writes to the message in the
queue, or in the hands of its receiver, is one lemma (`NotWritten`) of
`MsgRouterProofs`, from which `HandledUndisturbed` follows too; that the pointer stays in
the queue until its receiver takes it is `StaysQueued`, and that the receiver's loop then
goes from the dispatcher to the options with the same message is `ReceiverGoesOn`.
That the call comes is fairness, and left to TLC.

`DevNonceProofs` proves `TypeOK` and `NoncesNeverFall` for any width of the
nonce and any number of resets and losses: while the NVS has not failed and the
shell has left the nonce alone, the NVS holds the nonce of the request under
way, or the next one, and no request so far had a larger one.
`NonceUsedOnceOtherwise` says that finding 5 has no other cause: with no reset between
a request and the write of the next nonce, and no command for the nonce, no
nonce is used twice, however often the device restarts elsewhere. Between joins the
NVS is then strictly ahead of everything sent (`Ahead`).

`WaterFlowProofs` proves `FlowTypeOK`, `PulsesMadeUp` and `ReportsNeverFall` for any
number of pulses, failures, resets and commands. The invariant: the count in RAM is
exact, and a count of this boot in the NVS lies between the last one reported
and the one in RAM.

`StorageProofs` proves `KeysApart`, step by step, from the assumption that the
two ids differ (which TLC computes for the ids of the program). Through it the device
inherits the theorems of the components: `StorageTypeCorrect`, `StoragePulsesMadeUp`,
`StorageNoncesNeverFall` and `StorageReportsNeverFall` state of the composed device, with
its one NVS, one mount and one reset, what was proved of each component alone.

`UplinkProofs` proves `TypeOK` and `UplinksAdvance` for any queue and any number of
measurements: what was sent, what waits in `tx_data`, the measurements in the
queue and the last one taken are in this order, and the queue itself is.
Appending to and taking from a bounded queue keep the order (two lemmas).
`RetriesAlwaysKeepRelay` proves that the relay moves once per transmission, whatever
the number of attempts.

`DataloggerProofs` proves `TypeOK` and that the heartbeat is never doubled, for
any pool, queues, periods and radio: it is in its timer, in its pending
interrupt or in one message, and nowhere before the control task has started it.
`HeartbeatGoesOnWithRoom` proves `HeartbeatGoesOn` in every behaviour in which the
interrupt finds room for its message whenever it is due (`HeartbeatHasRoom`): of all
the steps, no other one can lose it.

`HeartbeatAlwaysHasRoom` proves that it does, and with it `HeartbeatNeverLost`, for
all sizes with `Sizes`: transmissions end within a tick (`~ RadioStalls`), the heartbeat takes two
ticks `p` or more, the pool has 54 units or more and at least `2p + 9`, and a queue is
deeper than `p + 1` and than (3 * `PoolUnits` + 26) / 8. The shipped sizes are of this kind
(60 units, queues of 32, two ticks: `ShippedHeartbeat`). It is a load argument. Messages
are counted by kind (`Count`), and three layers are added to the invariant:

* `Shape`, what there can be: each queue holds its own kinds of messages, the one JOIN
  comes first, the messages fit into the pool, and the power timer runs out once;
* `Few`, `NoSends`, `Early`: at most three messages are still to become reports or a
  heartbeat; until the join is over nothing is sent, and at most one report a tick is made
  before the heartbeat is due;
* `Load`: what the control task has yet to do before the heartbeat can be due again, each
  message at the weight of the messages it may still become (a report becomes a
  SEND_DATA every second time, because `b_send` alternates), against the ticks that its
  transmissions take. Only the end of `lorawan_init`, which finds nothing, and `Tick` raise
  it. A tick pays for the measurement and the heartbeat that it asks for with the
  transmission that it ends; where it ends none, the control task is joining, and what waits are
  reports that fit into the pool, or it has nothing to do. So the load is `Bounded` by what
  one join can leave behind, and when the heartbeat is due, what waits is small beside
  the pool and the queue (`Near`).

`~ RadioStalls` is what makes every tick of a transmission end it; without it the load need
not fall, and `datalogger_stall` shows what follows. The bound is not tight: the 30 units and
queues of 16 of `datalogger_progress` are below it, so that TLC shows there what the proof
does not reach.

`PoolStatsProofs` proves all the properties of `pool_stats`, for any pool, any sizes and
any number of overlapping calls. The room is a sum of sizes, a fold of the community
modules. That it may be computed in any order, so that adding or removing a block adds
or subtracts its size, is proved from the definition of the fold: a set for which it
fails would have a smallest such subset (a finite set has one; the library's theorem
on the strict subset order gives it without an operator parameter), and the fold's
equation refutes that one. The sums are then used through six lemmas (`SumAdd`,
`SumRemove`, `SumBetween` ...). The invariant has four layers, each proved with the ones before it:
`CountInv` (the count is that of the blocks between `TakeStat` and `GiveStat`, all in
the heap), `RoomInv` (the available space is the pool without these blocks, and the
heap's blocks fit), `TakesInv` (every take is an allocation, a failure or under way)
and `FiguresInv` (the extremes bound the sizes of the blocks, and relate to the
history as `LowWater` and `FiguresFit` say). That a failing take whose difference wraps
leaves the minimum alone is where the assumption on the sizes is needed.

Only model-checked: all liveness (the prover has neither fairness nor `ENABLED`), with
`AcceptedCallbackRuns`, `EveryBufferReturns`, `MeasuresForever`, `BacklogDrains`,
`JoinsInTheEnd`, `LastPulseReported` and `SendEnds`; and what `KeyHash` computes, which is one
evaluation. Every invariant and every other action property of a passing run is proved.

## 6. Plan

Done, in the order of importance: `Mailboxes`/`MsgRouter` and proofs,
`Datalogger` and proofs, `DevNonce` and proofs, `Uplink` and proofs, `WaterFlow`,
`KeyHash`, `Storage` and proofs, `PoolStats` and proofs, the bound on the sizes that leave
the heartbeat room, and that no accepted callback is lost. What is left:

1. The window of recent sizes and the duplicate-free check of the pool, which
   no configuration of the repository enables.
2. A tight bound in `Sizes`, down to the proportions of `datalogger_progress`.

## 7. Not modelled

`SMC_SW_RESET`, `SMC_FACTORY_RESET`, `SMC_SENSOR_CHECK` and `SMC_VALUE_CHANGED` have
handlers but no sender. The downlink callback's structure lives on the stack of
`lorawan_init`, which has returned when the stack of LoRaWAN uses it: undefined,
and outside a model of the logic. The LoRaWAN stack, the NVS and the kernel are
external and modelled from how the code uses them. Which level of the relay's pin
an "on" stands for, what a downlink that is a prefix of a command should do, and
whether a transmission should toggle the relay at all, no text of the repository
says: all three are in `Uplink` as the code has them, and no property judges them. `syscfg_unset`, the blob calls, the LEDs, the second
relay and the power pins have no caller, or only output. The Zephyr example driver, `custom_lib`, the
ADC, Modbus and SHTC3 code take no part in the running program. Logging and
formatting are left out.
