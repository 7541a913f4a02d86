------------------------------ MODULE Datalogger ------------------------------
(***************************************************************************)
(* The application (app/src): the control, sensor and event tasks, their    *)
(* message queues, the timers that keep them going, and the one buffer pool *)
(* all their messages come from.                                            *)
(*                                                                          *)
(* Every task is a receive loop: it takes a message, runs its handler, and  *)
(* frees the message.  Measurements travel                                  *)
(*   timer -> sensor (MEASURE) -> event (EVENT_TRIGGER)                     *)
(*         -> control (SENSOR_EVENT, then SEND_DATA)                        *)
(* and the control task waits for the radio inside two of its handlers, for *)
(* as long as the network does not answer, while the timers run on.  What   *)
(* those two do with the radio, the relay and the nonce is the subject of   *)
(* Uplink and DevNonce.                                                     *)
(*                                                                          *)
(* A tick is the sensor interval (60 s).  Timers that run out in a tick are *)
(* "due": their interrupt comes at any moment before the next tick.  What   *)
(* does not wait for the radio takes far less than a tick.                  *)
(***************************************************************************)
EXTENDS Naturals, Sequences, FiniteSets

CONSTANTS
    PoolUnits,      \* room in the pool; a plain message takes 1, an event 2
    QueueDepth,     \* MSG_TASK_QUEUE_DEPTH
    Period,         \* Period[x]: what timer x is started with, in ticks
    RadioStalls     \* whether lorawan_send may answer EAGAIN for more than a tick

Tasks == {"control", "sensor", "event"}
Timers == {"heartbeat", "sensor_read", "power"}
Events == {"EVENT_TRIGGER", "SENSOR_EVENT"}     \* event_msg_t, the others msg_t
Codes == Events \cup {"PERIODIC", "JOIN", "MEASURE", "READ_POWER", "SEND_DATA"}
None == "none"

ASSUME DataloggerAssumption ==
    /\ PoolUnits \in Nat /\ QueueDepth \in Nat
    /\ Period \in [Timers -> Nat \ {0}]
    /\ RadioStalls \in BOOLEAN

VARIABLES
    queue,          \* queue[t]: the codes of the messages waiting for t
    cur,            \* cur[t]: the code of the message t handles
    phase,          \* where the thread of t is
    timer,          \* timer[x]: ticks until x runs out, 0 if it is not running
    due,            \* timers that have run out, their interrupt still to come
    b_send,         \* b_send_msg_lorawan
    waited          \* the current lorawan_send has taken a tick (~ RadioStalls)

vars == <<queue, cur, phase, timer, due, b_send, waited>>

Init ==
    /\ queue = [t \in Tasks |-> <<>>]
    /\ cur = [t \in Tasks |-> None]
    /\ phase = [t \in Tasks |-> IF t = "control" THEN "init" ELSE "off"]
    /\ timer = [x \in Timers |-> 0]
    /\ due = {}
    /\ b_send = FALSE /\ waited = FALSE

-----------------------------------------------------------------------------
(* The pool *)

Cost(code) == IF code = None THEN 0 ELSE IF code \in Events THEN 2 ELSE 1

\* how many of the messages in q have one of the codes
Count(q, codes) == Cardinality({i \in DOMAIN q : q[i] \in codes})

\* every message that waits or is handled has its buffer
InUse ==
    LET Of(t) == Len(queue[t]) + Count(queue[t], Events) + Cost(cur[t])
    IN  Of("control") + Of("sensor") + Of("event")

\* buffer_pool_take returns a buffer only where there is room, and always when
\* the room cannot be in pieces: a hole too small for an event has buffers on
\* both sides.
MayTake(code) == InUse + Cost(code) <= PoolUnits
MayMiss(code) == ~ MayTake(code) \/ (code \in Events /\ 2 * InUse + 1 >= PoolUnits)

\* A message is taken from the pool and put into t's queue, where q are the
\* queues.  Without a buffer, or with the queue full, nothing comes of it.
Post(q, t, code) ==
    \/ /\ MayTake(code) /\ Len(q[t]) < QueueDepth
       /\ queue' = [q EXCEPT ![t] = Append(@, code)]
    \/ /\ MayMiss(code) \/ Len(q[t]) = QueueDepth
       /\ queue' = q

\* k_timer_start: a timer that was running starts again
StartTimer(x) ==
    /\ timer' = [timer EXCEPT ![x] = Period[x]]
    /\ due' = due \ {x}

Running(x) == timer[x] > 0 \/ x \in due

-----------------------------------------------------------------------------
(* Start-up *)

\* ctrl_task_thread: the other tasks are created
InitTasks ==
    /\ phase["control"] = "init"
    /\ phase' = [t \in Tasks |->
                   CASE t = "control" -> "lorawan" [] t = "sensor" -> "init" [] OTHER -> "wait"]
    /\ UNCHANGED <<queue, cur, timer, due, b_send, waited>>

\* lorawan_init, which may fail and is then not tried again, and the heartbeat
LorawanInit ==
    /\ phase["control"] = "lorawan"
    /\ Post(queue, "control", "JOIN") \/ UNCHANGED queue
    /\ StartTimer("heartbeat")
    /\ phase' = [phase EXCEPT !["control"] = "wait"]
    /\ UNCHANGED <<cur, b_send, waited>>

\* sensor_task_thread: init_interval_timers
SensorInit ==
    /\ phase["sensor"] = "init"
    /\ timer' = [timer EXCEPT !["power"] = Period["power"],
                              !["sensor_read"] = Period["sensor_read"]]
    /\ phase' = [phase EXCEPT !["sensor"] = "wait"]
    /\ UNCHANGED <<queue, cur, due, b_send, waited>>

-----------------------------------------------------------------------------
(* The receive loop *)

\* msg_recv, and the dispatcher's choice of the handler for the code, which
\* comes to "where" in the same step.  The message keeps its buffer.
Receive(t, code, where) ==
    /\ phase[t] = "wait" /\ queue[t] # <<>> /\ Head(queue[t]) = code
    /\ cur' = [cur EXCEPT ![t] = code]
    /\ phase' = [phase EXCEPT ![t] = where]

\* the queues when t has taken its message
Taken(t) == [queue EXCEPT ![t] = Tail(@)]

\* the handler has returned: the message is freed
Release(t) ==
    /\ phase[t] = "done"
    /\ cur' = [cur EXCEPT ![t] = None]
    /\ phase' = [phase EXCEPT ![t] = "wait"]
    /\ UNCHANGED <<queue, timer, due, b_send, waited>>

-----------------------------------------------------------------------------
(* The handlers of the control task *)

\* Mutant: the timer is not started again.
HeartBeatStops ==
    /\ Receive("control", "PERIODIC", "done")
    /\ Post(Taken("control"), "sensor", "MEASURE")
    /\ UNCHANGED <<timer, due, b_send, waited>>

\* Mutant: no measurement is asked for.
HeartBeatSilent ==
    /\ Receive("control", "PERIODIC", "done")
    /\ queue' = Taken("control")
    /\ StartTimer("heartbeat")
    /\ UNCHANGED <<b_send, waited>>

\* heart_beat_msg_handler
HeartBeat ==
    /\ Receive("control", "PERIODIC", "done")
    /\ Post(Taken("control"), "sensor", "MEASURE")
    /\ StartTimer("heartbeat")
    /\ UNCHANGED <<b_send, waited>>

\* join_lorawan_msg_handler: it tries to join until it has ...
Join ==
    /\ Receive("control", "JOIN", "radio")
    /\ queue' = Taken("control")
    /\ UNCHANGED <<timer, due, b_send, waited>>

\* ... and then asks for a measurement
Joined ==
    /\ phase["control"] = "radio" /\ cur["control"] = "JOIN"
    /\ Post(queue, "sensor", "MEASURE")
    /\ phase' = [phase EXCEPT !["control"] = "done"]
    /\ UNCHANGED <<cur, timer, due, b_send, waited>>

\* Mutant: every measurement is sent.
SensorEventAlways ==
    /\ Receive("control", "SENSOR_EVENT", "done")
    /\ Post(Taken("control"), "control", "SEND_DATA")
    /\ UNCHANGED <<timer, due, b_send, waited>>

\* sensor_event_msg_handler: every second measurement is sent
SensorEvent ==
    /\ Receive("control", "SENSOR_EVENT", "done")
    /\ b_send' = ~ b_send
    /\ IF b_send' THEN Post(Taken("control"), "control", "SEND_DATA")
       ELSE queue' = Taken("control")
    /\ UNCHANGED <<timer, due, waited>>

\* send_data_lorawan_msg_handler: it sends until the data is accepted or given
\* up (EAGAIN: for ever)
SendData ==
    /\ Receive("control", "SEND_DATA", "radio")
    /\ queue' = Taken("control")
    /\ waited' = FALSE
    /\ UNCHANGED <<timer, due, b_send>>

Sending == phase["control"] = "radio" /\ cur["control"] = "SEND_DATA"

SendOver ==
    /\ Sending
    /\ phase' = [phase EXCEPT !["control"] = "done"]
    /\ UNCHANGED <<queue, cur, timer, due, b_send, waited>>

-----------------------------------------------------------------------------
(* The handlers of the sensor and event tasks *)

\* sensor_measure_msg_handler: the interval starts again unless it is running
Measure ==
    /\ Receive("sensor", "MEASURE", "done")
    /\ Post(Taken("sensor"), "event", "EVENT_TRIGGER")
    /\ IF Running("sensor_read") THEN UNCHANGED <<timer, due>> ELSE StartTimer("sensor_read")
    /\ UNCHANGED <<b_send, waited>>

\* the dispatcher has no handler for it: sys_unknown_msg_handler
ReadPower ==
    /\ Receive("sensor", "READ_POWER", "done")
    /\ queue' = Taken("sensor")
    /\ UNCHANGED <<timer, due, b_send, waited>>

\* event_msg_handler
EventTrigger ==
    /\ Receive("event", "EVENT_TRIGGER", "done")
    /\ Post(Taken("event"), "control", "SENSOR_EVENT")
    /\ UNCHANGED <<timer, due, b_send, waited>>

-----------------------------------------------------------------------------
(* Timers *)

\* what periodic_timer_callback_isr, power_timer_callback and
\* sensor_read_timer_callback send, and to whom
Message(x) ==
    CASE x = "heartbeat"   -> <<"control", "PERIODIC">>
      [] x = "power"       -> <<"sensor", "READ_POWER">>
      [] x = "sensor_read" -> <<"sensor", "MEASURE">>

TimerIsr(x) ==
    /\ x \in due
    /\ due' = due \ {x}
    /\ Post(queue, Message(x)[1], Message(x)[2])
    /\ UNCHANGED <<cur, phase, timer, b_send, waited>>

\* nothing to do until the next interrupt or answer of the radio
Idle(t) == phase[t] = "radio" \/ (phase[t] = "wait" /\ queue[t] = <<>>)

\* Mutant: timers that are not running go on counting.
TickStopped ==
    /\ \A t \in Tasks : Idle(t)
    /\ due = {} /\ ~ (Sending /\ waited)
    /\ timer' = [x \in Timers |-> timer[x] - 1]
    /\ due' = {x \in Timers : timer[x] = 1}
    /\ waited' = (Sending /\ ~ RadioStalls)
    /\ UNCHANGED <<queue, cur, phase, b_send>>

Tick ==
    /\ \A t \in Tasks : Idle(t)
    /\ due = {} /\ ~ (Sending /\ waited)
    /\ timer' = [x \in Timers |-> IF timer[x] > 0 THEN timer[x] - 1 ELSE 0]
    /\ due' = {x \in Timers : timer[x] = 1}
    /\ waited' = (Sending /\ ~ RadioStalls)
    /\ UNCHANGED <<queue, cur, phase, b_send>>

-----------------------------------------------------------------------------
Control == InitTasks \/ LorawanInit \/ HeartBeat \/ Join \/ SensorEvent \/ SendData
Sensor == SensorInit \/ Measure \/ ReadPower
Event == EventTrigger

\* the threads, where they do not wait for the radio
Run ==
    \/ Control \/ Release("control")
    \/ Sensor \/ Release("sensor")
    \/ Event \/ Release("event")

Radio == Joined \/ SendOver

Next == Run \/ Radio \/ Tick \/ \E x \in Timers : TimerIsr(x)

Spec == Init /\ [][Next]_vars

\* Threads run, interrupts come, and time passes.  The radio owes nothing.
Fairness ==
    /\ WF_vars(Control \/ Release("control"))
    /\ WF_vars(Sensor \/ Release("sensor"))
    /\ WF_vars(Event \/ Release("event"))
    /\ \A x \in Timers : WF_vars(TimerIsr(x))
    /\ WF_vars(Tick)

FairSpec == Spec /\ Fairness
-----------------------------------------------------------------------------
(* Properties *)

\* The variables have their types.
TypeOK ==
    /\ queue \in [Tasks -> Seq(Codes)]
    /\ cur \in [Tasks -> Codes \cup {None}]
    /\ phase \in [Tasks -> {"off", "init", "lorawan", "wait", "radio", "done"}]
    /\ timer \in [Timers -> Nat]
    /\ due \subseteq Timers
    /\ b_send \in BOOLEAN /\ waited \in BOOLEAN

Started == phase["control"] \notin {"init", "lorawan"}

\* where the heartbeat is: its timer, its interrupt, or its message
Heartbeats ==
    {p \in {"timer"} : timer["heartbeat"] > 0}
    \cup {p \in {"due"} : "heartbeat" \in due}
    \cup {<<"queue", i>> : i \in {j \in DOMAIN queue["control"] :
                                    queue["control"][j] = "PERIODIC"}}

\* control_task.c:323, "Restart timer to run periodic callback": the one-shot
\* heartbeat timer is started again only by the handler of its own message, and
\* its interrupt drops that message when the pool or the queue is full.  The
\* heartbeat is never lost and never doubled.
HeartbeatGoesOn == Started => Cardinality(Heartbeats) = 1

\* What that takes of the sizes and the load: whenever the heartbeat timer has run
\* out, periodic_timer_callback_isr (sys_core.c:358) finds a buffer and a place in
\* the queue of the control task, whatever has piled up behind the join and the
\* transmissions.
HeartbeatHasRoom ==
    "heartbeat" \in due => MayTake("PERIODIC") /\ Len(queue["control"]) < QueueDepth

\* If the radio lets the control task go on again and again, the sensor is
\* measured again and again: the chain of measurements (timer, message, timer,
\* ...) breaks when its interrupt finds the pool exhausted, and the heartbeat
\* mends it.
RadioAnswers == []<>(phase["control"] = "wait")
MeasuresForever == RadioAnswers => []<>(cur["sensor"] = "MEASURE")

\* and the control task works off what has piled up while it was joining
BacklogDrains == RadioAnswers => []<>(queue["control"] = <<>>)

\* sys_msg.c:51, in sysmsg_create_and_send: SYSCORE_ASSERT(p_msg != NULL) - the
\* sensor timer's interrupt, when it posts the next measurement, finds a buffer,
\* also when what a join has left behind is being worked off.
BufferTaken == [][TimerIsr("sensor_read") => MayTake("MEASURE")]_vars
=============================================================================
