---------------------------- MODULE DataloggerProofs ----------------------------
(***************************************************************************)
(* Proofs about Datalogger, for any pool, depth of the queues, periods and  *)
(* behaviour of the radio.                                                  *)
(***************************************************************************)
EXTENDS Datalogger, FiniteSetTheorems, TLAPS

Queues == [Tasks -> Seq(Codes)]

\* q holds no PERIODIC message; it holds one at most
NonePeriodic(q) == \A i \in 1 .. Len(q) : q[i] # "PERIODIC"
OnePeriodic(q) ==
    \A i, j \in 1 .. Len(q) : q[i] = "PERIODIC" /\ q[j] = "PERIODIC" => i = j

\* The heartbeat is in one place at most: its timer, its interrupt or its message;
\* and in none before the control task has started it.
Single ==
    LET q == queue["control"]
    IN  /\ OnePeriodic(q)
        /\ timer["heartbeat"] > 0 => "heartbeat" \notin due /\ NonePeriodic(q)
        /\ "heartbeat" \in due => NonePeriodic(q)
        /\ ~ Started => /\ timer["heartbeat"] = 0 /\ "heartbeat" \notin due
                        /\ NonePeriodic(q)

DataloggerInv == TypeOK /\ Single

\* The heartbeat is never doubled: however late its interrupt or its handler come,
\* and whatever else restarts, it has at most one timer, interrupt or message.
HeartbeatNotDoubled == Cardinality(Heartbeats) <= 1

-----------------------------------------------------------------------------
(* The queues *)

\* Appending a message adds a heartbeat to a queue only if it is one.
LEMMA AppendPeriodic ==
    ASSUME NEW q \in Seq(Codes), NEW code \in Codes
    PROVE  /\ code # "PERIODIC" /\ NonePeriodic(q) => NonePeriodic(Append(q, code))
           /\ code # "PERIODIC" /\ OnePeriodic(q) => OnePeriodic(Append(q, code))
           /\ NonePeriodic(q) => OnePeriodic(Append(q, code))
  <1>1. /\ Len(Append(q, code)) = Len(q) + 1 /\ Append(q, code)[Len(q) + 1] = code
        /\ Len(q) \in Nat
        /\ \A i \in 1 .. Len(q) : Append(q, code)[i] = q[i]
    OBVIOUS
  <1>2. \A i \in 1 .. Len(Append(q, code)) : i \in 1 .. Len(q) \/ i = Len(q) + 1
    BY <1>1
  <1> QED
    BY <1>1, <1>2 DEF NonePeriodic, OnePeriodic

\* Taking the first message out of a queue takes the heartbeat out only if it is the first.
LEMMA TailPeriodic ==
    ASSUME NEW q \in Seq(Codes), q # <<>>
    PROVE  /\ Tail(q) \in Seq(Codes)
           /\ NonePeriodic(q) => NonePeriodic(Tail(q))
           /\ OnePeriodic(q) => OnePeriodic(Tail(q))
           /\ OnePeriodic(q) /\ Head(q) = "PERIODIC" => NonePeriodic(Tail(q))
  <1>1. /\ Tail(q) \in Seq(Codes) /\ Len(Tail(q)) = Len(q) - 1 /\ Len(q) \in Nat \ {0}
        /\ Head(q) = q[1] /\ 1 \in 1 .. Len(q)
    OBVIOUS
  <1>2. \A i \in 1 .. Len(Tail(q)) : Tail(q)[i] = q[i + 1] /\ i + 1 \in 1 .. Len(q) /\ i + 1 # 1
    BY <1>1
  <1>3. OnePeriodic(q) => OnePeriodic(Tail(q))
    <2> SUFFICES ASSUME OnePeriodic(q), NEW i \in 1 .. Len(Tail(q)), NEW j \in 1 .. Len(Tail(q)),
                        Tail(q)[i] = "PERIODIC", Tail(q)[j] = "PERIODIC"
                 PROVE  i = j
      BY DEF OnePeriodic
    <2>1. i + 1 = j + 1
      BY <1>2 DEF OnePeriodic
    <2> QED
      BY <2>1
  <1> QED
    BY <1>1, <1>2, <1>3 DEF NonePeriodic, OnePeriodic

\* What posting a message makes of the queue of the control task.
LEMMA PostPeriodic ==
    ASSUME NEW q \in Queues, NEW t \in Tasks, NEW code \in Codes, Post(q, t, code)
    PROVE  /\ queue' \in Queues
           /\ code # "PERIODIC" /\ NonePeriodic(q["control"]) => NonePeriodic(queue'["control"])
           /\ code # "PERIODIC" /\ OnePeriodic(q["control"]) => OnePeriodic(queue'["control"])
           /\ NonePeriodic(q["control"]) => OnePeriodic(queue'["control"])
  <1> DEFINE c == q["control"]
  <1>1. c \in Seq(Codes) /\ q[t] \in Seq(Codes) /\ "control" \in Tasks
    BY DEF Queues, Tasks
  <1>2. NonePeriodic(c) => OnePeriodic(c)
    BY DEF NonePeriodic, OnePeriodic
  <1>3. CASE queue' = q
    BY <1>2, <1>3
  <1>4. CASE queue' = [q EXCEPT ![t] = Append(@, code)]
    <2>1. queue' \in Queues
      BY <1>1, <1>4 DEF Queues
    <2>2. queue'["control"] = c \/ queue'["control"] = Append(c, code)
      BY <1>1, <1>4 DEF Queues
    <2> QED
      BY <1>1, <1>2, <2>1, <2>2, AppendPeriodic
  <1> QED
    BY <1>3, <1>4 DEF Post

\* What taking a message makes of it.
LEMMA TakenPeriodic ==
    ASSUME queue \in Queues, NEW t \in Tasks, queue[t] # <<>>
    PROVE  /\ Taken(t) \in Queues
           /\ NonePeriodic(queue["control"]) => NonePeriodic(Taken(t)["control"])
           /\ OnePeriodic(queue["control"]) => OnePeriodic(Taken(t)["control"])
           /\ t = "control" /\ OnePeriodic(queue["control"]) /\ Head(queue[t]) = "PERIODIC"
                => NonePeriodic(Taken(t)["control"])
  <1>1. queue[t] \in Seq(Codes) /\ "control" \in Tasks
    BY DEF Queues, Tasks
  <1>2. Tail(queue[t]) \in Seq(Codes)
    BY <1>1, TailPeriodic
  <1>3. Taken(t) \in Queues /\ Taken(t)[t] = Tail(queue[t])
    BY <1>2 DEF Taken, Queues
  <1>4. t # "control" => Taken(t)["control"] = queue["control"]
    BY <1>1 DEF Taken, Queues
  <1> QED
    BY <1>1, <1>3, <1>4, TailPeriodic

-----------------------------------------------------------------------------
(* The invariant *)

Phases == {"off", "init", "lorawan", "wait", "radio", "done"}

\* What the threads change, apart from the queues and timers.
Threads ==
    /\ cur \in [Tasks -> Codes \cup {None}] /\ phase \in [Tasks -> Phases]
    /\ b_send \in BOOLEAN /\ waited \in BOOLEAN

\* TypeOK in parts, for steps that leave most of them alone.
LEMMA TypeParts ==
    TypeOK <=> /\ Threads /\ queue \in Queues
               /\ timer \in [Timers -> Nat] /\ due \subseteq Timers
  BY DEF TypeOK, Threads, Queues, Phases

\* The same for the state after a step.
LEMMA TypePartsNext ==
    ASSUME Threads', queue' \in Queues, timer' \in [Timers -> Nat], due' \subseteq Timers
    PROVE  TypeOK'
  BY DEF TypeOK, Threads, Queues, Phases

\* Nothing is started yet: no heartbeat anywhere.
LEMMA DataloggerInit == Init => DataloggerInv
  <1> SUFFICES ASSUME Init PROVE DataloggerInv
    OBVIOUS
  <1>1. queue \in Queues /\ timer \in [Timers -> Nat] /\ due \subseteq Timers
    BY DEF Init, Queues
  <1>2. Threads
    <2>1. phase \in [Tasks -> Phases] /\ cur \in [Tasks -> Codes \cup {None}]
      BY DEF Init, Phases
    <2>2. b_send \in BOOLEAN /\ waited \in BOOLEAN
      BY DEF Init
    <2> QED
      BY <2>1, <2>2 DEF Threads
  <1>3. Single
    <2>1. queue["control"] = <<>> /\ timer["heartbeat"] = 0 /\ due = {}
      BY DEF Init, Tasks, Timers
    <2> QED
      BY <2>1 DEF Single, OnePeriodic, NonePeriodic
  <1> QED
    BY <1>1, <1>2, <1>3, TypeParts DEF DataloggerInv

\* The step leaves the heartbeat where it is.
Neutral ==
    /\ NonePeriodic(queue["control"]) => NonePeriodic(queue'["control"])
    /\ OnePeriodic(queue["control"]) => OnePeriodic(queue'["control"])
    /\ timer'["heartbeat"] = timer["heartbeat"]
    /\ "heartbeat" \in due' => "heartbeat" \in due
    /\ Started => Started'

\* A step that adds no heartbeat keeps it single.
LEMMA NeutralStep == Single /\ Neutral => Single'
  BY DEF Single, Neutral

\* Taking a message and posting another leaves the queues well-typed, and the
\* heartbeat alone unless the one posted is its own.
LEMMA ReceivePost ==
    ASSUME TypeOK, NEW t \in Tasks, NEW code \in Codes, NEW where \in Phases,
           Receive(t, code, where),
           \/ queue' = Taken(t)
           \/ \E u \in Tasks, c \in Codes \ {"PERIODIC"} : Post(Taken(t), u, c)
    PROVE  /\ queue' \in Queues
           /\ cur' \in [Tasks -> Codes \cup {None}] /\ phase' \in [Tasks -> Phases]
           /\ NonePeriodic(queue["control"]) => NonePeriodic(queue'["control"])
           /\ OnePeriodic(queue["control"]) => OnePeriodic(queue'["control"])
           /\ t = "control" /\ code = "PERIODIC" /\ OnePeriodic(queue["control"])
                => NonePeriodic(queue'["control"])
           /\ Started /\ where \notin {"init", "lorawan"} => Started'
  <1>1. queue \in Queues /\ cur \in [Tasks -> Codes \cup {None}] /\ phase \in [Tasks -> Phases]
    BY TypeParts DEF Threads
  <1>2. queue[t] # <<>> /\ Head(queue[t]) = code
    BY DEF Receive
  <1>3. /\ Taken(t) \in Queues
        /\ NonePeriodic(queue["control"]) => NonePeriodic(Taken(t)["control"])
        /\ OnePeriodic(queue["control"]) => OnePeriodic(Taken(t)["control"])
        /\ t = "control" /\ code = "PERIODIC" /\ OnePeriodic(queue["control"])
             => NonePeriodic(Taken(t)["control"])
    BY <1>1, <1>2, TakenPeriodic
  <1>4. /\ queue' \in Queues
        /\ NonePeriodic(Taken(t)["control"]) => NonePeriodic(queue'["control"])
        /\ OnePeriodic(Taken(t)["control"]) => OnePeriodic(queue'["control"])
    <2>1. CASE queue' = Taken(t)
      BY <1>3, <2>1
    <2>2. CASE \E u \in Tasks, c \in Codes \ {"PERIODIC"} : Post(Taken(t), u, c)
      <3>1. PICK u \in Tasks, c \in Codes \ {"PERIODIC"} : Post(Taken(t), u, c)
        BY <2>2
      <3> QED
        BY <1>3, <3>1, PostPeriodic
    <2> QED
      BY <2>1, <2>2
  <1>5. /\ cur' \in [Tasks -> Codes \cup {None}] /\ phase' \in [Tasks -> Phases]
        /\ phase' = [phase EXCEPT ![t] = where]
    BY <1>1 DEF Receive
  <1>6. Started /\ where \notin {"init", "lorawan"} => Started'
    BY <1>1, <1>5 DEF Started, Tasks
  <1> QED
    BY <1>3, <1>4, <1>5, <1>6

\* Every step keeps the invariant: only three of them move the heartbeat, the others are
\* neutral.
LEMMA DataloggerStep == DataloggerInv /\ [Next]_vars => DataloggerInv'
  <1> SUFFICES ASSUME TypeOK, Single, [Next]_vars PROVE TypeOK' /\ Single'
    BY DEF DataloggerInv
  <1>t. /\ queue \in Queues /\ timer \in [Timers -> Nat] /\ due \subseteq Timers
        /\ cur \in [Tasks -> Codes \cup {None}] /\ phase \in [Tasks -> Phases]
        /\ b_send \in BOOLEAN /\ waited \in BOOLEAN
    BY TypeParts DEF Threads
  <1>c. /\ {"JOIN", "MEASURE", "SEND_DATA", "EVENT_TRIGGER", "SENSOR_EVENT", "READ_POWER"}
              \subseteq Codes \ {"PERIODIC"}
        /\ "PERIODIC" \in Codes
        /\ {"control", "sensor", "event"} \subseteq Tasks
        /\ {"wait", "radio", "done", "init", "lorawan"} \subseteq Phases
        /\ {"heartbeat", "sensor_read", "power"} \subseteq Timers
    BY DEF Codes, Events, Tasks, Phases, Timers
  <1>n. \A x \in Timers : Period[x] \in Nat /\ Period[x] > 0
    BY DataloggerAssumption
  <1>1. CASE InitTasks
    <2>1. phase' \in [Tasks -> Phases] /\ ~ Started
      BY <1>1 DEF InitTasks, Started, Phases
    <2>2. UNCHANGED <<queue, cur, timer, due, b_send, waited>>
      BY <1>1 DEF InitTasks
    <2>3. Neutral
      BY <2>1, <2>2 DEF Neutral
    <2> QED
      BY <1>t, <2>1, <2>2, <2>3, NeutralStep, TypePartsNext DEF Threads
  <1>2. CASE LorawanInit
    <2>1. /\ ~ Started /\ phase' = [phase EXCEPT !["control"] = "wait"]
          /\ Post(queue, "control", "JOIN") \/ queue' = queue
          /\ timer' = [timer EXCEPT !["heartbeat"] = Period["heartbeat"]]
          /\ due' = due \ {"heartbeat"}
          /\ UNCHANGED <<cur, b_send, waited>>
      BY <1>2 DEF LorawanInit, StartTimer, Started
    <2>2. queue' \in Queues /\ NonePeriodic(queue'["control"])
      BY <1>t, <1>c, <2>1, PostPeriodic DEF Single
    <2>3. timer' \in [Timers -> Nat] /\ due' \subseteq Timers /\ "heartbeat" \notin due'
      BY <1>t, <1>n, <2>1
    <2>4. phase' \in [Tasks -> Phases] /\ Started'
      BY <1>t, <1>c, <2>1 DEF Started
    <2>5. Single'
      BY <2>2, <2>3, <2>4 DEF Single, NonePeriodic, OnePeriodic
    <2> QED
      BY <1>t, <2>1, <2>2, <2>3, <2>4, <2>5, TypePartsNext DEF Threads
  <1>3. CASE SensorInit
    <2>1. /\ phase' = [phase EXCEPT !["sensor"] = "wait"]
          /\ timer' = [timer EXCEPT !["power"] = Period["power"],
                                    !["sensor_read"] = Period["sensor_read"]]
          /\ UNCHANGED <<queue, cur, due, b_send, waited>>
      BY <1>3 DEF SensorInit
    <2>2. timer' \in [Timers -> Nat] /\ timer'["heartbeat"] = timer["heartbeat"]
      BY <1>t, <1>c, <1>n, <2>1
    <2>3. phase' \in [Tasks -> Phases] /\ phase'["control"] = phase["control"]
      BY <1>t, <1>c, <2>1
    <2>4. Neutral
      BY <2>1, <2>2, <2>3 DEF Neutral, Started
    <2> QED
      BY <1>t, <2>1, <2>2, <2>3, <2>4, NeutralStep, TypePartsNext DEF Threads
  <1>4. ASSUME NEW t \in Tasks, Release(t) PROVE TypeOK' /\ Single'
    <2>1. /\ phase[t] = "done" /\ phase' = [phase EXCEPT ![t] = "wait"]
          /\ cur' = [cur EXCEPT ![t] = None]
          /\ UNCHANGED <<queue, timer, due, b_send, waited>>
      BY <1>4 DEF Release
    <2>2. /\ phase' \in [Tasks -> Phases] /\ cur' \in [Tasks -> Codes \cup {None}]
          /\ Started => Started'
      BY <1>t, <1>c, <2>1 DEF Started
    <2>3. Neutral
      BY <2>1, <2>2 DEF Neutral
    <2> QED
      BY <1>t, <2>1, <2>2, <2>3, NeutralStep, TypePartsNext DEF Threads
  <1>5. CASE HeartBeat
    <2>1. /\ Receive("control", "PERIODIC", "done")
          /\ Post(Taken("control"), "sensor", "MEASURE")
          /\ timer' = [timer EXCEPT !["heartbeat"] = Period["heartbeat"]]
          /\ due' = due \ {"heartbeat"}
          /\ UNCHANGED <<b_send, waited>>
      BY <1>5 DEF HeartBeat, StartTimer
    <2>2. /\ queue' \in Queues /\ NonePeriodic(queue'["control"])
          /\ cur' \in [Tasks -> Codes \cup {None}] /\ phase' \in [Tasks -> Phases]
      BY <1>c, <2>1, ReceivePost DEF Single
    <2>3. Started'
      BY <1>t, <1>c, <2>1 DEF Receive, Started
    <2>4. timer' \in [Timers -> Nat] /\ due' \subseteq Timers /\ "heartbeat" \notin due'
      BY <1>t, <1>n, <2>1
    <2>5. Single'
      BY <2>2, <2>3, <2>4 DEF Single, NonePeriodic, OnePeriodic
    <2> QED
      BY <1>t, <2>1, <2>2, <2>4, <2>5, TypePartsNext DEF Threads
  <1>6. CASE Join
    <2>1. /\ Receive("control", "JOIN", "radio")
          /\ queue' = Taken("control")
          /\ timer' = timer /\ due' = due /\ b_send' \in BOOLEAN /\ waited' \in BOOLEAN
      BY <1>t, <1>6 DEF Join
    <2>2. /\ queue' \in Queues
          /\ cur' \in [Tasks -> Codes \cup {None}] /\ phase' \in [Tasks -> Phases]
          /\ Neutral
      BY <1>c, <2>1, ReceivePost DEF Neutral
    <2> QED
      BY <1>t, <2>1, <2>2, NeutralStep, TypePartsNext DEF Threads
  <1>7. CASE Joined
    <2>1. /\ Post(queue, "sensor", "MEASURE") /\ phase["control"] = "radio"
          /\ phase' = [phase EXCEPT !["control"] = "done"]
          /\ UNCHANGED <<cur, timer, due, b_send, waited>>
      BY <1>7 DEF Joined
    <2>2. /\ queue' \in Queues
          /\ NonePeriodic(queue["control"]) => NonePeriodic(queue'["control"])
          /\ OnePeriodic(queue["control"]) => OnePeriodic(queue'["control"])
      BY <1>t, <1>c, <2>1, PostPeriodic
    <2>3. phase' \in [Tasks -> Phases] /\ Started'
      BY <1>t, <1>c, <2>1 DEF Started
    <2>4. Neutral
      BY <2>1, <2>2, <2>3 DEF Neutral
    <2> QED
      BY <1>t, <2>1, <2>2, <2>3, <2>4, NeutralStep, TypePartsNext DEF Threads
  <1>8. CASE SensorEvent
    <2>1. /\ Receive("control", "SENSOR_EVENT", "done")
          /\ queue' = Taken("control") \/ Post(Taken("control"), "control", "SEND_DATA")
          /\ timer' = timer /\ due' = due /\ b_send' \in BOOLEAN /\ waited' \in BOOLEAN
      BY <1>t, <1>8 DEF SensorEvent
    <2>2. /\ queue' \in Queues
          /\ cur' \in [Tasks -> Codes \cup {None}] /\ phase' \in [Tasks -> Phases]
          /\ Neutral
      BY <1>c, <2>1, ReceivePost DEF Neutral
    <2> QED
      BY <1>t, <2>1, <2>2, NeutralStep, TypePartsNext DEF Threads
  <1>9. CASE SendData
    <2>1. /\ Receive("control", "SEND_DATA", "radio")
          /\ queue' = Taken("control")
          /\ timer' = timer /\ due' = due /\ b_send' \in BOOLEAN /\ waited' \in BOOLEAN
      BY <1>t, <1>9 DEF SendData
    <2>2. /\ queue' \in Queues
          /\ cur' \in [Tasks -> Codes \cup {None}] /\ phase' \in [Tasks -> Phases]
          /\ Neutral
      BY <1>c, <2>1, ReceivePost DEF Neutral
    <2> QED
      BY <1>t, <2>1, <2>2, NeutralStep, TypePartsNext DEF Threads
  <1>10. CASE SendOver
    <2>1. /\ phase["control"] = "radio" /\ phase' = [phase EXCEPT !["control"] = "done"]
          /\ UNCHANGED <<queue, cur, timer, due, b_send, waited>>
      BY <1>10 DEF SendOver, Sending
    <2>2. phase' \in [Tasks -> Phases] /\ Started'
      BY <1>t, <1>c, <2>1 DEF Started
    <2>3. Neutral
      BY <2>1, <2>2 DEF Neutral
    <2> QED
      BY <1>t, <2>1, <2>2, <2>3, NeutralStep, TypePartsNext DEF Threads
  <1>11. CASE Measure
    <2>1. /\ Receive("sensor", "MEASURE", "done")
          /\ Post(Taken("sensor"), "event", "EVENT_TRIGGER")
          /\ \/ timer' = timer /\ due' = due
             \/ /\ timer' = [timer EXCEPT !["sensor_read"] = Period["sensor_read"]]
                /\ due' = due \ {"sensor_read"}
          /\ UNCHANGED <<b_send, waited>>
      BY <1>11 DEF Measure, StartTimer
    <2>2. /\ timer' \in [Timers -> Nat] /\ due' \subseteq Timers
          /\ timer'["heartbeat"] = timer["heartbeat"]
          /\ "heartbeat" \in due' => "heartbeat" \in due
      BY <1>t, <1>c, <1>n, <2>1
    <2>3. /\ queue' \in Queues
          /\ cur' \in [Tasks -> Codes \cup {None}] /\ phase' \in [Tasks -> Phases]
          /\ Neutral
      BY <1>c, <2>1, <2>2, ReceivePost DEF Neutral
    <2> QED
      BY <1>t, <2>1, <2>2, <2>3, NeutralStep, TypePartsNext DEF Threads
  <1>12. CASE ReadPower
    <2>1. /\ Receive("sensor", "READ_POWER", "done")
          /\ queue' = Taken("sensor")
          /\ timer' = timer /\ due' = due /\ b_send' \in BOOLEAN /\ waited' \in BOOLEAN
      BY <1>t, <1>12 DEF ReadPower
    <2>2. /\ queue' \in Queues
          /\ cur' \in [Tasks -> Codes \cup {None}] /\ phase' \in [Tasks -> Phases]
          /\ Neutral
      BY <1>c, <2>1, ReceivePost DEF Neutral
    <2> QED
      BY <1>t, <2>1, <2>2, NeutralStep, TypePartsNext DEF Threads
  <1>13. CASE EventTrigger
    <2>1. /\ Receive("event", "EVENT_TRIGGER", "done")
          /\ Post(Taken("event"), "control", "SENSOR_EVENT")
          /\ timer' = timer /\ due' = due /\ b_send' \in BOOLEAN /\ waited' \in BOOLEAN
      BY <1>t, <1>13 DEF EventTrigger
    <2>2. /\ queue' \in Queues
          /\ cur' \in [Tasks -> Codes \cup {None}] /\ phase' \in [Tasks -> Phases]
          /\ Neutral
      BY <1>c, <2>1, ReceivePost DEF Neutral
    <2> QED
      BY <1>t, <2>1, <2>2, NeutralStep, TypePartsNext DEF Threads
  <1>14. ASSUME NEW x \in Timers, TimerIsr(x) PROVE TypeOK' /\ Single'
    <2>1. /\ x \in due /\ due' = due \ {x}
          /\ UNCHANGED <<cur, phase, timer, b_send, waited>>
      BY <1>14 DEF TimerIsr
    <2>2. CASE x = "heartbeat"
      <3>1. Post(queue, "control", "PERIODIC")
        BY <1>14, <2>2 DEF TimerIsr, Message
      <3>2. queue' \in Queues /\ OnePeriodic(queue'["control"])
        BY <1>t, <1>c, <2>1, <2>2, <3>1, PostPeriodic DEF Single
      <3>3. timer["heartbeat"] = 0 /\ Started
        BY <1>t, <1>c, <2>1, <2>2 DEF Single
      <3>4. Single'
        BY <2>1, <2>2, <3>2, <3>3 DEF Single, Started
      <3> QED
        BY <1>t, <2>1, <3>2, <3>4, TypePartsNext DEF Threads
    <2>3. CASE x # "heartbeat"
      <3>1. \E c \in Codes \ {"PERIODIC"} : Post(queue, "sensor", c)
        BY <1>14, <1>c, <2>3 DEF TimerIsr, Message, Timers
      <3>2. /\ queue' \in Queues
            /\ NonePeriodic(queue["control"]) => NonePeriodic(queue'["control"])
            /\ OnePeriodic(queue["control"]) => OnePeriodic(queue'["control"])
        BY <1>t, <1>c, <3>1, PostPeriodic
      <3>3. Neutral
        BY <2>1, <3>2 DEF Neutral, Started
      <3> QED
        BY <1>t, <2>1, <3>2, <3>3, NeutralStep, TypePartsNext DEF Threads
    <2> QED
      BY <2>2, <2>3
  <1>15. CASE Tick
    <2>1. /\ due = {} /\ timer' = [x \in Timers |-> IF timer[x] > 0 THEN timer[x] - 1 ELSE 0]
          /\ due' = {x \in Timers : timer[x] = 1}
          /\ waited' \in BOOLEAN
          /\ UNCHANGED <<queue, cur, phase, b_send>>
      BY <1>15, DataloggerAssumption DEF Tick, Sending
    <2>2. timer' \in [Timers -> Nat] /\ due' \subseteq Timers
      BY <1>t, <2>1
    <2>3. /\ timer'["heartbeat"] > 0 \/ "heartbeat" \in due' => timer["heartbeat"] > 0
          /\ ~ (timer'["heartbeat"] > 0 /\ "heartbeat" \in due')
          /\ timer["heartbeat"] = 0 => timer'["heartbeat"] = 0
      BY <1>t, <1>c, <2>1
    <2>4. Single'
      BY <2>1, <2>2, <2>3, <1>t, <1>c DEF Single, Started
    <2> QED
      BY <1>t, <2>1, <2>2, <2>4, TypePartsNext DEF Threads
  <1>16. CASE UNCHANGED vars
    BY <1>16 DEF vars, TypeOK, Single, Started
  <1> QED
    BY <1>1, <1>2, <1>3, <1>4, <1>5, <1>6, <1>7, <1>8, <1>9, <1>10, <1>11, <1>12, <1>13,
       <1>14, <1>15, <1>16, <1>c
       DEF Next, Run, Control, Sensor, Event, Radio

\* The variables always have their types.
THEOREM TypeCorrect == Spec => []TypeOK
  <1>1. DataloggerInv => TypeOK
    BY DEF DataloggerInv
  <1> QED
    BY DataloggerInit, DataloggerStep, <1>1, PTL DEF Spec

-----------------------------------------------------------------------------
(* One heartbeat *)

\* The heartbeat is in one place at most.
LEMMA OneHeartbeat ==
    ASSUME DataloggerInv
    PROVE  \A p, r \in Heartbeats : p = r
  <1> TypeOK /\ Single
    BY DEF DataloggerInv
  <1> DEFINE q == queue["control"]
             InQueue == {<<"queue", i>> : i \in {k \in DOMAIN q : q[k] = "PERIODIC"}}
  <1>1. q \in Seq(Codes) /\ DOMAIN q = 1 .. Len(q)
    BY DEF TypeOK, Tasks
  <1>2. \A p, r \in InQueue : p = r
    BY <1>1 DEF Single, OnePeriodic
  <1>3. timer["heartbeat"] > 0 \/ "heartbeat" \in due => InQueue = {}
    BY <1>1 DEF Single, NonePeriodic
  <1>4. ~ (timer["heartbeat"] > 0 /\ "heartbeat" \in due)
    BY DEF Single
  <1>5. CASE timer["heartbeat"] > 0
    BY <1>3, <1>4, <1>5 DEF Heartbeats
  <1>6. CASE "heartbeat" \in due
    BY <1>3, <1>4, <1>6 DEF Heartbeats
  <1>7. CASE ~ (timer["heartbeat"] > 0) /\ "heartbeat" \notin due
    BY <1>2, <1>7 DEF Heartbeats
  <1> QED
    BY <1>5, <1>6, <1>7

\* A set whose elements are all equal has at most one.
LEMMA CountOfOne ==
    ASSUME NEW S, \A p, r \in S : p = r
    PROVE  /\ Cardinality(S) <= 1
           /\ S # {} => Cardinality(S) = 1
  <1>1. CASE S = {}
    BY <1>1, FS_EmptySet
  <1>2. ASSUME NEW p \in S PROVE Cardinality(S) = 1
    <2>1. S = {p}
      OBVIOUS
    <2> QED
      BY <2>1, FS_Singleton
  <1> QED
    BY <1>1, <1>2

\* However small the pool and the queues are, and however long the radio keeps the
\* control task from its messages, the heartbeat is never doubled.
THEOREM HeartbeatNeverDoubled == Spec => []HeartbeatNotDoubled
  <1>1. DataloggerInv => HeartbeatNotDoubled
    BY OneHeartbeat, CountOfOne DEF HeartbeatNotDoubled
  <1> QED
    BY DataloggerInit, DataloggerStep, <1>1, PTL DEF Spec

-----------------------------------------------------------------------------
(* The heartbeat is not lost *)

\* Once started, the heartbeat is in one place at least.
Alive ==
    Started => \/ timer["heartbeat"] > 0
               \/ "heartbeat" \in due
               \/ ~ NonePeriodic(queue["control"])

\* Posting a message leaves the ones that wait where they are.
LEMMA PostAlive ==
    ASSUME NEW q \in Queues, NEW t \in Tasks, NEW code \in Codes, Post(q, t, code),
           ~ NonePeriodic(q["control"])
    PROVE  ~ NonePeriodic(queue'["control"])
  <1> DEFINE c == q["control"]
  <1>1. c \in Seq(Codes) /\ q[t] \in Seq(Codes) /\ "control" \in Tasks
    BY DEF Queues, Tasks
  <1>2. queue'["control"] = c \/ queue'["control"] = Append(c, code)
    BY <1>1 DEF Post, Queues
  <1>3. PICK i \in 1 .. Len(c) : c[i] = "PERIODIC"
    BY DEF NonePeriodic
  <1>4. i \in 1 .. Len(Append(c, code)) /\ Append(c, code)[i] = "PERIODIC"
    BY <1>1, <1>3
  <1> QED
    BY <1>2, <1>3, <1>4 DEF NonePeriodic

\* Only the handler of the heartbeat takes its message.
LEMMA TakenAlive ==
    ASSUME queue \in Queues, NEW t \in Tasks, queue[t] # <<>>,
           t # "control" \/ Head(queue[t]) # "PERIODIC",
           ~ NonePeriodic(queue["control"])
    PROVE  ~ NonePeriodic(Taken(t)["control"])
  <1> DEFINE c == queue["control"]
  <1>1. c \in Seq(Codes) /\ "control" \in Tasks
    BY DEF Queues, Tasks
  <1>2. CASE t # "control"
    BY <1>1, <1>2 DEF Taken, Queues
  <1>3. CASE t = "control"
    <2>1. Taken(t)["control"] = Tail(c) /\ c # <<>> /\ Head(c) # "PERIODIC"
      BY <1>1, <1>3 DEF Taken, Queues
    <2>2. PICK i \in 1 .. Len(c) : c[i] = "PERIODIC"
      BY DEF NonePeriodic
    <2>3. i # 1
      BY <1>1, <2>1, <2>2
    <2>4. i - 1 \in 1 .. Len(Tail(c)) /\ Tail(c)[i - 1] = "PERIODIC"
      BY <1>1, <2>1, <2>2, <2>3
    <2> QED
      BY <2>1, <2>4 DEF NonePeriodic
  <1> QED
    BY <1>2, <1>3

\* A handler that was not called for the heartbeat leaves it in the queue.
LEMMA ReceiveAlive ==
    ASSUME TypeOK, NEW t \in Tasks, NEW code \in Codes, NEW where, Receive(t, code, where),
           t # "control" \/ code # "PERIODIC",
           \/ queue' = Taken(t)
           \/ \E u \in Tasks, c \in Codes : Post(Taken(t), u, c),
           ~ NonePeriodic(queue["control"])
    PROVE  ~ NonePeriodic(queue'["control"])
  <1>1. queue \in Queues /\ queue[t] # <<>> /\ Head(queue[t]) = code
    BY TypeParts DEF Receive
  <1>2. Taken(t) \in Queues /\ ~ NonePeriodic(Taken(t)["control"])
    BY <1>1, TakenPeriodic, TakenAlive
  <1> QED
    BY <1>2, PostAlive

\* The step leaves a heartbeat that is there.
Spares ==
    /\ Started' => Started
    /\ timer'["heartbeat"] = timer["heartbeat"]
    /\ "heartbeat" \in due => "heartbeat" \in due'
    /\ ~ NonePeriodic(queue["control"]) => ~ NonePeriodic(queue'["control"])

\* A step that spares the heartbeat keeps it alive.
LEMMA SparesStep == Alive /\ Spares => Alive'
  BY DEF Alive, Spares

\* The heartbeat is lost by no step but its own interrupt, and by that only where
\* there is no room for its message.
LEMMA AliveStep ==
    ASSUME DataloggerInv, Alive, HeartbeatHasRoom, [Next]_vars
    PROVE  Alive'
  <1>t. /\ TypeOK /\ queue \in Queues /\ timer \in [Timers -> Nat] /\ due \subseteq Timers
        /\ phase \in [Tasks -> Phases]
    BY TypeParts DEF Threads, DataloggerInv
  <1>c. /\ {"JOIN", "MEASURE", "SEND_DATA", "EVENT_TRIGGER", "SENSOR_EVENT", "READ_POWER",
            "PERIODIC"} \subseteq Codes
        /\ {"control", "sensor", "event"} \subseteq Tasks
        /\ {"heartbeat", "sensor_read", "power"} \subseteq Timers
    BY DEF Codes, Events, Tasks, Timers
  <1>n. \A x \in Timers : Period[x] \in Nat /\ Period[x] > 0
    BY DataloggerAssumption
  <1>1. CASE InitTasks
    <2>1. phase'["control"] = "lorawan"
      BY <1>c, <1>1 DEF InitTasks
    <2> QED
      BY <2>1 DEF Alive, Started
  <1>2. CASE LorawanInit \/ HeartBeat
    <2>1. timer' = [timer EXCEPT !["heartbeat"] = Period["heartbeat"]]
      BY <1>2 DEF LorawanInit, HeartBeat, StartTimer
    <2>2. timer'["heartbeat"] > 0
      BY <1>t, <1>c, <1>n, <2>1
    <2> QED
      BY <2>2 DEF Alive
  <1>3. CASE SensorInit
    <2>1. /\ timer'["heartbeat"] = timer["heartbeat"] /\ phase'["control"] = phase["control"]
          /\ UNCHANGED <<queue, due>>
      BY <1>t, <1>c, <1>3 DEF SensorInit
    <2> QED
      BY <2>1, SparesStep DEF Spares, Started
  <1>4. ASSUME NEW t \in Tasks, Release(t) PROVE Alive'
    <2>1. UNCHANGED <<queue, timer, due>> /\ (Started' => Started)
      BY <1>t, <1>4 DEF Release, Started
    <2> QED
      BY <2>1, SparesStep DEF Spares
  <1>5. ASSUME NEW t \in Tasks, NEW code \in Codes, NEW where, Receive(t, code, where),
               t # "control" \/ code # "PERIODIC",
               \/ queue' = Taken(t)
               \/ \E u \in Tasks, c \in Codes : Post(Taken(t), u, c),
               timer'["heartbeat"] = timer["heartbeat"],
               "heartbeat" \in due => "heartbeat" \in due'
        PROVE  Alive'
    <2>1. Started' => Started
      BY <1>t, <1>5 DEF Receive, Started
    <2>2. ~ NonePeriodic(queue["control"]) => ~ NonePeriodic(queue'["control"])
      BY <1>t, <1>5, ReceiveAlive
    <2> QED
      BY <1>5, <2>1, <2>2, SparesStep DEF Spares
  <1>6. CASE Join \/ SensorEvent \/ SendData
    <2>1. UNCHANGED <<timer, due>>
      BY <1>6 DEF Join, SensorEvent, SendData
    <2>2. PICK code \in Codes \ {"PERIODIC"} : \E where : Receive("control", code, where)
      BY <1>c, <1>6 DEF Join, SensorEvent, SendData
    <2>3. queue' = Taken("control") \/ Post(Taken("control"), "control", "SEND_DATA")
      BY <1>6 DEF Join, SensorEvent, SendData
    <2> QED
      BY <1>c, <1>5, <2>1, <2>2, <2>3
  <1>7. CASE Joined
    <2>1. Post(queue, "sensor", "MEASURE") /\ UNCHANGED <<timer, due>> /\ Started
      BY <1>7 DEF Joined, Started
    <2>2. ~ NonePeriodic(queue["control"]) => ~ NonePeriodic(queue'["control"])
      BY <1>t, <1>c, <2>1, PostAlive
    <2> QED
      BY <2>1, <2>2, SparesStep DEF Spares
  <1>8. CASE SendOver
    <2>1. UNCHANGED <<queue, timer, due>> /\ Started
      BY <1>8 DEF SendOver, Sending, Started
    <2> QED
      BY <2>1, SparesStep DEF Spares
  <1>9. CASE Measure
    <2>1. /\ timer'["heartbeat"] = timer["heartbeat"]
          /\ "heartbeat" \in due => "heartbeat" \in due'
      BY <1>t, <1>c, <1>9 DEF Measure, StartTimer
    <2>2. Receive("sensor", "MEASURE", "done") /\ Post(Taken("sensor"), "event", "EVENT_TRIGGER")
      BY <1>9 DEF Measure
    <2> QED
      BY <1>c, <1>5, <2>1, <2>2
  <1>10. CASE ReadPower
    BY <1>c, <1>5, <1>10 DEF ReadPower
  <1>11. CASE EventTrigger
    BY <1>c, <1>5, <1>11 DEF EventTrigger
  <1>12. ASSUME NEW x \in Timers, TimerIsr(x) PROVE Alive'
    <2>1. x \in due /\ due' = due \ {x} /\ UNCHANGED <<phase, timer>>
      BY <1>12 DEF TimerIsr
    <2>2. CASE x = "heartbeat"
      <3>1. MayTake("PERIODIC") /\ Len(queue["control"]) < QueueDepth
        BY <2>1, <2>2 DEF HeartbeatHasRoom
      <3>2. Post(queue, "control", "PERIODIC")
        BY <1>12, <2>2 DEF TimerIsr, Message
      <3>3. ~ MayMiss("PERIODIC")
        BY <3>1 DEF MayMiss, Events
      <3>4. queue["control"] \in Seq(Codes) /\ QueueDepth \in Nat
        BY <1>t, <1>c, DataloggerAssumption DEF Queues
      <3>5. Len(queue["control"]) # QueueDepth
        BY <3>1, <3>4
      <3>6. queue' = [queue EXCEPT !["control"] = Append(@, "PERIODIC")]
        BY <3>2, <3>3, <3>5 DEF Post
      <3>7. queue'["control"] = Append(queue["control"], "PERIODIC")
        BY <1>t, <1>c, <3>6 DEF Queues
      <3>8. ~ NonePeriodic(queue'["control"])
        BY <3>4, <3>7 DEF NonePeriodic
      <3> QED
        BY <3>8 DEF Alive
    <2>3. CASE x # "heartbeat"
      <3>1. \E c \in Codes : Post(queue, "sensor", c)
        BY <1>12, <1>c, <2>3 DEF TimerIsr, Message, Timers
      <3>2. ~ NonePeriodic(queue["control"]) => ~ NonePeriodic(queue'["control"])
        BY <1>t, <1>c, <3>1, PostAlive
      <3> QED
        BY <2>1, <2>3, <3>2, SparesStep DEF Spares, Started
    <2> QED
      BY <2>2, <2>3
  <1>13. CASE Tick
    <2>1. /\ due = {} /\ timer' = [x \in Timers |-> IF timer[x] > 0 THEN timer[x] - 1 ELSE 0]
          /\ due' = {x \in Timers : timer[x] = 1}
          /\ UNCHANGED <<queue, phase>>
      BY <1>13 DEF Tick
    <2>2. timer["heartbeat"] > 0 => timer'["heartbeat"] > 0 \/ "heartbeat" \in due'
      BY <1>t, <1>c, <2>1
    <2> QED
      BY <2>1, <2>2 DEF Alive, Started
  <1>14. CASE UNCHANGED vars
    BY <1>14 DEF vars, Alive, Started
  <1> QED
    BY <1>1, <1>2, <1>3, <1>4, <1>6, <1>7, <1>8, <1>9, <1>10, <1>11, <1>12, <1>13, <1>14, <1>c
       DEF Next, Run, Control, Sensor, Event, Radio

\* As long as the interrupt of the heartbeat timer finds room for its message, the
\* heartbeat goes on for ever: nothing else in the application loses it, in any
\* order of its threads and interrupts.  (That there is room depends on the sizes
\* and the load: see HeartbeatAlwaysHasRoom, and the run datalogger_stall for what
\* happens without it.)
THEOREM HeartbeatGoesOnWithRoom == Spec /\ []HeartbeatHasRoom => []HeartbeatGoesOn
  <1>1. Init => Alive
    BY DEF Init, Alive, Started, Tasks
  <1>2. DataloggerInv /\ Alive => HeartbeatGoesOn
    <2> SUFFICES ASSUME DataloggerInv, Alive, Started PROVE Cardinality(Heartbeats) = 1
      BY DEF HeartbeatGoesOn
    <2> DEFINE q == queue["control"]
    <2>1. DOMAIN q = 1 .. Len(q)
      BY DEF DataloggerInv, TypeOK, Tasks
    <2>2. Heartbeats # {}
      <3>1. CASE timer["heartbeat"] > 0 \/ "heartbeat" \in due
        <4>1. "timer" \in Heartbeats \/ "due" \in Heartbeats
          BY <3>1 DEF Heartbeats
        <4> QED
          BY <4>1
      <3>2. CASE ~ NonePeriodic(q)
        <4>1. PICK i \in DOMAIN q : q[i] = "PERIODIC"
          BY <2>1, <3>2 DEF NonePeriodic
        <4>2. <<"queue", i>> \in Heartbeats
          BY <4>1 DEF Heartbeats
        <4> QED
          BY <4>2
      <3> QED
        BY <3>1, <3>2 DEF Alive
    <2> QED
      BY <2>2, OneHeartbeat, CountOfOne
  <1>3. DataloggerInv /\ Alive /\ HeartbeatHasRoom /\ [Next]_vars => Alive'
    BY AliveStep
  <1> QED
    BY DataloggerInit, DataloggerStep, <1>1, <1>2, <1>3, PTL DEF Spec

-----------------------------------------------------------------------------
(***************************************************************************)
(* That there is room (HeartbeatHasRoom), for sizes of a kind (Sizes).      *)
(*                                                                          *)
(* What a queue holds is counted by the kind of message.  Each message and  *)
(* measurement has a weight, that of the messages it may still become, and  *)
(* so has the time a transmission takes: their sum, Load, is raised by no   *)
(* step (Calm) but LorawanInit and a tick, and a tick only raises it while  *)
(* the control task joins or has nothing to do.  While it joins, the pool bounds the load;   *)
(* and the heartbeat can only be due once, early, when little waits.        *)
(* Shape is what the sums need to know of the queues.                       *)
(***************************************************************************)

(* Counting the messages of a queue *)

One(b) == IF b THEN 1 ELSE 0

\* The places of q with one of the codes.
Places(q, codes) == {i \in DOMAIN q : q[i] \in codes}

\* The measurements of q with no SEND_DATA before them: they are handled without
\* waiting for the radio.
LightPlaces(q) ==
    {i \in DOMAIN q : q[i] = "SENSOR_EVENT" /\ \A j \in 1 .. i : q[j] # "SEND_DATA"}

\* Sets of places are finite.
LEMMA PlacesFinite ==
    ASSUME NEW q \in Seq(Codes), NEW S \in SUBSET DOMAIN q
    PROVE  IsFiniteSet(S) /\ Cardinality(S) \in Nat
  <1>1. DOMAIN q = 1 .. Len(q) /\ Len(q) \in Nat
    OBVIOUS
  <1>2. IsFiniteSet(1 .. Len(q))
    BY <1>1, FS_Interval
  <1>3. IsFiniteSet(S)
    BY <1>1, <1>2, FS_Subset
  <1> QED
    BY <1>3, FS_CardinalityType

\* A count is the number of the places.
LEMMA CountPlaces ==
    ASSUME NEW q \in Seq(Codes), NEW codes
    PROVE  /\ Count(q, codes) = Cardinality(Places(q, codes)) /\ Count(q, codes) \in Nat
           /\ IsFiniteSet(Places(q, codes))
  <1>1. Places(q, codes) \in SUBSET DOMAIN q
    BY DEF Places
  <1>2. Count(q, codes) = Cardinality(Places(q, codes))
    BY DEF Count, Places
  <1> QED
    BY <1>1, <1>2, PlacesFinite

\* Places that all move one to the front: the first drops out.
LEMMA Shifted ==
    ASSUME NEW S \in SUBSET (Nat \ {0}), IsFiniteSet(S),
           NEW T, T = {i \in Nat \ {0} : i + 1 \in S}
    PROVE  Cardinality(S) = Cardinality(T) + One(1 \in S)
  <1> DEFINE f == [i \in S \ {1} |-> i - 1]
  <1>1. IsFiniteSet(S \ {1}) /\ Cardinality(S \ {1}) = Cardinality(S) - One(1 \in S)
        /\ Cardinality(S) \in Nat
    BY FS_RemoveElement, FS_CardinalityType DEF One
  <1>2. f \in Bijection(S \ {1}, T)
    <2>1. \A i \in S \ {1} : f[i] \in T
      OBVIOUS
    <2>2. \A i, j \in S \ {1} : f[i] = f[j] => i = j
      OBVIOUS
    <2>3. \A k \in T : \E i \in S \ {1} : f[i] = k
      <3> SUFFICES ASSUME NEW k \in T PROVE \E i \in S \ {1} : f[i] = k
        OBVIOUS
      <3>1. k + 1 \in S \ {1} /\ f[k + 1] = k
        OBVIOUS
      <3> QED
        BY <3>1
    <2> QED
      BY <2>1, <2>2, <2>3 DEF Bijection, Injection, Surjection, IsInjective
  <1>3. Cardinality(T) = Cardinality(S \ {1})
    BY <1>1, <1>2, FS_Bijection DEF ExistsBijection
  <1> QED
    BY <1>1, <1>3 DEF One

\* Appending a message counts it.
LEMMA CountAppend ==
    ASSUME NEW q \in Seq(Codes), NEW code \in Codes, NEW codes
    PROVE  Count(Append(q, code), codes) = Count(q, codes) + One(code \in codes)
  <1> DEFINE r == Append(q, code)
             S == Places(q, codes)
  <1>1. /\ Len(r) = Len(q) + 1 /\ r[Len(q) + 1] = code /\ Len(q) \in Nat
        /\ DOMAIN q = 1 .. Len(q) /\ DOMAIN r = 1 .. Len(q) + 1 /\ r \in Seq(Codes)
        /\ \A i \in 1 .. Len(q) : r[i] = q[i]
    OBVIOUS
  <1>2. IsFiniteSet(S) /\ Len(q) + 1 \notin S /\ Count(q, codes) = Cardinality(S)
    BY <1>1, CountPlaces DEF Places
  <1>3. Count(r, codes) = Cardinality(Places(r, codes))
    BY <1>1, CountPlaces
  <1>4. \A i \in 1 .. Len(q) + 1 : i \in 1 .. Len(q) \/ i = Len(q) + 1
    BY <1>1
  <1>5. CASE code \in codes
    <2>1. Places(r, codes) = S \cup {Len(q) + 1}
      BY <1>1, <1>4, <1>5 DEF Places
    <2>2. Cardinality(S \cup {Len(q) + 1}) = Cardinality(S) + 1
      BY <1>2, FS_AddElement
    <2> QED
      BY <1>2, <1>3, <1>5, <2>1, <2>2 DEF One
  <1>6. CASE code \notin codes
    <2>1. Places(r, codes) = S
      BY <1>1, <1>4, <1>6 DEF Places
    <2>2. Cardinality(S) \in Nat
      BY <1>2, FS_CardinalityType
    <2> QED
      BY <1>2, <1>3, <1>6, <2>1, <2>2 DEF One
  <1> QED
    BY <1>5, <1>6

\* Taking the first message out stops counting it.
LEMMA CountTail ==
    ASSUME NEW q \in Seq(Codes), q # <<>>, NEW codes
    PROVE  Count(q, codes) = Count(Tail(q), codes) + One(Head(q) \in codes)
  <1> DEFINE r == Tail(q)
             S == Places(q, codes)
             T == Places(r, codes)
  <1>1. /\ Len(q) \in Nat \ {0} /\ DOMAIN q = 1 .. Len(q) /\ Head(q) = q[1]
        /\ r \in Seq(Codes) /\ DOMAIN r = 1 .. (Len(q) - 1)
        /\ \A i \in 1 .. (Len(q) - 1) : r[i] = q[i + 1]
    OBVIOUS
  <1>2. S \in SUBSET (Nat \ {0}) /\ IsFiniteSet(S) /\ (1 \in S <=> Head(q) \in codes)
    <2>1. IsFiniteSet(S)
      BY CountPlaces
    <2>2. 1 \in 1 .. Len(q) /\ 1 .. Len(q) \subseteq Nat \ {0}
      BY <1>1
    <2> QED
      BY <1>1, <2>1, <2>2 DEF Places
  <1>3. T = {i \in Nat \ {0} : i + 1 \in S}
    <2>1. \A i \in Nat \ {0} : i \in 1 .. (Len(q) - 1) <=> i + 1 \in 1 .. Len(q)
      BY <1>1
    <2>2. \A i \in T : i \in Nat \ {0}
      BY <1>1 DEF Places
    <2> QED
      BY <1>1, <2>1, <2>2 DEF Places
  <1>4. Cardinality(S) = Cardinality(T) + One(1 \in S)
    BY <1>2, <1>3, Shifted
  <1> QED
    BY <1>1, <1>2, <1>4, CountPlaces DEF One

\* The messages of two kinds are the messages of both together.
LEMMA CountUnion ==
    ASSUME NEW q \in Seq(Codes), NEW A, NEW B, A \cap B = {}
    PROVE  Count(q, A \cup B) = Count(q, A) + Count(q, B)
  <1>1. Places(q, A \cup B) = Places(q, A) \cup Places(q, B)
    BY DEF Places
  <1>2. Places(q, A) \cap Places(q, B) = {}
    BY DEF Places
  <1>3. Cardinality(Places(q, A) \cup Places(q, B))
          = Cardinality(Places(q, A)) + Cardinality(Places(q, B))
            - Cardinality(Places(q, A) \cap Places(q, B))
    BY CountPlaces, FS_Union
  <1>4. Cardinality(Places(q, A) \cap Places(q, B)) = 0
    BY <1>2, FS_EmptySet
  <1>5. /\ Count(q, A \cup B) = Cardinality(Places(q, A \cup B))
        /\ Count(q, A) = Cardinality(Places(q, A)) /\ Count(q, A) \in Nat
        /\ Count(q, B) = Cardinality(Places(q, B)) /\ Count(q, B) \in Nat
    BY CountPlaces
  <1>6. Cardinality(Places(q, A \cup B)) = Cardinality(Places(q, A) \cup Places(q, B))
    BY <1>1, Zenon
  <1> QED
    BY <1>3, <1>4, <1>5, <1>6

\* Counting the codes a queue has counts all of it.
LEMMA CountAll ==
    ASSUME NEW q \in Seq(Codes), NEW codes, \A i \in 1 .. Len(q) : q[i] \in codes
    PROVE  Count(q, codes) = Len(q)
  <1>1. Places(q, codes) = 1 .. Len(q)
    BY DEF Places
  <1>2. Cardinality(1 .. Len(q)) = Len(q)
    <2>1. Len(q) \in Nat
      OBVIOUS
    <2> QED
      BY <2>1, FS_Interval
  <1> QED
    BY <1>1, <1>2, CountPlaces

\* No message of a kind the queue does not have.
LEMMA CountNone ==
    ASSUME NEW q \in Seq(Codes), NEW codes
    PROVE  Count(q, codes) = 0 <=> \A i \in 1 .. Len(q) : q[i] \notin codes
  <1>1. Count(q, codes) = 0 <=> Places(q, codes) = {}
    BY CountPlaces, FS_EmptySet
  <1>2. DOMAIN q = 1 .. Len(q)
    OBVIOUS
  <1> QED
    BY <1>1, <1>2 DEF Places

\* What is light is a report; all reports are where there is nothing to send.
LEMMA LightReports ==
    ASSUME NEW q \in Seq(Codes)
    PROVE  /\ Cardinality(LightPlaces(q)) \in Nat
           /\ Cardinality(LightPlaces(q)) <= Count(q, {"SENSOR_EVENT"})
           /\ Count(q, {"SEND_DATA"}) = 0
                => Cardinality(LightPlaces(q)) = Count(q, {"SENSOR_EVENT"})
  <1> DEFINE S == Places(q, {"SENSOR_EVENT"})
  <1>1. LightPlaces(q) \subseteq S /\ LightPlaces(q) \in SUBSET DOMAIN q
    BY DEF LightPlaces, Places
  <1>2. Cardinality(LightPlaces(q)) <= Cardinality(S)
    BY <1>1, CountPlaces, FS_Subset
  <1>3. ASSUME Count(q, {"SEND_DATA"}) = 0 PROVE LightPlaces(q) = S
    <2>1. \A i \in 1 .. Len(q) : q[i] # "SEND_DATA"
      BY <1>3, CountNone
    <2>2. DOMAIN q = 1 .. Len(q) /\ Len(q) \in Nat
      OBVIOUS
    <2>3. \A i \in 1 .. Len(q) : \A j \in 1 .. i : j \in 1 .. Len(q)
      BY <2>2
    <2> QED
      BY <2>1, <2>2, <2>3 DEF LightPlaces, Places
  <1> QED
    BY <1>1, <1>2, <1>3, CountPlaces, PlacesFinite

\* Appending a message makes none of the others wait longer.
LEMMA LightAppend ==
    ASSUME NEW q \in Seq(Codes), NEW code \in Codes
    PROVE  Cardinality(LightPlaces(q)) <= Cardinality(LightPlaces(Append(q, code)))
  <1> DEFINE r == Append(q, code)
  <1>1. /\ r \in Seq(Codes) /\ DOMAIN q = 1 .. Len(q) /\ DOMAIN r = 1 .. Len(q) + 1
        /\ Len(q) \in Nat /\ \A i \in 1 .. Len(q) : r[i] = q[i]
    OBVIOUS
  <1>2. \A i \in 1 .. Len(q) : i \in 1 .. Len(q) + 1 /\ \A j \in 1 .. i : j \in 1 .. Len(q)
    BY <1>1
  <1>3. LightPlaces(q) \subseteq LightPlaces(r)
    BY <1>1, <1>2 DEF LightPlaces
  <1>4. LightPlaces(r) \in SUBSET DOMAIN r
    BY DEF LightPlaces
  <1> QED
    BY <1>1, <1>3, <1>4, PlacesFinite, FS_Subset

\* Taking the first message out makes none wait longer either; behind a SEND_DATA
\* all have to wait.
LEMMA LightTail ==
    ASSUME NEW q \in Seq(Codes), q # <<>>
    PROVE  /\ Head(q) = "SEND_DATA" => Cardinality(LightPlaces(q)) = 0
           /\ Head(q) # "SEND_DATA" =>
                Cardinality(LightPlaces(q))
                  = Cardinality(LightPlaces(Tail(q))) + One(Head(q) = "SENSOR_EVENT")
  <1> DEFINE r == Tail(q)
             S == LightPlaces(q)
             T == LightPlaces(r)
  <1>1. /\ Len(q) \in Nat \ {0} /\ DOMAIN q = 1 .. Len(q) /\ Head(q) = q[1]
        /\ r \in Seq(Codes) /\ DOMAIN r = 1 .. (Len(q) - 1)
        /\ \A i \in 1 .. (Len(q) - 1) : r[i] = q[i + 1]
    OBVIOUS
  <1>2. CASE Head(q) = "SEND_DATA"
    <2>1. \A i \in 1 .. Len(q) : 1 \in 1 .. i
      BY <1>1
    <2>2. S = {}
      BY <1>1, <1>2, <2>1 DEF LightPlaces
    <2> QED
      BY <1>2, <2>2, FS_EmptySet
  <1>3. CASE Head(q) # "SEND_DATA"
    <2>1. S \in SUBSET DOMAIN q
      BY DEF LightPlaces
    <2>2. S \in SUBSET (Nat \ {0}) /\ IsFiniteSet(S)
      BY <1>1, <2>1, PlacesFinite
    <2>3. 1 \in S <=> Head(q) = "SENSOR_EVENT"
      <3>1. 1 \in 1 .. Len(q) /\ \A j \in 1 .. 1 : j = 1
        BY <1>1
      <3> QED
        BY <1>1, <1>3, <3>1 DEF LightPlaces
    <2>4. T = {i \in Nat \ {0} : i + 1 \in S}
      <3>1. \A i \in Nat \ {0} : i \in 1 .. (Len(q) - 1) <=> i + 1 \in 1 .. Len(q)
        BY <1>1
      <3>2. \A i \in T : i \in Nat \ {0}
        BY <1>1 DEF LightPlaces
      <3>3. ASSUME NEW i \in 1 .. (Len(q) - 1)
            PROVE  (\A j \in 1 .. i : r[j] # "SEND_DATA")
                     <=> (\A j \in 1 .. i + 1 : q[j] # "SEND_DATA")
        <4>1. \A j \in 1 .. i : r[j] = q[j + 1] /\ j + 1 \in 1 .. i + 1
          BY <1>1
        <4>2. \A j \in 1 .. i + 1 : j = 1 \/ (j - 1 \in 1 .. i /\ r[j - 1] = q[j])
          BY <1>1
        <4> QED
          BY <1>1, <1>3, <4>1, <4>2
      <3> QED
        BY <1>1, <3>1, <3>2, <3>3 DEF LightPlaces
    <2>5. Cardinality(S) = Cardinality(T) + One(1 \in S)
      BY <2>2, <2>4, Shifted
    <2> QED
      BY <1>3, <2>3, <2>5
  <1> QED
    BY <1>2, <1>3

-----------------------------------------------------------------------------
(* The load of the heartbeat's interrupt *)

Measures   == Count(queue["sensor"], {"MEASURE"})
PowerReads == Count(queue["sensor"], {"READ_POWER"})
Triggers   == Count(queue["event"], {"EVENT_TRIGGER"})
Reports    == Count(queue["control"], {"SENSOR_EVENT"})
Sends      == Count(queue["control"], {"SEND_DATA"})
Beats      == Count(queue["control"], {"PERIODIC"})
Joins      == Count(queue["control"], {"JOIN"})

LightWaiting == Cardinality(LightPlaces(queue["control"]))
Light == IF Sending THEN 0 ELSE LightWaiting

\* The control task has not joined yet, and the measurement it asks for then is
\* still to come.
Joining == Joins > 0 \/ (phase["control"] = "radio" /\ cur["control"] = "JOIN")

\* What is on its way to the control task, and what will set out
Measuring == Measures + Triggers + One("sensor_read" \in due)
Coming == Measuring + One(Joining) + One(Beats > 0 \/ "heartbeat" \in due)

\* Counting the codes that a task's queue may have
Kind(t) ==
    CASE t = "control" -> {"PERIODIC", "JOIN", "SENSOR_EVENT", "SEND_DATA"}
      [] t = "sensor"  -> {"MEASURE", "READ_POWER"}
      [] t = "event"   -> {"EVENT_TRIGGER"}

\* The handler of t takes a message with "code" out of its queue, and k messages
\* with code c are put into the queue of u.
Moved(t, code, u, c, k) ==
    /\ \A v \in Tasks : \A codes \in SUBSET Codes :
          Count(queue'[v], codes) + One(v = t /\ code \in codes)
              = Count(queue[v], codes) + (IF v = u /\ c \in codes THEN k ELSE 0)
    /\ LightWaiting <= LightWaiting' + One(t = "control" /\ code = "SENSOR_EVENT")

\* What posting a message does to the counts.
LEMMA PostCounts ==
    ASSUME NEW q \in Queues, NEW u \in Tasks, NEW c \in Codes, Post(q, u, c)
    PROVE  \E k \in {0, 1} :
              /\ k = 1 => MayTake(c)
              /\ \A v \in Tasks : \A codes \in SUBSET Codes :
                    Count(queue'[v], codes)
                        = Count(q[v], codes) + (IF v = u /\ c \in codes THEN k ELSE 0)
              /\ Cardinality(LightPlaces(q["control"])) <= LightWaiting'
  <1>1. \A v \in Tasks : q[v] \in Seq(Codes)
    BY DEF Queues
  <1>2. \A v \in Tasks : \A codes \in SUBSET Codes : Count(q[v], codes) \in Nat
    BY <1>1, CountPlaces
  <1>3. "control" \in Tasks /\ Cardinality(LightPlaces(q["control"])) \in Nat
    BY <1>1, LightReports DEF Tasks
  <1>4. CASE queue' = q
    <2>1. \A v \in Tasks : \A codes \in SUBSET Codes :
             Count(queue'[v], codes)
                 = Count(q[v], codes) + (IF v = u /\ c \in codes THEN 0 ELSE 0)
      BY <1>2, <1>4
    <2>2. Cardinality(LightPlaces(q["control"])) <= LightWaiting'
      BY <1>3, <1>4 DEF LightWaiting
    <2> QED
      BY <2>1, <2>2
  <1>5. CASE MayTake(c) /\ queue' = [q EXCEPT ![u] = Append(@, c)]
    <2>1. /\ queue'[u] = Append(q[u], c)
          /\ \A v \in Tasks : v # u => queue'[v] = q[v]
      BY <1>5 DEF Queues
    <2>2. \A codes \in SUBSET Codes : Count(queue'[u], codes) = Count(q[u], codes) + One(c \in codes)
      BY <1>1, <2>1, CountAppend
    <2>3. \A v \in Tasks : \A codes \in SUBSET Codes :
             Count(queue'[v], codes)
                 = Count(q[v], codes) + (IF v = u /\ c \in codes THEN 1 ELSE 0)
      <3> SUFFICES ASSUME NEW v \in Tasks, NEW codes \in SUBSET Codes
                   PROVE  Count(queue'[v], codes)
                            = Count(q[v], codes) + (IF v = u /\ c \in codes THEN 1 ELSE 0)
        OBVIOUS
      <3>1. CASE v = u
        <4>1. Count(queue'[v], codes) = Count(q[v], codes) + One(c \in codes)
          BY <2>2, <3>1, Zenon
        <4> QED
          BY <3>1, <4>1 DEF One
      <3>2. CASE v # u
        <4>1. Count(queue'[v], codes) = Count(q[v], codes)
          BY <2>1, <3>2, Zenon
        <4>2. Count(q[v], codes) \in Nat
          BY <1>2
        <4> QED
          BY <3>2, <4>1, <4>2
      <3> QED
        BY <3>1, <3>2
    <2>4. Cardinality(LightPlaces(q["control"])) <= Cardinality(LightPlaces(queue'["control"]))
      <3>1. CASE u = "control"
        <4>1. queue'["control"] = Append(q["control"], c)
          BY <2>1, <3>1
        <4>2. Cardinality(LightPlaces(queue'["control"]))
                = Cardinality(LightPlaces(Append(q["control"], c)))
          BY <4>1, Zenon
        <4>3. Cardinality(LightPlaces(q["control"]))
                <= Cardinality(LightPlaces(Append(q["control"], c)))
          BY <1>1, <1>3, LightAppend
        <4> QED
          BY <4>2, <4>3
      <3>2. CASE u # "control"
        <4>1. Cardinality(LightPlaces(queue'["control"])) = Cardinality(LightPlaces(q["control"]))
          BY <1>3, <2>1, <3>2, Zenon
        <4> QED
          BY <1>3, <4>1
      <3> QED
        BY <3>1, <3>2
    <2> QED
      BY <1>5, <2>3, <2>4 DEF LightWaiting
  <1> QED
    BY <1>4, <1>5 DEF Post

\* What posting a message alone moves.
LEMMA PostMoves ==
    ASSUME queue \in Queues, NEW u \in Tasks, NEW c \in Codes, Post(queue, u, c)
    PROVE  \E k \in {0, 1} : (k = 1 => MayTake(c)) /\ Moved(None, c, u, c, k)
  <1>1. PICK k \in {0, 1} :
              /\ k = 1 => MayTake(c)
              /\ \A v \in Tasks : \A codes \in SUBSET Codes :
                    Count(queue'[v], codes)
                        = Count(queue[v], codes) + (IF v = u /\ c \in codes THEN k ELSE 0)
              /\ Cardinality(LightPlaces(queue["control"])) <= LightWaiting'
    BY PostCounts
  <1>2. \A v \in Tasks : v # None /\ queue[v] \in Seq(Codes)
    BY DEF None, Tasks, Queues
  <1>3. \A v \in Tasks : \A codes \in SUBSET Codes : Count(queue[v], codes) \in Nat
    BY <1>2, CountPlaces
  <1>4. \A v \in Tasks : \A codes \in SUBSET Codes :
              Count(queue'[v], codes) + One(v = None /\ c \in codes)
                  = Count(queue[v], codes) + (IF v = u /\ c \in codes THEN k ELSE 0)
    <2> SUFFICES ASSUME NEW v \in Tasks, NEW codes \in SUBSET Codes
                 PROVE  Count(queue'[v], codes) + One(v = None /\ c \in codes)
                          = Count(queue[v], codes) + (IF v = u /\ c \in codes THEN k ELSE 0)
      OBVIOUS
    <2>1. One(v = None /\ c \in codes) = 0
      BY <1>2 DEF One
    <2>2. Count(queue[v], codes) \in Nat
      BY <1>3
    <2>3. Count(queue'[v], codes)
            = Count(queue[v], codes) + (IF v = u /\ c \in codes THEN k ELSE 0)
      BY <1>1
    <2> QED
      BY <2>1, <2>2, <2>3
  <1>5. LightWaiting <= LightWaiting' + One(None = "control" /\ c = "SENSOR_EVENT")
    <2>1. One(None = "control" /\ c = "SENSOR_EVENT") = 0 /\ queue["control"] \in Seq(Codes)
      BY DEF One, None, Tasks, Queues
    <2>2. LightWaiting' \in Nat
      <3>1. queue'["control"] \in Seq(Codes)
        BY PostPeriodic DEF Queues, Tasks
      <3> QED
        BY <3>1, LightReports DEF LightWaiting
    <2> QED
      BY <1>1, <2>1, <2>2 DEF LightWaiting
  <1> QED
    BY <1>1, <1>4, <1>5 DEF Moved

\* What a step of a receive loop moves.
LEMMA ReceiveMoves ==
    ASSUME queue \in Queues, NEW t \in Tasks, NEW code \in Codes, NEW where,
           Receive(t, code, where), NEW u \in Tasks, NEW c \in Codes,
           queue' = Taken(t) \/ Post(Taken(t), u, c)
    PROVE  \E k \in {0, 1} :
              /\ k = 1 => MayTake(c)
              /\ queue' = Taken(t) => k = 0
              /\ Moved(t, code, u, c, k)
  <1>1. queue[t] # <<>> /\ Head(queue[t]) = code /\ \A v \in Tasks : queue[v] \in Seq(Codes)
    BY DEF Receive, Queues
  <1>2. Taken(t) \in Queues
    BY <1>1, TakenPeriodic
  <1>3. /\ Taken(t)[t] = Tail(queue[t])
        /\ \A v \in Tasks : v # t => Taken(t)[v] = queue[v]
    BY DEF Taken, Queues
  <1>4. \A v \in Tasks : \A codes \in SUBSET Codes :
           /\ Count(queue[v], codes) \in Nat /\ Count(Taken(t)[v], codes) \in Nat
           /\ Count(queue[v], codes) = Count(Taken(t)[v], codes) + One(v = t /\ code \in codes)
    <2> SUFFICES ASSUME NEW v \in Tasks, NEW codes \in SUBSET Codes
                 PROVE  /\ Count(queue[v], codes) \in Nat /\ Count(Taken(t)[v], codes) \in Nat
                        /\ Count(queue[v], codes)
                             = Count(Taken(t)[v], codes) + One(v = t /\ code \in codes)
      OBVIOUS
    <2>1. Count(queue[v], codes) \in Nat /\ Count(Taken(t)[v], codes) \in Nat
      BY <1>1, <1>2, CountPlaces DEF Queues
    <2>2. CASE v = t
      <3>1. Count(queue[t], codes) = Count(Tail(queue[t]), codes) + One(code \in codes)
        BY <1>1, CountTail
      <3> QED
        BY <1>3, <2>1, <2>2, <3>1 DEF One
    <2>3. CASE v # t
      BY <1>3, <2>1, <2>3 DEF One
    <2> QED
      BY <2>1, <2>2, <2>3
  <1>5. /\ "control" \in Tasks
        /\ Cardinality(LightPlaces(Taken(t)["control"])) \in Nat /\ LightWaiting \in Nat
        /\ LightWaiting <= Cardinality(LightPlaces(Taken(t)["control"]))
                              + One(t = "control" /\ code = "SENSOR_EVENT")
    <2>1. "control" \in Tasks /\ Taken(t)["control"] \in Seq(Codes)
      BY <1>2 DEF Tasks, Queues
    <2>2. Cardinality(LightPlaces(Taken(t)["control"])) \in Nat /\ LightWaiting \in Nat
      BY <1>1, <2>1, LightReports DEF LightWaiting
    <2>3. CASE t = "control"
      <3>1. /\ code = "SEND_DATA" => LightWaiting = 0
            /\ code # "SEND_DATA" =>
                 LightWaiting = Cardinality(LightPlaces(Tail(queue[t]))) + One(code = "SENSOR_EVENT")
        BY <1>1, <2>3, LightTail DEF LightWaiting
      <3> QED
        BY <1>3, <2>1, <2>2, <2>3, <3>1 DEF One
    <2>4. CASE t # "control"
      BY <1>3, <2>1, <2>2, <2>4 DEF LightWaiting, One
    <2> QED
      BY <2>1, <2>2, <2>3, <2>4
  <1>6. CASE queue' = Taken(t)
    <2>1. \A v \in Tasks : \A codes \in SUBSET Codes :
              Count(queue'[v], codes) + One(v = t /\ code \in codes)
                  = Count(queue[v], codes) + (IF v = u /\ c \in codes THEN 0 ELSE 0)
      BY <1>4, <1>6 DEF One
    <2>2. LightWaiting <= LightWaiting' + One(t = "control" /\ code = "SENSOR_EVENT")
      BY <1>5, <1>6 DEF LightWaiting
    <2> QED
      BY <2>1, <2>2 DEF Moved
  <1>7. CASE Post(Taken(t), u, c) /\ queue' # Taken(t)
    <2>1. PICK k \in {0, 1} :
              /\ k = 1 => MayTake(c)
              /\ \A v \in Tasks : \A codes \in SUBSET Codes :
                    Count(queue'[v], codes)
                        = Count(Taken(t)[v], codes) + (IF v = u /\ c \in codes THEN k ELSE 0)
              /\ Cardinality(LightPlaces(Taken(t)["control"])) <= LightWaiting'
      BY <1>2, <1>7, PostCounts
    <2>2. \A v \in Tasks : \A codes \in SUBSET Codes :
              Count(queue'[v], codes) + One(v = t /\ code \in codes)
                  = Count(queue[v], codes) + (IF v = u /\ c \in codes THEN k ELSE 0)
      BY <1>4, <2>1 DEF One
    <2>3. LightWaiting' \in Nat
      <3>1. queue'["control"] \in Seq(Codes)
        BY <1>2, <1>5, <1>7, PostPeriodic DEF Queues
      <3> QED
        BY <3>1, LightReports DEF LightWaiting
    <2>4. LightWaiting <= LightWaiting' + One(t = "control" /\ code = "SENSOR_EVENT")
      <3>1. One(t = "control" /\ code = "SENSOR_EVENT") \in Nat
        BY DEF One
      <3> QED
        BY <1>5, <2>1, <2>3, <3>1
    <2> QED
      BY <1>7, <2>1, <2>2, <2>4 DEF Moved
  <1> QED
    BY <1>6, <1>7

\* What a move does to each count.
LEMMA Ledger ==
    ASSUME NEW t, NEW code, NEW u, NEW c, NEW k \in {0, 1}, Moved(t, code, u, c, k)
    PROVE  /\ Measures' + One(t = "sensor" /\ code = "MEASURE")
                = Measures + (IF u = "sensor" /\ c = "MEASURE" THEN k ELSE 0)
           /\ PowerReads' + One(t = "sensor" /\ code = "READ_POWER")
                = PowerReads + (IF u = "sensor" /\ c = "READ_POWER" THEN k ELSE 0)
           /\ Triggers' + One(t = "event" /\ code = "EVENT_TRIGGER")
                = Triggers + (IF u = "event" /\ c = "EVENT_TRIGGER" THEN k ELSE 0)
           /\ Reports' + One(t = "control" /\ code = "SENSOR_EVENT")
                = Reports + (IF u = "control" /\ c = "SENSOR_EVENT" THEN k ELSE 0)
           /\ Sends' + One(t = "control" /\ code = "SEND_DATA")
                = Sends + (IF u = "control" /\ c = "SEND_DATA" THEN k ELSE 0)
           /\ Beats' + One(t = "control" /\ code = "PERIODIC")
                = Beats + (IF u = "control" /\ c = "PERIODIC" THEN k ELSE 0)
           /\ Joins' + One(t = "control" /\ code = "JOIN")
                = Joins + (IF u = "control" /\ c = "JOIN" THEN k ELSE 0)
           /\ LightWaiting <= LightWaiting' + One(t = "control" /\ code = "SENSOR_EVENT")
  <1>1. ASSUME NEW v \in Tasks, NEW d \in Codes
        PROVE  Count(queue'[v], {d}) + One(v = t /\ code = d)
                 = Count(queue[v], {d}) + (IF v = u /\ c = d THEN k ELSE 0)
    <2>1. {d} \in SUBSET Codes /\ (code \in {d} <=> code = d) /\ (c \in {d} <=> c = d)
      OBVIOUS
    <2> QED
      BY <2>1 DEF Moved, One
  <1>2. /\ {"control", "sensor", "event"} \subseteq Tasks
        /\ {"MEASURE", "READ_POWER", "EVENT_TRIGGER", "SENSOR_EVENT", "SEND_DATA", "PERIODIC",
            "JOIN"} \subseteq Codes
    BY DEF Tasks, Codes, Events
  <1>3. LightWaiting <= LightWaiting' + One(t = "control" /\ code = "SENSOR_EVENT")
    BY DEF Moved
  <1> QED
    BY <1>1, <1>2, <1>3 DEF Measures, PowerReads, Triggers, Reports, Sends, Beats, Joins, One

\* The counts are numbers.
LEMMA Numbers ==
    ASSUME queue \in Queues
    PROVE  /\ Measures \in Nat /\ PowerReads \in Nat /\ Triggers \in Nat
           /\ Reports \in Nat /\ Sends \in Nat /\ Beats \in Nat /\ Joins \in Nat
           /\ LightWaiting \in Nat /\ LightWaiting <= Reports
           /\ Sends = 0 => LightWaiting = Reports
  <1>1. /\ queue["control"] \in Seq(Codes) /\ queue["sensor"] \in Seq(Codes)
        /\ queue["event"] \in Seq(Codes)
    BY DEF Queues, Tasks
  <1> QED
    BY <1>1, CountPlaces, LightReports
       DEF Measures, PowerReads, Triggers, Reports, Sends, Beats, Joins, LightWaiting

-----------------------------------------------------------------------------
(* The shape of the queues *)

\* Every task gets messages of its own kinds only.
Kinds == \A t \in Tasks : Count(queue[t], Codes \ Kind(t)) = 0

\* A task has a message in hand only while its handler runs, and only the two
\* handlers of the control task wait for the radio.
Curs ==
    /\ \A t \in Tasks :
          /\ phase[t] \notin {"radio", "done"} => cur[t] = None
          /\ phase[t] = "radio" => t = "control" /\ cur[t] \in {"JOIN", "SEND_DATA"}
    /\ cur["sensor"] \notin Events

\* The one JOIN is the first message that the control task takes.
JoinFirst ==
    /\ Joins <= 1
    /\ Joins > 0 => phase["control"] = "wait" /\ Head(queue["control"]) = "JOIN"

\* Before lorawan_init is over nothing comes to anyone.
Quiet ==
    /\ ~ Started => due = {} /\ \A t \in Tasks : queue[t] = <<>> /\ cur[t] = None
    /\ phase["control"] = "init" => phase["sensor"] = "off"

\* The messages have their buffers in the pool.
Fits == InUse <= PoolUnits

\* The power timer runs out once in the life of the sensor task.
PowerOnce ==
    /\ One(timer["power"] > 0) + One("power" \in due) + PowerReads <= 1
    /\ phase["sensor"] \in {"off", "init"} =>
          timer["power"] = 0 /\ "power" \notin due /\ PowerReads = 0

Shape == Kinds /\ Curs /\ JoinFirst /\ Quiet /\ Fits /\ PowerOnce

\* The counts are numbers after a step, too.
LEMMA NumbersNext ==
    ASSUME queue' \in Queues
    PROVE  /\ Measures' \in Nat /\ PowerReads' \in Nat /\ Triggers' \in Nat
           /\ Reports' \in Nat /\ Sends' \in Nat /\ Beats' \in Nat /\ Joins' \in Nat
           /\ LightWaiting' \in Nat /\ LightWaiting' <= Reports'
           /\ Sends' = 0 => LightWaiting' = Reports'
  <1>1. /\ queue'["control"] \in Seq(Codes) /\ queue'["sensor"] \in Seq(Codes)
        /\ queue'["event"] \in Seq(Codes)
    BY DEF Queues, Tasks
  <1> QED
    BY <1>1, CountPlaces, LightReports
       DEF Measures, PowerReads, Triggers, Reports, Sends, Beats, Joins, LightWaiting

\* The room the messages of a task take: one unit each, and one more for an event.
Space(v) == Count(queue[v], Codes) + Count(queue[v], Events) + Cost(cur[v])

\* A message takes one unit or two.
LEMMA CostType ==
    ASSUME NEW code \in Codes \cup {None}
    PROVE  /\ Cost(code) \in 0 .. 2
           /\ code # None => Cost(code) = One(code \in Codes) + One(code \in Events)
  <1>1. None \notin Codes
    BY DEF None, Codes, Events
  <1> QED
    BY <1>1 DEF Cost, One

\* The pool holds what the three tasks take.
LEMMA InUseSpace ==
    ASSUME TypeOK
    PROVE  /\ InUse = Space("control") + Space("sensor") + Space("event")
           /\ \A v \in Tasks : Space(v) \in Nat
  <1>1. \A v \in Tasks : queue[v] \in Seq(Codes) /\ cur[v] \in Codes \cup {None}
    BY DEF TypeOK
  <1>2. \A v \in Tasks : Count(queue[v], Codes) = Len(queue[v])
    <2> SUFFICES ASSUME NEW v \in Tasks PROVE Count(queue[v], Codes) = Len(queue[v])
      OBVIOUS
    <2>1. queue[v] \in Seq(Codes)
      BY <1>1
    <2>2. \A i \in 1 .. Len(queue[v]) : queue[v][i] \in Codes
      BY <2>1
    <2> QED
      BY <2>1, <2>2, CountAll
  <1>3. {"control", "sensor", "event"} \subseteq Tasks
    BY DEF Tasks
  <1>4. InUse = Space("control") + Space("sensor") + Space("event")
    BY <1>2, <1>3 DEF InUse, Space
  <1>5. ASSUME NEW v \in Tasks PROVE Space(v) \in Nat
    <2>1. Count(queue[v], Codes) \in Nat /\ Count(queue[v], Events) \in Nat
      BY <1>1, CountPlaces
    <2>2. Cost(cur[v]) \in 0 .. 2
      BY <1>1, CostType
    <2> QED
      BY <2>1, <2>2 DEF Space
  <1> QED
    BY <1>4, <1>5

\* The same after a step.
LEMMA InUseSpaceNext ==
    TypeOK' => (/\ InUse = Space("control") + Space("sensor") + Space("event")
                /\ \A v \in Tasks : Space(v) \in Nat)'
  <1>1. TypeOK => /\ InUse = Space("control") + Space("sensor") + Space("event")
                  /\ \A v \in Tasks : Space(v) \in Nat
    BY InUseSpace
  <1> QED
    BY <1>1, PTL

\* A message of the right kind keeps the kinds.
LEMMA MovedKinds ==
    ASSUME Kinds, queue' \in Queues, NEW t, NEW code, NEW u \in Tasks, NEW c \in Kind(u),
           NEW k \in {0, 1}, Moved(t, code, u, c, k)
    PROVE  Kinds'
  <1> SUFFICES ASSUME NEW v \in Tasks PROVE Count(queue'[v], Codes \ Kind(v)) = 0
    BY DEF Kinds
  <1> DEFINE D == Codes \ Kind(v)
  <1>1. D \in SUBSET Codes /\ queue'[v] \in Seq(Codes)
    BY DEF Queues
  <1>2. Count(queue'[v], D) \in Nat
    BY <1>1, CountPlaces
  <1>3. Count(queue'[v], D) + One(v = t /\ code \in D)
          = Count(queue[v], D) + (IF v = u /\ c \in D THEN k ELSE 0)
    BY <1>1 DEF Moved
  <1>4. Count(queue[v], D) = 0 /\ ~ (v = u /\ c \in D)
    BY DEF Kinds
  <1>5. One(v = t /\ code \in D) \in Nat
    BY DEF One
  <1> QED
    BY <1>2, <1>3, <1>4, <1>5

\* A message that moves from a queue into a handler keeps its buffer, and one that is
\* posted had room.
LEMMA MovedFits ==
    ASSUME TypeOK, TypeOK', Fits, NEW t, NEW code \in Codes, NEW u \in Tasks, NEW c \in Codes,
           NEW k \in {0, 1}, k = 1 => MayTake(c), Moved(t, code, u, c, k),
           \A v \in Tasks : Cost(cur'[v]) = Cost(cur[v]) + (IF v = t THEN Cost(code) ELSE 0)
    PROVE  Fits'
  <1>1. Codes \in SUBSET Codes /\ Events \in SUBSET Codes /\ None \notin Codes
    BY DEF Codes, Events, None
  <1>2. /\ Cost(code) = One(code \in Codes) + One(code \in Events)
        /\ Cost(c) = One(c \in Codes) + One(c \in Events)
        /\ Cost(c) \in 0 .. 2 /\ Cost(code) \in 0 .. 2
    BY <1>1, CostType
  <1>3. ASSUME NEW v \in Tasks
        PROVE  Space(v)' = Space(v) + (IF v = u /\ k = 1 THEN Cost(c) ELSE 0)
    <2>1. /\ queue[v] \in Seq(Codes) /\ queue'[v] \in Seq(Codes)
          /\ cur[v] \in Codes \cup {None} /\ cur'[v] \in Codes \cup {None}
      BY DEF TypeOK
    <2>2. /\ Count(queue[v], Codes) \in Nat /\ Count(queue'[v], Codes) \in Nat
          /\ Count(queue[v], Events) \in Nat /\ Count(queue'[v], Events) \in Nat
          /\ Cost(cur[v]) \in 0 .. 2 /\ Cost(cur'[v]) \in 0 .. 2
      BY <2>1, CountPlaces, CostType
    <2>3. Count(queue'[v], Codes) + One(v = t /\ code \in Codes)
            = Count(queue[v], Codes) + (IF v = u /\ c \in Codes THEN k ELSE 0)
      BY <1>1 DEF Moved
    <2>4. Count(queue'[v], Events) + One(v = t /\ code \in Events)
            = Count(queue[v], Events) + (IF v = u /\ c \in Events THEN k ELSE 0)
      BY <1>1 DEF Moved
    <2>5. Cost(cur'[v]) = Cost(cur[v]) + (IF v = t THEN Cost(code) ELSE 0)
      OBVIOUS
    <2>6. /\ Space(v)' = Count(queue'[v], Codes) + Count(queue'[v], Events) + Cost(cur'[v])
          /\ Space(v) = Count(queue[v], Codes) + Count(queue[v], Events) + Cost(cur[v])
      BY DEF Space
    <2>7. CASE v = t
      <3>1. /\ Count(queue'[v], Codes) + One(code \in Codes)
                 = Count(queue[v], Codes) + (IF v = u /\ c \in Codes THEN k ELSE 0)
            /\ Count(queue'[v], Events) + One(code \in Events)
                 = Count(queue[v], Events) + (IF v = u /\ c \in Events THEN k ELSE 0)
            /\ Cost(cur'[v]) = Cost(cur[v]) + Cost(code)
        BY <2>3, <2>4, <2>5, <2>7 DEF One
      <3> QED
        BY <1>2, <2>2, <2>6, <3>1 DEF One
    <2>8. CASE v # t
      <3>1. /\ Count(queue'[v], Codes)
                 = Count(queue[v], Codes) + (IF v = u /\ c \in Codes THEN k ELSE 0)
            /\ Count(queue'[v], Events)
                 = Count(queue[v], Events) + (IF v = u /\ c \in Events THEN k ELSE 0)
            /\ Cost(cur'[v]) = Cost(cur[v])
        BY <2>2, <2>3, <2>4, <2>5, <2>8 DEF One
      <3> QED
        BY <1>2, <2>2, <2>6, <3>1 DEF One
    <2> QED
      BY <2>7, <2>8
  <1>4. /\ {"control", "sensor", "event"} \subseteq Tasks
        /\ u = "control" \/ u = "sensor" \/ u = "event"
    BY DEF Tasks
  <1>5. /\ InUse = Space("control") + Space("sensor") + Space("event")
        /\ InUse' = Space("control")' + Space("sensor")' + Space("event")'
    BY InUseSpace, InUseSpaceNext
  <1>6. Space("control") \in Nat /\ Space("sensor") \in Nat /\ Space("event") \in Nat
    BY <1>4, InUseSpace
  <1>7. InUse' = InUse + (IF k = 1 THEN Cost(c) ELSE 0)
    <2>1. /\ Space("control")' = Space("control") + (IF "control" = u /\ k = 1 THEN Cost(c) ELSE 0)
          /\ Space("sensor")' = Space("sensor") + (IF "sensor" = u /\ k = 1 THEN Cost(c) ELSE 0)
          /\ Space("event")' = Space("event") + (IF "event" = u /\ k = 1 THEN Cost(c) ELSE 0)
      BY <1>3, <1>4
    <2> QED
      BY <1>2, <1>4, <1>5, <1>6, <2>1
  <1>8. InUse \in Nat /\ (k = 1 => InUse + Cost(c) <= PoolUnits)
    BY <1>5, <1>6 DEF MayTake
  <1> QED
    BY <1>7, <1>8 DEF Fits

\* The message at the head of a queue stays there until its task takes it.
LEMMA PostHead ==
    ASSUME NEW q \in Queues, NEW u \in Tasks, NEW c \in Codes, Post(q, u, c),
           q["control"] # <<>>
    PROVE  Head(queue'["control"]) = Head(q["control"])
  <1>1. q["control"] \in Seq(Codes) /\ "control" \in Tasks
    BY DEF Queues, Tasks
  <1>2. queue'["control"] = q["control"] \/ queue'["control"] = Append(q["control"], c)
    BY <1>1 DEF Post, Queues
  <1>3. Head(Append(q["control"], c)) = Head(q["control"])
    BY <1>1
  <1> QED
    BY <1>2, <1>3

\* A queue with a message in it is not empty.
LEMMA NotEmpty ==
    ASSUME NEW q \in Seq(Codes), NEW codes, Count(q, codes) > 0
    PROVE  q # <<>>
  <1>1. Len(<<>>) = 0 /\ \A i \in 1 .. 0 : FALSE
    OBVIOUS
  <1>2. q = <<>> => \A i \in 1 .. Len(q) : q[i] \notin codes
    BY <1>1
  <1>3. q = <<>> => Count(q, codes) = 0
    BY <1>2, CountNone
  <1> QED
    BY <1>3

\* The kinds of the messages that the steps post.
LEMMA KindCodes ==
    /\ \A u \in Tasks : Kind(u) \subseteq Codes
    /\ Kind("control") = {"PERIODIC", "JOIN", "SENSOR_EVENT", "SEND_DATA"}
    /\ Kind("sensor") = {"MEASURE", "READ_POWER"}
    /\ Kind("event") = {"EVENT_TRIGGER"}
  BY DEF Kind, Codes, Events, Tasks

\* A step of a receive loop keeps the shape.
LEMMA ReceiveShape ==
    ASSUME TypeOK, TypeOK', Shape, NEW t \in Tasks, NEW code \in Codes, NEW where,
           Receive(t, code, where), t = "sensor" => code \notin Events,
           \/ where = "done"
           \/ where = "radio" /\ t = "control" /\ code \in {"JOIN", "SEND_DATA"},
           NEW u \in Tasks, NEW c \in Kind(u), c \notin {"JOIN", "READ_POWER"},
           queue' = Taken(t) \/ Post(Taken(t), u, c),
           timer'["power"] = timer["power"], due' \subseteq due
    PROVE  Shape'
  <1>t. /\ queue \in Queues /\ queue' \in Queues /\ c \in Codes
        /\ phase \in [Tasks -> Phases] /\ cur \in [Tasks -> Codes \cup {None}]
        /\ {"control", "sensor", "event"} \subseteq Tasks
    BY KindCodes DEF TypeOK, Queues, Phases, Tasks
  <1>r. /\ phase[t] = "wait" /\ queue[t] # <<>> /\ Head(queue[t]) = code
        /\ cur' = [cur EXCEPT ![t] = code] /\ phase' = [phase EXCEPT ![t] = where]
    BY DEF Receive
  <1>s. Kinds /\ Curs /\ JoinFirst /\ Quiet /\ Fits /\ PowerOnce
    BY DEF Shape
  <1>1. PICK k \in {0, 1} :
              /\ k = 1 => MayTake(c)
              /\ queue' = Taken(t) => k = 0
              /\ Moved(t, code, u, c, k)
    BY <1>t, ReceiveMoves
  <1>2. Kinds'
    BY <1>t, <1>s, <1>1, MovedKinds
  <1>3. Fits'
    <2>1. cur[t] = None
      BY <1>r, <1>s DEF Curs
    <2>2. ASSUME NEW v \in Tasks
          PROVE  Cost(cur'[v]) = Cost(cur[v]) + (IF v = t THEN Cost(code) ELSE 0)
      <3>1. Cost(None) = 0 /\ Cost(cur[v]) \in 0 .. 2 /\ Cost(code) \in 0 .. 2
        BY <1>t, CostType DEF Cost
      <3>2. cur'[v] = IF v = t THEN code ELSE cur[v]
        BY <1>t, <1>r
      <3> QED
        BY <2>1, <3>1, <3>2
    <2> QED
      BY <1>t, <1>s, <1>1, <2>2, MovedFits
  <1>4. Curs'
    <2>1. \A v \in Tasks : /\ phase'[v] = IF v = t THEN where ELSE phase[v]
                           /\ cur'[v] = IF v = t THEN code ELSE cur[v]
      BY <1>t, <1>r
    <2> QED
      BY <1>t, <1>s, <2>1 DEF Curs
  <1>5. JoinFirst'
    <2>1. Joins \in Nat /\ Joins' \in Nat
      BY <1>t, Numbers, NumbersNext
    <2>2. Joins' + One(t = "control" /\ code = "JOIN") = Joins
      BY <1>1, <2>1, Ledger
    <2>3. CASE t = "control"
      <3>1. Joins > 0 => code = "JOIN"
        BY <1>r, <1>s, <2>3 DEF JoinFirst
      <3>2. Joins' = 0
        BY <1>s, <2>1, <2>2, <2>3, <3>1 DEF JoinFirst, One
      <3> QED
        BY <3>2 DEF JoinFirst
    <2>4. CASE t # "control"
      <3>0. One(t = "control" /\ code = "JOIN") = 0
        BY <2>4 DEF One
      <3>1. Joins' = Joins
        BY <2>1, <2>2, <3>0
      <3>2. phase'["control"] = phase["control"]
        BY <1>t, <1>r, <2>4
      <3>3. Joins > 0 => Head(queue'["control"]) = Head(queue["control"])
        <4> SUFFICES ASSUME Joins > 0 PROVE Head(queue'["control"]) = Head(queue["control"])
          OBVIOUS
        <4>1. queue["control"] # <<>>
          BY <1>t, NotEmpty DEF Joins, Queues
        <4>2. Taken(t)["control"] = queue["control"] /\ Taken(t) \in Queues
          BY <1>t, <1>r, <2>4, TakenPeriodic DEF Taken, Queues
        <4>3. CASE queue' = Taken(t)
          BY <4>2, <4>3
        <4>4. CASE Post(Taken(t), u, c)
          BY <1>t, <4>1, <4>2, <4>4, PostHead
        <4> QED
          BY <4>3, <4>4
      <3> QED
        BY <1>s, <3>1, <3>2, <3>3 DEF JoinFirst
    <2> QED
      BY <2>3, <2>4
  <1>6. Quiet'
    <2>1. Started
      BY <1>r, <1>s DEF Quiet
    <2>2. Started'
      BY <1>t, <1>r, <2>1 DEF Started
    <2> QED
      BY <2>2 DEF Quiet, Started
  <1>7. PowerOnce'
    <2>1. PowerReads \in Nat /\ PowerReads' \in Nat
      BY <1>t, Numbers, NumbersNext
    <2>2. PowerReads' + One(t = "sensor" /\ code = "READ_POWER") = PowerReads
      BY <1>1, <2>1, Ledger
    <2>3. phase'["sensor"] \in {"off", "init"} => phase["sensor"] \in {"off", "init"}
      BY <1>t, <1>r
    <2>4. PowerReads' <= PowerReads
      <3>1. One(t = "sensor" /\ code = "READ_POWER") \in Nat
        BY DEF One
      <3> QED
        BY <2>1, <2>2, <3>1
    <2>5. /\ One(timer'["power"] > 0) = One(timer["power"] > 0)
          /\ One("power" \in due') <= One("power" \in due)
          /\ One("power" \in due') \in Nat /\ One("power" \in due) \in Nat
          /\ One(timer["power"] > 0) \in Nat
      BY DEF One
    <2>6. One(timer'["power"] > 0) + One("power" \in due') + PowerReads' <= 1
      BY <1>s, <2>1, <2>4, <2>5 DEF PowerOnce
    <2>7. phase'["sensor"] \in {"off", "init"} =>
            timer'["power"] = 0 /\ "power" \notin due' /\ PowerReads' = 0
      BY <1>s, <2>1, <2>3, <2>4 DEF PowerOnce
    <2> QED
      BY <2>6, <2>7 DEF PowerOnce
  <1> QED
    BY <1>2, <1>3, <1>4, <1>5, <1>6, <1>7 DEF Shape

\* Posting a message of the right kind keeps the kinds and the room.
LEMMA PostShape ==
    ASSUME TypeOK, TypeOK', Shape, NEW u \in Tasks, NEW c \in Kind(u), Post(queue, u, c),
           cur' = cur
    PROVE  /\ Kinds' /\ Fits'
           /\ Joins' <= Joins + One(c = "JOIN") /\ (u # "control" => Joins' = Joins)
           /\ PowerReads' <= PowerReads + One(c = "READ_POWER")
           /\ queue["control"] # <<>> => Head(queue'["control"]) = Head(queue["control"])
  <1>t. queue \in Queues /\ queue' \in Queues /\ c \in Codes
    BY KindCodes DEF TypeOK, Queues
  <1>s. Kinds /\ Fits
    BY DEF Shape
  <1>1. PICK k \in {0, 1} : (k = 1 => MayTake(c)) /\ Moved(None, c, u, c, k)
    BY <1>t, PostMoves
  <1>2. Kinds'
    BY <1>t, <1>s, <1>1, MovedKinds
  <1>3. \A v \in Tasks : Cost(cur'[v]) = Cost(cur[v]) + (IF v = None THEN Cost(c) ELSE 0)
    <2> SUFFICES ASSUME NEW v \in Tasks
                 PROVE  Cost(cur[v]) = Cost(cur[v]) + (IF v = None THEN Cost(c) ELSE 0)
      OBVIOUS
    <2>1. Cost(cur[v]) \in 0 .. 2
      BY CostType DEF TypeOK
    <2>2. v # None
      BY DEF Tasks, None
    <2> QED
      BY <2>1, <2>2
  <1>4. Fits'
    BY <1>t, <1>s, <1>1, <1>3, MovedFits
  <1>5. /\ Joins \in Nat /\ Joins' \in Nat /\ PowerReads \in Nat /\ PowerReads' \in Nat
    BY <1>t, Numbers, NumbersNext
  <1>6. /\ Joins' + One(None = "control" /\ c = "JOIN")
             = Joins + (IF u = "control" /\ c = "JOIN" THEN k ELSE 0)
        /\ PowerReads' + One(None = "sensor" /\ c = "READ_POWER")
             = PowerReads + (IF u = "sensor" /\ c = "READ_POWER" THEN k ELSE 0)
    BY <1>1, Ledger
  <1>7. One(None = "control" /\ c = "JOIN") = 0 /\ One(None = "sensor" /\ c = "READ_POWER") = 0
    BY DEF One, None
  <1>8. /\ Joins' <= Joins + One(c = "JOIN") /\ (u # "control" => Joins' = Joins)
        /\ PowerReads' <= PowerReads + One(c = "READ_POWER")
    <2>1. /\ Joins' = Joins + (IF u = "control" /\ c = "JOIN" THEN k ELSE 0)
          /\ PowerReads' = PowerReads + (IF u = "sensor" /\ c = "READ_POWER" THEN k ELSE 0)
      BY <1>5, <1>6, <1>7
    <2>2. /\ One(c = "JOIN") = IF c = "JOIN" THEN 1 ELSE 0
          /\ One(c = "READ_POWER") = IF c = "READ_POWER" THEN 1 ELSE 0
      BY Zenon DEF One
    <2>3. Joins' <= Joins + One(c = "JOIN")
      BY <1>5, <2>1, <2>2
    <2>4. PowerReads' <= PowerReads + One(c = "READ_POWER")
      BY <1>5, <2>1, <2>2
    <2>5. u # "control" => Joins' = Joins
      BY <1>5, <2>1
    <2> QED
      BY <2>3, <2>4, <2>5
  <1>9. queue["control"] # <<>> => Head(queue'["control"]) = Head(queue["control"])
    BY <1>t, PostHead
  <1> QED
    BY <1>2, <1>4, <1>8, <1>9

\* A step that leaves the queues and the messages in hand alone keeps their shape.
LEMMA SameShape ==
    ASSUME Shape, queue' = queue, cur' = cur
    PROVE  Kinds' /\ Fits' /\ Joins' = Joins /\ PowerReads' = PowerReads
  BY DEF Shape, Kinds, Fits, InUse, Joins, PowerReads

\* Where a thread goes from one handler to the next, nothing else changes.
LEMMA PhaseShape ==
    ASSUME TypeOK, TypeOK', Shape, cur' = cur, Kinds', Fits', Joins' <= Joins,
           PowerReads' <= PowerReads, due' \subseteq due, timer'["power"] = timer["power"],
           phase["control"] = "radio", phase' = [phase EXCEPT !["control"] = "done"]
    PROVE  Shape'
  <1>t. /\ phase \in [Tasks -> Phases] /\ queue \in Queues /\ queue' \in Queues
        /\ {"control", "sensor", "event"} \subseteq Tasks
    BY DEF TypeOK, Phases, Queues, Tasks
  <1>s. Curs /\ JoinFirst /\ Quiet /\ PowerOnce
    BY DEF Shape
  <1>1. /\ phase'["control"] = "done" /\ \A v \in Tasks : v # "control" => phase'[v] = phase[v]
        /\ "sensor" # "control"
    BY <1>t
  <1>2. Curs'
    BY <1>s, <1>1 DEF Curs
  <1>3. Joins \in Nat /\ Joins' \in Nat /\ PowerReads \in Nat /\ PowerReads' \in Nat
    BY <1>t, Numbers, NumbersNext
  <1>4. Joins' = 0
    BY <1>s, <1>3 DEF JoinFirst
  <1>5. JoinFirst'
    BY <1>4 DEF JoinFirst
  <1>6. Quiet'
    BY <1>1 DEF Quiet, Started
  <1>7. phase'["sensor"] = phase["sensor"]
    BY <1>t, <1>1
  <1>8. PowerOnce'
    <2>1. /\ One(timer'["power"] > 0) = One(timer["power"] > 0)
          /\ One("power" \in due') <= One("power" \in due)
          /\ One("power" \in due') \in Nat /\ One("power" \in due) \in Nat
          /\ One(timer["power"] > 0) \in Nat
      BY DEF One
    <2>2. One(timer'["power"] > 0) + One("power" \in due') + PowerReads' <= 1
      BY <1>s, <1>3, <2>1 DEF PowerOnce
    <2>3. phase'["sensor"] \in {"off", "init"} =>
            timer'["power"] = 0 /\ "power" \notin due' /\ PowerReads' = 0
      BY <1>s, <1>3, <1>7 DEF PowerOnce
    <2> QED
      BY <2>2, <2>3 DEF PowerOnce
  <1> QED
    BY <1>2, <1>5, <1>6, <1>8 DEF Shape

\* An interrupt keeps the shape.
LEMMA IsrShape ==
    ASSUME TypeOK, TypeOK', Shape, NEW x \in Timers, TimerIsr(x)
    PROVE  Shape'
  <1>t. /\ phase \in [Tasks -> Phases] /\ queue \in Queues /\ queue' \in Queues
        /\ {"control", "sensor", "event"} \subseteq Tasks
    BY DEF TypeOK, Phases, Queues, Tasks
  <1>s. Curs /\ JoinFirst /\ Quiet /\ PowerOnce
    BY DEF Shape
  <1>1. x \in due /\ due' = due \ {x} /\ UNCHANGED <<cur, phase, timer, b_send, waited>>
    BY DEF TimerIsr
  <1>2. PICK u \in Tasks, c \in Codes :
           /\ c \in Kind(u) /\ Post(queue, u, c) /\ c # "JOIN"
           /\ c = "READ_POWER" => x = "power"
    BY <1>t, KindCodes DEF TimerIsr, Message, Timers
  <1>3. /\ Kinds' /\ Fits' /\ Joins' <= Joins + One(c = "JOIN")
        /\ PowerReads' <= PowerReads + One(c = "READ_POWER")
        /\ queue["control"] # <<>> => Head(queue'["control"]) = Head(queue["control"])
    BY <1>1, <1>2, PostShape
  <1>4. Joins \in Nat /\ Joins' \in Nat /\ PowerReads \in Nat /\ PowerReads' \in Nat
    BY <1>t, Numbers, NumbersNext
  <1>5. Curs'
    BY <1>s, <1>1 DEF Curs
  <1>6. JoinFirst'
    <2>1. Joins' <= Joins
      BY <1>2, <1>3, <1>4 DEF One
    <2>2. Joins > 0 => queue["control"] # <<>>
      BY <1>t, NotEmpty DEF Joins, Queues
    <2> QED
      BY <1>1, <1>3, <1>4, <1>s, <2>1, <2>2 DEF JoinFirst
  <1>7. Quiet'
    BY <1>1, <1>s DEF Quiet, Started
  <1>8. PowerOnce'
    <2>1. timer["power"] \in Nat /\ timer'["power"] = timer["power"]
      BY <1>1 DEF TypeOK, Timers
    <2>2. CASE x = "power"
      <3>1. One("power" \in due) = 1 /\ One(timer["power"] > 0) \in Nat
            /\ One("power" \in due') = 0 /\ One(timer'["power"] > 0) = One(timer["power"] > 0)
        BY <1>1, <2>1, <2>2 DEF One
      <3>2. One(timer["power"] > 0) = 0 /\ PowerReads = 0
        BY <1>4, <1>s, <3>1 DEF PowerOnce
      <3>3. PowerReads' <= 1
        <4>1. One(c = "READ_POWER") \in 0 .. 1
          BY DEF One
        <4> QED
          BY <1>3, <1>4, <3>2, <4>1
      <3>4. phase'["sensor"] \notin {"off", "init"}
        BY <1>1, <1>s, <2>2 DEF PowerOnce
      <3>5. One(timer'["power"] > 0) + One("power" \in due') + PowerReads' <= 1
        BY <1>4, <3>1, <3>2, <3>3
      <3> QED
        BY <3>4, <3>5 DEF PowerOnce
    <2>3. CASE x # "power"
      <3>1. PowerReads' <= PowerReads
        <4>1. One(c = "READ_POWER") = 0
          BY <1>2, <2>3 DEF One
        <4> QED
          BY <1>3, <1>4, <4>1
      <3>2. /\ One(timer'["power"] > 0) = One(timer["power"] > 0)
            /\ One("power" \in due') <= One("power" \in due)
            /\ One("power" \in due') \in Nat /\ One("power" \in due) \in Nat
            /\ One(timer["power"] > 0) \in Nat
        BY <1>1, <2>1 DEF One
      <3>3. One(timer'["power"] > 0) + One("power" \in due') + PowerReads' <= 1
        BY <1>4, <1>s, <3>1, <3>2 DEF PowerOnce
      <3>4. phase'["sensor"] \in {"off", "init"} =>
              timer'["power"] = 0 /\ "power" \notin due' /\ PowerReads' = 0
        BY <1>1, <1>4, <1>s, <3>1 DEF PowerOnce
      <3> QED
        BY <3>3, <3>4 DEF PowerOnce
    <2> QED
      BY <2>2, <2>3
  <1> QED
    BY <1>3, <1>5, <1>6, <1>7, <1>8 DEF Shape

\* At the start every queue is empty.
LEMMA EmptyCounts ==
    ASSUME NEW q \in Seq(Codes), q = <<>>, NEW codes
    PROVE  Count(q, codes) = 0
  <1>1. \A i \in 1 .. Len(q) : q[i] \notin codes
    <2>1. Len(q) = 0
      OBVIOUS
    <2> QED
      BY <2>1
  <1> QED
    BY <1>1, CountNone

\* The initial state has the shape.
LEMMA ShapeInit == Init => Shape
  <1> SUFFICES ASSUME Init PROVE Shape
    OBVIOUS
  <1>t. TypeOK
    BY DataloggerInit DEF DataloggerInv
  <1>c. {"control", "sensor", "event"} \subseteq Tasks /\ {"power"} \subseteq Timers
    BY DEF Tasks, Timers
  <1>1. \A v \in Tasks : queue[v] = <<>> /\ cur[v] = None
    BY DEF Init
  <1>2. \A v \in Tasks : \A codes : Count(queue[v], codes) = 0
    BY <1>t, <1>1, EmptyCounts DEF TypeOK
  <1>3. phase = [v \in Tasks |-> IF v = "control" THEN "init" ELSE "off"] /\ due = {}
        /\ timer["power"] = 0
    BY <1>c DEF Init
  <1>4. Kinds
    BY <1>2 DEF Kinds
  <1>5. Curs
    BY <1>1, <1>3, <1>c DEF Curs, None, Events
  <1>6. JoinFirst
    BY <1>2, <1>c DEF JoinFirst, Joins
  <1>7. Quiet
    BY <1>1, <1>3, <1>c DEF Quiet
  <1>8. Fits
    <2>1. Space("control") = 0 /\ Space("sensor") = 0 /\ Space("event") = 0
      BY <1>1, <1>2, <1>c DEF Space, Cost
    <2>2. InUse = 0
      BY <1>t, <2>1, InUseSpace
    <2> QED
      BY <2>2, DataloggerAssumption DEF Fits
  <1>9. PowerOnce
    <2>1. PowerReads = 0
      BY <1>2, <1>c DEF PowerReads
    <2> QED
      BY <1>3, <2>1 DEF PowerOnce, One
  <1> QED
    BY <1>4, <1>5, <1>6, <1>7, <1>8, <1>9 DEF Shape

\* Every step keeps the shape.
LEMMA ShapeStep ==
    ASSUME DataloggerInv, Shape, [Next]_vars
    PROVE  Shape'
  <1>t. /\ TypeOK /\ TypeOK' /\ queue \in Queues /\ queue' \in Queues
        /\ timer \in [Timers -> Nat] /\ phase \in [Tasks -> Phases]
        /\ cur \in [Tasks -> Codes \cup {None}]
        /\ Joins \in Nat /\ Joins' \in Nat /\ PowerReads \in Nat /\ PowerReads' \in Nat
    BY DataloggerStep, Numbers, NumbersNext DEF DataloggerInv, TypeOK, Queues, Phases
  <1>s. Kinds /\ Curs /\ JoinFirst /\ Quiet /\ Fits /\ PowerOnce
    BY DEF Shape
  <1>c. /\ {"control", "sensor", "event"} \subseteq Tasks
        /\ {"heartbeat", "sensor_read", "power"} \subseteq Timers
        /\ {"MEASURE", "EVENT_TRIGGER", "SENSOR_EVENT", "SEND_DATA", "PERIODIC", "JOIN",
            "READ_POWER"} \subseteq Codes
        /\ Events = {"EVENT_TRIGGER", "SENSOR_EVENT"}
        /\ Kind("control") = {"PERIODIC", "JOIN", "SENSOR_EVENT", "SEND_DATA"}
        /\ Kind("sensor") = {"MEASURE", "READ_POWER"}
        /\ Kind("event") = {"EVENT_TRIGGER"}
    BY KindCodes DEF Tasks, Timers, Codes, Events
  <1>1. CASE InitTasks
    <2>1. /\ phase["control"] = "init"
          /\ \A v \in Tasks : phase'[v] \in {"lorawan", "init", "wait"}
          /\ phase'["control"] = "lorawan" /\ phase["sensor"] = "off"
          /\ UNCHANGED <<queue, cur, timer, due>>
      BY <1>c, <1>s, <1>1 DEF InitTasks, Quiet
    <2>2. Kinds' /\ Fits' /\ Joins' = Joins /\ PowerReads' = PowerReads
      BY <2>1, SameShape
    <2>3. due = {} /\ \A v \in Tasks : queue[v] = <<>> /\ cur[v] = None
      BY <1>s, <2>1 DEF Quiet, Started
    <2>4. Joins = 0 /\ PowerReads = 0
      BY <1>t, <1>c, <2>3, EmptyCounts DEF Joins, PowerReads, Queues
    <2>5. Curs'
      BY <1>s, <2>1, <2>3 DEF Curs
    <2>6. JoinFirst' /\ Quiet'
      BY <2>1, <2>2, <2>3, <2>4 DEF JoinFirst, Quiet
    <2>7. PowerOnce'
      BY <1>s, <2>1, <2>2 DEF PowerOnce
    <2> QED
      BY <2>2, <2>5, <2>6, <2>7 DEF Shape
  <1>2. CASE LorawanInit
    <2>1. /\ phase["control"] = "lorawan" /\ phase' = [phase EXCEPT !["control"] = "wait"]
          /\ Post(queue, "control", "JOIN") \/ queue' = queue
          /\ timer' = [timer EXCEPT !["heartbeat"] = Period["heartbeat"]]
          /\ due' = due \ {"heartbeat"} /\ cur' = cur
      BY <1>2 DEF LorawanInit, StartTimer
    <2>2. due = {} /\ \A v \in Tasks : queue[v] = <<>> /\ cur[v] = None
      BY <1>s, <2>1 DEF Quiet, Started
    <2>3. Joins = 0
      BY <1>t, <1>c, <2>2, EmptyCounts DEF Joins, Queues
    <2>4. Kinds' /\ Fits' /\ Joins' <= 1 /\ PowerReads' <= PowerReads
      <3>1. CASE queue' = queue
        <4>1. Kinds' /\ Fits' /\ Joins' = Joins /\ PowerReads' = PowerReads
          BY <2>1, <3>1, SameShape
        <4> QED
          BY <1>t, <2>3, <4>1
      <3>2. CASE Post(queue, "control", "JOIN")
        <4>1. /\ Kinds' /\ Fits' /\ Joins' <= Joins + One("JOIN" = "JOIN")
              /\ PowerReads' <= PowerReads + One("JOIN" = "READ_POWER")
          BY <1>t, <1>c, <2>1, <3>2, PostShape
        <4> QED
          BY <1>t, <2>3, <4>1 DEF One
      <3> QED
        BY <2>1, <3>1, <3>2
    <2>5. phase'["control"] = "wait" /\ \A v \in Tasks : v # "control" => phase'[v] = phase[v]
      BY <1>t, <1>c, <2>1
    <2>6. Curs'
      BY <1>s, <1>c, <2>1, <2>2, <2>5 DEF Curs
    <2>7. JoinFirst'
      <3>1. queue'["control"] = <<>> \/ queue'["control"] = Append(<<>>, "JOIN")
        BY <1>t, <1>c, <2>1, <2>2 DEF Post, Queues
      <3>2. Head(Append(<<>>, "JOIN")) = "JOIN"
        OBVIOUS
      <3>3. Joins' > 0 => queue'["control"] # <<>>
        BY <1>t, <1>c, NotEmpty DEF Joins, Queues
      <3> QED
        BY <2>4, <2>5, <3>1, <3>2, <3>3 DEF JoinFirst
    <2>8. Quiet'
      BY <2>5 DEF Quiet, Started
    <2>9. PowerOnce'
      <3>1. /\ timer'["power"] = timer["power"] /\ timer["power"] \in Nat /\ due' = due
            /\ phase'["sensor"] = phase["sensor"]
        BY <1>t, <1>c, <2>1, <2>2, <2>5
      <3>2. One(timer["power"] > 0) \in Nat /\ One("power" \in due) \in Nat
        BY DEF One
      <3>3. One(timer'["power"] > 0) + One("power" \in due') + PowerReads' <= 1
        BY <1>t, <1>s, <2>4, <3>1, <3>2 DEF PowerOnce
      <3>4. phase'["sensor"] \in {"off", "init"} =>
              timer'["power"] = 0 /\ "power" \notin due' /\ PowerReads' = 0
        BY <1>t, <1>s, <2>4, <3>1 DEF PowerOnce
      <3> QED
        BY <3>3, <3>4 DEF PowerOnce
    <2> QED
      BY <2>4, <2>6, <2>7, <2>8, <2>9 DEF Shape
  <1>3. CASE SensorInit
    <2>1. /\ phase["sensor"] = "init" /\ phase' = [phase EXCEPT !["sensor"] = "wait"]
          /\ timer' = [timer EXCEPT !["power"] = Period["power"],
                                    !["sensor_read"] = Period["sensor_read"]]
          /\ UNCHANGED <<queue, cur, due>>
      BY <1>3 DEF SensorInit
    <2>2. Kinds' /\ Fits' /\ Joins' = Joins /\ PowerReads' = PowerReads
      BY <2>1, SameShape
    <2>3. phase'["sensor"] = "wait" /\ \A v \in Tasks : v # "sensor" => phase'[v] = phase[v]
      BY <1>t, <1>c, <2>1
    <2>4. Curs'
      BY <1>s, <1>c, <2>1, <2>3 DEF Curs
    <2>5. JoinFirst' /\ Quiet'
      BY <1>s, <1>c, <2>1, <2>2, <2>3 DEF JoinFirst, Quiet, Started
    <2>6. PowerOnce'
      <3>1. "power" \notin due' /\ PowerReads' = 0
        BY <1>s, <2>1, <2>2 DEF PowerOnce
      <3> QED
        BY <2>3, <3>1 DEF PowerOnce, One
    <2> QED
      BY <2>2, <2>4, <2>5, <2>6 DEF Shape
  <1>4. ASSUME NEW t \in Tasks, Release(t) PROVE Shape'
    <2>1. /\ phase[t] = "done" /\ phase' = [phase EXCEPT ![t] = "wait"]
          /\ cur' = [cur EXCEPT ![t] = None] /\ UNCHANGED <<queue, timer, due>>
      BY <1>4 DEF Release
    <2>2. \A v \in Tasks : /\ phase'[v] = IF v = t THEN "wait" ELSE phase[v]
                           /\ cur'[v] = IF v = t THEN None ELSE cur[v]
      BY <1>t, <2>1
    <2>3. Kinds' /\ Joins' = Joins /\ PowerReads' = PowerReads
      BY <1>s, <2>1 DEF Kinds, Joins, PowerReads
    <2>4. Curs'
      <3>1. None \notin Events
        BY DEF None, Events
      <3> QED
        BY <1>s, <1>c, <2>1, <2>2, <3>1 DEF Curs
    <2>5. JoinFirst'
      BY <1>s, <1>c, <1>t, <2>1, <2>2, <2>3 DEF JoinFirst
    <2>6. Quiet'
      BY <1>s, <1>c, <2>1, <2>2 DEF Quiet, Started
    <2>7. Fits'
      <3>1. ASSUME NEW v \in Tasks PROVE Space(v)' <= Space(v)
        <4>1. cur[v] \in Codes \cup {None} /\ cur'[v] \in Codes \cup {None}
          BY <1>t DEF TypeOK
        <4>2. Cost(cur[v]) \in 0 .. 2 /\ Cost(cur'[v]) \in 0 .. 2
          BY <4>1, CostType
        <4>3. Cost(cur'[v]) <= Cost(cur[v])
          <5>1. Cost(None) = 0
            BY DEF Cost
          <5>2. cur'[v] = None \/ cur'[v] = cur[v]
            BY <2>2
          <5> QED
            BY <4>2, <5>1, <5>2
        <4>4. Count(queue[v], Codes) \in Nat /\ Count(queue[v], Events) \in Nat
          BY <1>t, CountPlaces DEF Queues
        <4>5. /\ Space(v)' = Count(queue[v], Codes) + Count(queue[v], Events) + Cost(cur'[v])
              /\ Space(v) = Count(queue[v], Codes) + Count(queue[v], Events) + Cost(cur[v])
          BY <2>1 DEF Space
        <4> QED
          BY <4>2, <4>3, <4>4, <4>5
      <3>2. /\ Space("control")' <= Space("control") /\ Space("sensor")' <= Space("sensor")
            /\ Space("event")' <= Space("event")
        BY <1>c, <3>1
      <3>3. /\ InUse = Space("control") + Space("sensor") + Space("event")
            /\ InUse' = Space("control")' + Space("sensor")' + Space("event")'
            /\ Space("control") \in Nat /\ Space("sensor") \in Nat /\ Space("event") \in Nat
            /\ Space("control")' \in Nat /\ Space("sensor")' \in Nat /\ Space("event")' \in Nat
        BY <1>t, <1>c, InUseSpace, InUseSpaceNext
      <3> QED
        BY <1>s, <3>2, <3>3, DataloggerAssumption DEF Fits
    <2>8. PowerOnce'
      BY <1>s, <1>c, <2>1, <2>2, <2>3 DEF PowerOnce
    <2> QED
      BY <2>3, <2>4, <2>5, <2>6, <2>7, <2>8 DEF Shape
  <1>5. CASE Joined
    <2>1. /\ Post(queue, "sensor", "MEASURE") /\ phase["control"] = "radio"
          /\ phase' = [phase EXCEPT !["control"] = "done"]
          /\ cur' = cur /\ timer' = timer /\ due' = due
      BY <1>5 DEF Joined
    <2>2. /\ Kinds' /\ Fits' /\ Joins' <= Joins + One("MEASURE" = "JOIN")
          /\ PowerReads' <= PowerReads + One("MEASURE" = "READ_POWER")
      BY <1>t, <1>c, <2>1, PostShape
    <2>3. Joins' <= Joins /\ PowerReads' <= PowerReads
      BY <1>t, <2>2 DEF One
    <2> QED
      BY <1>t, <2>1, <2>2, <2>3, PhaseShape
  <1>6. CASE SendOver
    <2>1. /\ phase["control"] = "radio" /\ phase' = [phase EXCEPT !["control"] = "done"]
          /\ UNCHANGED <<queue, cur, timer, due>>
      BY <1>6 DEF SendOver, Sending
    <2>2. Kinds' /\ Fits' /\ Joins' <= Joins /\ PowerReads' <= PowerReads
      BY <1>t, <2>1, SameShape
    <2> QED
      BY <1>t, <2>1, <2>2, PhaseShape
  <1>7. CASE HeartBeat
    <2>1. /\ Receive("control", "PERIODIC", "done")
          /\ Post(Taken("control"), "sensor", "MEASURE")
          /\ timer' = [timer EXCEPT !["heartbeat"] = Period["heartbeat"]]
          /\ due' = due \ {"heartbeat"}
      BY <1>7 DEF HeartBeat, StartTimer
    <2>2. timer'["power"] = timer["power"] /\ due' \subseteq due
      BY <1>t, <1>c, <2>1
    <2> QED
      BY <1>t, <1>c, <2>1, <2>2, ReceiveShape
  <1>8. CASE Join
    <2>1. /\ Receive("control", "JOIN", "radio") /\ queue' = Taken("control")
          /\ timer'["power"] = timer["power"] /\ due' \subseteq due
      BY <1>8 DEF Join
    <2> QED
      BY <1>t, <1>c, <2>1, ReceiveShape
  <1>9. CASE SensorEvent
    <2>1. /\ Receive("control", "SENSOR_EVENT", "done")
          /\ queue' = Taken("control") \/ Post(Taken("control"), "control", "SEND_DATA")
          /\ timer'["power"] = timer["power"] /\ due' \subseteq due
      BY <1>9 DEF SensorEvent
    <2> QED
      BY <1>t, <1>c, <2>1, ReceiveShape
  <1>10. CASE SendData
    <2>1. /\ Receive("control", "SEND_DATA", "radio") /\ queue' = Taken("control")
          /\ timer'["power"] = timer["power"] /\ due' \subseteq due
      BY <1>10 DEF SendData
    <2> QED
      BY <1>t, <1>c, <2>1, ReceiveShape
  <1>11. CASE Measure
    <2>1. /\ Receive("sensor", "MEASURE", "done") /\ Post(Taken("sensor"), "event", "EVENT_TRIGGER")
          /\ \/ timer' = timer /\ due' = due
             \/ /\ timer' = [timer EXCEPT !["sensor_read"] = Period["sensor_read"]]
                /\ due' = due \ {"sensor_read"}
      BY <1>11 DEF Measure, StartTimer
    <2>2. timer'["power"] = timer["power"] /\ due' \subseteq due
      BY <1>t, <1>c, <2>1
    <2> QED
      BY <1>t, <1>c, <2>1, <2>2, ReceiveShape
  <1>12. CASE ReadPower
    <2>1. /\ Receive("sensor", "READ_POWER", "done") /\ queue' = Taken("sensor")
          /\ timer'["power"] = timer["power"] /\ due' \subseteq due
      BY <1>12 DEF ReadPower
    <2> QED
      BY <1>t, <1>c, <2>1, ReceiveShape
  <1>13. CASE EventTrigger
    <2>1. /\ Receive("event", "EVENT_TRIGGER", "done")
          /\ Post(Taken("event"), "control", "SENSOR_EVENT")
          /\ timer'["power"] = timer["power"] /\ due' \subseteq due
      BY <1>13 DEF EventTrigger
    <2> QED
      BY <1>t, <1>c, <2>1, ReceiveShape
  <1>14. ASSUME NEW x \in Timers, TimerIsr(x) PROVE Shape'
    BY <1>t, <1>14, IsrShape
  <1>15. CASE Tick
    <2>1. /\ \A t \in Tasks : Idle(t)
          /\ due = {} /\ timer' = [x \in Timers |-> IF timer[x] > 0 THEN timer[x] - 1 ELSE 0]
          /\ due' = {x \in Timers : timer[x] = 1}
          /\ UNCHANGED <<queue, cur, phase>>
      BY <1>15 DEF Tick
    <2>2. Kinds' /\ Fits' /\ Joins' = Joins /\ PowerReads' = PowerReads
      BY <2>1, SameShape
    <2>3. Curs' /\ JoinFirst'
      BY <1>s, <2>1, <2>2 DEF Curs, JoinFirst
    <2>4. phase["control"] \in {"radio", "wait"} /\ phase["sensor"] \notin {"off", "init"}
      BY <1>c, <2>1 DEF Idle
    <2>5. Quiet'
      BY <2>1, <2>4 DEF Quiet, Started
    <2>6. PowerOnce'
      <3>1. timer["power"] \in Nat
        BY <1>t, <1>c
      <3>2. /\ timer'["power"] = IF timer["power"] > 0 THEN timer["power"] - 1 ELSE 0
            /\ "power" \in due' <=> timer["power"] = 1
        BY <1>c, <2>1
      <3>3. /\ One(timer["power"] > 0) = IF timer["power"] > 0 THEN 1 ELSE 0
            /\ One("power" \in due) = 0
            /\ One(timer'["power"] > 0) = IF timer'["power"] > 0 THEN 1 ELSE 0
            /\ One("power" \in due') = IF timer["power"] = 1 THEN 1 ELSE 0
        BY <2>1, <3>2 DEF One
      <3>4. One(timer'["power"] > 0) + One("power" \in due') + PowerReads' <= 1
        BY <1>t, <1>s, <2>2, <3>1, <3>2, <3>3 DEF PowerOnce
      <3> QED
        BY <2>1, <2>4, <3>4 DEF PowerOnce
    <2> QED
      BY <2>2, <2>3, <2>5, <2>6 DEF Shape
  <1>16. CASE UNCHANGED vars
    <2>1. UNCHANGED <<queue, cur, phase, timer, due>>
      BY <1>16 DEF vars
    <2>2. Kinds' /\ Fits' /\ Joins' = Joins /\ PowerReads' = PowerReads
      BY <2>1, SameShape
    <2>3. Curs' /\ JoinFirst' /\ Quiet' /\ PowerOnce'
      BY <1>s, <2>1, <2>2 DEF Curs, JoinFirst, Quiet, Started, PowerOnce
    <2> QED
      BY <2>2, <2>3 DEF Shape
  <1> QED
    BY <1>1, <1>2, <1>3, <1>4, <1>5, <1>6, <1>7, <1>8, <1>9, <1>10, <1>11, <1>12, <1>13,
       <1>14, <1>15, <1>16, <1>c
       DEF Next, Run, Control, Sensor, Event, Radio

-----------------------------------------------------------------------------
(* The load *)

\* The control task transmits since the last tick; the last report was not sent, so that
\* the next one is; the heartbeat is due in the next tick.
Transmits == One(Sending /\ ~ waited)
Skipped   == One(~ b_send)
Imminent  == One(timer["heartbeat"] = 1)

\* What must be through before the heartbeat's interrupt is due again: every message
\* and measurement on its way to the control task, each at the weight of the messages
\* it may still become there, against the ticks that a transmission takes.
Weigh(c, r, s, l, x, y, z) == 4 * c + 4 * r + 6 * s - l + 6 * x + 3 * y + 2 * z
Load == Weigh(Coming, Reports, Sends, Light, Transmits, Skipped, Imminent)

\* The messages that wait for the control task, or will, for what there is
Backlog == Measuring + Reports + Sends + One(Joining)

\* Nothing is sent before the join is over.
NoSends == Joining => Sends = 0

\* Until then one measurement is taken a tick, and no heartbeat is handled.
Early ==
    Joining => /\ timer["heartbeat"] > 0 =>
                    Measuring + Reports + timer["heartbeat"] <= Period["heartbeat"]
               /\ "heartbeat" \in due => Measuring + Reports <= Period["heartbeat"]

\* Three messages are on their way at most: the heartbeat, and the measurement that
\* the timer and the join ask for.
Few == Coming <= 3

\* Half of the pool in reports is the most that the join can leave behind.
Bounded == 2 * Load <= 3 * PoolUnits + 34

\* When the heartbeat is due again, what waits is far below the pool.
Near ==
    "heartbeat" \in due =>
        8 * Backlog <= 3 * PoolUnits + 26 \/ Backlog <= Period["heartbeat"] + 1

LoadInv == NoSends /\ Early /\ Few /\ Bounded /\ Near

RoomInv == DataloggerInv /\ Shape /\ LoadInv

\* The sizes that leave the heartbeat room: a transmission ends within a tick, and
\* pool and queue are large beside the reports of one join.
Sizes ==
    /\ ~ RadioStalls /\ Period["heartbeat"] >= 2
    /\ PoolUnits >= 54 /\ PoolUnits >= 2 * Period["heartbeat"] + 9
    /\ 8 * QueueDepth > 3 * PoolUnits + 26 /\ QueueDepth > Period["heartbeat"] + 1

\* What the load is made of is numbers.
LEMMA LoadNumbers ==
    TypeOK => /\ Measuring \in Nat /\ Coming \in Nat /\ Light \in Nat /\ Light <= Reports
              /\ Backlog \in Nat /\ Load \in Int /\ Reports \in Nat /\ Sends \in Nat
              /\ timer["heartbeat"] \in Nat /\ Period["heartbeat"] \in Nat /\ PoolUnits \in Nat
  <1> SUFFICES ASSUME TypeOK
               PROVE  /\ Measuring \in Nat /\ Coming \in Nat /\ Light \in Nat /\ Light <= Reports
                      /\ Backlog \in Nat /\ Load \in Int /\ Reports \in Nat /\ Sends \in Nat
                      /\ timer["heartbeat"] \in Nat /\ Period["heartbeat"] \in Nat
                      /\ PoolUnits \in Nat
    OBVIOUS
  <1>1. /\ Measures \in Nat /\ Triggers \in Nat /\ Reports \in Nat /\ Sends \in Nat
        /\ LightWaiting \in Nat /\ LightWaiting <= Reports
    BY Numbers DEF TypeOK, Queues
  <1>2. \A b : One(b) \in Nat
    BY DEF One
  <1>3. Measuring \in Nat
    BY <1>1, <1>2 DEF Measuring
  <1>4. Coming \in Nat
    BY <1>2, <1>3 DEF Coming
  <1>5. Light \in Nat /\ Light <= Reports
    BY <1>1 DEF Light
  <1>6. Backlog \in Nat
    BY <1>1, <1>2, <1>3 DEF Backlog
  <1>7. Load \in Int
    <2>1. ASSUME NEW c \in Nat, NEW r \in Nat, NEW s \in Nat, NEW l \in Nat, NEW x \in Nat,
                 NEW y \in Nat, NEW z \in Nat
          PROVE  Weigh(c, r, s, l, x, y, z) \in Int
      BY <2>1 DEF Weigh
    <2>2. Transmits \in Nat /\ Skipped \in Nat /\ Imminent \in Nat
      BY <1>2 DEF Transmits, Skipped, Imminent
    <2> QED
      BY <1>1, <1>4, <1>5, <2>1, <2>2 DEF Load
  <1>8. timer["heartbeat"] \in Nat /\ Period["heartbeat"] \in Nat /\ PoolUnits \in Nat
    BY DataloggerAssumption DEF TypeOK, Timers
  <1> QED
    BY <1>1, <1>3, <1>4, <1>5, <1>6, <1>7, <1>8

\* The same after a step.
LEMMA LoadNumbersNext ==
    TypeOK' => (/\ Measuring \in Nat /\ Coming \in Nat /\ Light \in Nat /\ Light <= Reports
                /\ Backlog \in Nat /\ Load \in Int /\ Reports \in Nat /\ Sends \in Nat
                /\ timer["heartbeat"] \in Nat /\ Period["heartbeat"] \in Nat
                /\ PoolUnits \in Nat)'
  BY LoadNumbers, PTL

\* The step adds nothing to the load.
Calm ==
    /\ Coming' <= Coming
    /\ Load' <= Load
    /\ Joining' => /\ Joining /\ Sends' <= Sends
                   /\ Measuring' + Reports' <= Measuring + Reports
                   /\ timer'["heartbeat"] = timer["heartbeat"]
    /\ "heartbeat" \in due' => "heartbeat" \in due /\ Backlog' <= Backlog

\* Each part of the load moves as one of the steps moves it: all fall; a measurement
\* reaches the control task; a report is taken, and sent or not; a transmission starts.
LEMMA Weighing ==
    ASSUME NEW c \in Nat, NEW r \in Nat, NEW s \in Nat, NEW l \in Nat,
           NEW x \in Nat, NEW y \in Nat, NEW z \in Nat,
           NEW c1 \in Nat, NEW r1 \in Nat, NEW s1 \in Nat, NEW l1 \in Nat,
           NEW x1 \in Nat, NEW y1 \in Nat, NEW z1 \in Nat,
           z1 <= z,
           \/ c1 <= c /\ r1 <= r /\ s1 <= s /\ l <= l1 /\ x1 <= x /\ y1 <= y
           \/ c1 + 1 <= c /\ r1 <= r + 1 /\ s1 <= s /\ l <= l1 /\ x1 <= x /\ y1 <= y
           \/ c1 <= c /\ r1 + 1 <= r /\ s1 <= s + 1 /\ l <= l1 + 1 /\ x1 <= x /\ y1 + 1 <= y
           \/ c1 <= c /\ r1 + 1 <= r /\ s1 <= s /\ l <= l1 + 1 /\ x1 <= x /\ y1 <= y + 1
           \/ c1 <= c /\ r1 <= r /\ s1 + 1 <= s /\ l <= l1 /\ x1 <= x + 1 /\ y1 <= y
    PROVE  Weigh(c1, r1, s1, l1, x1, y1, z1) <= Weigh(c, r, s, l, x, y, z)
  BY DEF Weigh

\* The same of the load itself.
LEMMA LoadFalls ==
    ASSUME TypeOK, TypeOK', Imminent' <= Imminent,
           \/ /\ Coming' <= Coming /\ Reports' <= Reports /\ Sends' <= Sends /\ Light <= Light'
              /\ Transmits' <= Transmits /\ Skipped' <= Skipped
           \/ /\ Coming' + 1 <= Coming /\ Reports' <= Reports + 1 /\ Sends' <= Sends
              /\ Light <= Light' /\ Transmits' <= Transmits /\ Skipped' <= Skipped
           \/ /\ Coming' <= Coming /\ Reports' + 1 <= Reports /\ Sends' <= Sends + 1
              /\ Light <= Light' + 1 /\ Transmits' <= Transmits /\ Skipped' + 1 <= Skipped
           \/ /\ Coming' <= Coming /\ Reports' + 1 <= Reports /\ Sends' <= Sends
              /\ Light <= Light' + 1 /\ Transmits' <= Transmits /\ Skipped' <= Skipped + 1
           \/ /\ Coming' <= Coming /\ Reports' <= Reports /\ Sends' + 1 <= Sends
              /\ Light <= Light' /\ Transmits' <= Transmits + 1 /\ Skipped' <= Skipped
    PROVE  Load' <= Load
  <1>1. /\ Coming \in Nat /\ Reports \in Nat /\ Sends \in Nat /\ Light \in Nat
        /\ Coming' \in Nat /\ Reports' \in Nat /\ Sends' \in Nat /\ Light' \in Nat
    BY LoadNumbers, LoadNumbersNext
  <1>2. /\ Transmits \in Nat /\ Skipped \in Nat /\ Imminent \in Nat
        /\ Transmits' \in Nat /\ Skipped' \in Nat /\ Imminent' \in Nat
    BY DEF Transmits, Skipped, Imminent, One
  <1>3. Weigh(Coming', Reports', Sends', Light', Transmits', Skipped', Imminent')
          <= Weigh(Coming, Reports, Sends, Light, Transmits, Skipped, Imminent)
    BY <1>1, <1>2, Weighing
  <1> QED
    BY <1>3, Zenon DEF Load

\* A calm step keeps the load in its bounds.
LEMMA CalmStep ==
    ASSUME TypeOK, TypeOK', LoadInv, Calm
    PROVE  LoadInv'
  <1>1. /\ Measuring \in Nat /\ Coming \in Nat /\ Backlog \in Nat /\ Load \in Int
        /\ Reports \in Nat /\ Sends \in Nat
        /\ timer["heartbeat"] \in Nat /\ Period["heartbeat"] \in Nat /\ PoolUnits \in Nat
    BY LoadNumbers
  <1>2. /\ Measuring' \in Nat /\ Coming' \in Nat /\ Backlog' \in Nat /\ Load' \in Int
        /\ Reports' \in Nat /\ Sends' \in Nat
    BY LoadNumbersNext
  <1>3. NoSends'
    BY <1>1, <1>2 DEF LoadInv, NoSends, Calm
  <1>c. /\ Coming' <= Coming /\ Load' <= Load
        /\ Joining' => /\ Joining /\ Measuring' + Reports' <= Measuring + Reports
                       /\ timer'["heartbeat"] = timer["heartbeat"]
        /\ "heartbeat" \in due' => "heartbeat" \in due /\ Backlog' <= Backlog
    BY DEF Calm
  <1>4. Early'
    <2> SUFFICES ASSUME Joining'
                 PROVE  /\ timer'["heartbeat"] > 0 =>
                             Measuring' + Reports' + timer'["heartbeat"] <= Period["heartbeat"]
                        /\ "heartbeat" \in due' => Measuring' + Reports' <= Period["heartbeat"]
      BY DEF Early
    <2>1. /\ timer["heartbeat"] > 0 =>
               Measuring + Reports + timer["heartbeat"] <= Period["heartbeat"]
          /\ "heartbeat" \in due => Measuring + Reports <= Period["heartbeat"]
      BY <1>c DEF LoadInv, Early
    <2>2. ASSUME NEW a \in Nat, NEW b \in Nat, NEW h \in Nat, NEW p \in Nat, b <= a
          PROVE  /\ a + h <= p => b + h <= p
                 /\ a <= p => b <= p
      BY <2>2
    <2>3. Measuring + Reports \in Nat /\ Measuring' + Reports' \in Nat
      <3>1. \A a, b \in Nat : a + b \in Nat
        OBVIOUS
      <3> QED
        BY <1>1, <1>2, <3>1, Zenon
    <2>4. /\ Measuring + Reports + timer["heartbeat"] <= Period["heartbeat"]
               => Measuring' + Reports' + timer["heartbeat"] <= Period["heartbeat"]
          /\ Measuring + Reports <= Period["heartbeat"]
               => Measuring' + Reports' <= Period["heartbeat"]
      BY <1>1, <1>c, <2>2, <2>3
    <2> QED
      BY <1>c, <2>1, <2>4
  <1>5. Few' /\ Bounded'
    <2>1. Coming <= 3 /\ 2 * Load <= 3 * PoolUnits + 34
      BY DEF LoadInv, Few, Bounded
    <2>2. ASSUME NEW a \in Int, NEW b \in Int, NEW p \in Nat, b <= a, 2 * a <= 3 * p + 34
          PROVE  2 * b <= 3 * p + 34
      BY <2>2
    <2>3. 2 * Load' <= 3 * PoolUnits + 34
      BY <1>1, <1>2, <1>c, <2>1, <2>2
    <2>4. Coming' <= 3
      BY <1>1, <1>2, <1>c, <2>1
    <2> QED
      BY <2>3, <2>4 DEF Few, Bounded
  <1>6. Near'
    <2> SUFFICES ASSUME "heartbeat" \in due'
                 PROVE  8 * Backlog' <= 3 * PoolUnits + 26 \/ Backlog' <= Period["heartbeat"] + 1
      BY DEF Near
    <2>1. 8 * Backlog <= 3 * PoolUnits + 26 \/ Backlog <= Period["heartbeat"] + 1
      BY <1>c DEF LoadInv, Near
    <2>2. ASSUME NEW a \in Nat, NEW b \in Nat, NEW p \in Nat, NEW h \in Nat, b <= a
          PROVE  /\ 8 * a <= 3 * p + 26 => 8 * b <= 3 * p + 26
                 /\ a <= h + 1 => b <= h + 1
      BY <2>2
    <2>3. /\ 8 * Backlog <= 3 * PoolUnits + 26 => 8 * Backlog' <= 3 * PoolUnits + 26
          /\ Backlog <= Period["heartbeat"] + 1 => Backlog' <= Period["heartbeat"] + 1
      BY <1>1, <1>2, <1>c, <2>2
    <2> QED
      BY <2>1, <2>3
  <1> QED
    BY <1>3, <1>4, <1>5, <1>6 DEF LoadInv

\* What is on its way to the control task is a sum.
LEMMA ComingFalls ==
    ASSUME TypeOK, TypeOK'
    PROVE  LET B == One(Beats > 0 \/ "heartbeat" \in due)
               J == One(Joining)
           IN  /\ Measuring' <= Measuring /\ J' <= J /\ B' <= B => Coming' <= Coming
               /\ Measuring' <= Measuring + 1 /\ J' + 1 <= J /\ B' <= B => Coming' <= Coming
               /\ Measuring' <= Measuring + 1 /\ J' <= J /\ B' + 1 <= B => Coming' <= Coming
               /\ Measuring' + 1 <= Measuring /\ J' <= J /\ B' <= B => Coming' + 1 <= Coming
  <1> DEFINE B == One(Beats > 0 \/ "heartbeat" \in due)
             J == One(Joining)
  <1>1. /\ Measuring \in Nat /\ Measuring' \in Nat /\ J \in Nat /\ J' \in Nat
        /\ B \in Nat /\ B' \in Nat
    BY LoadNumbers, LoadNumbersNext DEF One
  <1>2. Coming = Measuring + J + B /\ Coming' = Measuring' + J' + B'
    BY DEF Coming
  <1> HIDE DEF B, J
  <1>3. ASSUME NEW m \in Nat, NEW j \in Nat, NEW b \in Nat,
               NEW m1 \in Nat, NEW j1 \in Nat, NEW b1 \in Nat
        PROVE  /\ m1 <= m /\ j1 <= j /\ b1 <= b => m1 + j1 + b1 <= m + j + b
               /\ m1 <= m + 1 /\ j1 + 1 <= j /\ b1 <= b => m1 + j1 + b1 <= m + j + b
               /\ m1 <= m + 1 /\ j1 <= j /\ b1 + 1 <= b => m1 + j1 + b1 <= m + j + b
               /\ m1 + 1 <= m /\ j1 <= j /\ b1 <= b => m1 + j1 + b1 + 1 <= m + j + b
    BY <1>3
  <1>4. /\ Measuring' <= Measuring /\ J' <= J /\ B' <= B => Coming' <= Coming
        /\ Measuring' <= Measuring + 1 /\ J' + 1 <= J /\ B' <= B => Coming' <= Coming
        /\ Measuring' <= Measuring + 1 /\ J' <= J /\ B' + 1 <= B => Coming' <= Coming
        /\ Measuring' + 1 <= Measuring /\ J' <= J /\ B' <= B => Coming' + 1 <= Coming
    BY <1>1, <1>2, <1>3
  <1> QED
    BY <1>4 DEF B, J

\* So is what is asked of the sensor, ...
LEMMA MeasuringFalls ==
    ASSUME TypeOK, TypeOK', "sensor_read" \in due' => "sensor_read" \in due
    PROVE  /\ Measures' <= Measures /\ Triggers' <= Triggers => Measuring' <= Measuring
           /\ Measures' <= Measures + 1 /\ Triggers' <= Triggers => Measuring' <= Measuring + 1
           /\ Measures' + 1 <= Measures /\ Triggers' <= Triggers + 1 => Measuring' <= Measuring
           /\ Measures' <= Measures /\ Triggers' + 1 <= Triggers => Measuring' + 1 <= Measuring
           /\ Measures' <= Measures + 1 /\ Triggers' <= Triggers
              /\ "sensor_read" \in due /\ "sensor_read" \notin due' => Measuring' <= Measuring
  <1> DEFINE D == One("sensor_read" \in due)
  <1>1. /\ Measures \in Nat /\ Measures' \in Nat /\ Triggers \in Nat /\ Triggers' \in Nat
        /\ D \in Nat /\ D' \in Nat /\ D' <= D
        /\ "sensor_read" \in due /\ "sensor_read" \notin due' => D' + 1 <= D
    <2>1. queue \in Queues /\ queue' \in Queues
      BY DEF TypeOK, Queues
    <2>2. /\ D \in Nat /\ D' \in Nat /\ D' <= D
          /\ "sensor_read" \in due /\ "sensor_read" \notin due' => D' + 1 <= D
      BY DEF One
    <2> QED
      BY <2>1, <2>2, Numbers, NumbersNext
  <1>2. Measuring = Measures + Triggers + D /\ Measuring' = Measures' + Triggers' + D'
    BY DEF Measuring
  <1> HIDE DEF D
  <1>3. ASSUME NEW m \in Nat, NEW t \in Nat, NEW d \in Nat,
               NEW m1 \in Nat, NEW t1 \in Nat, NEW d1 \in Nat, d1 <= d
        PROVE  /\ m1 <= m /\ t1 <= t => m1 + t1 + d1 <= m + t + d
               /\ m1 <= m + 1 /\ t1 <= t => m1 + t1 + d1 <= m + t + d + 1
               /\ m1 + 1 <= m /\ t1 <= t + 1 => m1 + t1 + d1 <= m + t + d
               /\ m1 <= m /\ t1 + 1 <= t => m1 + t1 + d1 + 1 <= m + t + d
               /\ m1 <= m + 1 /\ t1 <= t /\ d1 + 1 <= d => m1 + t1 + d1 <= m + t + d
    BY <1>3
  <1> QED
    BY <1>1, <1>2, <1>3

\* ... and what waits for the control task.
LEMMA BacklogFalls ==
    ASSUME TypeOK, TypeOK'
    PROVE  LET J == One(Joining)
           IN  /\ Measuring' <= Measuring /\ Reports' <= Reports /\ Sends' <= Sends /\ J' <= J
                     => Backlog' <= Backlog
               /\ Measuring' <= Measuring + 1 /\ Reports' <= Reports /\ Sends' <= Sends
                  /\ J' + 1 <= J => Backlog' <= Backlog
               /\ Measuring' + 1 <= Measuring /\ Reports' <= Reports + 1 /\ Sends' <= Sends
                  /\ J' <= J => Backlog' <= Backlog
               /\ Measuring' <= Measuring /\ Reports' + 1 <= Reports /\ Sends' <= Sends + 1
                  /\ J' <= J => Backlog' <= Backlog
  <1> DEFINE J == One(Joining)
  <1>1. /\ Measuring \in Nat /\ Measuring' \in Nat /\ J \in Nat /\ J' \in Nat
        /\ Reports \in Nat /\ Reports' \in Nat /\ Sends \in Nat /\ Sends' \in Nat
    BY LoadNumbers, LoadNumbersNext DEF One
  <1>2. /\ Backlog = Measuring + Reports + Sends + J
        /\ Backlog' = Measuring' + Reports' + Sends' + J'
    BY DEF Backlog
  <1> HIDE DEF J
  <1>3. ASSUME NEW m \in Nat, NEW r \in Nat, NEW s \in Nat, NEW j \in Nat,
               NEW m1 \in Nat, NEW r1 \in Nat, NEW s1 \in Nat, NEW j1 \in Nat
        PROVE  /\ m1 <= m /\ r1 <= r /\ s1 <= s /\ j1 <= j => m1 + r1 + s1 + j1 <= m + r + s + j
               /\ m1 <= m + 1 /\ r1 <= r /\ s1 <= s /\ j1 + 1 <= j
                    => m1 + r1 + s1 + j1 <= m + r + s + j
               /\ m1 + 1 <= m /\ r1 <= r + 1 /\ s1 <= s /\ j1 <= j
                    => m1 + r1 + s1 + j1 <= m + r + s + j
               /\ m1 <= m /\ r1 + 1 <= r /\ s1 <= s + 1 /\ j1 <= j
                    => m1 + r1 + s1 + j1 <= m + r + s + j
    BY <1>3
  <1>4. /\ Measuring' <= Measuring /\ Reports' <= Reports /\ Sends' <= Sends /\ J' <= J
              => Backlog' <= Backlog
        /\ Measuring' <= Measuring + 1 /\ Reports' <= Reports /\ Sends' <= Sends
           /\ J' + 1 <= J => Backlog' <= Backlog
        /\ Measuring' + 1 <= Measuring /\ Reports' <= Reports + 1 /\ Sends' <= Sends
           /\ J' <= J => Backlog' <= Backlog
        /\ Measuring' <= Measuring /\ Reports' + 1 <= Reports /\ Sends' <= Sends + 1
           /\ J' <= J => Backlog' <= Backlog
    BY <1>1, <1>2, <1>3
  <1> QED
    BY <1>4 DEF J

\* What a step does to the booleans of the load.
LEMMA OneFalls ==
    /\ (Joining' => Joining) => One(Joining)' <= One(Joining)
    /\ ~ Joining' /\ Joining => One(Joining)' + 1 <= One(Joining)
    /\ (Beats' > 0 \/ "heartbeat" \in due' => Beats > 0 \/ "heartbeat" \in due)
         => One(Beats > 0 \/ "heartbeat" \in due)' <= One(Beats > 0 \/ "heartbeat" \in due)
    /\ ~ (Beats' > 0 \/ "heartbeat" \in due') /\ (Beats > 0 \/ "heartbeat" \in due)
         => One(Beats > 0 \/ "heartbeat" \in due)' + 1 <= One(Beats > 0 \/ "heartbeat" \in due)
  BY DEF One

\* The step that only takes from what there is is calm.
LEMMA CalmLighter ==
    ASSUME TypeOK, TypeOK', Measuring' <= Measuring, Reports' <= Reports, Sends' <= Sends,
           Light <= Light', Transmits' <= Transmits, Skipped' <= Skipped,
           timer'["heartbeat"] = timer["heartbeat"], Joining' => Joining,
           Beats' > 0 \/ "heartbeat" \in due' => Beats > 0 \/ "heartbeat" \in due,
           "heartbeat" \in due' => "heartbeat" \in due
    PROVE  Calm
  <1>1. Coming' <= Coming
    BY ComingFalls, OneFalls
  <1>2. Backlog' <= Backlog
    BY BacklogFalls, OneFalls
  <1>3. Imminent' <= Imminent
    BY DEF Imminent, One
  <1>4. Load' <= Load
    BY <1>1, <1>3, LoadFalls
  <1>5. Measuring' + Reports' <= Measuring + Reports
    <2>1. \A m, r, m1, r1 \in Nat : m1 <= m /\ r1 <= r => m1 + r1 <= m + r
      OBVIOUS
    <2>2. Measuring \in Nat /\ Measuring' \in Nat /\ Reports \in Nat /\ Reports' \in Nat
      BY LoadNumbers, LoadNumbersNext
    <2> QED
      BY <2>1, <2>2
  <1> QED
    BY <1>1, <1>2, <1>4, <1>5 DEF Calm

\* The control task, in the state after a step.
LEMMA AtControl ==
    /\ Joining' <=> Joins' > 0 \/ (phase'["control"] = "radio" /\ cur'["control"] = "JOIN")
    /\ Sending' <=> phase'["control"] = "radio" /\ cur'["control"] = "SEND_DATA"
    /\ Light' = IF Sending' THEN 0 ELSE LightWaiting'
  BY DEF Joining, Sending, Light

\* Only joining leaves a JOIN: before the control task takes a message there is none, or
\* it is the one it takes.
LEMMA NoJoin ==
    ASSUME TypeOK, Shape, phase["control"] # "wait"
    PROVE  Joins = 0
  <1>1. Joins \in Nat
    BY Numbers DEF TypeOK, Queues
  <1> QED
    BY <1>1 DEF Shape, JoinFirst

\* What a move does to a count, whether or not the message is posted.
LEMMA Effect ==
    ASSUME queue \in Queues, queue' \in Queues,
           NEW t, NEW code, NEW u, NEW c, NEW k \in {0, 1}, Moved(t, code, u, c, k),
           NEW v \in Tasks, NEW d \in Codes
    PROVE  LET n == Count(queue[v], {d})
           IN  /\ v = t /\ code = d /\ ~ (v = u /\ c = d) => n' + 1 <= n
               /\ ~ (v = t /\ code = d) /\ v = u /\ c = d => n' <= n + 1
               /\ ~ (v = t /\ code = d) /\ ~ (v = u /\ c = d) => n' = n
  <1> DEFINE n == Count(queue[v], {d})
             m == Count(queue'[v], {d})
  <1>1. n \in Nat /\ m \in Nat
    BY CountPlaces DEF Queues
  <1>2. m + One(v = t /\ code \in {d}) = n + (IF v = u /\ c \in {d} THEN k ELSE 0)
    <2>1. {d} \in SUBSET Codes
      OBVIOUS
    <2> QED
      BY <2>1 DEF Moved
  <1>3. /\ v = t /\ code = d => One(v = t /\ code \in {d}) = 1
        /\ ~ (v = t /\ code = d) => One(v = t /\ code \in {d}) = 0
    BY DEF One
  <1>4. /\ v = u /\ c = d => (IF v = u /\ c \in {d} THEN k ELSE 0) = k
        /\ ~ (v = u /\ c = d) => (IF v = u /\ c \in {d} THEN k ELSE 0) = 0
    OBVIOUS
  <1> HIDE DEF n, m
  <1>5. v = t /\ code = d /\ ~ (v = u /\ c = d) => m + 1 <= n
    BY <1>1, <1>2, <1>3, <1>4
  <1>6. ~ (v = t /\ code = d) /\ v = u /\ c = d => m <= n + 1
    BY <1>1, <1>2, <1>3, <1>4
  <1>7. ~ (v = t /\ code = d) /\ ~ (v = u /\ c = d) => m = n
    BY <1>1, <1>2, <1>3, <1>4
  <1> QED
    BY <1>5, <1>6, <1>7 DEF n, m

\* A handler of another task leaves the control task where it is.
LEMMA OtherTask ==
    ASSUME TypeOK, TypeOK', NEW t \in Tasks \ {"control"}, NEW code, NEW where,
           Receive(t, code, where), UNCHANGED <<b_send, waited>>, Joins' = Joins,
           LightWaiting <= LightWaiting'
    PROVE  /\ Joining' <=> Joining
           /\ Light <= Light' /\ Transmits' <= Transmits /\ Skipped' <= Skipped
  <1>1. phase'["control"] = phase["control"] /\ cur'["control"] = cur["control"]
    BY DEF Receive, TypeOK, Tasks
  <1>2. (Joining' <=> Joining) /\ (Sending' <=> Sending)
    BY <1>1 DEF Joining, Sending
  <1>3. Light <= Light'
    <2>1. CASE Sending
      <3>1. Light = 0 /\ Light' = 0
        BY <1>2, <2>1, AtControl DEF Light
      <3> QED
        BY <3>1
    <2>2. CASE ~ Sending
      <3>1. Light = LightWaiting /\ Light' = LightWaiting'
        BY <1>2, <2>2, AtControl DEF Light
      <3> QED
        BY <3>1, Zenon
    <2> QED
      BY <2>1, <2>2
  <1>4. Transmits' <= Transmits /\ Skipped' <= Skipped
    BY <1>2 DEF Transmits, Skipped, One
  <1> QED
    BY <1>2, <1>3, <1>4

\* A handler of the control task has found the join over, and leaves it over.
LEMMA ControlTask ==
    ASSUME TypeOK, TypeOK', Shape, NEW code \in Codes \ {"JOIN"}, NEW where,
           Receive("control", code, where), Joins' <= Joins
    PROVE  ~ Joining /\ ~ Joining' /\ ~ Sending /\ Joins = 0 /\ Light = LightWaiting
           /\ (Sending' <=> where = "radio" /\ code = "SEND_DATA")
  <1>1. /\ phase["control"] = "wait" /\ phase'["control"] = where /\ cur'["control"] = code
        /\ Head(queue["control"]) = code
    BY DEF Receive, TypeOK, Tasks
  <1>2. Joins \in Nat /\ Joins' \in Nat
    BY Numbers, NumbersNext DEF TypeOK, Queues
  <1>3. Joins = 0 /\ Joins' = 0
    BY <1>1, <1>2 DEF Shape, JoinFirst
  <1>4. ~ Joining /\ ~ Sending /\ ~ Joining' /\ (Sending' <=> where = "radio" /\ code = "SEND_DATA")
    BY <1>1, <1>3, AtControl DEF Joining, Sending
  <1> QED
    BY <1>3, <1>4 DEF Light

\* Names and types that the steps below rely on.
Ground ==
    /\ queue \in Queues /\ queue' \in Queues /\ timer \in [Timers -> Nat]
    /\ {"control", "sensor", "event"} \subseteq Tasks
    /\ {"MEASURE", "READ_POWER", "EVENT_TRIGGER", "SENSOR_EVENT", "SEND_DATA", "PERIODIC",
        "JOIN"} \subseteq Codes
    /\ {"heartbeat", "sensor_read", "power"} \subseteq Timers
    /\ Measures \in Nat /\ Measures' \in Nat /\ Triggers \in Nat /\ Triggers' \in Nat
    /\ Reports \in Nat /\ Reports' \in Nat /\ Sends \in Nat /\ Sends' \in Nat
    /\ Beats \in Nat /\ Beats' \in Nat /\ Joins \in Nat /\ Joins' \in Nat
    /\ LightWaiting \in Nat /\ LightWaiting' \in Nat

\* They hold of any step.
LEMMA GroundStep == TypeOK /\ TypeOK' => Ground
  <1> SUFFICES ASSUME TypeOK, TypeOK' PROVE Ground
    OBVIOUS
  <1>1. queue \in Queues /\ queue' \in Queues /\ timer \in [Timers -> Nat]
    BY DEF TypeOK, Queues
  <1>2. /\ {"control", "sensor", "event"} \subseteq Tasks
        /\ {"MEASURE", "READ_POWER", "EVENT_TRIGGER", "SENSOR_EVENT", "SEND_DATA", "PERIODIC",
            "JOIN"} \subseteq Codes
        /\ {"heartbeat", "sensor_read", "power"} \subseteq Timers
    BY DEF Tasks, Codes, Events, Timers
  <1> QED
    BY <1>1, <1>2, Numbers, NumbersNext DEF Ground

\* A count falls by the message that is taken out, and rises by one that is put in.
Changes(n, n1, out, in) ==
    /\ out /\ ~ in => n1 + 1 <= n
    /\ ~ out /\ in => n1 <= n + 1
    /\ ~ out /\ ~ in => n1 = n

\* What a move does to the counts of the load.
LEMMA Effects ==
    ASSUME Ground, NEW t, NEW code, NEW u, NEW c, NEW k \in {0, 1}, Moved(t, code, u, c, k)
    PROVE  /\ Changes(Measures, Measures', t = "sensor" /\ code = "MEASURE",
                                           u = "sensor" /\ c = "MEASURE")
           /\ Changes(Triggers, Triggers', t = "event" /\ code = "EVENT_TRIGGER",
                                           u = "event" /\ c = "EVENT_TRIGGER")
           /\ Changes(Reports, Reports', t = "control" /\ code = "SENSOR_EVENT",
                                         u = "control" /\ c = "SENSOR_EVENT")
           /\ Changes(Sends, Sends', t = "control" /\ code = "SEND_DATA",
                                     u = "control" /\ c = "SEND_DATA")
           /\ Changes(Beats, Beats', t = "control" /\ code = "PERIODIC",
                                     u = "control" /\ c = "PERIODIC")
           /\ Changes(Joins, Joins', t = "control" /\ code = "JOIN",
                                     u = "control" /\ c = "JOIN")
           /\ ~ (t = "control" /\ code = "SENSOR_EVENT") => LightWaiting <= LightWaiting'
           /\ LightWaiting <= LightWaiting' + 1
  <1> DEFINE C(v, d) == Changes(Count(queue[v], {d}), Count(queue'[v], {d}),
                                t = v /\ code = d, u = v /\ c = d)
  <1>1. ASSUME NEW v \in Tasks, NEW d \in Codes PROVE C(v, d)
    BY Effect DEF Ground, Changes
  <1>2. /\ "control" \in Tasks /\ "sensor" \in Tasks /\ "event" \in Tasks
        /\ "MEASURE" \in Codes /\ "EVENT_TRIGGER" \in Codes /\ "SENSOR_EVENT" \in Codes
        /\ "SEND_DATA" \in Codes /\ "PERIODIC" \in Codes /\ "JOIN" \in Codes
    BY DEF Ground
  <1> HIDE DEF C
  <1>3. /\ C("sensor", "MEASURE") /\ C("event", "EVENT_TRIGGER") /\ C("control", "SENSOR_EVENT")
        /\ C("control", "SEND_DATA") /\ C("control", "PERIODIC") /\ C("control", "JOIN")
    BY <1>1, <1>2, Zenon
  <1>4. LightWaiting <= LightWaiting' + One(t = "control" /\ code = "SENSOR_EVENT")
    BY DEF Moved
  <1>5. /\ ~ (t = "control" /\ code = "SENSOR_EVENT")
             => One(t = "control" /\ code = "SENSOR_EVENT") = 0
        /\ One(t = "control" /\ code = "SENSOR_EVENT") \in 0 .. 1
    BY DEF One
  <1>6. /\ ~ (t = "control" /\ code = "SENSOR_EVENT") => LightWaiting <= LightWaiting'
        /\ LightWaiting <= LightWaiting' + 1
    <2>1. \A a, b \in Nat : \A o \in 0 .. 1 :
             a <= b + o => a <= b + 1 /\ (o = 0 => a <= b)
      OBVIOUS
    <2>2. LightWaiting \in Nat /\ LightWaiting' \in Nat
      BY DEF Ground
    <2> QED
      BY <1>4, <1>5, <2>1, <2>2, Zenon
  <1> QED
    BY <1>3, <1>6, Zenon DEF C, Measures, Triggers, Reports, Sends, Beats, Joins

\* The handler of MEASURE: what it took becomes an EVENT_TRIGGER.
LEMMA MeasureCalm == ASSUME TypeOK, TypeOK', Measure PROVE Calm
  <1> Ground
    BY GroundStep
  <1>1. /\ Receive("sensor", "MEASURE", "done") /\ Post(Taken("sensor"), "event", "EVENT_TRIGGER")
        /\ \/ timer' = timer /\ due' = due
           \/ /\ timer' = [timer EXCEPT !["sensor_read"] = Period["sensor_read"]]
              /\ due' = due \ {"sensor_read"}
        /\ UNCHANGED <<b_send, waited>>
    BY DEF Measure, StartTimer
  <1>2. PICK k \in {0, 1} : Moved("sensor", "MEASURE", "event", "EVENT_TRIGGER", k)
    BY <1>1, ReceiveMoves DEF Ground
  <1>3. /\ Measures' + 1 <= Measures /\ Triggers' <= Triggers + 1
        /\ Reports' = Reports /\ Sends' = Sends /\ Beats' = Beats /\ Joins' = Joins
        /\ LightWaiting <= LightWaiting'
    BY <1>2, Effects DEF Changes
  <1>5. /\ timer'["heartbeat"] = timer["heartbeat"]
        /\ "heartbeat" \in due' => "heartbeat" \in due
        /\ "sensor_read" \in due' => "sensor_read" \in due
    BY <1>1 DEF Ground
  <1>6. /\ Joining' <=> Joining
        /\ Light <= Light' /\ Transmits' <= Transmits /\ Skipped' <= Skipped
    BY <1>1, <1>3, OtherTask DEF Ground
  <1>7. Measuring' <= Measuring
    BY <1>3, <1>5, MeasuringFalls
  <1>8. /\ Reports' <= Reports /\ Sends' <= Sends
        /\ Beats' > 0 \/ "heartbeat" \in due' => Beats > 0 \/ "heartbeat" \in due
    BY <1>3, <1>5 DEF Ground
  <1> QED
    BY <1>5, <1>6, <1>7, <1>8, CalmLighter

\* READ_POWER has no handler.
LEMMA ReadPowerCalm == ASSUME TypeOK, TypeOK', ReadPower PROVE Calm
  <1> Ground
    BY GroundStep
  <1>1. /\ Receive("sensor", "READ_POWER", "done") /\ queue' = Taken("sensor")
        /\ UNCHANGED <<timer, due, b_send, waited>>
    BY DEF ReadPower
  <1>2. PICK k \in {0, 1} : Moved("sensor", "READ_POWER", "sensor", "READ_POWER", k)
    BY <1>1, ReceiveMoves DEF Ground
  <1>3. /\ Measures' = Measures /\ Triggers' = Triggers
        /\ Reports' = Reports /\ Sends' = Sends /\ Beats' = Beats /\ Joins' = Joins
        /\ LightWaiting <= LightWaiting'
    BY <1>2, Effects DEF Changes
  <1>6. /\ Joining' <=> Joining
        /\ Light <= Light' /\ Transmits' <= Transmits /\ Skipped' <= Skipped
    BY <1>1, <1>3, OtherTask DEF Ground
  <1>7. Measuring' <= Measuring
    <2>1. Measures' <= Measures /\ Triggers' <= Triggers
      BY <1>3 DEF Ground
    <2> QED
      BY <1>1, <2>1, MeasuringFalls
  <1>8. /\ Reports' <= Reports /\ Sends' <= Sends
        /\ Beats' > 0 \/ "heartbeat" \in due' => Beats > 0 \/ "heartbeat" \in due
    BY <1>1, <1>3 DEF Ground
  <1> QED
    BY <1>1, <1>6, <1>7, <1>8, CalmLighter

\* The event task: an EVENT_TRIGGER becomes a report.
LEMMA EventTriggerCalm == ASSUME TypeOK, TypeOK', EventTrigger PROVE Calm
  <1> Ground
    BY GroundStep
  <1>1. /\ Receive("event", "EVENT_TRIGGER", "done")
        /\ Post(Taken("event"), "control", "SENSOR_EVENT")
        /\ UNCHANGED <<timer, due, b_send, waited>>
    BY DEF EventTrigger
  <1>2. PICK k \in {0, 1} : Moved("event", "EVENT_TRIGGER", "control", "SENSOR_EVENT", k)
    BY <1>1, ReceiveMoves DEF Ground
  <1>3. /\ Measures' = Measures /\ Triggers' + 1 <= Triggers
        /\ Reports' <= Reports + 1 /\ Sends' = Sends /\ Beats' = Beats /\ Joins' = Joins
        /\ LightWaiting <= LightWaiting'
    BY <1>2, Effects DEF Changes
  <1>6. /\ Joining' <=> Joining
        /\ Light <= Light' /\ Transmits' <= Transmits /\ Skipped' <= Skipped
    BY <1>1, <1>3, OtherTask DEF Ground
  <1>7. Measuring' + 1 <= Measuring
    <2>1. Measures' <= Measures
      BY <1>3 DEF Ground
    <2> QED
      BY <1>1, <1>3, <2>1, MeasuringFalls
  <1>8. /\ Sends' <= Sends
        /\ Beats' > 0 \/ "heartbeat" \in due' => Beats > 0 \/ "heartbeat" \in due
    BY <1>1, <1>3 DEF Ground
  <1>9. Coming' + 1 <= Coming
    BY <1>6, <1>7, <1>8, ComingFalls, OneFalls
  <1>10. Backlog' <= Backlog
    BY <1>3, <1>6, <1>7, <1>8, BacklogFalls, OneFalls
  <1>11. Load' <= Load
    <2>1. Imminent' <= Imminent
      BY <1>1 DEF Imminent, One
    <2> QED
      BY <1>3, <1>6, <1>8, <1>9, <2>1, LoadFalls
  <1>12. Measuring' + Reports' <= Measuring + Reports
    <2>1. \A m, r, m1, r1 \in Nat : m1 + 1 <= m /\ r1 <= r + 1 => m1 + r1 <= m + r
      OBVIOUS
    <2>2. Measuring \in Nat /\ Measuring' \in Nat /\ Reports \in Nat /\ Reports' \in Nat
      BY LoadNumbers, LoadNumbersNext
    <2> QED
      BY <1>3, <1>7, <2>1, <2>2
  <1>13. Coming' <= Coming
    <2>1. Coming \in Nat /\ Coming' \in Nat
      BY LoadNumbers, LoadNumbersNext
    <2>2. \A a, b \in Nat : a + 1 <= b => a <= b
      OBVIOUS
    <2> QED
      BY <1>9, <2>1, <2>2
  <1> QED
    BY <1>1, <1>6, <1>8, <1>10, <1>11, <1>12, <1>13 DEF Calm

\* The steps of the control task.

\* The heartbeat asks for a measurement and is away for two ticks at least.
LEMMA HeartBeatCalm ==
    ASSUME DataloggerInv, DataloggerInv', Shape, Period["heartbeat"] >= 2, HeartBeat
    PROVE  Calm
  <1>t. TypeOK /\ TypeOK' /\ Single' /\ Ground
    BY GroundStep DEF DataloggerInv
  <1>1. /\ Receive("control", "PERIODIC", "done") /\ Post(Taken("control"), "sensor", "MEASURE")
        /\ timer' = [timer EXCEPT !["heartbeat"] = Period["heartbeat"]]
        /\ due' = due \ {"heartbeat"} /\ UNCHANGED <<b_send, waited>>
    BY DEF HeartBeat, StartTimer
  <1>2. PICK k \in {0, 1} : Moved("control", "PERIODIC", "sensor", "MEASURE", k)
    BY <1>t, <1>1, ReceiveMoves DEF Ground
  <1>3. /\ Measures' <= Measures + 1 /\ Triggers' = Triggers
        /\ Reports' = Reports /\ Sends' = Sends /\ Beats' + 1 <= Beats /\ Joins' = Joins
        /\ LightWaiting <= LightWaiting'
    BY <1>t, <1>2, Effects DEF Changes
  <1>4. /\ ~ Joining /\ ~ Joining' /\ ~ Sending /\ ~ Sending'
        /\ Light = LightWaiting
    BY <1>t, <1>1, <1>3, ControlTask DEF Ground
  <1>5. timer'["heartbeat"] = Period["heartbeat"] /\ "heartbeat" \notin due'
        /\ ("sensor_read" \in due' => "sensor_read" \in due)
    BY <1>t, <1>1 DEF Ground
  <1>6. Beats' = 0
    <2>1. Period["heartbeat"] \in Nat \ {0}
      BY <1>t, DataloggerAssumption DEF Ground
    <2>2. NonePeriodic(queue'["control"])
      BY <1>t, <1>5, <2>1 DEF Single
    <2>3. queue'["control"] \in Seq(Codes)
      BY <1>t DEF Ground, Queues
    <2> QED
      BY <2>2, <2>3, CountNone DEF NonePeriodic, Beats
  <1>7. Beats > 0
    <2>1. \A a, b \in Nat : a + 1 <= b => b > 0
      OBVIOUS
    <2>2. Beats \in Nat /\ Beats' \in Nat
      BY <1>t DEF Ground
    <2> QED
      BY <1>3, <2>1, <2>2
  <1>8. Measuring' <= Measuring + 1
    <2>1. Triggers' <= Triggers
      BY <1>t, <1>3 DEF Ground
    <2> QED
      BY <1>t, <1>3, <1>5, <2>1, MeasuringFalls
  <1>9. Coming' <= Coming
    <2>1. ~ (Beats' > 0 \/ "heartbeat" \in due')
      BY <1>5, <1>6
    <2> QED
      BY <1>t, <1>4, <1>7, <1>8, <2>1, ComingFalls, OneFalls
  <1>10. Load' <= Load
    <2>1. Imminent' <= Imminent
      <3>1. Period["heartbeat"] # 1
        OBVIOUS
      <3> QED
        BY <1>5, <3>1 DEF Imminent, One
    <2>2. Light <= Light'
      BY <1>3, <1>4, AtControl
    <2>3. Transmits' <= Transmits /\ Skipped' <= Skipped
      BY <1>1, <1>4 DEF Transmits, Skipped, One
    <2>4. Reports' <= Reports /\ Sends' <= Sends
      BY <1>t, <1>3 DEF Ground
    <2> QED
      BY <1>t, <1>9, <2>1, <2>2, <2>3, <2>4, LoadFalls
  <1> QED
    BY <1>4, <1>5, <1>9, <1>10 DEF Calm

\* The control task takes its JOIN and waits for the network.
LEMMA JoinCalm ==
    ASSUME TypeOK, TypeOK', Shape, Join
    PROVE  Calm
  <1> Ground
    BY GroundStep
  <1>1. /\ Receive("control", "JOIN", "radio") /\ queue' = Taken("control")
        /\ UNCHANGED <<timer, due, b_send, waited>>
    BY DEF Join
  <1>2. PICK k \in {0, 1} : Moved("control", "JOIN", "control", "JOIN", k)
    BY <1>1, ReceiveMoves DEF Ground
  <1>3. /\ Measures' = Measures /\ Triggers' = Triggers
        /\ Reports' = Reports /\ Sends' = Sends /\ Beats' = Beats
        /\ LightWaiting <= LightWaiting'
    BY <1>2, Effects DEF Changes
  <1>4. Joins > 0
    <2>1. /\ queue["control"] \in Seq(Codes) /\ queue["control"] # <<>>
          /\ Head(queue["control"]) = "JOIN"
      BY <1>1 DEF Receive, Ground, Queues
    <2>2. 1 \in 1 .. Len(queue["control"]) /\ queue["control"][1] \in {"JOIN"}
      BY <2>1
    <2>3. Joins # 0
      BY <2>1, <2>2, CountNone DEF Joins
    <2> QED
      BY <2>3 DEF Ground
  <1>5. /\ phase["control"] = "wait" /\ phase'["control"] = "radio" /\ cur'["control"] = "JOIN"
    BY <1>1 DEF Receive, TypeOK, Tasks
  <1>6. ~ Sending /\ ~ Sending' /\ Joining /\ Joining'
    BY <1>4, <1>5, AtControl DEF Joining, Sending
  <1>7. Light <= Light'
    BY <1>3, <1>6, AtControl DEF Light
  <1>8. Transmits' <= Transmits /\ Skipped' <= Skipped
    BY <1>1, <1>6 DEF Transmits, Skipped, One
  <1>9. Measuring' <= Measuring
    <2>1. Measures' <= Measures /\ Triggers' <= Triggers
      BY <1>3 DEF Ground
    <2> QED
      BY <1>1, <2>1, MeasuringFalls
  <1>10. /\ Reports' <= Reports /\ Sends' <= Sends
         /\ Beats' > 0 \/ "heartbeat" \in due' => Beats > 0 \/ "heartbeat" \in due
    BY <1>1, <1>3 DEF Ground
  <1> QED
    BY <1>1, <1>6, <1>7, <1>8, <1>9, <1>10, CalmLighter

\* The network has answered: what was joining becomes a measurement.
LEMMA JoinedCalm ==
    ASSUME TypeOK, TypeOK', Shape, Joined
    PROVE  Calm
  <1> Ground
    BY GroundStep
  <1>1. /\ Post(queue, "sensor", "MEASURE") /\ phase["control"] = "radio"
        /\ cur["control"] = "JOIN" /\ phase' = [phase EXCEPT !["control"] = "done"]
        /\ UNCHANGED <<cur, timer, due, b_send, waited>>
    BY DEF Joined
  <1>2. PICK k \in {0, 1} : Moved(None, "MEASURE", "sensor", "MEASURE", k)
    BY <1>1, PostMoves DEF Ground
  <1>3. /\ Measures' <= Measures + 1 /\ Triggers' = Triggers
        /\ Reports' = Reports /\ Sends' = Sends /\ Beats' = Beats /\ Joins' = Joins
        /\ LightWaiting <= LightWaiting'
    BY <1>2, Effects DEF Changes, None
  <1>4. Joins = 0 /\ phase'["control"] = "done"
    BY <1>1, NoJoin DEF TypeOK, Tasks
  <1>5. Joining /\ ~ Joining' /\ ~ Sending /\ ~ Sending'
    BY <1>1, <1>3, <1>4, AtControl DEF Joining, Sending
  <1>6. Light <= Light'
    BY <1>3, <1>5, AtControl DEF Light
  <1>7. Transmits' <= Transmits /\ Skipped' <= Skipped /\ Imminent' <= Imminent
    BY <1>1, <1>5 DEF Transmits, Skipped, Imminent, One
  <1>8. Measuring' <= Measuring + 1
    <2>1. Triggers' <= Triggers
      BY <1>3 DEF Ground
    <2> QED
      BY <1>1, <1>3, <2>1, MeasuringFalls
  <1>9. /\ Reports' <= Reports /\ Sends' <= Sends
        /\ Beats' > 0 \/ "heartbeat" \in due' => Beats > 0 \/ "heartbeat" \in due
    BY <1>1, <1>3 DEF Ground
  <1>10. Coming' <= Coming
    BY <1>5, <1>8, <1>9, ComingFalls, OneFalls
  <1>11. Load' <= Load
    BY <1>6, <1>7, <1>9, <1>10, LoadFalls
  <1>12. Backlog' <= Backlog
    BY <1>5, <1>8, <1>9, BacklogFalls, OneFalls
  <1> QED
    BY <1>1, <1>5, <1>10, <1>11, <1>12 DEF Calm

\* A report is taken: it is sent, and the next one is not, or the other way round.
LEMMA SensorEventCalm ==
    ASSUME TypeOK, TypeOK', Shape, SensorEvent
    PROVE  Calm
  <1> Ground
    BY GroundStep
  <1>1. /\ Receive("control", "SENSOR_EVENT", "done") /\ b_send' = ~ b_send
        /\ IF b_send' THEN Post(Taken("control"), "control", "SEND_DATA")
           ELSE queue' = Taken("control")
        /\ UNCHANGED <<timer, due, waited>> /\ b_send \in BOOLEAN
    BY DEF SensorEvent, TypeOK
  <1>2. /\ \E k \in {0, 1} : Moved("control", "SENSOR_EVENT", "control", "SEND_DATA", k)
        /\ ~ b_send' => \E k \in {0, 1} : Moved("control", "SENSOR_EVENT", "sensor", "READ_POWER", k)
    <2>1. queue' = Taken("control") \/ Post(Taken("control"), "control", "SEND_DATA")
      BY <1>1
    <2>2. \E k \in {0, 1} : Moved("control", "SENSOR_EVENT", "control", "SEND_DATA", k)
      BY <1>1, <2>1, ReceiveMoves DEF Ground
    <2>3. ~ b_send' => \E k \in {0, 1} :
                          Moved("control", "SENSOR_EVENT", "sensor", "READ_POWER", k)
      BY <1>1, ReceiveMoves DEF Ground
    <2> QED
      BY <2>2, <2>3
  <1>3. /\ Measures' = Measures /\ Triggers' = Triggers
        /\ Reports' + 1 <= Reports /\ Sends' <= Sends + 1 /\ Beats' = Beats /\ Joins' = Joins
        /\ LightWaiting <= LightWaiting' + 1
    BY <1>2, Effects DEF Changes
  <1>4. ~ b_send' => Sends' = Sends
    BY <1>2, Effects DEF Changes
  <1>5. ~ Joining /\ ~ Joining' /\ ~ Sending /\ ~ Sending' /\ Light = LightWaiting
    BY <1>1, <1>3, ControlTask DEF Ground
  <1>6. Measuring' <= Measuring
    <2>1. Measures' <= Measures /\ Triggers' <= Triggers
      BY <1>3 DEF Ground
    <2> QED
      BY <1>1, <2>1, MeasuringFalls
  <1>7. Beats' > 0 \/ "heartbeat" \in due' => Beats > 0 \/ "heartbeat" \in due
    BY <1>1, <1>3
  <1>8. Coming' <= Coming
    BY <1>5, <1>6, <1>7, ComingFalls, OneFalls
  <1>9. Backlog' <= Backlog
    BY <1>3, <1>5, <1>6, BacklogFalls, OneFalls
  <1>10. Light <= Light' + 1 /\ Transmits' <= Transmits /\ Imminent' <= Imminent
    <2>1. Light' = LightWaiting'
      BY <1>5, AtControl
    <2>2. Transmits' <= Transmits /\ Imminent' <= Imminent
      BY <1>1, <1>5 DEF Transmits, Imminent, One
    <2> QED
      BY <1>3, <1>5, <2>1, <2>2
  <1>11. Load' <= Load
    <2>1. CASE b_send'
      <3>1. Skipped' + 1 <= Skipped
        <4>1. Skipped' = 0
          BY <2>1 DEF Skipped, One
        <4>2. Skipped = 1
          <5>1. ~ b_send
            BY <1>1, <2>1
          <5> QED
            BY <5>1 DEF Skipped, One
        <4> QED
          BY <4>1, <4>2
      <3> QED
        BY <1>3, <1>8, <1>10, <3>1, LoadFalls
    <2>2. CASE ~ b_send'
      <3>1. Skipped' <= Skipped + 1 /\ Sends' <= Sends
        BY <1>1, <1>4, <2>2 DEF Skipped, One, Ground
      <3> QED
        BY <1>3, <1>8, <1>10, <3>1, LoadFalls
    <2> QED
      BY <2>1, <2>2
  <1> QED
    BY <1>1, <1>5, <1>8, <1>9, <1>11 DEF Calm

\* A transmission starts.
LEMMA SendDataCalm ==
    ASSUME TypeOK, TypeOK', Shape, SendData
    PROVE  Calm
  <1> Ground
    BY GroundStep
  <1>1. /\ Receive("control", "SEND_DATA", "radio") /\ queue' = Taken("control")
        /\ waited' = FALSE /\ UNCHANGED <<timer, due, b_send>>
    BY DEF SendData
  <1>2. PICK k \in {0, 1} : Moved("control", "SEND_DATA", "sensor", "READ_POWER", k)
    BY <1>1, ReceiveMoves DEF Ground
  <1>3. /\ Measures' = Measures /\ Triggers' = Triggers
        /\ Reports' = Reports /\ Sends' + 1 <= Sends /\ Beats' = Beats /\ Joins' = Joins
    BY <1>2, Effects DEF Changes
  <1>4. ~ Joining /\ ~ Joining' /\ ~ Sending /\ Sending' /\ Light = LightWaiting
    BY <1>1, <1>3, ControlTask DEF Ground
  <1>5. LightWaiting = 0
    <2>1. /\ queue["control"] \in Seq(Codes) /\ queue["control"] # <<>>
          /\ Head(queue["control"]) = "SEND_DATA"
      BY <1>1 DEF Receive, Ground, Queues
    <2> QED
      BY <2>1, LightTail DEF LightWaiting
  <1>6. Measuring' <= Measuring
    <2>1. Measures' <= Measures /\ Triggers' <= Triggers
      BY <1>3 DEF Ground
    <2> QED
      BY <1>1, <2>1, MeasuringFalls
  <1>7. Beats' > 0 \/ "heartbeat" \in due' => Beats > 0 \/ "heartbeat" \in due
    BY <1>1, <1>3
  <1>8. Coming' <= Coming
    BY <1>4, <1>6, <1>7, ComingFalls, OneFalls
  <1>9. Reports' <= Reports /\ Sends' <= Sends
    <2>1. \A a, b \in Nat : a + 1 <= b => a <= b
      OBVIOUS
    <2>2. Sends \in Nat /\ Sends' \in Nat
      BY DEF Ground
    <2>3. Sends' <= Sends
      BY <1>3, <2>1, <2>2
    <2>4. Reports' <= Reports
      BY <1>3 DEF Ground
    <2> QED
      BY <2>3, <2>4
  <1>10. Backlog' <= Backlog
    BY <1>4, <1>6, <1>9, BacklogFalls, OneFalls
  <1>11. /\ Light <= Light' /\ Transmits' <= Transmits + 1 /\ Skipped' <= Skipped
         /\ Imminent' <= Imminent
    <2>1. Light = 0 /\ Light' = 0
      BY <1>4, <1>5, AtControl
    <2>2. Transmits' <= Transmits + 1 /\ Skipped' <= Skipped /\ Imminent' <= Imminent
      BY <1>1, <1>4 DEF Transmits, Skipped, Imminent, One
    <2> QED
      BY <2>1, <2>2
  <1>12. Load' <= Load
    BY <1>3, <1>8, <1>9, <1>11, LoadFalls
  <1> QED
    BY <1>1, <1>4, <1>8, <1>10, <1>12 DEF Calm

\* A step that moves no message, starts no timer but the sensor's, and leaves the control
\* task no nearer to the radio is calm.
LEMMA IdleCalm ==
    ASSUME TypeOK, TypeOK', queue' = queue, due' = due, b_send' = b_send, waited' = waited,
           timer'["heartbeat"] = timer["heartbeat"], Joining' => Joining,
           \/ ~ Sending'
           \/ Sending' /\ Sending
    PROVE  Calm
  <1> Ground
    BY GroundStep
  <1>1. /\ Measures' = Measures /\ Triggers' = Triggers /\ Reports' = Reports
        /\ Sends' = Sends /\ Beats' = Beats /\ LightWaiting' = LightWaiting
    BY DEF Measures, Triggers, Reports, Sends, Beats, LightWaiting
  <1>2. Transmits' <= Transmits /\ Skipped' <= Skipped
    BY DEF Transmits, Skipped, One
  <1>3. Light <= Light'
    <2>1. CASE Sending
      <3>1. Light = 0 /\ Light' \in Nat
        BY <2>1, LoadNumbersNext DEF Light
      <3> QED
        BY <3>1
    <2>2. CASE ~ Sending
      <3>1. Light = LightWaiting /\ Light' = LightWaiting
        BY <1>1, <2>2, AtControl DEF Light
      <3> QED
        BY <3>1 DEF Ground
    <2> QED
      BY <2>1, <2>2
  <1>4. Measuring' <= Measuring
    <2>1. Measures' <= Measures /\ Triggers' <= Triggers
      BY <1>1 DEF Ground
    <2> QED
      BY <2>1, MeasuringFalls
  <1>5. /\ Reports' <= Reports /\ Sends' <= Sends
        /\ Beats' > 0 \/ "heartbeat" \in due' => Beats > 0 \/ "heartbeat" \in due
    BY <1>1 DEF Ground
  <1> QED
    BY <1>2, <1>3, <1>4, <1>5, CalmLighter

\* An interrupt puts into a queue what was due.
LEMMA TimerIsrCalm ==
    ASSUME DataloggerInv, TypeOK', Shape, NEW x \in Timers, TimerIsr(x)
    PROVE  Calm
  <1>t. TypeOK /\ Ground
    BY GroundStep DEF DataloggerInv
  <1>1. x \in due /\ due' = due \ {x} /\ UNCHANGED <<cur, phase, timer, b_send, waited>>
    BY DEF TimerIsr
  <1>2. /\ x = "heartbeat" => Post(queue, "control", "PERIODIC")
        /\ x = "power" => Post(queue, "sensor", "READ_POWER")
        /\ x = "sensor_read" => Post(queue, "sensor", "MEASURE")
        /\ x = "heartbeat" \/ x = "power" \/ x = "sensor_read"
    BY DEF TimerIsr, Message, Timers
  <1>3. /\ x = "heartbeat" => \E k \in {0, 1} : Moved(None, "PERIODIC", "control", "PERIODIC", k)
        /\ x = "power" => \E k \in {0, 1} : Moved(None, "READ_POWER", "sensor", "READ_POWER", k)
        /\ x = "sensor_read" => \E k \in {0, 1} : Moved(None, "MEASURE", "sensor", "MEASURE", k)
    BY <1>t, <1>2, PostMoves DEF Ground
  <1>4. /\ Triggers' = Triggers /\ Reports' = Reports /\ Sends' = Sends /\ Joins' = Joins
        /\ LightWaiting <= LightWaiting'
        /\ x # "heartbeat" => Beats' = Beats
        /\ x # "sensor_read" => Measures' = Measures
        /\ x = "sensor_read" => Measures' <= Measures + 1
    <2>1. CASE x = "heartbeat"
      BY <1>t, <1>3, <2>1, Effects DEF Changes, None
    <2>2. CASE x = "power"
      BY <1>t, <1>3, <2>2, Effects DEF Changes, None
    <2>3. CASE x = "sensor_read"
      BY <1>t, <1>3, <2>3, Effects DEF Changes, None
    <2> QED
      BY <1>2, <2>1, <2>2, <2>3
  <1>5. (Joining' <=> Joining) /\ (Sending' <=> Sending)
    BY <1>1, <1>4 DEF Joining, Sending
  <1>6. Light <= Light' /\ Transmits' <= Transmits /\ Skipped' <= Skipped
    <2>1. Light <= Light'
      <3>1. CASE Sending
        <4>1. Light = 0 /\ Light' \in Nat
          BY <3>1, LoadNumbersNext DEF Light
        <4> QED
          BY <4>1
      <3>2. CASE ~ Sending
        <4>1. Light = LightWaiting /\ Light' = LightWaiting'
          BY <1>5, <3>2, AtControl DEF Light
        <4> QED
          BY <1>4, <4>1, Zenon
      <3> QED
        BY <3>1, <3>2
    <2> QED
      BY <1>1, <1>5, <2>1 DEF Transmits, Skipped, One
  <1>7. Measuring' <= Measuring
    <2>1. Measures \in Nat /\ Measures' \in Nat /\ Triggers' <= Triggers
      BY <1>t, <1>4 DEF Ground
    <2>2. CASE x = "sensor_read"
      BY <1>t, <1>1, <1>4, <2>1, <2>2, MeasuringFalls
    <2>3. CASE x # "sensor_read"
      <3>1. Measures' <= Measures
        BY <1>4, <2>1, <2>3
      <3> QED
        BY <1>t, <1>1, <2>1, <3>1, MeasuringFalls
    <2> QED
      BY <2>2, <2>3
  <1>8. /\ Reports' <= Reports /\ Sends' <= Sends
        /\ Beats' > 0 \/ "heartbeat" \in due' => Beats > 0 \/ "heartbeat" \in due
        /\ "heartbeat" \in due' => "heartbeat" \in due
    BY <1>t, <1>1, <1>4 DEF Ground
  <1> QED
    BY <1>t, <1>1, <1>5, <1>6, <1>7, <1>8, CalmLighter

\* Every step but the tick and the start of the heartbeat is calm.
LEMMA CalmSteps ==
    ASSUME DataloggerInv, Shape, Period["heartbeat"] >= 2, [Next]_vars, ~ Tick, ~ LorawanInit
    PROVE  Calm
  <1>t. DataloggerInv' /\ TypeOK /\ TypeOK' /\ phase \in [Tasks -> Phases] /\ Ground
    BY DataloggerStep, GroundStep DEF DataloggerInv, TypeOK, Phases
  <1>c. {"control", "sensor", "event"} \subseteq Tasks
    BY DEF Tasks
  <1>1. CASE InitTasks
    <2>1. /\ phase["control"] = "init" /\ phase'["control"] = "lorawan"
          /\ UNCHANGED <<queue, cur, timer, due, b_send, waited>>
      BY <1>c, <1>1 DEF InitTasks
    <2>2. Joins' = 0
      <3>1. Joins = 0
        BY <1>t, <2>1, NoJoin
      <3> QED
        BY <2>1, <3>1 DEF Joins
    <2>3. ~ Joining' /\ ~ Sending'
      BY <2>1, <2>2, AtControl
    <2> QED
      BY <1>t, <2>1, <2>3, IdleCalm
  <1>2. CASE SensorInit
    <2>1. /\ phase'["control"] = phase["control"] /\ timer'["heartbeat"] = timer["heartbeat"]
          /\ UNCHANGED <<queue, cur, due, b_send, waited>>
      BY <1>t, <1>c, <1>2 DEF SensorInit, Ground
    <2>2. (Joining' => Joining) /\ (Sending' => Sending)
      BY <2>1 DEF Joining, Sending, Joins
    <2> QED
      BY <1>t, <2>1, <2>2, IdleCalm
  <1>3. ASSUME NEW t \in Tasks, Release(t) PROVE Calm
    <2>1. /\ phase[t] = "done" /\ phase' = [phase EXCEPT ![t] = "wait"]
          /\ cur' = [cur EXCEPT ![t] = None]
          /\ UNCHANGED <<queue, timer, due, b_send, waited>>
      BY <1>3 DEF Release
    <2>2. CASE t = "control"
      <3>1. phase["control"] = "done" /\ phase'["control"] = "wait"
        BY <1>t, <1>c, <2>1, <2>2
      <3>2. Joins = 0 /\ Joins' = Joins
        BY <1>t, <2>1, <3>1, NoJoin DEF Joins
      <3>3. ~ Joining' /\ ~ Sending'
        BY <3>1, <3>2, AtControl
      <3> QED
        BY <1>t, <2>1, <3>3, IdleCalm
    <2>3. CASE t # "control"
      <3>1. phase'["control"] = phase["control"] /\ cur'["control"] = cur["control"]
        BY <1>t, <1>c, <2>1, <2>3 DEF TypeOK
      <3>2. (Joining' => Joining) /\ (Sending' => Sending)
        BY <2>1, <3>1 DEF Joining, Sending, Joins
      <3> QED
        BY <1>t, <2>1, <3>2, IdleCalm
    <2> QED
      BY <2>2, <2>3
  <1>4. CASE SendOver
    <2>1. /\ phase["control"] = "radio" /\ phase'["control"] = "done"
          /\ UNCHANGED <<queue, cur, timer, due, b_send, waited>>
      BY <1>t, <1>c, <1>4 DEF SendOver, Sending
    <2>2. Joins = 0 /\ Joins' = Joins
      BY <1>t, <2>1, NoJoin DEF Joins
    <2>3. ~ Joining' /\ ~ Sending'
      BY <2>1, <2>2, AtControl
    <2> QED
      BY <1>t, <2>1, <2>3, IdleCalm
  <1>5. CASE UNCHANGED vars
    <2>1. UNCHANGED <<queue, cur, phase, timer, due, b_send, waited>>
      BY <1>5 DEF vars
    <2>2. (Joining' => Joining) /\ (Sending' => Sending)
      BY <2>1 DEF Joining, Sending, Joins
    <2> QED
      BY <1>t, <2>1, <2>2, IdleCalm
  <1>6. HeartBeat => Calm
    BY <1>t, HeartBeatCalm
  <1>7. /\ (Join => Calm) /\ (Joined => Calm) /\ (SensorEvent => Calm) /\ (SendData => Calm)
        /\ (Measure => Calm) /\ (ReadPower => Calm) /\ (EventTrigger => Calm)
    BY <1>t, JoinCalm, JoinedCalm, SensorEventCalm, SendDataCalm, MeasureCalm, ReadPowerCalm,
       EventTriggerCalm
  <1>8. ASSUME NEW x \in Timers, TimerIsr(x) PROVE Calm
    BY <1>t, <1>8, TimerIsrCalm
  <1> QED
    BY <1>1, <1>2, <1>3, <1>4, <1>5, <1>6, <1>7, <1>8, <1>c
       DEF Next, Run, Control, Sensor, Event, Radio

-----------------------------------------------------------------------------
(* The start *)

\* Where nothing waits and nothing is due, the load is next to nothing.
LEMMA Little ==
    ASSUME TypeOK, PoolUnits >= 54, Measuring = 0, Reports = 0, Sends = 0, ~ Sending,
           "heartbeat" \notin due, Beats = 0, timer["heartbeat"] <= Period["heartbeat"]
    PROVE  LoadInv
  <1>1. /\ Light = 0 /\ PoolUnits \in Nat /\ Period["heartbeat"] \in Nat
        /\ timer["heartbeat"] \in Nat
    BY LoadNumbers
  <1>2. Coming <= 1 /\ Coming \in Nat
    <2>1. One(Beats > 0 \/ "heartbeat" \in due) = 0 /\ One(Joining) \in 0 .. 1
      BY DEF One
    <2> QED
      BY <2>1 DEF Coming
  <1>3. Transmits = 0 /\ Skipped \in 0 .. 1 /\ Imminent \in 0 .. 1
    BY DEF Transmits, Skipped, Imminent, One
  <1>4. Load <= 9 /\ Load \in Int
    <2>1. \A c \in Nat, y, z \in 0 .. 1 : c <= 1 => /\ Weigh(c, 0, 0, 0, 0, y, z) <= 9
                                                    /\ Weigh(c, 0, 0, 0, 0, y, z) \in Int
      BY DEF Weigh
    <2>2. Load = Weigh(Coming, 0, 0, 0, 0, Skipped, Imminent)
      BY <1>1, <1>3, Zenon DEF Load
    <2> QED
      BY <1>2, <1>3, <2>1, <2>2
  <1>5. NoSends /\ Early /\ Few /\ Near
    BY <1>1, <1>2 DEF NoSends, Early, Few, Near
  <1>6. Bounded
    BY <1>1, <1>4 DEF Bounded
  <1> QED
    BY <1>5, <1>6 DEF LoadInv

\* The application starts without a load.
LEMMA LoadInit == Init /\ PoolUnits >= 54 => LoadInv
  <1> SUFFICES ASSUME Init, PoolUnits >= 54 PROVE LoadInv
    OBVIOUS
  <1>1. TypeOK
    BY DataloggerInit DEF DataloggerInv
  <1>2. /\ queue["control"] = <<>> /\ queue["sensor"] = <<>> /\ queue["event"] = <<>>
        /\ due = {} /\ timer["heartbeat"] = 0 /\ phase["control"] = "init"
    BY DEF Init, Tasks, Timers
  <1>3. Measures = 0 /\ Triggers = 0 /\ Reports = 0 /\ Sends = 0 /\ Beats = 0
    BY <1>1, <1>2, EmptyCounts
       DEF TypeOK, Tasks, Measures, Triggers, Reports, Sends, Beats
  <1>4. Measuring = 0 /\ ~ Sending
    BY <1>2, <1>3 DEF Measuring, One, Sending
  <1>5. timer["heartbeat"] <= Period["heartbeat"]
    BY <1>2, DataloggerAssumption DEF Timers
  <1> QED
    BY <1>1, <1>2, <1>3, <1>4, <1>5, Little

\* Little, after a step.
LEMMA LittleNext ==
    (/\ TypeOK /\ PoolUnits >= 54 /\ Measuring = 0 /\ Reports = 0 /\ Sends = 0 /\ ~ Sending
     /\ "heartbeat" \notin due /\ Beats = 0 /\ timer["heartbeat"] <= Period["heartbeat"])'
    => LoadInv'
  <1>1. /\ TypeOK /\ PoolUnits >= 54 /\ Measuring = 0 /\ Reports = 0 /\ Sends = 0 /\ ~ Sending
        /\ "heartbeat" \notin due /\ Beats = 0 /\ timer["heartbeat"] <= Period["heartbeat"]
        => LoadInv
    BY Little
  <1> QED
    BY <1>1, PTL

\* lorawan_init leaves one JOIN to handle.
LEMMA LorawanInitLoad ==
    ASSUME TypeOK, TypeOK', Shape, PoolUnits >= 54, LorawanInit
    PROVE  LoadInv'
  <1>c. {"control", "sensor", "event"} \subseteq Tasks /\ "heartbeat" \in Timers
    BY DEF Tasks, Timers
  <1>1. /\ phase["control"] = "lorawan" /\ phase' = [phase EXCEPT !["control"] = "wait"]
        /\ Post(queue, "control", "JOIN") \/ queue' = queue
        /\ timer' = [timer EXCEPT !["heartbeat"] = Period["heartbeat"]]
        /\ due' = due \ {"heartbeat"} /\ UNCHANGED <<cur, b_send, waited>>
    BY DEF LorawanInit, StartTimer
  <1>2. Ground /\ phase'["control"] = "wait" /\ timer'["heartbeat"] = Period["heartbeat"]
    BY <1>1, <1>c, GroundStep DEF TypeOK
  <1>3. due = {} /\ \A t \in Tasks : queue[t] = <<>>
    BY <1>1 DEF Shape, Quiet, Started
  <1>4. Measures = 0 /\ Triggers = 0 /\ Reports = 0 /\ Sends = 0 /\ Beats = 0
    BY <1>c, <1>3, EmptyCounts
       DEF TypeOK, Measures, Triggers, Reports, Sends, Beats
  <1>5. Measures' = 0 /\ Triggers' = 0 /\ Reports' = 0 /\ Sends' = 0 /\ Beats' = 0
    <2>1. CASE queue' = queue
      BY <1>4, <2>1 DEF Measures, Triggers, Reports, Sends, Beats
    <2>2. CASE Post(queue, "control", "JOIN")
      <3>1. \E k \in {0, 1} : Moved(None, "JOIN", "control", "JOIN", k)
        BY <1>2, <2>2, PostMoves DEF Ground
      <3> QED
        BY <1>2, <1>4, <3>1, Effects DEF Changes, None
    <2> QED
      BY <1>1, <2>1, <2>2
  <1>6. "heartbeat" \notin due' /\ "sensor_read" \notin due'
    BY <1>1, <1>3
  <1>7. Measuring' = 0
    BY <1>5, <1>6 DEF Measuring, One
  <1>8. ~ Sending'
    BY <1>2, AtControl
  <1>9. timer'["heartbeat"] <= Period["heartbeat"]
    BY <1>2, LoadNumbersNext
  <1> QED
    BY <1>5, <1>6, <1>7, <1>8, <1>9, LittleNext

-----------------------------------------------------------------------------
(* The tick *)

\* Part of a queue is no more than all of it.
LEMMA CountPart ==
    ASSUME NEW q \in Seq(Codes), NEW A, NEW B, A \subseteq B
    PROVE  Count(q, A) <= Count(q, B)
  <1>1. A \cup (B \ A) = B /\ A \cap (B \ A) = {}
    OBVIOUS
  <1>2. Count(q, A \cup (B \ A)) = Count(q, A) + Count(q, B \ A)
    BY <1>1, CountUnion
  <1>3. Count(q, B) = Count(q, A) + Count(q, B \ A)
    BY <1>1, <1>2, Zenon
  <1>4. Count(q, A) \in Nat /\ Count(q, B \ A) \in Nat
    BY CountPlaces
  <1> QED
    BY <1>3, <1>4

\* Each report that waits takes two units of the pool.
LEMMA ReportsFit ==
    ASSUME TypeOK, Fits
    PROVE  2 * Reports <= PoolUnits
  <1>1. queue["control"] \in Seq(Codes) /\ {"SENSOR_EVENT"} \subseteq Codes
        /\ {"SENSOR_EVENT"} \subseteq Events /\ cur["control"] \in Codes \cup {None}
        /\ {"control", "sensor", "event"} \subseteq Tasks
    BY DEF TypeOK, Codes, Events, Tasks
  <1>2. /\ Reports <= Count(queue["control"], Codes) /\ Reports <= Count(queue["control"], Events)
        /\ Reports \in Nat /\ Count(queue["control"], Codes) \in Nat
        /\ Count(queue["control"], Events) \in Nat
    BY <1>1, CountPart, CountPlaces DEF Reports
  <1>3. InUse = Space("control") + Space("sensor") + Space("event")
        /\ Space("control") \in Nat /\ Space("sensor") \in Nat /\ Space("event") \in Nat
    BY <1>1, InUseSpace
  <1>4. Cost(cur["control"]) \in 0 .. 2
    BY <1>1, CostType
  <1>5. 2 * Reports <= Space("control")
    BY <1>2, <1>4 DEF Space
  <1> QED
    BY <1>2, <1>3, <1>5, DataloggerAssumption DEF Fits

\* What the tick finds: the sensor and event tasks have nothing to do; and what it changes.
LEMMA TickFinds ==
    ASSUME DataloggerInv, TypeOK', Shape, ~ RadioStalls, Tick
    PROVE  /\ Measuring = 0 /\ Measuring' \in 0 .. 1
           /\ Reports' = Reports /\ Sends' = Sends /\ Light' = Light /\ b_send' = b_send
           /\ (Joining' <=> Joining) /\ (Sending' <=> Sending) /\ Transmits' = 0
           /\ Transmits = One(Sending)
           /\ timer'["heartbeat"]
                = IF timer["heartbeat"] > 0 THEN timer["heartbeat"] - 1 ELSE 0
           /\ "heartbeat" \in due' <=> timer["heartbeat"] = 1
           /\ \E b \in 0 .. 1 :
                 /\ timer["heartbeat"] = 1 => b = 0
                 /\ Coming = One(Joining) + b
                 /\ Coming' = Measuring' + One(Joining) + b + Imminent
                 /\ queue["control"] = <<>> => b = 0
  <1>t. TypeOK /\ Ground
    BY GroundStep DEF DataloggerInv
  <1>1. /\ \A t \in Tasks : Idle(t)
        /\ due = {} /\ ~ (Sending /\ waited)
        /\ timer' = [x \in Timers |-> IF timer[x] > 0 THEN timer[x] - 1 ELSE 0]
        /\ due' = {x \in Timers : timer[x] = 1}
        /\ (waited' <=> Sending)
        /\ UNCHANGED <<queue, cur, phase, b_send>>
    BY DEF Tick
  <1>2. queue["sensor"] = <<>> /\ queue["event"] = <<>>
    BY <1>t, <1>1 DEF Idle, Shape, Curs, Ground
  <1>3. Measures = 0 /\ Triggers = 0
    BY <1>t, <1>2, EmptyCounts DEF Measures, Triggers, Ground, Queues
  <1>4. /\ Measures' = Measures /\ Triggers' = Triggers /\ Reports' = Reports
        /\ Sends' = Sends /\ Beats' = Beats /\ Joins' = Joins /\ LightWaiting' = LightWaiting
    BY <1>1 DEF Measures, Triggers, Reports, Sends, Beats, Joins, LightWaiting
  <1>5. Measuring = 0 /\ Measuring' \in 0 .. 1
    BY <1>1, <1>3, <1>4 DEF Measuring, One
  <1>6. (Joining' <=> Joining) /\ (Sending' <=> Sending)
    BY <1>1, <1>4 DEF Joining, Sending
  <1>7. Light' = Light
    BY <1>4, <1>6 DEF Light
  <1>8. Transmits' = 0 /\ Transmits = One(Sending)
    BY <1>1, <1>6 DEF Transmits, One
  <1>9. /\ timer'["heartbeat"]
             = IF timer["heartbeat"] > 0 THEN timer["heartbeat"] - 1 ELSE 0
        /\ "heartbeat" \in due' <=> timer["heartbeat"] = 1
    BY <1>t, <1>1 DEF Ground
  <1>10. timer["heartbeat"] = 1 => Beats = 0
    <2> SUFFICES ASSUME timer["heartbeat"] = 1 PROVE Beats = 0
      OBVIOUS
    <2>1. NonePeriodic(queue["control"]) /\ queue["control"] \in Seq(Codes)
      BY <1>t DEF DataloggerInv, Single, Ground, Queues
    <2>2. \A i \in 1 .. Len(queue["control"]) : queue["control"][i] \notin {"PERIODIC"}
      BY <2>1 DEF NonePeriodic
    <2> QED
      BY <2>1, <2>2, CountNone DEF Beats
  <1>11. queue["control"] = <<>> => Beats = 0
    BY <1>t, EmptyCounts DEF Beats, Ground, Queues
  <1> DEFINE b == One(Beats > 0)
  <1>12. /\ b \in 0 .. 1 /\ (timer["heartbeat"] = 1 => b = 0)
         /\ (queue["control"] = <<>> => b = 0)
    BY <1>10, <1>11 DEF One
  <1>13. Coming = One(Joining) + b
    <2>1. One(Beats > 0 \/ "heartbeat" \in due) = b
      BY <1>1 DEF One
    <2>2. One(Joining) \in 0 .. 1
      BY DEF One
    <2> HIDE DEF b
    <2> QED
      BY <1>5, <1>12, <2>1, <2>2 DEF Coming
  <1>14. Coming' = Measuring' + One(Joining) + b + Imminent
    <2>1. CASE timer["heartbeat"] = 1
      <3>1. One(Beats' > 0 \/ "heartbeat" \in due') = 1 /\ b = 0 /\ Imminent = 1
        BY <1>9, <1>12, <2>1 DEF One, Imminent
      <3>2. One(Joining') = One(Joining) /\ One(Joining) \in 0 .. 1
        BY <1>6 DEF One
      <3> HIDE DEF b
      <3> QED
        BY <1>5, <3>1, <3>2 DEF Coming
    <2>2. CASE timer["heartbeat"] # 1
      <3>1. One(Beats' > 0 \/ "heartbeat" \in due') = b /\ Imminent = 0
        BY <1>4, <1>9, <2>2 DEF One, Imminent
      <3>2. One(Joining') = One(Joining) /\ One(Joining) \in 0 .. 1
        BY <1>6 DEF One
      <3> HIDE DEF b
      <3> QED
        BY <1>5, <1>12, <3>1, <3>2 DEF Coming
    <2> QED
      BY <2>1, <2>2
  <1>15. b_send' = b_send
    BY <1>1
  <1> HIDE DEF b
  <1> QED
    BY <1>4, <1>5, <1>6, <1>7, <1>8, <1>9, <1>12, <1>13, <1>14, <1>15

\* The control task joins, or it transmits, or it has nothing to do.
LEMMA ControlAtTick ==
    ASSUME TypeOK, Shape, NoSends, Tick
    PROVE  \/ Joining /\ ~ Sending /\ Sends = 0 /\ Light = Reports
           \/ ~ Joining /\ Sending /\ Light = 0
           \/ /\ ~ Joining /\ ~ Sending /\ queue["control"] = <<>>
              /\ Reports = 0 /\ Sends = 0 /\ Light = 0
  <1>t. "control" \in Tasks /\ queue \in Queues /\ queue["control"] \in Seq(Codes)
    BY DEF Tasks, TypeOK, Queues
  <1>1. CASE phase["control"] = "radio"
    <2>1. cur["control"] = "JOIN" \/ cur["control"] = "SEND_DATA"
      BY <1>t, <1>1 DEF Shape, Curs
    <2>2. Joins = 0
      BY <1>1, NoJoin
    <2>3. CASE cur["control"] = "JOIN"
      <3>1. Joining /\ ~ Sending /\ Sends = 0
        BY <1>1, <2>3 DEF Joining, Sending, NoSends
      <3>2. Light = Reports
        BY <1>t, <3>1, Numbers DEF Light
      <3> QED
        BY <3>1, <3>2
    <2>4. CASE cur["control"] = "SEND_DATA"
      BY <1>1, <2>2, <2>4 DEF Joining, Sending, Light
    <2> QED
      BY <2>1, <2>3, <2>4
  <1>2. CASE phase["control"] = "wait" /\ queue["control"] = <<>>
    <2>1. Joins = 0 /\ Reports = 0 /\ Sends = 0
      BY <1>t, <1>2, EmptyCounts DEF Joins, Reports, Sends
    <2>2. LightWaiting = 0
      BY <1>t, <2>1, Numbers
    <2> QED
      BY <1>2, <2>1, <2>2 DEF Joining, Sending, Light
  <1> QED
    BY <1>t, <1>1, <1>2 DEF Tick, Idle

\* A tick may ask for a measurement and a heartbeat, and pays for them with the
\* transmission that ends; where none does, what waits is bounded by the join or empty.
LEMMA TickLoad ==
    ASSUME RoomInv, Sizes, TypeOK', Tick
    PROVE  LoadInv'
  <1>t. DataloggerInv /\ TypeOK /\ Shape /\ LoadInv /\ NoSends /\ ~ RadioStalls
        /\ Period["heartbeat"] >= 2
    BY DEF RoomInv, DataloggerInv, LoadInv, Sizes
  <1>n. /\ Reports \in Nat /\ Sends \in Nat /\ timer["heartbeat"] \in Nat
        /\ Period["heartbeat"] \in Nat /\ PoolUnits \in Nat
    BY <1>t, LoadNumbers
  <1> DEFINE h == timer["heartbeat"]
             p == Period["heartbeat"]
             m == Measuring'
             J == One(Joining)
             R == Reports
             S == Sends
  <1>1. /\ Measuring = 0 /\ m \in 0 .. 1
        /\ Reports' = R /\ Sends' = S /\ Light' = Light /\ b_send' = b_send
        /\ (Joining' <=> Joining) /\ (Sending' <=> Sending) /\ Transmits' = 0
        /\ Transmits = One(Sending)
        /\ timer'["heartbeat"] = IF h > 0 THEN h - 1 ELSE 0
        /\ "heartbeat" \in due' <=> h = 1
    BY <1>t, TickFinds
  <1>2. PICK b \in 0 .. 1 : /\ h = 1 => b = 0
                            /\ Coming = J + b
                            /\ Coming' = m + J + b + Imminent
                            /\ queue["control"] = <<>> => b = 0
    BY <1>t, TickFinds
  <1>3. \/ Joining /\ ~ Sending /\ S = 0 /\ Light = R
        \/ ~ Joining /\ Sending /\ Light = 0
        \/ /\ ~ Joining /\ ~ Sending /\ queue["control"] = <<>>
           /\ R = 0 /\ S = 0 /\ Light = 0
    BY <1>t, ControlAtTick
  <1>4. /\ J = IF Joining THEN 1 ELSE 0
        /\ Transmits = IF Sending THEN 1 ELSE 0
        /\ Imminent = IF h = 1 THEN 1 ELSE 0
        /\ Imminent' \in 0 .. 1 /\ (h = 1 => Imminent' = 0)
        /\ Skipped \in 0 .. 1 /\ Skipped' = Skipped
        /\ One(Joining') = J
    BY <1>n, <1>1 DEF One, Transmits, Imminent, Skipped
  <1>5. /\ Load = Weigh(Coming, R, S, Light, Transmits, Skipped, Imminent)
        /\ Load' = Weigh(Coming', R, S, Light, 0, Skipped, Imminent')
        /\ Backlog' = m + R + S + J
    BY <1>1, <1>4 DEF Load, Backlog
  <1>6. Bounded /\ 2 * R <= PoolUnits
    BY <1>t, ReportsFit DEF LoadInv, Shape
  <1>7. /\ h > 0 /\ Joining => R + h <= p
        /\ 2 * Load <= 3 * PoolUnits + 34
    BY <1>t, <1>1, <1>n, <1>6 DEF LoadInv, Early, Bounded
  <1>8. NoSends'
    BY <1>1, <1>3 DEF NoSends
  <1>9. Early'
    <2> SUFFICES ASSUME Joining'
                 PROVE  /\ timer'["heartbeat"] > 0 => m + R + timer'["heartbeat"] <= p
                        /\ h = 1 => m + R <= p
      BY <1>1 DEF Early
    <2> HIDE DEF h, p, m, R
    <2> QED
      BY <1>n, <1>1, <1>7 DEF h, p, R
  <1>10. Coming \in Nat /\ Coming' \in Nat /\ Few'
    <2>1. Coming' <= 3 /\ Coming \in Nat /\ Coming' \in Nat
      <3> HIDE DEF h, m, J
      <3> QED
        BY <1>1, <1>2, <1>3, <1>4
    <2> QED
      BY <2>1 DEF Few
  <1>11. CASE Joining /\ ~ Sending /\ S = 0 /\ Light = R
    <2>1. ASSUME NEW c \in 0 .. 3, NEW r \in Nat, NEW y \in 0 .. 1, NEW z \in 0 .. 1,
                 2 * r <= PoolUnits
          PROVE  2 * Weigh(c, r, 0, r, 0, y, z) <= 3 * PoolUnits + 34
      BY <1>n, <2>1 DEF Weigh
    <2>2. Coming' \in 0 .. 3
      BY <1>10 DEF Few
    <2>3. 2 * Weigh(Coming', R, 0, R, 0, Skipped, Imminent') <= 3 * PoolUnits + 34
      BY <1>n, <1>4, <1>6, <2>1, <2>2
    <2>4. Bounded'
      BY <1>5, <1>11, <2>3 DEF Bounded
    <2>5. h = 1 => Backlog' <= p + 1
      <3> HIDE DEF h, p, m, R, S, J
      <3>1. J = 1 /\ h \in Nat /\ p \in Nat /\ R \in Nat
        BY <1>n, <1>4, <1>11 DEF h, p, R
      <3> QED
        BY <1>1, <1>5, <1>7, <1>11, <3>1
    <2>6. Near'
      BY <1>1, <2>5 DEF Near
    <2> QED
      BY <1>8, <1>9, <1>10, <2>4, <2>6 DEF LoadInv
  <1>12. CASE ~ Joining /\ Sending /\ Light = 0
    <2>1. ASSUME NEW c \in Nat, NEW d \in Nat, NEW r \in Nat, NEW s \in Nat,
                 NEW y \in 0 .. 1, NEW x \in 0 .. 1, NEW z \in 0 .. 1,
                 x = 1 => z = 0, d <= c + 1 + x
          PROVE  Weigh(d, r, s, 0, 0, y, z) <= Weigh(c, r, s, 0, 1, y, x)
      BY <2>1 DEF Weigh
    <2>2. Coming' <= Coming + 1 + Imminent /\ Imminent \in 0 .. 1 /\ (Imminent = 1 => Imminent' = 0)
      <3> HIDE DEF h, m, J
      <3> QED
        BY <1>1, <1>2, <1>4
    <2>3. Transmits = 1
      BY <1>4, <1>12
    <2>4. Weigh(Coming', R, S, 0, 0, Skipped, Imminent')
            <= Weigh(Coming, R, S, 0, 1, Skipped, Imminent)
      BY <1>n, <1>4, <1>10, <2>1, <2>2
    <2>5. Load' <= Load
      BY <1>5, <1>12, <2>3, <2>4, Zenon
    <2>6. Load \in Int /\ Load' \in Int
      BY <1>t, LoadNumbers, LoadNumbersNext
    <2>7. Bounded'
      <3>1. ASSUME NEW v \in Int, NEW w \in Int, w <= v, 2 * v <= 3 * PoolUnits + 34
            PROVE  2 * w <= 3 * PoolUnits + 34
        BY <1>n, <3>1
      <3>2. 2 * Load' <= 3 * PoolUnits + 34
        BY <1>7, <2>5, <2>6, <3>1
      <3> QED
        BY <3>2 DEF Bounded
    <2>8. h = 1 => 8 * Backlog' <= 3 * PoolUnits + 26
      <3> SUFFICES ASSUME h = 1 PROVE 8 * Backlog' <= 3 * PoolUnits + 26
        OBVIOUS
      <3>1. Coming = 0 /\ J = 0 /\ Imminent = 1
        BY <1>2, <1>4, <1>12
      <3>2. Load = Weigh(0, R, S, 0, 1, Skipped, 1)
        BY <1>5, <1>12, <2>3, <3>1, Zenon
      <3>3. ASSUME NEW r \in Nat, NEW s \in Nat, NEW y \in 0 .. 1, NEW n \in 0 .. 1,
                   2 * Weigh(0, r, s, 0, 1, y, 1) <= 3 * PoolUnits + 34
            PROVE  8 * (n + r + s + 0) <= 3 * PoolUnits + 26
        BY <1>n, <3>3 DEF Weigh
      <3>4. 2 * Weigh(0, R, S, 0, 1, Skipped, 1) <= 3 * PoolUnits + 34
        BY <1>7, <3>2
      <3>5. 8 * (m + R + S + 0) <= 3 * PoolUnits + 26
        BY <1>n, <1>1, <1>4, <3>3, <3>4
      <3> QED
        BY <1>5, <3>1, <3>5, Zenon
    <2>9. Near'
      BY <1>1, <2>8 DEF Near
    <2> QED
      BY <1>8, <1>9, <1>10, <2>7, <2>9 DEF LoadInv
  <1>13. CASE ~ Joining /\ ~ Sending /\ queue["control"] = <<>> /\ R = 0 /\ S = 0 /\ Light = 0
    <2>1. ASSUME NEW c \in 0 .. 3, NEW y \in 0 .. 1, NEW z \in 0 .. 1
          PROVE  2 * Weigh(c, 0, 0, 0, 0, y, z) <= 3 * PoolUnits + 34
      BY <1>n, <2>1 DEF Weigh
    <2>2. Coming' \in 0 .. 3
      BY <1>10 DEF Few
    <2>3. 2 * Weigh(Coming', 0, 0, 0, 0, Skipped, Imminent') <= 3 * PoolUnits + 34
      BY <1>4, <2>1, <2>2
    <2>4. Bounded'
      BY <1>5, <1>13, <2>3 DEF Bounded
    <2>5. Backlog' <= p + 1
      <3> HIDE DEF p, m, R, S, J
      <3>1. J = 0 /\ p \in Nat
        BY <1>n, <1>4, <1>13 DEF p
      <3> QED
        BY <1>1, <1>5, <1>13, <3>1
    <2>6. Near'
      BY <2>5 DEF Near
    <2> QED
      BY <1>8, <1>9, <1>10, <2>4, <2>6 DEF LoadInv
  <1> QED
    BY <1>3, <1>11, <1>12, <1>13

\* Every step keeps the whole of it.
LEMMA RoomStep == Sizes /\ RoomInv /\ [Next]_vars => RoomInv'
  <1> SUFFICES ASSUME Sizes, RoomInv, [Next]_vars PROVE RoomInv'
    OBVIOUS
  <1>1. DataloggerInv /\ Shape /\ LoadInv
    BY DEF RoomInv
  <1>2. DataloggerInv' /\ Shape' /\ TypeOK /\ TypeOK'
    BY <1>1, DataloggerStep, ShapeStep DEF DataloggerInv
  <1>3. LoadInv'
    <2>1. CASE Tick
      BY <1>2, <2>1, TickLoad
    <2>2. CASE LorawanInit
      <3>1. PoolUnits >= 54
        BY DEF Sizes
      <3> QED
        BY <1>1, <1>2, <2>2, <3>1, LorawanInitLoad
    <2>3. CASE ~ Tick /\ ~ LorawanInit
      <3>1. Period["heartbeat"] >= 2
        BY DEF Sizes
      <3>2. Calm
        BY <1>1, <2>3, <3>1, CalmSteps
      <3> QED
        BY <1>1, <1>2, <3>2, CalmStep
    <2> QED
      BY <2>1, <2>2, <2>3
  <1> QED
    BY <1>2, <1>3 DEF RoomInv

-----------------------------------------------------------------------------
(* The room for the heartbeat *)

\* The messages of a queue are those of the kinds that its task gets.
LEMMA QueueContents ==
    ASSUME TypeOK, Kinds
    PROVE  /\ Count(queue["control"], Codes) = Beats + Joins + Reports + Sends
           /\ Count(queue["control"], Events) = Reports
           /\ Count(queue["sensor"], Codes) = Measures + PowerReads
           /\ Count(queue["sensor"], Events) = 0
           /\ Count(queue["event"], Codes) = Triggers
           /\ Count(queue["event"], Events) = Triggers
  <1>1. /\ queue["control"] \in Seq(Codes) /\ queue["sensor"] \in Seq(Codes)
        /\ queue["event"] \in Seq(Codes)
        /\ {"control", "sensor", "event"} \subseteq Tasks
    BY DEF TypeOK, Tasks
  <1>n. queue \in Queues
    BY DEF TypeOK, Queues
  <1>2. /\ Measures \in Nat /\ PowerReads \in Nat /\ Triggers \in Nat
        /\ Reports \in Nat /\ Sends \in Nat /\ Beats \in Nat /\ Joins \in Nat
    BY <1>n, Numbers
  <1>3. ASSUME NEW t \in {"control", "sensor", "event"}
        PROVE  /\ Count(queue[t], Codes) = Count(queue[t], Kind(t))
               /\ \A A : A \subseteq Codes /\ A \cap Kind(t) = {} => Count(queue[t], A) = 0
    <2>1. queue[t] \in Seq(Codes) /\ t \in Tasks
      BY <1>1
    <2>2. Count(queue[t], Codes \ Kind(t)) = 0
      BY <2>1 DEF Kinds
    <2>3. Codes = Kind(t) \cup (Codes \ Kind(t)) /\ Kind(t) \cap (Codes \ Kind(t)) = {}
      BY <2>1, KindCodes
    <2>4. Count(queue[t], Kind(t) \cup (Codes \ Kind(t)))
            = Count(queue[t], Kind(t)) + Count(queue[t], Codes \ Kind(t))
      BY <2>1, <2>3, CountUnion
    <2>5. Count(queue[t], Codes) = Count(queue[t], Kind(t)) + Count(queue[t], Codes \ Kind(t))
      BY <2>3, <2>4, Zenon
    <2>6. Count(queue[t], Kind(t)) \in Nat
      BY <2>1, CountPlaces
    <2>7. ASSUME NEW A, A \subseteq Codes, A \cap Kind(t) = {} PROVE Count(queue[t], A) = 0
      <3>1. A \subseteq Codes \ Kind(t)
        BY <2>7
      <3>2. Count(queue[t], A) <= Count(queue[t], Codes \ Kind(t))
        BY <2>1, <3>1, CountPart
      <3>3. Count(queue[t], A) \in Nat
        BY <2>1, CountPlaces
      <3> QED
        BY <2>2, <3>2, <3>3
    <2> QED
      BY <2>2, <2>5, <2>6, <2>7
  <1>4. /\ Count(queue["control"], Kind("control")) = Beats + Joins + Reports + Sends
        /\ Count(queue["control"], Events) = Reports
    <2> DEFINE q == queue["control"]
    <2>1. Count(q, {"PERIODIC"} \cup {"JOIN"}) = Beats + Joins
      BY <1>1, CountUnion DEF Beats, Joins
    <2>2. Count(q, {"SENSOR_EVENT"} \cup {"SEND_DATA"}) = Reports + Sends
      BY <1>1, CountUnion DEF Reports, Sends
    <2>3. Count(q, ({"PERIODIC"} \cup {"JOIN"}) \cup ({"SENSOR_EVENT"} \cup {"SEND_DATA"}))
            = Count(q, {"PERIODIC"} \cup {"JOIN"}) + Count(q, {"SENSOR_EVENT"} \cup {"SEND_DATA"})
      BY <1>1, CountUnion
    <2>4. Kind("control")
            = ({"PERIODIC"} \cup {"JOIN"}) \cup ({"SENSOR_EVENT"} \cup {"SEND_DATA"})
      BY KindCodes
    <2>5. Count(q, Kind("control"))
            = Count(q, ({"PERIODIC"} \cup {"JOIN"}) \cup ({"SENSOR_EVENT"} \cup {"SEND_DATA"}))
      BY <2>4, Zenon
    <2>6. Count(q, {"SENSOR_EVENT"} \cup {"EVENT_TRIGGER"})
            = Count(q, {"SENSOR_EVENT"}) + Count(q, {"EVENT_TRIGGER"})
      BY <1>1, CountUnion
    <2>7. Events = {"SENSOR_EVENT"} \cup {"EVENT_TRIGGER"}
      BY DEF Events
    <2>8. Count(q, Events) = Count(q, {"SENSOR_EVENT"} \cup {"EVENT_TRIGGER"})
      BY <2>7, Zenon
    <2>9. Count(q, {"EVENT_TRIGGER"}) = 0
      <3>1. {"EVENT_TRIGGER"} \subseteq Codes /\ {"EVENT_TRIGGER"} \cap Kind("control") = {}
        BY KindCodes DEF Codes, Events
      <3> QED
        BY <1>3, <3>1
    <2>10. Count(q, {"SENSOR_EVENT"}) = Reports
      BY DEF Reports
    <2> HIDE DEF q
    <2>11. Count(q, Kind("control")) = Beats + Joins + Reports + Sends
      BY <1>2, <2>1, <2>2, <2>3, <2>5
    <2>12. Count(q, Events) = Reports
      BY <1>2, <2>6, <2>8, <2>9, <2>10
    <2> QED
      BY <2>11, <2>12 DEF q
  <1>5. /\ Count(queue["sensor"], Kind("sensor")) = Measures + PowerReads
        /\ Count(queue["sensor"], Events) = 0
    <2>1. Count(queue["sensor"], {"MEASURE"} \cup {"READ_POWER"}) = Measures + PowerReads
      BY <1>1, CountUnion DEF Measures, PowerReads
    <2>2. Kind("sensor") = {"MEASURE"} \cup {"READ_POWER"}
      BY KindCodes
    <2>3. Count(queue["sensor"], Kind("sensor")) = Measures + PowerReads
      BY <2>1, <2>2, Zenon
    <2>4. Events \subseteq Codes /\ Events \cap Kind("sensor") = {}
      BY KindCodes DEF Codes, Events
    <2> QED
      BY <1>3, <2>3, <2>4
  <1>6. /\ Count(queue["event"], Kind("event")) = Triggers
        /\ Count(queue["event"], Events) = Triggers
    <2> DEFINE q == queue["event"]
    <2>1. Count(q, Kind("event")) = Triggers
      BY KindCodes DEF Triggers
    <2>2. Count(q, {"EVENT_TRIGGER"} \cup {"SENSOR_EVENT"})
            = Count(q, {"EVENT_TRIGGER"}) + Count(q, {"SENSOR_EVENT"})
      BY <1>1, CountUnion
    <2>3. Events = {"EVENT_TRIGGER"} \cup {"SENSOR_EVENT"}
      BY DEF Events
    <2>4. Count(q, Events) = Count(q, {"EVENT_TRIGGER"} \cup {"SENSOR_EVENT"})
      BY <2>3, Zenon
    <2>5. Count(q, {"SENSOR_EVENT"}) = 0
      <3>1. {"SENSOR_EVENT"} \subseteq Codes /\ {"SENSOR_EVENT"} \cap Kind("event") = {}
        BY KindCodes DEF Codes, Events
      <3> QED
        BY <1>3, <3>1
    <2>6. Count(q, {"EVENT_TRIGGER"}) = Triggers
      BY DEF Triggers
    <2> HIDE DEF q
    <2>7. Count(q, Events) = Triggers
      BY <1>2, <2>2, <2>4, <2>5, <2>6
    <2> QED
      BY <2>1, <2>7 DEF q
  <1> QED
    BY <1>3, <1>4, <1>5, <1>6

\* A heartbeat that is due finds room for its message.
LEMMA Room == RoomInv /\ Sizes => HeartbeatHasRoom
  <1> SUFFICES ASSUME RoomInv, Sizes, "heartbeat" \in due
               PROVE  MayTake("PERIODIC") /\ Len(queue["control"]) < QueueDepth
    BY DEF HeartbeatHasRoom
  <1>t. TypeOK /\ Single /\ Kinds /\ Curs /\ JoinFirst /\ PowerOnce /\ Near
    BY DEF RoomInv, DataloggerInv, Shape, LoadInv
  <1>c. /\ {"control", "sensor", "event"} \subseteq Tasks /\ queue \in Queues
        /\ queue["control"] \in Seq(Codes)
        /\ cur["control"] \in Codes \cup {None} /\ cur["sensor"] \in Codes \cup {None}
        /\ cur["event"] \in Codes \cup {None}
    BY <1>t DEF TypeOK, Tasks, Queues
  <1>n. /\ Measures \in Nat /\ PowerReads \in Nat /\ Triggers \in Nat
        /\ Reports \in Nat /\ Sends \in Nat /\ Joins \in Nat
    BY <1>c, Numbers
  <1>1. Beats = 0
    <2>1. NonePeriodic(queue["control"])
      BY <1>t DEF Single
    <2>2. \A i \in 1 .. Len(queue["control"]) : queue["control"][i] \notin {"PERIODIC"}
      BY <2>1 DEF NonePeriodic
    <2> QED
      BY <1>c, <2>2, CountNone DEF Beats
  <1>2. PowerReads <= 1
    <2>1. One(timer["power"] > 0) \in 0 .. 1 /\ One("power" \in due) \in 0 .. 1
      BY DEF One
    <2> QED
      BY <1>t, <1>n, <2>1 DEF PowerOnce
  <1>3. Joins <= One(Joining) /\ One(Joining) \in 0 .. 1 /\ One("sensor_read" \in due) \in 0 .. 1
    BY <1>t, <1>n DEF JoinFirst, Joining, One
  <1>4. /\ Cost(cur["control"]) \in 0 .. 2 /\ Cost(cur["event"]) \in 0 .. 2
        /\ Cost(cur["sensor"]) \in 0 .. 1
    <2>1. /\ Cost(cur["control"]) \in 0 .. 2 /\ Cost(cur["event"]) \in 0 .. 2
      BY <1>c, CostType
    <2>2. Cost(cur["sensor"]) \in 0 .. 1
      BY <1>t DEF Curs, Cost
    <2> QED
      BY <2>1, <2>2
  <1>5. /\ Space("control") = Joins + 2 * Reports + Sends + Cost(cur["control"])
        /\ Space("sensor") = Measures + PowerReads + Cost(cur["sensor"])
        /\ Space("event") = 2 * Triggers + Cost(cur["event"])
    BY <1>t, <1>n, <1>1, <1>4, QueueContents DEF Space
  <1>6. InUse <= 2 * Backlog + 6 /\ Backlog \in Nat /\ InUse \in Nat
    <2>1. InUse = Space("control") + Space("sensor") + Space("event")
      BY <1>t, InUseSpace
    <2>2. Backlog = Measures + Triggers + One("sensor_read" \in due) + Reports + Sends + One(Joining)
      BY DEF Backlog, Measuring
    <2>3. ASSUME NEW a \in Nat, NEW w \in Nat, NEW t \in Nat, NEW r \in Nat, NEW s \in Nat,
                 NEW j \in Nat, NEW J \in 0 .. 1, NEW d \in 0 .. 1, w <= 1, j <= J,
                 NEW x \in 0 .. 2, NEW y \in 0 .. 1, NEW z \in 0 .. 2
          PROVE  (j + 2 * r + s + x) + (a + w + y) + (2 * t + z)
                   <= 2 * (a + t + d + r + s + J) + 6
      BY <2>3
    <2>4. (Joins + 2 * Reports + Sends + Cost(cur["control"]))
            + (Measures + PowerReads + Cost(cur["sensor"])) + (2 * Triggers + Cost(cur["event"]))
          <= 2 * (Measures + Triggers + One("sensor_read" \in due) + Reports + Sends + One(Joining))
               + 6
      BY <1>n, <1>2, <1>3, <1>4, <2>3
    <2>5. InUse <= 2 * Backlog + 6
      BY <1>5, <2>1, <2>2, <2>4, Zenon
    <2>6. Backlog \in Nat
      BY <1>t, LoadNumbers
    <2>7. InUse \in Nat
      BY <1>t, <1>c, <2>1, InUseSpace
    <2> QED
      BY <2>5, <2>6, <2>7
  <1>7. Len(queue["control"]) <= Backlog /\ Len(queue["control"]) \in Nat
    <2>1. Count(queue["control"], Codes) = Len(queue["control"])
      <3>1. \A i \in 1 .. Len(queue["control"]) : queue["control"][i] \in Codes
        BY <1>c
      <3> QED
        BY <1>c, <3>1, CountAll
    <2>2. Len(queue["control"]) = Joins + Reports + Sends
      BY <1>t, <1>n, <1>1, <2>1, QueueContents
    <2>3. Measuring \in Nat
      BY <1>t, LoadNumbers
    <2> QED
      BY <1>n, <1>3, <2>2, <2>3 DEF Backlog
  <1>8. 8 * Backlog <= 3 * PoolUnits + 26 \/ Backlog <= Period["heartbeat"] + 1
    BY <1>t DEF Near
  <1>9. /\ PoolUnits \in Nat /\ QueueDepth \in Nat /\ Period["heartbeat"] \in Nat
    BY DataloggerAssumption DEF Timers
  <1>10. ASSUME NEW u \in Nat, NEW v \in Nat, NEW l \in Nat, NEW p \in Nat,
                u <= 2 * v + 6, l <= v, 8 * v <= 3 * PoolUnits + 26 \/ v <= p + 1,
                PoolUnits >= 54, PoolUnits >= 2 * p + 9,
                8 * QueueDepth > 3 * PoolUnits + 26, QueueDepth > p + 1
         PROVE  u + 1 <= PoolUnits /\ l < QueueDepth
    BY <1>9, <1>10
  <1>11. InUse + 1 <= PoolUnits /\ Len(queue["control"]) < QueueDepth
    BY <1>6, <1>7, <1>8, <1>9, <1>10 DEF Sizes
  <1>12. Cost("PERIODIC") = 1
    BY DEF Cost, None, Events
  <1> QED
    BY <1>11, <1>12 DEF MayTake

\* Whenever the heartbeat timer has run out, its interrupt finds a buffer and a place
\* in the queue of the control task (periodic_timer_callback_isr, sys_core.c:358), in
\* every order of threads, interrupts and answers of the radio, for every pool, queue
\* and heartbeat of these sizes, if a transmission never takes more than a tick.
THEOREM HeartbeatAlwaysHasRoom ==
    ASSUME Sizes
    PROVE  Spec => []HeartbeatHasRoom
  <1>1. Init => RoomInv
    <2>1. PoolUnits >= 54
      BY DEF Sizes
    <2> QED
      BY <2>1, DataloggerInit, ShapeInit, LoadInit DEF RoomInv
  <1>2. RoomInv /\ [Next]_vars => RoomInv'
    BY RoomStep
  <1>3. RoomInv => HeartbeatHasRoom
    BY Room
  <1> QED
    BY <1>1, <1>2, <1>3, PTL DEF Spec

\* For these sizes the heartbeat is never lost and never doubled (control_task.c:323),
\* without a condition on the states the application reaches.
THEOREM HeartbeatNeverLost ==
    ASSUME Sizes
    PROVE  Spec => []HeartbeatGoesOn
  <1>1. Spec => []HeartbeatHasRoom
    BY HeartbeatAlwaysHasRoom
  <1> QED
    BY <1>1, HeartbeatGoesOnWithRoom, PTL

\* The product's sizes are of this kind: a pool with room for 60 messages
\* (CONFIG_BUFFER_POOL_SIZE), queues of MSG_TASK_QUEUE_DEPTH, and a heartbeat of two
\* sensor intervals.
LEMMA ShippedSizes ==
    PoolUnits = 60 /\ QueueDepth = 32 /\ Period["heartbeat"] = 2 /\ ~ RadioStalls => Sizes
  BY DEF Sizes

\* As shipped, with a radio whose transmissions end within a tick, the application never
\* loses its heartbeat, however long a join takes.
THEOREM ShippedHeartbeat ==
    ASSUME PoolUnits = 60, QueueDepth = 32, Period["heartbeat"] = 2, ~ RadioStalls
    PROVE  Spec => []HeartbeatGoesOn
  BY ShippedSizes, HeartbeatNeverLost
=============================================================================
