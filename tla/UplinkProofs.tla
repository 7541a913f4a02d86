------------------------------ MODULE UplinkProofs ------------------------------
(***************************************************************************)
(* Proofs about Uplink, for any depth of the queue and any number of        *)
(* measurements.                                                            *)
(***************************************************************************)
EXTENDS Uplink, TLAPS

Messages == Measurements \cup {SEND_DATA}

Queues == {q \in Seq(Messages) : Len(q) <= QueueDepth}

\* the measurements of q are in the order they were taken
Ordered(q) ==
    \A i, j \in 1 .. Len(q) :
      i < j /\ q[i] \in Measurements /\ q[j] \in Measurements => q[i] < q[j]

UpTo(q, n) == \A i \in 1 .. Len(q) : q[i] \in Measurements => q[i] <= n
After(q, n) == \A i \in 1 .. Len(q) : q[i] \in Measurements => n < q[i]

\* Sent, waiting to be sent, queued, taken: in this order.
Order ==
    /\ Ordered(queue) /\ UpTo(queue, taken) /\ After(queue, last)
    /\ tx_data \in Measurements => /\ last < tx_data /\ tx_data <= taken
                                   /\ After(queue, tx_data)
    /\ last <= taken

UplinkInv == TypeOK /\ Order

-----------------------------------------------------------------------------
(* The queue *)

\* Taking the first message keeps the order, and leaves what comes after it.
LEMMA TailQueue ==
    ASSUME NEW q \in Queues, q # <<>>, Ordered(q)
    PROVE  /\ Tail(q) \in Queues /\ Head(q) \in Messages
           /\ Ordered(Tail(q))
           /\ \A n \in Nat : UpTo(q, n) => UpTo(Tail(q), n)
           /\ \A n \in Nat : After(q, n) => After(Tail(q), n)
           /\ Head(q) \in Measurements => After(Tail(q), Head(q))
  <1>1. /\ Tail(q) \in Seq(Messages) /\ Len(Tail(q)) = Len(q) - 1 /\ Len(q) \in Nat \ {0}
        /\ Head(q) = q[1] /\ Head(q) \in Messages
    BY DEF Queues
  <1>2. \A i \in 1 .. Len(Tail(q)) : Tail(q)[i] = q[i + 1] /\ i + 1 \in 1 .. Len(q) /\ 1 < i + 1
    BY <1>1 DEF Queues
  <1>3. Tail(q) \in Queues
    BY <1>1, UplinkAssumption DEF Queues
  <1>4. Ordered(Tail(q))
    <2> SUFFICES ASSUME NEW i \in 1 .. Len(Tail(q)), NEW j \in 1 .. Len(Tail(q)), i < j,
                        Tail(q)[i] \in Measurements, Tail(q)[j] \in Measurements
                 PROVE  Tail(q)[i] < Tail(q)[j]
      BY DEF Ordered
    <2> QED
      BY <1>2 DEF Ordered
  <1>5. \A n \in Nat : (UpTo(q, n) => UpTo(Tail(q), n)) /\ (After(q, n) => After(Tail(q), n))
    BY <1>2 DEF UpTo, After
  <1>6. Head(q) \in Measurements => After(Tail(q), Head(q))
    BY <1>1, <1>2 DEF After, Ordered
  <1> QED
    BY <1>1, <1>3, <1>4, <1>5, <1>6

\* Putting the next measurement, or SEND_DATA, at the end, if it fits, keeps it too.
LEMMA PutQueue ==
    ASSUME NEW q \in Queues, Ordered(q), NEW n \in Nat, UpTo(q, n),
           NEW m \in Messages, m = SEND_DATA \/ m = n + 1,
           NEW k \in Nat, n <= k, m \in Measurements => m <= k
    PROVE  /\ Put(q, m) \in Queues /\ Ordered(Put(q, m)) /\ UpTo(Put(q, m), k)
           /\ \A l \in 0 .. n : After(q, l) => After(Put(q, m), l)
  <1>1. CASE Len(q) < QueueDepth
    <2>1. Put(q, m) = Append(q, m)
      BY <1>1 DEF Put
    <2>2. /\ Append(q, m) \in Seq(Messages) /\ Len(Append(q, m)) = Len(q) + 1
          /\ Append(q, m)[Len(q) + 1] = m
          /\ \A i \in 1 .. Len(q) : Append(q, m)[i] = q[i]
      BY DEF Queues
    <2>3. Append(q, m) \in Queues
      BY <1>1, <2>2, UplinkAssumption DEF Queues
    <2>4. m \in Measurements => m = n + 1
      BY UplinkAssumption
    <2>5. \A i \in 1 .. Len(q) : q[i] \in Measurements => q[i] \in Nat /\ q[i] <= n
      BY DEF UpTo, Measurements
    <2>6. \A i \in 1 .. Len(Append(q, m)) : i \in 1 .. Len(q) \/ i = Len(q) + 1
      BY <2>2 DEF Queues
    <2>7. Ordered(Append(q, m))
      <3> SUFFICES ASSUME NEW i \in 1 .. Len(Append(q, m)), NEW j \in 1 .. Len(Append(q, m)), i < j,
                          Append(q, m)[i] \in Measurements, Append(q, m)[j] \in Measurements
                   PROVE  Append(q, m)[i] < Append(q, m)[j]
        BY DEF Ordered
      <3>1. i \in 1 .. Len(q)
        BY <2>2 DEF Queues
      <3> QED
        BY <2>2, <2>4, <2>5, <2>6, <3>1 DEF Ordered
    <2>8. UpTo(Append(q, m), k)
      BY <2>2, <2>5, <2>6 DEF UpTo
    <2>9. \A l \in 0 .. n : After(q, l) => After(Append(q, m), l)
      BY <2>2, <2>4, <2>6 DEF After
    <2> QED
      BY <2>1, <2>3, <2>7, <2>8, <2>9
  <1>2. CASE ~ (Len(q) < QueueDepth)
    <2>1. Put(q, m) = q
      BY <1>2 DEF Put
    <2>2. UpTo(q, k)
      BY DEF UpTo, Measurements
    <2> QED
      BY <2>1, <2>2
  <1> QED
    BY <1>1, <1>2

-----------------------------------------------------------------------------
(* The invariant *)

LEMMA UplinkInit == Init => UplinkInv
  <1> SUFFICES ASSUME Init PROVE UplinkInv
    OBVIOUS
  <1>1. TypeOK
    <2>1. 0 \in 0 .. MaxEvents /\ 0 \in 0 .. 6
      BY UplinkAssumption
    <2>2. queue \in Seq(Measurements \cup {SEND_DATA}) /\ Len(queue) <= QueueDepth
      BY UplinkAssumption DEF Init
    <2>3. b_send \in BOOLEAN /\ relay \in BOOLEAN /\ pc \in {"wait", "send", "pause"}
          /\ ret \in {"ok", "EAGAIN", "error"}
      BY DEF Init
    <2>4. taken = 0 /\ retries = 0 /\ last = 0 /\ tx_data = Empty
      BY DEF Init
    <2> QED
      BY <2>1, <2>2, <2>3, <2>4 DEF TypeOK
  <1>2. Order
    BY UplinkAssumption DEF Init, Order, Ordered, UpTo, After
  <1> QED
    BY <1>1, <1>2 DEF UplinkInv

LEMMA Types ==
    ASSUME TypeOK
    PROVE  /\ queue \in Queues /\ taken \in Nat /\ last \in Nat /\ MaxEvents \in Nat
           /\ tx_data \in Measurements \/ tx_data = Empty
           /\ Measurements \subseteq Nat
  BY UplinkAssumption DEF TypeOK, Queues, Messages, Measurements

LEMMA UplinkStep == UplinkInv /\ [Next]_vars => UplinkInv'
  <1> SUFFICES ASSUME TypeOK, Order, [Next]_vars PROVE TypeOK' /\ Order'
    BY DEF UplinkInv
  <1>1. CASE PostEvent
    <2>1. taken' = taken + 1 /\ taken' \in Measurements /\ taken' \in Messages
      BY <1>1, Types DEF PostEvent, Measurements, Messages
    <2>2. /\ queue' \in Queues /\ Ordered(queue') /\ UpTo(queue', taken')
          /\ \A l \in 0 .. taken : After(queue, l) => After(queue', l)
      <3>1. CASE queue' = queue
        <4>1. UpTo(queue, taken')
          BY <2>1, Types DEF Order, UpTo, Measurements
        <4> QED
          BY <3>1, <4>1, Types DEF Order
      <3>2. CASE queue' = Put(queue, taken')
        BY <2>1, <3>2, Types, PutQueue DEF Order
      <3> QED
        BY <1>1, <3>1, <3>2 DEF PostEvent
    <2>3. last \in 0 .. taken /\ (tx_data \in Measurements => tx_data \in 0 .. taken)
      BY Types DEF Order
    <2>4. UNCHANGED <<tx_data, b_send, pc, ret, retries, relay, last>>
      BY <1>1 DEF PostEvent
    <2>5. Order'
      BY <2>1, <2>2, <2>3, <2>4, Types DEF Order
    <2>6. TypeOK'
      BY <2>1, <2>2, <2>4 DEF TypeOK, Queues, Messages, Measurements
    <2> QED
      BY <2>5, <2>6
  <1>2. CASE SensorEvent
    <2>1. /\ queue # <<>> /\ Head(queue) # SEND_DATA /\ tx_data' = Head(queue)
          /\ b_send' = ~ b_send
          /\ queue' = Put(Tail(queue), SEND_DATA) \/ queue' = Tail(queue)
          /\ UNCHANGED <<taken, pc, ret, retries, relay, last>>
      BY <1>2 DEF SensorEvent
    <2>2. /\ Tail(queue) \in Queues /\ Ordered(Tail(queue))
          /\ UpTo(Tail(queue), taken) /\ After(Tail(queue), last)
          /\ Head(queue) \in Messages
          /\ Head(queue) \in Measurements => After(Tail(queue), Head(queue))
      BY <2>1, Types, TailQueue DEF Order
    <2>3. /\ tx_data' \in Measurements /\ After(Tail(queue), tx_data')
          /\ last < tx_data' /\ tx_data' <= taken
      <3>1. queue[1] = Head(queue) /\ 1 \in 1 .. Len(queue)
        BY <2>1, Types DEF Queues
      <3> QED
        BY <2>1, <2>2, <3>1 DEF Messages, Order, UpTo, After
    <2>4. last \in 0 .. taken /\ tx_data' \in 0 .. taken
      BY <2>3, Types DEF Order
    <2>5. /\ queue' \in Queues /\ Ordered(queue') /\ UpTo(queue', taken)
          /\ After(queue', last) /\ After(queue', tx_data')
      <3>1. CASE queue' = Tail(queue)
        BY <3>1, <2>2, <2>3
      <3>2. CASE queue' = Put(Tail(queue), SEND_DATA)
        <4>1. SEND_DATA \in Messages /\ SEND_DATA \notin Measurements
          BY UplinkAssumption DEF Messages
        <4>2. /\ Put(Tail(queue), SEND_DATA) \in Queues
              /\ Ordered(Put(Tail(queue), SEND_DATA))
              /\ UpTo(Put(Tail(queue), SEND_DATA), taken)
              /\ \A l \in 0 .. taken :
                   After(Tail(queue), l) => After(Put(Tail(queue), SEND_DATA), l)
          BY <2>2, <4>1, Types, PutQueue
        <4> QED
          BY <3>2, <4>2, <2>2, <2>3, <2>4
      <3> QED
        BY <2>1, <3>1, <3>2
    <2>6. Order'
      BY <2>1, <2>3, <2>5 DEF Order
    <2>7. TypeOK'
      BY <2>1, <2>3, <2>5 DEF TypeOK, Queues, Messages
    <2> QED
      BY <2>6, <2>7
  <1>3. CASE SendData
    <2>1. /\ queue # <<>> /\ queue' = Tail(queue) /\ relay' = ~ relay
          /\ retries' = 0 /\ pc' = "send" /\ UNCHANGED <<taken, tx_data, b_send, ret, last>>
      BY <1>3 DEF SendData, RelayToggle
    <2>2. /\ queue' \in Queues /\ Ordered(queue')
          /\ UpTo(queue', taken) /\ After(queue', last)
          /\ tx_data \in Measurements => After(queue', tx_data)
      BY <2>1, Types, TailQueue DEF Order
    <2>3. Order'
      BY <2>1, <2>2 DEF Order
    <2>4. TypeOK'
      BY <2>1, <2>2 DEF TypeOK, Queues, Messages
    <2> QED
      BY <2>3, <2>4
  <1>4. CASE Sent
    <2>1. /\ last' = IF tx_data = Empty THEN last ELSE tx_data
          /\ pc' = "wait" /\ tx_data' = Empty /\ ret' = "ok"
          /\ UNCHANGED <<taken, queue, b_send, retries, relay>>
      BY <1>4 DEF Sent, Over
    <2>2. last' <= taken /\ After(queue, last') /\ last' \in 0 .. MaxEvents
      BY <2>1, Types DEF Order, TypeOK, Measurements
    <2>3. Order'
      BY <2>1, <2>2, UplinkAssumption DEF Order
    <2>4. TypeOK'
      BY <2>1, <2>2 DEF TypeOK
    <2> QED
      BY <2>3, <2>4
  <1>5. CASE SendError
    <2>1. /\ UNCHANGED <<taken, queue, b_send, relay, last>>
          /\ ret' = "error"
          /\ \/ pc' = "wait" /\ tx_data' = Empty /\ retries' = retries
             \/ pc' = "pause" /\ tx_data' = tx_data /\ retries <= 5 /\ retries' = retries + 1
      BY <1>5 DEF SendError, Over, TypeOK
    <2>2. Order'
      BY <2>1, UplinkAssumption DEF Order
    <2>3. TypeOK'
      BY <2>1 DEF TypeOK
    <2> QED
      BY <2>2, <2>3
  <1>6. ASSUME NEW payload \in Payloads, Downlink(payload) PROVE TypeOK' /\ Order'
    <2>1. relay' \in BOOLEAN /\ UNCHANGED <<taken, queue, tx_data, b_send, pc, ret, retries, last>>
      BY <1>6 DEF Downlink, RelayControl, TypeOK
    <2> QED
      BY <2>1 DEF TypeOK, Order
  <1>7. CASE UNCHANGED vars
    BY <1>7 DEF vars, TypeOK, Order
  <1>8. CASE SendAgain \/ Resume
    <2>1. /\ UNCHANGED <<taken, queue, tx_data, b_send, retries, relay, last>>
          /\ pc' \in {"send", "pause"} /\ ret' \in {ret, "EAGAIN"}
      BY <1>8 DEF SendAgain, Resume
    <2> QED
      BY <2>1 DEF TypeOK, Order
  <1> QED
    BY <1>1, <1>2, <1>3, <1>4, <1>5, <1>6, <1>7, <1>8 DEF Next, ControlTask, Handle

\* The variables always have their types: the queue stays within its depth, and no
\* transmission is retried more than six times.
THEOREM TypeCorrect == Spec => []TypeOK
  <1>1. UplinkInv => TypeOK
    BY DEF UplinkInv
  <1> QED
    BY UplinkInit, UplinkStep, <1>1, PTL DEF Spec

\* What is sent is always later than all that has been sent.
THEOREM UplinksAlwaysAdvance == Spec => UplinksAdvance
  <1>1. UplinkInv /\ [Next]_vars
          => [last' # last \/ (Sent /\ tx_data # Empty) => last' > last]_vars
    <2> SUFFICES ASSUME UplinkInv, [Next]_vars, last' # last \/ (Sent /\ tx_data # Empty)
                 PROVE  last' > last
      OBVIOUS
    <2>1. Sent
      BY DEF Next, ControlTask, Handle, PostEvent, SensorEvent, SendData, SendAgain, SendError,
             Resume, Downlink, vars
    <2>2. tx_data # Empty /\ last' = tx_data
      BY <2>1 DEF Sent
    <2> QED
      BY <2>2, Types DEF UplinkInv, Order
  <1> QED
    BY UplinkInit, UplinkStep, <1>1, PTL DEF Spec, UplinksAdvance

\* The relay is toggled when a transmission begins, and by none of its retries: a
\* command that arrives during the transmission stays in force until it is over.
THEOREM RetriesAlwaysKeepRelay == Spec => RetriesKeepRelay
  <1>1. [Next]_vars
          => [relay' # relay /\ pc # "wait" => \E payload \in Payloads : Downlink(payload)]_vars
    BY DEF Next, ControlTask, Handle, PostEvent, SensorEvent, SendData, Sent, SendAgain,
           SendError, Resume, vars
  <1> QED
    BY <1>1, PTL DEF Spec, RetriesKeepRelay
=============================================================================
