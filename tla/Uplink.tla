-------------------------------- MODULE Uplink --------------------------------
(***************************************************************************)
(* What the control task does with measurements and with the radio          *)
(* (control_task.c): measurements arrive as SENSOR_EVENT messages, the last *)
(* one waits in tx_data, every second one makes the task send itself        *)
(* SEND_DATA, and the handler of that message sends tx_data, with retries,  *)
(* and clears it.  The relay is switched by commands of the network server, *)
(* in the thread of the LoRaWAN stack, and by every transmission.           *)
(***************************************************************************)
EXTENDS Naturals, Sequences

CONSTANTS
    QueueDepth,     \* CONTROL_TASK_QUEUE_DEPTH
    MaxEvents,      \* bound: the number of measurements
    SEND_DATA, Empty

Measurements == 1 .. MaxEvents      \* numbered in the order they were taken

ASSUME UplinkAssumption ==
    /\ QueueDepth \in Nat /\ MaxEvents \in Nat
    /\ SEND_DATA \notin Measurements /\ Empty \notin Measurements

VARIABLES
    taken,          \* the number of measurements so far
    queue,          \* ctrl_task_queue: measurements, and SEND_DATA
    tx_data,        \* the measurement in tx_data, or Empty
    b_send,         \* b_send_msg_lorawan
    pc,             \* "wait" for a message; in the loop of the handler, before a "send"
                    \* or in the "pause" after one
    ret,            \* the last result of lorawan_send
    retries,
    relay,          \* the raw level of the relay's pin
    last            \* history: the last measurement that was sent

vars == <<taken, queue, tx_data, b_send, pc, ret, retries, relay, last>>

Init ==
    /\ taken = 0
    /\ queue = <<>>
    /\ tx_data = Empty
    /\ b_send = FALSE
    /\ pc = "wait"
    /\ ret = "ok"
    /\ retries = 0
    /\ relay = FALSE        \* GPIO_OUTPUT_ACTIVE of an active-low pin
    /\ last = 0

\* relay_control, with bsp_pin_set, sets the raw level of the pin
RelayControl(level) == relay' = level

\* relay_toggle, with bsp_pin_toggle
RelayToggle == relay' = ~ relay

\* msg_queue: what does not fit is dropped
Put(q, m) == IF Len(q) < QueueDepth THEN Append(q, m) ELSE q

-----------------------------------------------------------------------------
\* send_event_msg_lorawan of the event task; what does not fit is dropped, and the
\* pool may have no buffer for it
PostEvent ==
    /\ taken < MaxEvents
    /\ taken' = taken + 1
    /\ queue' \in {queue, Put(queue, taken')}
    /\ UNCHANGED <<tx_data, b_send, pc, ret, retries, relay, last>>

\* sensor_event_msg_handler: after every second measurement it posts SEND_DATA, if
\* the pool has a buffer for it
SensorEvent ==
    /\ pc = "wait" /\ queue # <<>> /\ Head(queue) # SEND_DATA
    /\ tx_data' = Head(queue)
    /\ b_send' = ~ b_send
    /\ \/ b_send' /\ queue' = Put(Tail(queue), SEND_DATA)
       \/ queue' = Tail(queue)
    /\ UNCHANGED <<taken, pc, ret, retries, relay, last>>

\* Mutant: the retries of the last transmission are not forgotten.
SendDataKeepsRetries ==
    /\ pc = "wait" /\ queue # <<>> /\ Head(queue) = SEND_DATA
    /\ queue' = Tail(queue)
    /\ RelayToggle
    /\ retries' = retries + 1
    /\ pc' = "send"
    /\ UNCHANGED <<taken, tx_data, b_send, ret, last>>

\* send_data_lorawan_msg_handler: the relay is toggled, and the loop begins
SendData ==
    /\ pc = "wait" /\ queue # <<>> /\ Head(queue) = SEND_DATA
    /\ queue' = Tail(queue)
    /\ RelayToggle
    /\ retries' = 0
    /\ pc' = "send"
    /\ UNCHANGED <<taken, tx_data, b_send, ret, last>>

\* the end of the handler: tx_data is cleared
Over == pc' = "wait" /\ tx_data' = Empty

\* Mutant: tx_data is not cleared after it was sent.
SentKeeps ==
    /\ pc = "send"
    /\ ret' = "ok"
    /\ last' = IF tx_data = Empty THEN last ELSE tx_data
    /\ pc' = "wait"
    /\ UNCHANGED <<taken, queue, tx_data, b_send, retries, relay>>

\* lorawan_send has accepted the data
Sent ==
    /\ pc = "send"
    /\ ret' = "ok"
    /\ last' = IF tx_data = Empty THEN last ELSE tx_data
    /\ Over
    /\ UNCHANGED <<taken, queue, b_send, retries, relay>>

\* lorawan_send is busy: it is tried again after a pause, which counts for nothing
SendAgain ==
    /\ pc = "send"
    /\ ret' = "EAGAIN"
    /\ pc' = "pause"
    /\ UNCHANGED <<taken, queue, tx_data, b_send, retries, relay, last>>

\* Mutant: every error is treated like EAGAIN, and not counted.
SendErrorUncounted ==
    /\ pc = "send"
    /\ ret' = "error"
    /\ pc' = "pause"
    /\ UNCHANGED <<taken, queue, tx_data, b_send, retries, relay, last>>

\* lorawan_send has failed, and not with EAGAIN: with more than five retries the
\* data is given up
SendError ==
    /\ pc = "send"
    /\ ret' = "error"
    /\ \/ retries > 5 /\ Over /\ UNCHANGED retries
       \/ retries <= 5 /\ retries' = retries + 1 /\ pc' = "pause" /\ UNCHANGED tx_data
    /\ UNCHANGED <<taken, queue, b_send, relay, last>>

\* Mutant: the relay is toggled by every attempt.
ResumeToggles ==
    /\ pc = "pause"
    /\ pc' = "send"
    /\ RelayToggle
    /\ UNCHANGED <<taken, queue, tx_data, b_send, ret, retries, last>>

\* the pause of half a second is over, and the loop goes round
Resume ==
    /\ pc = "pause"
    /\ pc' = "send"
    /\ UNCHANGED <<taken, queue, tx_data, b_send, ret, retries, relay, last>>

\* dl_callback, in the thread of the LoRaWAN stack: strncmp compares as many
\* characters as the payload has, so that its prefixes do for a command
On == {"", "o", "on"}
Off == {"of", "off"}

Downlink(payload) ==
    /\ CASE payload \in On  -> RelayControl(TRUE)
         [] payload \in Off -> RelayControl(FALSE)
         [] OTHER           -> UNCHANGED relay
    /\ UNCHANGED <<taken, queue, tx_data, b_send, pc, ret, retries, last>>

-----------------------------------------------------------------------------
Handle == SensorEvent \/ SendData

\* some payloads of downlinks
Payloads == On \cup Off \cup {"other"}

ControlTask == Handle \/ Sent \/ SendAgain \/ SendError \/ Resume

Next ==
    \/ PostEvent \/ ControlTask
    \/ \E payload \in Payloads : Downlink(payload)

Spec == Init /\ [][Next]_vars

\* The control task runs, lorawan_send returns and the pauses end.  What
\* lorawan_send answers is left open: it need not ever accept the data.
FairSpec == Spec /\ WF_vars(ControlTask)
-----------------------------------------------------------------------------
(* Properties *)

\* The variables have their types: a transmission is retried at most six times.
TypeOK ==
    /\ taken \in 0 .. MaxEvents
    /\ queue \in Seq(Measurements \cup {SEND_DATA}) /\ Len(queue) <= QueueDepth
    /\ tx_data \in Measurements \cup {Empty}
    /\ b_send \in BOOLEAN
    /\ pc \in {"wait", "send", "pause"}
    /\ ret \in {"ok", "EAGAIN", "error"}
    /\ retries \in 0 .. 6
    /\ relay \in BOOLEAN
    /\ last \in 0 .. MaxEvents

\* No measurement is sent twice, or after a later one, also when several
\* transmissions have been asked for and tx_data has been overwritten meanwhile.
UplinksAdvance == [][last' # last \/ (Sent /\ tx_data # Empty) => last' > last]_vars

\* Every transmission comes to its end, and so does the queue behind it, whatever
\* lorawan_send answers and although the data is given up only after seven
\* errors, unless it answers EAGAIN for ever: of these the loop takes no count.
SendEnds ==
    \/ <>[](ret = "EAGAIN" /\ pc # "wait")
    \/ (queue # <<>> \/ pc # "wait") ~> (queue = <<>> /\ pc = "wait")

\* A transmission toggles the relay when it begins, and not again: its retries,
\* however many there are, leave a command that the network server sends
\* meanwhile in force.
RetriesKeepRelay ==
    [][relay' # relay /\ pc # "wait" => \E payload \in Payloads : Downlink(payload)]_vars
=============================================================================
