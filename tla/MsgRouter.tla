------------------------------ MODULE MsgRouter ------------------------------
(***************************************************************************)
(* The message framework of the datalogger (lib/framework/sys_core.c and    *)
(* sys_msg.c, over the buffers of buffer_pool.c).                           *)
(*                                                                          *)
(* A message is a buffer of the pool, and sending one passes its POINTER    *)
(* through the queue of the receiving task: the buffer always has exactly   *)
(* one owner, who must pass it on or free it.  The actors are the threads   *)
(* of the message tasks (a task calls the framework from inside a message   *)
(* handler), other threads (Clients), and interrupt handlers, which run to  *)
(* completion between two steps of a thread.                                *)
(*                                                                          *)
(* SYSCORE_ASSERT expands to nothing in the shipped configuration           *)
(* (sys_core.h:53: prj.conf sets SYS_ASSRET_ENABLED, the code tests         *)
(* CONFIG_SYS_ASSERT_ENABLED), so a failed assertion changes no state.      *)
(***************************************************************************)
EXTENDS Naturals, Sequences, Functions

CONSTANTS
    NumTasks,       \* message tasks have the ids 1 .. NumTasks
    Clients,        \* threads that are not message tasks (main, the shell)
    Buffers,        \* the buffers CONFIG_BUFFER_POOL_SIZE has room for
    Codes,          \* message codes
    SMC_INVALID,    \* the code msg_queue refuses
    SMC_PERIODIC,   \* the code of the periodic timer
    QueueDepth,     \* MSG_TASK_QUEUE_DEPTH
    Handles,        \* Handles[t]: the codes t's dispatcher has a handler for
    Accepts,        \* Accepts[t]: the codes t's accept_broadcast lets through
    Senders,        \* the clients, and the tasks whose handlers, that send
    HandOff,        \* tasks whose handlers may pass their message on
    IsrSends,       \* <<tx, rx, code>>: what interrupt handlers send
    Timed,          \* tasks that use their timer
    Flushers,       \* actors that call msg_flush
    Callbacks,      \* callbacks given to sysmsg_cb_create_and_send
    NoBuf, NoCb, Freed

Tasks == 1 .. NumTasks
Actors == Tasks \cup Clients

\* MSG_ID_RESERVED: no task has it, so a message sent to it is refused
RESERVED == 0

ASSUME RouterAssumption ==
    /\ NumTasks \in Nat /\ QueueDepth \in Nat
    /\ Clients \cap Tasks = {}
    /\ SMC_INVALID \in Codes /\ SMC_PERIODIC \in Codes
    /\ SMC_INVALID # SMC_PERIODIC
    /\ Handles \in [Tasks -> SUBSET Codes] /\ Accepts \in [Tasks -> SUBSET Codes]
    /\ Senders \subseteq Actors /\ HandOff \subseteq Tasks /\ Timed \subseteq Tasks
    /\ Flushers \subseteq Clients /\ IsrSends \subseteq Tasks \X Tasks \X Codes
    /\ NoBuf \notin Buffers /\ NoCb \notin Callbacks

\* cb is the callback of a message with MSG_OPTION_CALLBACK, else NoCb
Message == [code : Codes, rx : 0 .. NumTasks, tx : 0 .. NumTasks,
            cb : Callbacks \cup {NoCb}]

ASSUME FreedIsNoMessage == Freed \notin Message

VARIABLES
    registered,     \* tasks in msg_task_registry
    msg,            \* msg[b]: the message in buffer b, Freed if b is in the pool
    queue,          \* queue[t]: the pointers in t's k_msgq
    timer,          \* timer[t]: "off", "once" or "periodic"
    rxpc, cur, res, \* msg_receiver of task t: where it is, p_msg, and whether
                    \* the result is DISPATCH_DO_NOT_FREE
    pc, buf, dest,  \* the framework call actor a is in, its message, and its
                    \* receiver (the loop index in msg_broadcast)
    copy, ret,      \* p_new_msg and ret of msg_broadcast
    missed,         \* history: receivers that a broadcast did not reach
    issued, called  \* history: callbacks given out; how often each has run

rxvars == <<rxpc, cur, res>>
opvars == <<pc, buf, dest, copy, ret, missed>>
cbvars == <<issued, called>>
vars == <<registered, msg, queue, timer, rxvars, opvars, cbvars>>

Init ==
    /\ registered = {}
    /\ msg = [b \in Buffers |-> Freed]
    /\ queue = [t \in Tasks |-> <<>>]
    /\ timer = [t \in Tasks |-> "off"]
    /\ rxpc = [t \in Tasks |-> "off"]
    /\ cur = [t \in Tasks |-> NoBuf]
    /\ res = [t \in Tasks |-> "FREE"]
    /\ pc = [a \in Actors |-> "idle"]
    /\ buf = [a \in Actors |-> NoBuf]
    /\ dest = [a \in Actors |-> RESERVED]
    /\ copy = [a \in Actors |-> NoBuf]
    /\ ret = [a \in Actors |-> "ERROR"]
    /\ missed = [a \in Actors |-> {}]
    /\ issued = {}
    /\ called = [c \in Callbacks |-> 0]

-----------------------------------------------------------------------------
(* The pool and the queues *)

\* buffer_pool_try_to_take.  It may also fail while there are free buffers ("A
\* timeout can occur even when there is space available"): callers have an
\* action, or do nothing, for a take that returns NULL.
Take(b, m) == msg[b] = Freed /\ msg' = [msg EXCEPT ![b] = m]

\* buffer_pool_free: what is in the buffer afterwards is indeterminate
Free(b) == msg' = [msg EXCEPT ![b] = Freed]

\* SYS_MSG_HEADER_INIT, and the header that sysmsg_cb_create_and_send writes
Header(code, tx, cb) == [code |-> code, rx |-> RESERVED, tx |-> tx, cb |-> cb]

\* a thread that is not a task signs its messages with the reserved id
TxId(a) == IF a \in Tasks THEN a ELSE RESERVED

\* msg_send and msg_queue: the receiver must be registered, the code valid and
\* the queue not full (K_NO_WAIT)
CanQueue(d, code) ==
    /\ d \in registered
    /\ code # SMC_INVALID
    /\ Len(queue[d]) < QueueDepth

\* msg_unicast: the first registered task whose dispatcher knows the code
Candidates(code) == {t \in registered : code \in Handles[t]}
FirstHandler(code) ==
    IF Candidates(code) = {} THEN RESERVED
    ELSE CHOOSE t \in Candidates(code) : \A u \in Candidates(code) : t <= u

-----------------------------------------------------------------------------
(* Registration and timers *)

\* msg_register_task, once per task, before its thread runs msg_receiver
Register(t) ==
    /\ t \notin registered
    /\ registered' = registered \cup {t}
    /\ rxpc' = [rxpc EXCEPT ![t] = "wait"]
    /\ UNCHANGED <<msg, queue, timer, cur, res, opvars, cbvars>>

\* msg_start_timer and msg_change_timer_period: with a zero period the timer
\* fires once
StartTimer(t) ==
    /\ t \in registered \cap Timed
    /\ \E mode \in {"once", "periodic"} : timer' = [timer EXCEPT ![t] = mode]
    /\ UNCHANGED <<registered, msg, queue, rxvars, opvars, cbvars>>

\* msg_stop_timer: a message the timer has already queued stays queued
StopTimer(t) ==
    /\ t \in registered \cap Timed
    /\ timer' = [timer EXCEPT ![t] = "off"]
    /\ UNCHANGED <<registered, msg, queue, rxvars, opvars, cbvars>>

\* A message made, addressed and queued in one step by an interrupt handler.
\* When the pool or the queue has no room nothing is left allocated.
IsrDeliver(b, m, d) ==
    IF CanQueue(d, m.code)
    THEN /\ Take(b, [m EXCEPT !.rx = d])
         /\ queue' = [queue EXCEPT ![d] = Append(@, b)]
    ELSE UNCHANGED <<msg, queue>>

\* Mutant: options left as they were in the buffer (no memset in the pool).
TimerIsrOldOptions(t) ==
    /\ timer[t] # "off"
    /\ timer' = [timer EXCEPT ![t] = IF @ = "once" THEN "off" ELSE @]
    /\ \E b \in Buffers, cb \in issued : IsrDeliver(b, Header(SMC_PERIODIC, t, cb), t)
    /\ UNCHANGED <<registered, rxvars, opvars, cbvars>>

\* periodic_timer_callback_isr
TimerIsr(t) ==
    /\ timer[t] # "off"
    /\ timer' = [timer EXCEPT ![t] = IF @ = "once" THEN "off" ELSE @]
    /\ \/ \E b \in Buffers : IsrDeliver(b, Header(SMC_PERIODIC, t, NoCb), t)
       \/ UNCHANGED <<msg, queue>>
    /\ UNCHANGED <<registered, rxvars, opvars, cbvars>>

\* sysmsg_create_and_send from an interrupt handler
IsrSend(tx, d, code) ==
    /\ \E b \in Buffers : IsrDeliver(b, Header(code, tx, NoCb), d)
    /\ UNCHANGED <<registered, timer, rxvars, opvars, cbvars>>

-----------------------------------------------------------------------------
(* The framework calls of a thread *)

\* A client may call the framework at any time, a task from its handler.
MayCall(a) ==
    /\ pc[a] = "idle"
    /\ a \in Tasks => rxpc[a] = "handler"

Begin(a, where, b, d) ==
    /\ pc' = [pc EXCEPT ![a] = where]
    /\ buf' = [buf EXCEPT ![a] = b]
    /\ dest' = [dest EXCEPT ![a] = d]

\* The call is over: a no longer has a message.
End(a) == Begin(a, "idle", NoBuf, RESERVED)

\* A message is taken from the pool and filled in, to be sent to one receiver
\* (sysmsg_create_and_send, ..._sendto_self, sysmsg_send) or to whoever handles
\* it (sysmsg_unicast_create_and_send).
Create(a, code) ==
    /\ MayCall(a)
    /\ \E b \in Buffers :
        /\ Take(b, Header(code, TxId(a), NoCb))
        /\ \/ \E d \in 0 .. NumTasks : Begin(a, "send", b, d)
           \/ Begin(a, "unicast", b, RESERVED)
    /\ UNCHANGED <<registered, queue, timer, rxvars, copy, ret, missed, cbvars>>

\* sysmsg_cb_create_and_send: the receiver 0 means "whoever handles it"
CreateWithCallback(a, code, cb) ==
    /\ MayCall(a)
    /\ cb \notin issued
    /\ \E b \in Buffers, d \in 0 .. NumTasks :
        /\ Take(b, Header(code, TxId(a), cb))
        /\ Begin(a, IF d = RESERVED THEN "unicast" ELSE "send", b, d)
    /\ issued' = issued \cup {cb}
    /\ UNCHANGED <<registered, queue, timer, rxvars, copy, ret, missed, called>>

\* sysmsg_create_and_broadcast, up to the loop of msg_broadcast
CreateBroadcast(a, code) ==
    /\ MayCall(a)
    /\ \E b \in Buffers :
        /\ Take(b, Header(code, TxId(a), NoCb))
        /\ Begin(a, "scan", b, 1)
    /\ ret' = [ret EXCEPT ![a] = "ERROR"]
    /\ missed' = [missed EXCEPT ![a] = {}]
    /\ UNCHANGED <<registered, queue, timer, rxvars, copy, cbvars>>

\* Mutant: the sender frees its message although it was queued.
QueueAndFree(a, d) ==
    IF CanQueue(d, msg[buf[a]].code)
    THEN /\ msg' = [msg EXCEPT ![buf[a]].rx = d]
         /\ queue' = [queue EXCEPT ![d] = Append(@, buf[a])]
         /\ Begin(a, "dealloc", buf[a], RESERVED)
    ELSE /\ Begin(a, "dealloc", buf[a], RESERVED)
         /\ UNCHANGED <<msg, queue>>

\* k_msgq_put of a's message to d, or the error that makes a free it
QueueOrFail(a, d) ==
    IF CanQueue(d, msg[buf[a]].code)
    THEN /\ msg' = [msg EXCEPT ![buf[a]].rx = d]
         /\ queue' = [queue EXCEPT ![d] = Append(@, buf[a])]
         /\ End(a)
    ELSE /\ Begin(a, "dealloc", buf[a], RESERVED)
         /\ UNCHANGED <<msg, queue>>

\* msg_send
MsgSend(a) ==
    /\ pc[a] = "send"
    /\ QueueOrFail(a, dest[a])
    /\ UNCHANGED <<registered, timer, rxvars, copy, ret, missed, cbvars>>

\* msg_unicast
MsgUnicast(a) ==
    /\ pc[a] = "unicast"
    /\ QueueOrFail(a, FirstHandler(msg[buf[a]].code))
    /\ UNCHANGED <<registered, timer, rxvars, copy, ret, missed, cbvars>>

\* deallocate_on_error, after a call that failed
Deallocate(a) ==
    /\ pc[a] = "dealloc"
    /\ Free(buf[a])
    /\ End(a)
    /\ UNCHANGED <<registered, queue, timer, rxvars, copy, ret, missed, cbvars>>

-----------------------------------------------------------------------------
(* The loop of msg_broadcast: dest[a] is its index *)

Wants(t, code) == t \in registered /\ code \in Handles[t] /\ code \in Accepts[t]

\* Mutant: "i <= MAX_MSG_RECVS".
ScanSkipPastEnd(a) ==
    /\ pc[a] = "scan" /\ dest[a] \in 1 .. NumTasks + 1
    /\ ~ Wants(dest[a], msg[buf[a]].code)
    /\ dest' = [dest EXCEPT ![a] = @ + 1]
    /\ UNCHANGED <<registered, msg, queue, timer, rxvars, pc, buf, copy, ret, missed, cbvars>>

\* receiver dest[a] does not want the message
ScanSkip(a) ==
    /\ pc[a] = "scan" /\ dest[a] \in Tasks
    /\ ~ Wants(dest[a], msg[buf[a]].code)
    /\ dest' = [dest EXCEPT ![a] = @ + 1]
    /\ UNCHANGED <<registered, msg, queue, timer, rxvars, pc, buf, copy, ret, missed, cbvars>>

\* it does: a copy is made
ScanCopy(a) ==
    /\ pc[a] = "scan" /\ dest[a] \in Tasks
    /\ Wants(dest[a], msg[buf[a]].code)
    /\ \E c \in Buffers :
        /\ Take(c, msg[buf[a]])
        /\ copy' = [copy EXCEPT ![a] = c]
    /\ pc' = [pc EXCEPT ![a] = "put"]
    /\ UNCHANGED <<registered, queue, timer, rxvars, buf, dest, ret, missed, cbvars>>

\* it does, but there is no buffer for the copy: ret keeps its value
ScanNoBuffer(a) ==
    /\ pc[a] = "scan" /\ dest[a] \in Tasks
    /\ Wants(dest[a], msg[buf[a]].code)
    /\ missed' = [missed EXCEPT ![a] = @ \cup {dest[a]}]
    /\ dest' = [dest EXCEPT ![a] = @ + 1]
    /\ UNCHANGED <<registered, msg, queue, timer, rxvars, pc, buf, copy, ret, cbvars>>

\* Mutant: a copy that cannot be queued is not freed.
PutCopyLeaks(a) ==
    /\ pc[a] = "put"
    /\ IF CanQueue(dest[a], msg[copy[a]].code)
       THEN /\ msg' = [msg EXCEPT ![copy[a]].rx = dest[a]]
            /\ queue' = [queue EXCEPT ![dest[a]] = Append(@, copy[a])]
            /\ ret' = [ret EXCEPT ![a] = "SUCCESS"]
            /\ UNCHANGED missed
       ELSE /\ UNCHANGED msg
            /\ ret' = [ret EXCEPT ![a] = "ERROR"]
            /\ missed' = [missed EXCEPT ![a] = @ \cup {dest[a]}]
            /\ UNCHANGED queue
    /\ copy' = [copy EXCEPT ![a] = NoBuf]
    /\ dest' = [dest EXCEPT ![a] = @ + 1]
    /\ pc' = [pc EXCEPT ![a] = "scan"]
    /\ UNCHANGED <<registered, timer, rxvars, buf, cbvars>>

\* Mutant: the copy keeps the rx_id of the original.
PutCopyUnaddressed(a) ==
    /\ pc[a] = "put"
    /\ IF CanQueue(dest[a], msg[copy[a]].code)
       THEN /\ queue' = [queue EXCEPT ![dest[a]] = Append(@, copy[a])]
            /\ ret' = [ret EXCEPT ![a] = "SUCCESS"]
            /\ UNCHANGED <<msg, missed>>
       ELSE /\ Free(copy[a])
            /\ ret' = [ret EXCEPT ![a] = "ERROR"]
            /\ missed' = [missed EXCEPT ![a] = @ \cup {dest[a]}]
            /\ UNCHANGED queue
    /\ copy' = [copy EXCEPT ![a] = NoBuf]
    /\ dest' = [dest EXCEPT ![a] = @ + 1]
    /\ pc' = [pc EXCEPT ![a] = "scan"]
    /\ UNCHANGED <<registered, timer, rxvars, buf, cbvars>>

\* the copy is addressed and queued, or freed when it cannot be; ret is
\* overwritten
PutCopy(a) ==
    /\ pc[a] = "put"
    /\ IF CanQueue(dest[a], msg[copy[a]].code)
       THEN /\ msg' = [msg EXCEPT ![copy[a]].rx = dest[a]]
            /\ queue' = [queue EXCEPT ![dest[a]] = Append(@, copy[a])]
            /\ ret' = [ret EXCEPT ![a] = "SUCCESS"]
            /\ UNCHANGED missed
       ELSE /\ Free(copy[a])
            /\ ret' = [ret EXCEPT ![a] = "ERROR"]
            /\ missed' = [missed EXCEPT ![a] = @ \cup {dest[a]}]
            /\ UNCHANGED queue
    /\ copy' = [copy EXCEPT ![a] = NoBuf]
    /\ dest' = [dest EXCEPT ![a] = @ + 1]
    /\ pc' = [pc EXCEPT ![a] = "scan"]
    /\ UNCHANGED <<registered, timer, rxvars, buf, cbvars>>

\* Mutant: the original is not freed when the broadcast succeeds.
BroadcastDoneKeeps(a) ==
    /\ pc[a] = "scan" /\ dest[a] = NumTasks + 1
    /\ IF ret[a] = "SUCCESS"
       THEN End(a)
       ELSE Begin(a, "dealloc", buf[a], RESERVED)
    /\ ret' = [ret EXCEPT ![a] = "ERROR"]
    /\ missed' = [missed EXCEPT ![a] = {}]
    /\ UNCHANGED <<registered, msg, queue, timer, rxvars, copy, cbvars>>

\* the end of the loop: the original is freed here on success, and by
\* deallocate_on_error otherwise
BroadcastDone(a) ==
    /\ pc[a] = "scan" /\ dest[a] = NumTasks + 1
    /\ IF ret[a] = "SUCCESS"
       THEN Free(buf[a]) /\ End(a)
       ELSE Begin(a, "dealloc", buf[a], RESERVED) /\ UNCHANGED msg
    /\ ret' = [ret EXCEPT ![a] = "ERROR"]
    /\ missed' = [missed EXCEPT ![a] = {}]
    /\ UNCHANGED <<registered, queue, timer, rxvars, copy, cbvars>>

-----------------------------------------------------------------------------
(* msg_flush: messages are taken out one by one, and freed *)

FlushBegin(a, t) ==
    /\ MayCall(a) /\ t \in registered
    /\ Begin(a, "flush", NoBuf, t)
    /\ UNCHANGED <<registered, msg, queue, timer, rxvars, copy, ret, missed, cbvars>>

FlushGet(a) ==
    /\ pc[a] = "flush"
    /\ IF queue[dest[a]] # <<>>
       THEN /\ Begin(a, "purge", Head(queue[dest[a]]), dest[a])
            /\ queue' = [queue EXCEPT ![dest[a]] = Tail(@)]
       ELSE End(a) /\ UNCHANGED queue
    /\ UNCHANGED <<registered, msg, timer, rxvars, copy, ret, missed, cbvars>>

FlushFree(a) ==
    /\ pc[a] = "purge"
    /\ Free(buf[a])
    /\ Begin(a, "flush", NoBuf, dest[a])
    /\ UNCHANGED <<registered, queue, timer, rxvars, copy, ret, missed, cbvars>>

-----------------------------------------------------------------------------
(* msg_receiver, run by the thread of task t for ever *)

\* msg_recv
Receive(t) ==
    /\ rxpc[t] = "wait" /\ queue[t] # <<>>
    /\ cur' = [cur EXCEPT ![t] = Head(queue[t])]
    /\ queue' = [queue EXCEPT ![t] = Tail(@)]
    /\ rxpc' = [rxpc EXCEPT ![t] = "dispatch"]
    /\ UNCHANGED <<registered, msg, timer, res, opvars, cbvars>>

\* the dispatcher; a code it does not know goes to sys_unknown_msg_handler,
\* and the options of the message are not looked at
Dispatch(t) ==
    /\ rxpc[t] = "dispatch"
    /\ rxpc' = [rxpc EXCEPT ![t] =
                  IF msg[cur[t]].code \in Handles[t] THEN "handler" ELSE "release"]
    /\ UNCHANGED <<registered, msg, queue, timer, cur, res, opvars, cbvars>>

\* The handler passes its own message to another task (sysmsg_sendto) and will
\* return DISPATCH_DO_NOT_FREE.
Forward(t, d) ==
    /\ MayCall(t) /\ t \in HandOff /\ res[t] = "FREE"
    /\ res' = [res EXCEPT ![t] = "DO_NOT_FREE"]
    /\ Begin(t, "send", cur[t], d)
    /\ UNCHANGED <<registered, msg, queue, timer, rxpc, cur, copy, ret, missed, cbvars>>

\* Mutant: the header is rewritten after the message was sent.
ReplyTooLate(t, code) ==
    /\ MayCall(t) /\ t \in HandOff
    /\ LET m == msg[cur[t]] IN
        msg' = [msg EXCEPT ![cur[t]] =
                  IF m = Freed THEN Freed
                  ELSE [code |-> code, rx |-> m.tx, tx |-> m.rx, cb |-> m.cb]]
    /\ UNCHANGED <<registered, queue, timer, rxvars, opvars, cbvars>>

\* sysmsg_reply: the same buffer goes back to its sender with another code; the
\* options, and with them the callback, stay
Reply(t, code) ==
    /\ MayCall(t) /\ t \in HandOff /\ res[t] = "FREE"
    /\ LET m == msg[cur[t]] IN
        /\ msg' = [msg EXCEPT ![cur[t]] =
                     [code |-> code, rx |-> m.tx, tx |-> m.rx, cb |-> m.cb]]
        /\ Begin(t, "send", cur[t], m.tx)
    /\ res' = [res EXCEPT ![t] = "DO_NOT_FREE"]
    /\ UNCHANGED <<registered, queue, timer, rxpc, cur, copy, ret, missed, cbvars>>

\* Mutant: msg_receiver does not look at the options.
ReturnNoOptions(t) ==
    /\ rxpc[t] = "handler" /\ pc[t] = "idle"
    /\ rxpc' = [rxpc EXCEPT ![t] = "release"]
    /\ UNCHANGED <<registered, msg, queue, timer, cur, res, opvars, cbvars>>

\* the handler returns (DISPATCH_OK and DISPATCH_ERROR have the same effect)
Return(t) ==
    /\ rxpc[t] = "handler" /\ pc[t] = "idle"
    /\ rxpc' = [rxpc EXCEPT ![t] = "options"]
    /\ UNCHANGED <<registered, msg, queue, timer, cur, res, opvars, cbvars>>

\* The callback that the options of the buffer p_msg points to ask for.  In a
\* buffer that is back in the pool it is whatever bytes are there.
CallbackOf(t) ==
    IF msg[cur[t]] = Freed THEN Callbacks \cup {NoCb} ELSE {msg[cur[t]].cb}

\* header.options is read, and the callback called, after the handler whatever
\* it returned (bound: a callback's count stops at 2)
Options(t) ==
    /\ rxpc[t] = "options"
    /\ \E cb \in CallbackOf(t) :
        called' = IF cb \in Callbacks /\ called[cb] < 2
                  THEN [called EXCEPT ![cb] = @ + 1] ELSE called
    /\ rxpc' = [rxpc EXCEPT ![t] = "release"]
    /\ UNCHANGED <<registered, msg, queue, timer, cur, res, opvars, issued>>

\* the buffer is freed unless the result is DISPATCH_DO_NOT_FREE
Release(t) ==
    /\ rxpc[t] = "release"
    /\ IF res[t] = "FREE" THEN Free(cur[t]) ELSE UNCHANGED msg
    /\ rxpc' = [rxpc EXCEPT ![t] = "wait"]
    /\ cur' = [cur EXCEPT ![t] = NoBuf]
    /\ res' = [res EXCEPT ![t] = "FREE"]
    /\ UNCHANGED <<registered, queue, timer, opvars, cbvars>>

-----------------------------------------------------------------------------
Call(a) ==
    \/ \E code \in Codes : Create(a, code) \/ CreateBroadcast(a, code)
    \/ \E code \in Codes, cb \in Callbacks : CreateWithCallback(a, code, cb)

\* the steps of a call that has begun
Proceed(a) ==
    \/ MsgSend(a) \/ MsgUnicast(a) \/ Deallocate(a)
    \/ ScanSkip(a) \/ ScanCopy(a) \/ ScanNoBuffer(a) \/ PutCopy(a) \/ BroadcastDone(a)
    \/ FlushGet(a) \/ FlushFree(a)

PassOn(t) ==
    \/ \E d \in 0 .. NumTasks : Forward(t, d)
    \/ \E code \in Codes : Reply(t, code)

\* the steps of msg_receiver itself
Serve(t) == Receive(t) \/ Dispatch(t) \/ Options(t) \/ Release(t)

Interrupt ==
    \/ \E t \in Tasks : TimerIsr(t)
    \/ \E s \in IsrSends : IsrSend(s[1], s[2], s[3])

Next ==
    \/ \E t \in Tasks : Register(t) \/ StartTimer(t) \/ StopTimer(t)
    \/ \E a \in Senders : Call(a)
    \/ \E a \in Flushers, t \in Tasks : FlushBegin(a, t)
    \/ \E a \in Actors : Proceed(a)
    \/ \E t \in Tasks : PassOn(t) \/ Serve(t) \/ Return(t)
    \/ Interrupt

Spec == Init /\ [][Next]_vars

\* Every thread runs again and again (K_PRIO_PREEMPT threads of one priority
\* that block in msg_recv when idle), and every handler returns: however many
\* messages it sends, it comes to its return statement.
Fairness ==
    /\ \A a \in Actors : WF_vars(Proceed(a))
    /\ \A t \in Tasks : WF_vars(Serve(t)) /\ SF_vars(Return(t))

FairSpec == Spec /\ Fairness
-----------------------------------------------------------------------------
(* Properties *)

\* The variables have their types (the buffers a pointer may refer to, the
\* places a thread may be in).
TypeOK ==
    /\ registered \subseteq Tasks
    /\ msg \in [Buffers -> Message \cup {Freed}]
    /\ queue \in [Tasks -> Seq(Buffers)]
    /\ timer \in [Tasks -> {"off", "once", "periodic"}]
    /\ rxpc \in [Tasks -> {"off", "wait", "dispatch", "handler", "options", "release"}]
    /\ cur \in [Tasks -> Buffers \cup {NoBuf}]
    /\ res \in [Tasks -> {"FREE", "DO_NOT_FREE"}]
    /\ pc \in [Actors -> {"idle", "send", "unicast", "scan", "put", "dealloc", "flush", "purge"}]
    /\ buf \in [Actors -> Buffers \cup {NoBuf}]
    /\ dest \in [Actors -> 0 .. NumTasks + 1]
    /\ copy \in [Actors -> Buffers \cup {NoBuf}]
    /\ ret \in [Actors -> {"SUCCESS", "ERROR"}]
    /\ missed \in [Actors -> SUBSET Tasks]
    /\ issued \subseteq Callbacks
    /\ called \in [Callbacks -> 0 .. 2]

\* The places a message can be owned from: a queue, the receive loop of a task
\* (until its handler passes the message on), and a framework call.
QueueOf(t) == <<"queue", t>>
ReceiverOf(t) == <<"receiver", t>>
CallOf(a) == <<"call", a>>
CopyOf(a) == <<"copy", a>>

Owners ==
    {QueueOf(t) : t \in Tasks} \cup {ReceiverOf(t) : t \in Tasks}
        \cup {CallOf(a) : a \in Actors} \cup {CopyOf(a) : a \in Actors}

Pointer(b) == IF b = NoBuf THEN {} ELSE {b}

\* the buffers that owner o may free, pass on or write to
Owned ==
    [o \in Owners |->
        CASE o[1] = "queue"    -> Range(queue[o[2]])
          [] o[1] = "receiver" -> IF res[o[2]] = "FREE" THEN Pointer(cur[o[2]]) ELSE {}
          [] o[1] = "call"     -> Pointer(buf[o[2]])
          [] o[1] = "copy"     -> Pointer(copy[o[2]])]

\* No buffer is owned from two places, or queued twice: nobody can free, resend
\* or overwrite a message that somebody else will still read (sys_msg.c passes
\* the pointer on and frees only on error; msg_broadcast copies).
SingleOwner ==
    /\ \A o1, o2 \in Owners : o1 # o2 => Owned[o1] \cap Owned[o2] = {}
    /\ \A t \in Tasks : \A i, j \in DOMAIN queue[t] :
         queue[t][i] = queue[t][j] => i = j

\* What is owned is allocated (no message is used after it was freed), and what
\* is allocated is owned (no error path of sys_msg.c or sys_core.c leaks).
OwnedIsAllocated ==
    \A b \in Buffers : msg[b] # Freed <=> \E o \in Owners : b \in Owned[o]

\* A queued message is one its receiver may read: addressed to that receiver,
\* registered by then, with a code that msg_queue lets through.
QueuedForReceiver ==
    \A t \in Tasks : \A i \in DOMAIN queue[t] :
        LET m == msg[queue[t][i]] IN
        m # Freed /\ m.rx = t /\ m.code # SMC_INVALID /\ t \in registered

\* From msg_recv to the end of the round, or to the moment the handler passes it
\* on, nobody but the handler touches a message: it is not freed, taken again or
\* rewritten under the task that reads it (sys_core.c: msg_receiver keeps p_msg
\* over the dispatcher, the handler and the options).
HandledUndisturbed ==
    [][\A t \in Tasks :
          /\ cur[t] # NoBuf /\ cur'[t] = cur[t]
          /\ res[t] = "FREE" /\ res'[t] = "FREE"
          => msg'[cur[t]] = msg[cur[t]]]_vars

\* The queues of pointers, with what the pointers refer to, are mailboxes of
\* message values.
Letters == {m \in Message : m.code # SMC_INVALID}
Contents(s) == [i \in DOMAIN s |-> msg[s[i]]]
Boxes == [t \in Tasks |-> Contents(queue[t])]

Mail == INSTANCE Mailboxes WITH
    Receivers <- Tasks, Letters <- Letters, Depth <- QueueDepth, box <- Boxes

\* However buffers are freed, taken again and rewritten, no message changes,
\* moves or disappears while it waits in a queue (lib/framework routes pointers;
\* its users think of messages).
ImplementsMailboxes == Mail!Spec

\* A callback runs at most once (where no handler passes its message on).
CallbackAtMostOnce == \A cb \in Callbacks : called[cb] <= 1

\* t owes cb its call: a message with cb, and with a code that t handles, waits in t's
\* queue, or t has it and has not come to its options yet.
Owes(t, cb) ==
    \E b \in Buffers :
        /\ \/ b \in Range(queue[t])
           \/ b = cur[t] /\ rxpc[t] \in {"dispatch", "handler", "options"}
        /\ msg[b] # Freed /\ msg[b].cb = cb /\ msg[b].code \in Handles[t]

\* A callback that is owed is never lost: whatever senders, broadcasts, interrupts and
\* other receivers do to the buffers and the queues, it is owed until the receiver calls
\* it, in one step (where no handler passes its message on and nobody flushes).
\* msg_receiver reads the options only after the handler (sys_core.c:255), and never
\* when there is none.
OwedUntilCalled ==
    [][\A t \in Tasks, cb \in Callbacks :
          Owes(t, cb) => Owes(t, cb)' \/ called'[cb] = called[cb] + 1]_vars

\* Once a message with a callback waits for a task that handles its code, its
\* callback is called (where nobody flushes that queue).
AcceptedCallbackRuns ==
    \A cb \in Callbacks :
        (\E t \in Tasks : \E i \in DOMAIN queue[t] :
            msg[queue[t][i]].cb = cb /\ msg[queue[t][i]].code \in Handles[t])
        ~> called[cb] > 0

\* No buffer stays out of the pool for ever.
EveryBufferReturns == \A b \in Buffers : msg[b] # Freed ~> msg[b] = Freed

\* sys_core.c:170: "Free original message memory only when all messages were
\* routed" - a broadcast that ends in success reached every task that wants it.
BroadcastAllRouted ==
    \A a \in Actors :
        pc[a] = "scan" /\ dest[a] = NumTasks + 1 /\ ret[a] = "SUCCESS" => missed[a] = {}

\* sys_msg.h:116: sysmsg_reply is "Often used with DISPATCH_DO_NOT_FREE" - the
\* options that msg_receiver reads after the handler are those of a message,
\* not bytes of the pool.
OptionsOfMessage == \A t \in Tasks : rxpc[t] = "options" => msg[cur[t]] # Freed
=============================================================================
