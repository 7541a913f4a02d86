--------------------------- MODULE CallbackProofs ---------------------------
(***************************************************************************)
(* Proof that a callback given to sysmsg_cb_create_and_send runs at most    *)
(* once, for every size of the system, as long as no message handler passes *)
(* its own message on (NoHandOff), and that it is not lost if nobody        *)
(* flushes a queue either (NoFlush).  No handler of app/src passes on its   *)
(* message, and nothing there calls msg_flush; the run router_handoff shows *)
(* what happens when a handler replies.                                     *)
(*                                                                          *)
(* A callback is a word of a message, so the proof follows the messages     *)
(* that have it: there is never more than one, and once the callback has    *)
(* run, that one is about to be freed.  It uses the ownership invariant of  *)
(* MsgRouterProofs: only the receive loop that owns a message reads its     *)
(* options.                                                                 *)
(***************************************************************************)
EXTENDS MsgRouterProofs

NoHandOff == \A t \in Tasks : res[t] = "FREE"

\* A callback in a message was given out.
CallbackIssued ==
    \A b \in Buffers : msg[b] # Freed /\ msg[b].cb # NoCb => msg[b].cb \in issued

\* Two messages do not have the same callback.
CallbackUnique ==
    \A b, c \in Buffers :
        /\ msg[b] # Freed /\ msg[c] # Freed
        /\ msg[b].cb = msg[c].cb /\ msg[b].cb # NoCb
        => b = c

\* The messages that msg_broadcast copies have none.
BroadcastPlain ==
    \A a \in Actors : pc[a] \in {"scan", "put"} => msg[buf[a]].cb = NoCb

CallsCounted ==
    \A cb \in Callbacks : called[cb] \in {0, 1} /\ (cb \notin issued => called[cb] = 0)

\* The message whose callback has run is the one its receiver is about to free.
CalledThenReleased ==
    \A cb \in Callbacks, b \in Buffers :
        called[cb] = 1 /\ msg[b] # Freed /\ msg[b].cb = cb
            => \E t \in Tasks : cur[t] = b /\ rxpc[t] = "release"

CbInv ==
    /\ CallbackIssued
    /\ CallbackUnique
    /\ BroadcastPlain
    /\ CallsCounted
    /\ CalledThenReleased

-----------------------------------------------------------------------------
(* What a step does to the messages and their callbacks *)

\* A step writes to one buffer at most: it frees it, changes another part of its
\* message, or puts a message without a callback, or with a new one, into it.
Kept == msg' = msg /\ issued' = issued

Others(x) == \A b \in Buffers : b # x => msg'[b] = msg[b]

Freeing(x) == Others(x) /\ issued' = issued /\ msg'[x] = Freed

Rewriting(x) ==
    /\ Others(x) /\ issued' = issued
    /\ msg[x] # Freed /\ msg'[x].cb = msg[x].cb

Filling(x) ==
    /\ Others(x) /\ issued' = issued
    /\ msg[x] = Freed /\ msg'[x].cb = NoCb

Issuing(x) ==
    /\ Others(x)
    /\ msg[x] = Freed
    /\ msg'[x].cb \in Callbacks \ issued
    /\ issued' = issued \cup {msg'[x].cb}

CallbackStep ==
    \/ Kept
    \/ \E x \in Buffers : Freeing(x) \/ Rewriting(x) \/ Filling(x) \/ Issuing(x)

\* k_msgq_put, and the copy of msg_broadcast, write the receiver's id only.
LEMMA Readdressing ==
    ASSUME TypeOK, NEW x \in Buffers, msg[x] \in Message, NEW d \in Tasks,
           msg' = [msg EXCEPT ![x].rx = d], issued' = issued
    PROVE  Rewriting(x)
  <1>1. msg[x] # Freed
    BY FreedIsNoMessage
  <1>2. msg'[x] = [msg[x] EXCEPT !.rx = d]
    BY DEF TypeOK
  <1>3. msg'[x].cb = msg[x].cb
    BY <1>2 DEF Message
  <1>4. Others(x)
    BY DEF TypeOK, Others
  <1> QED
    BY <1>1, <1>3, <1>4 DEF Rewriting

\* Interrupt handlers send messages without a callback.
LEMMA IsrCallbacks ==
    ASSUME TypeOK, NEW m \in Message, m.cb = NoCb, NEW d \in Tasks, issued' = issued,
           NEW b \in Buffers, IsrDeliver(b, m, d)
    PROVE  CallbackStep
  <1>1. CASE CanQueue(d, m.code)
    <2>1. msg[b] = Freed /\ msg' = [msg EXCEPT ![b] = [m EXCEPT !.rx = d]]
      BY <1>1 DEF IsrDeliver, Take
    <2>2. [m EXCEPT !.rx = d].cb = NoCb
      BY DEF Message
    <2>3. msg'[b].cb = NoCb /\ Others(b)
      BY <2>1, <2>2 DEF TypeOK, Others
    <2> QED
      BY <2>1, <2>3 DEF Filling, CallbackStep
  <1>2. CASE ~ CanQueue(d, m.code)
    BY <1>2 DEF IsrDeliver, Kept, CallbackStep
  <1> QED
    BY <1>1, <1>2

\* msg_send and msg_unicast leave the callback of the message alone.
LEMMA QueueOrFailCallbacks ==
    ASSUME Inv, NEW a \in Actors, buf[a] # NoBuf, NEW d, QueueOrFail(a, d),
           d \in registered => d \in Tasks, issued' = issued
    PROVE  CallbackStep
  <1>1. TypeOK /\ buf[a] \in Buffers /\ msg[buf[a]] \in Message
    BY InvParts, OwnedIsMessage DEF Inv, TypeOK
  <1>2. CASE CanQueue(d, msg[buf[a]].code)
    <2>1. d \in Tasks /\ msg' = [msg EXCEPT ![buf[a]].rx = d]
      BY <1>2 DEF QueueOrFail, CanQueue
    <2> QED BY <1>1, <2>1, Readdressing DEF CallbackStep
  <1>3. CASE ~ CanQueue(d, msg[buf[a]].code)
    BY <1>3 DEF QueueOrFail, Kept, CallbackStep
  <1> QED
    BY <1>2, <1>3

\* A buffer is freed.
LEMMA FreeCallbacks ==
    ASSUME TypeOK, NEW x \in Buffers, Free(x), issued' = issued
    PROVE  CallbackStep
  BY DEF TypeOK, Free, Others, Freeing, CallbackStep

\* A buffer is taken for a message without a callback.
LEMMA TakeCallbacks ==
    ASSUME TypeOK, NEW x \in Buffers, NEW m, Take(x, m), m.cb = NoCb, issued' = issued
    PROVE  CallbackStep
  BY DEF TypeOK, Take, Others, Filling, CallbackStep

\* Every step is of one of these kinds.
LEMMA CallbackSteps ==
    ASSUME Inv, BroadcastPlain, Next
    PROVE  CallbackStep
  <1> TypeOK /\ Places /\ CallOK /\ ReceiverOK /\ OwnedIsAllocated
    BY InvParts DEF Inv
  <1>0. \A a \in Actors : pc[a] \notin {"idle", "flush"} => buf[a] \in Buffers
    <2>1. \A a \in Actors : buf[a] \in Buffers \cup {NoBuf}
      BY DEF TypeOK
    <2>2. \A a \in Actors : pc[a] \notin {"idle", "flush"} => buf[a] # NoBuf
      BY DEF CallOK
    <2> QED BY <2>1, <2>2
  <1>1. ASSUME NEW t \in Tasks, Register(t) \/ StartTimer(t) \/ StopTimer(t)
        PROVE  CallbackStep
    BY <1>1 DEF Register, StartTimer, StopTimer, cbvars, Kept, CallbackStep
  <1>2. ASSUME NEW t \in Tasks, TimerIsr(t) PROVE CallbackStep
    <2>1. CASE UNCHANGED <<msg, queue>>
      BY <1>2, <2>1 DEF TimerIsr, cbvars, Kept, CallbackStep
    <2>2. ASSUME NEW b \in Buffers, IsrDeliver(b, Header(SMC_PERIODIC, t, NoCb), t)
          PROVE  CallbackStep
      <3>1. t \in 0 .. NumTasks /\ SMC_PERIODIC \in Codes
        BY RouterAssumption DEF Tasks
      <3>2. Header(SMC_PERIODIC, t, NoCb) \in Message
        BY <3>1, HeaderIsMessage
      <3>3. Header(SMC_PERIODIC, t, NoCb).cb = NoCb
        BY DEF Header
      <3>4. issued' = issued
        BY <1>2 DEF TimerIsr, cbvars
      <3> QED BY <2>2, <3>2, <3>3, <3>4, IsrCallbacks
    <2> QED BY <1>2, <2>1, <2>2 DEF TimerIsr
  <1>3. ASSUME NEW s \in IsrSends, IsrSend(s[1], s[2], s[3]) PROVE CallbackStep
    <2>1. s[1] \in 0 .. NumTasks /\ s[2] \in Tasks /\ s[3] \in Codes
      BY RouterAssumption DEF Tasks
    <2>2. Header(s[3], s[1], NoCb) \in Message
      BY <2>1, HeaderIsMessage
    <2>3. Header(s[3], s[1], NoCb).cb = NoCb
      BY DEF Header
    <2>4. PICK b \in Buffers : IsrDeliver(b, Header(s[3], s[1], NoCb), s[2])
      BY <1>3 DEF IsrSend
    <2>5. issued' = issued
      BY <1>3 DEF IsrSend, cbvars
    <2> QED BY <2>1, <2>2, <2>3, <2>4, <2>5, IsrCallbacks
  <1>4. ASSUME NEW a \in Senders, NEW code \in Codes, Create(a, code) \/ CreateBroadcast(a, code)
        PROVE  CallbackStep
    <2>1. PICK b \in Buffers : Take(b, Header(code, TxId(a), NoCb))
      BY <1>4 DEF Create, CreateBroadcast
    <2>2. Header(code, TxId(a), NoCb).cb = NoCb
      BY DEF Header
    <2>3. issued' = issued
      BY <1>4 DEF Create, CreateBroadcast, cbvars
    <2> QED BY <2>1, <2>2, <2>3, TakeCallbacks
  <1>5. ASSUME NEW a \in Senders, NEW code \in Codes, NEW cb \in Callbacks,
               CreateWithCallback(a, code, cb)
        PROVE  CallbackStep
    <2>1. PICK b \in Buffers : Take(b, Header(code, TxId(a), cb))
      BY <1>5 DEF CreateWithCallback
    <2>2. Header(code, TxId(a), cb).cb = cb
      BY DEF Header
    <2>3. msg[b] = Freed /\ msg'[b].cb = cb /\ Others(b)
      BY <2>1, <2>2 DEF Take, TypeOK, Others
    <2>4. cb \in Callbacks \ issued /\ issued' = issued \cup {cb}
      BY <1>5 DEF CreateWithCallback
    <2> QED BY <2>3, <2>4 DEF Issuing, CallbackStep
  <1>6. ASSUME NEW a \in Flushers, NEW t \in Tasks, FlushBegin(a, t) PROVE CallbackStep
    BY <1>6 DEF FlushBegin, cbvars, Kept, CallbackStep
  <1>7. ASSUME NEW a \in Actors, MsgSend(a) PROVE CallbackStep
    <2>1. buf[a] # NoBuf
      BY <1>7 DEF MsgSend, CallOK
    <2>2. QueueOrFail(a, dest[a]) /\ issued' = issued
      BY <1>7 DEF MsgSend, cbvars
    <2>3. dest[a] \in registered => dest[a] \in Tasks
      BY DEF TypeOK
    <2> QED BY <2>1, <2>2, <2>3, QueueOrFailCallbacks
  <1>8. ASSUME NEW a \in Actors, MsgUnicast(a) PROVE CallbackStep
    <2>1. buf[a] # NoBuf
      BY <1>8 DEF MsgUnicast, CallOK
    <2> DEFINE d == FirstHandler(msg[buf[a]].code)
    <2>2. QueueOrFail(a, d) /\ issued' = issued
      BY <1>8 DEF MsgUnicast, cbvars
    <2>3. d \in registered => d \in Tasks
      BY DEF TypeOK
    <2> HIDE DEF d
    <2> QED BY <2>1, <2>2, <2>3, QueueOrFailCallbacks
  <1>9. ASSUME NEW a \in Actors, Deallocate(a) \/ FlushFree(a) PROVE CallbackStep
    <2>0. pc[a] \in {"dealloc", "purge"}
      BY <1>9 DEF Deallocate, FlushFree
    <2>1. buf[a] \in Buffers
      BY <1>0, <2>0
    <2>2. Free(buf[a]) /\ issued' = issued
      BY <1>9 DEF Deallocate, FlushFree, cbvars
    <2> QED BY <2>1, <2>2, FreeCallbacks
  <1>10. ASSUME NEW a \in Actors, ScanSkip(a) \/ ScanNoBuffer(a) \/ FlushGet(a)
         PROVE  CallbackStep
    BY <1>10 DEF ScanSkip, ScanNoBuffer, FlushGet, cbvars, Kept, CallbackStep
  <1>11. ASSUME NEW a \in Actors, ScanCopy(a) PROVE CallbackStep
    <2>1. PICK c \in Buffers : Take(c, msg[buf[a]])
      BY <1>11 DEF ScanCopy
    <2>2. msg[buf[a]].cb = NoCb /\ issued' = issued
      BY <1>11 DEF ScanCopy, BroadcastPlain, cbvars
    <2> QED BY <2>1, <2>2, TakeCallbacks
  <1>12. ASSUME NEW a \in Actors, PutCopy(a) PROVE CallbackStep
    <2>1. /\ copy[a] \in Buffers /\ dest[a] \in Tasks /\ msg[copy[a]] \in Message
          /\ issued' = issued
      BY <1>12, OwnedIsMessage DEF PutCopy, CallOK, TypeOK, cbvars
    <2>2. CASE CanQueue(dest[a], msg[copy[a]].code)
      <3>1. msg' = [msg EXCEPT ![copy[a]].rx = dest[a]]
        BY <1>12, <2>2 DEF PutCopy
      <3> QED BY <2>1, <3>1, Readdressing DEF CallbackStep
    <2>3. CASE ~ CanQueue(dest[a], msg[copy[a]].code)
      <3>1. Free(copy[a])
        BY <1>12, <2>3 DEF PutCopy
      <3> QED BY <2>1, <3>1, FreeCallbacks
    <2> QED BY <2>2, <2>3
  <1>13. ASSUME NEW a \in Actors, BroadcastDone(a) PROVE CallbackStep
    <2>0. pc[a] = "scan" /\ issued' = issued
      BY <1>13 DEF BroadcastDone, cbvars
    <2>1. buf[a] \in Buffers
      BY <1>0, <2>0
    <2>2. Free(buf[a]) \/ msg' = msg
      BY <1>13 DEF BroadcastDone
    <2> QED BY <2>0, <2>1, <2>2, FreeCallbacks DEF Kept, CallbackStep
  <1>14. ASSUME NEW t \in Tasks, NEW d, Forward(t, d) PROVE CallbackStep
    BY <1>14 DEF Forward, cbvars, Kept, CallbackStep
  <1>15. ASSUME NEW t \in Tasks, NEW code, Reply(t, code) PROVE CallbackStep
    <2>1. rxpc[t] = "handler" /\ res[t] = "FREE"
      BY <1>15 DEF Reply, MayCall
    <2>2. cur[t] \in Buffers /\ msg[cur[t]] \in Message
      BY <2>1, OwnedIsMessage DEF ReceiverOK, TypeOK
    <2>3. /\ msg' = [msg EXCEPT ![cur[t]] = [code |-> code, rx |-> msg[cur[t]].tx,
                                             tx |-> msg[cur[t]].rx, cb |-> msg[cur[t]].cb]]
          /\ issued' = issued
      BY <1>15 DEF Reply, cbvars
    <2>4. msg'[cur[t]].cb = msg[cur[t]].cb /\ Others(cur[t])
      BY <2>2, <2>3 DEF TypeOK, Others
    <2> QED BY <2>2, <2>3, <2>4, FreedIsNoMessage DEF Rewriting, CallbackStep
  <1>16. ASSUME NEW t \in Tasks, Receive(t) \/ Dispatch(t) \/ Return(t) \/ Options(t)
         PROVE  CallbackStep
    BY <1>16 DEF Receive, Dispatch, Return, Options, cbvars, Kept, CallbackStep
  <1>17. ASSUME NEW t \in Tasks, Release(t) PROVE CallbackStep
    <2>1. cur[t] \in Buffers /\ issued' = issued
      BY <1>17 DEF Release, ReceiverOK, TypeOK, cbvars
    <2>2. Free(cur[t]) \/ msg' = msg
      BY <1>17 DEF Release
    <2> QED BY <2>1, <2>2, FreeCallbacks DEF Kept, CallbackStep
  <1> QED
    BY <1>1, <1>2, <1>3, <1>4, <1>5, <1>6, <1>7, <1>8, <1>9, <1>10, <1>11, <1>12, <1>13,
       <1>14, <1>15, <1>16, <1>17, Zenon DEF Next, Call, Proceed, PassOn, Serve, Interrupt

-----------------------------------------------------------------------------
(* The parts of the invariant *)

\* Callbacks are issued once, and messages with a callback are not copied.
LEMMA IssuedStep ==
    ASSUME TypeOK, CallbackIssued, CallbackUnique, CallbackStep
    PROVE  CallbackIssued' /\ CallbackUnique'
  <1>1. CASE Kept
    BY <1>1 DEF Kept, CallbackIssued, CallbackUnique
  <1>2. ASSUME NEW x \in Buffers, Freeing(x) PROVE CallbackIssued' /\ CallbackUnique'
    BY <1>2 DEF Freeing, Others, CallbackIssued, CallbackUnique
  <1>3. ASSUME NEW x \in Buffers, Rewriting(x) PROVE CallbackIssued' /\ CallbackUnique'
    BY <1>3 DEF Rewriting, Others, CallbackIssued, CallbackUnique
  <1>4. ASSUME NEW x \in Buffers, Filling(x) PROVE CallbackIssued' /\ CallbackUnique'
    BY <1>4 DEF Filling, Others, CallbackIssued, CallbackUnique
  <1>5. ASSUME NEW x \in Buffers, Issuing(x) PROVE CallbackIssued' /\ CallbackUnique'
    BY <1>5 DEF Issuing, Others, CallbackIssued, CallbackUnique
  <1> QED
    BY <1>1, <1>2, <1>3, <1>4, <1>5 DEF CallbackStep

\* A message that has an issued callback after a step had it before.
LEMMA CallbackWasThere ==
    ASSUME CallbackStep, NEW b \in Buffers, NEW cb \in issued, cb # NoCb,
           msg'[b] # Freed, msg'[b].cb = cb
    PROVE  msg[b] # Freed /\ msg[b].cb = cb
  <1>1. CASE Kept
    BY <1>1 DEF Kept
  <1>2. ASSUME NEW x \in Buffers, Freeing(x) PROVE msg[b] # Freed /\ msg[b].cb = cb
    BY <1>2 DEF Freeing, Others
  <1>3. ASSUME NEW x \in Buffers, Rewriting(x) PROVE msg[b] # Freed /\ msg[b].cb = cb
    BY <1>3 DEF Rewriting, Others
  <1>4. ASSUME NEW x \in Buffers, Filling(x) PROVE msg[b] # Freed /\ msg[b].cb = cb
    BY <1>4 DEF Filling, Others
  <1>5. ASSUME NEW x \in Buffers, Issuing(x) PROVE msg[b] # Freed /\ msg[b].cb = cb
    BY <1>5 DEF Issuing, Others
  <1> QED
    BY <1>1, <1>2, <1>3, <1>4, <1>5 DEF CallbackStep

\* A message without a callback gets none while it is allocated.
LEMMA PlainStaysPlain ==
    ASSUME CallbackStep, NEW b \in Buffers, msg[b] # Freed, msg[b].cb = NoCb,
           msg'[b] # Freed
    PROVE  msg'[b].cb = NoCb
  <1>1. CASE Kept
    BY <1>1 DEF Kept
  <1>2. ASSUME NEW x \in Buffers, Freeing(x) PROVE msg'[b].cb = NoCb
    BY <1>2 DEF Freeing, Others
  <1>3. ASSUME NEW x \in Buffers, Rewriting(x) PROVE msg'[b].cb = NoCb
    BY <1>3 DEF Rewriting, Others
  <1>4. ASSUME NEW x \in Buffers, Filling(x) PROVE msg'[b].cb = NoCb
    BY <1>4 DEF Filling, Others
  <1>5. ASSUME NEW x \in Buffers, Issuing(x) PROVE msg'[b].cb = NoCb
    BY <1>5 DEF Issuing, Others
  <1> QED
    BY <1>1, <1>2, <1>3, <1>4, <1>5 DEF CallbackStep

Scanning(a) == pc[a] \in {"scan", "put"}

\* A call is in the loop of msg_broadcast after a step only if it was before, with
\* the same message, or has just begun it with a message that has no callback.
LoopStep ==
    \A a \in Actors : Scanning(a)' =>
        \/ Scanning(a) /\ buf'[a] = buf[a]
        \/ msg'[buf'[a]].cb = NoCb

\* A call that starts anywhere but in the loop of msg_broadcast takes the loop nowhere.
LEMMA BeginElsewhere ==
    ASSUME TypeOK, NEW a \in Actors, NEW where, NEW b, NEW d, Begin(a, where, b, d),
           where \notin {"scan", "put"}
    PROVE  LoopStep
  BY DEF TypeOK, Begin, Scanning, LoopStep

\* Every step either leaves the loop of msg_broadcast on its message, or starts it on
\* one without a callback.
LEMMA LoopSteps ==
    ASSUME Inv, Next
    PROVE  LoopStep
  <1> TypeOK /\ CallOK
    BY DEF Inv
  <1>1. ASSUME UNCHANGED <<pc, buf>> PROVE LoopStep
    BY <1>1 DEF Scanning, LoopStep
  <1>2. ASSUME NEW a \in Actors, NEW d, QueueOrFail(a, d) PROVE LoopStep
    BY <1>2, BeginElsewhere DEF QueueOrFail, End
  <1>3. ASSUME NEW a \in Actors, End(a) PROVE LoopStep
    BY <1>3, BeginElsewhere DEF End
  <1>4. ASSUME NEW t \in Tasks,
               \/ Register(t) \/ StartTimer(t) \/ StopTimer(t) \/ TimerIsr(t)
               \/ Receive(t) \/ Dispatch(t) \/ Return(t) \/ Options(t) \/ Release(t)
        PROVE  LoopStep
    BY <1>1, <1>4 DEF Register, StartTimer, StopTimer, TimerIsr, Receive, Dispatch, Return,
                      Options, Release, opvars
  <1>5. ASSUME NEW s \in IsrSends, IsrSend(s[1], s[2], s[3]) PROVE LoopStep
    BY <1>1, <1>5 DEF IsrSend, opvars
  <1>6. ASSUME NEW a \in Senders, NEW code \in Codes, Create(a, code) PROVE LoopStep
    BY <1>6, BeginElsewhere, RouterAssumption DEF Create
  <1>7. ASSUME NEW a \in Senders, NEW code \in Codes, NEW cb \in Callbacks,
               CreateWithCallback(a, code, cb)
        PROVE LoopStep
    BY <1>7, BeginElsewhere, RouterAssumption DEF CreateWithCallback
  <1>8. ASSUME NEW a \in Senders, NEW code \in Codes, CreateBroadcast(a, code) PROVE LoopStep
    <2>1. PICK b \in Buffers : Take(b, Header(code, TxId(a), NoCb)) /\ Begin(a, "scan", b, 1)
      BY <1>8 DEF CreateBroadcast
    <2>2. a \in Actors /\ buf'[a] = b
      BY <2>1, RouterAssumption DEF Begin, TypeOK
    <2>3. msg'[b].cb = NoCb
      BY <2>1 DEF Take, Header, TypeOK
    <2>4. \A c \in Actors : c # a => pc'[c] = pc[c] /\ buf'[c] = buf[c]
      BY <2>1 DEF Begin, TypeOK
    <2> QED BY <2>2, <2>3, <2>4 DEF Scanning, LoopStep
  <1>9. ASSUME NEW a \in Flushers, NEW t \in Tasks, FlushBegin(a, t) PROVE LoopStep
    BY <1>9, BeginElsewhere, RouterAssumption DEF FlushBegin, Actors
  <1>10. ASSUME NEW a \in Actors, MsgSend(a) \/ MsgUnicast(a) PROVE LoopStep
    BY <1>2, <1>10 DEF MsgSend, MsgUnicast
  <1>11. ASSUME NEW a \in Actors, Deallocate(a) PROVE LoopStep
    BY <1>3, <1>11 DEF Deallocate
  <1>12. ASSUME NEW a \in Actors, ScanSkip(a) \/ ScanNoBuffer(a) PROVE LoopStep
    BY <1>1, <1>12 DEF ScanSkip, ScanNoBuffer
  <1>13. ASSUME NEW a \in Actors, ScanCopy(a) \/ PutCopy(a) PROVE LoopStep
    BY <1>13 DEF ScanCopy, PutCopy, TypeOK, Scanning, LoopStep
  <1>14. ASSUME NEW a \in Actors, BroadcastDone(a) PROVE LoopStep
    BY <1>3, <1>14, BeginElsewhere DEF BroadcastDone
  <1>15. ASSUME NEW a \in Actors, FlushGet(a) PROVE LoopStep
    BY <1>3, <1>15, BeginElsewhere DEF FlushGet
  <1>16. ASSUME NEW a \in Actors, FlushFree(a) PROVE LoopStep
    BY <1>16, BeginElsewhere DEF FlushFree
  <1>17. ASSUME NEW t \in Tasks, NEW d, Forward(t, d) PROVE LoopStep
    BY <1>17, BeginElsewhere DEF Forward, Actors
  <1>18. ASSUME NEW t \in Tasks, NEW code, Reply(t, code) PROVE LoopStep
    BY <1>18, BeginElsewhere DEF Reply, Actors
  <1> QED
    BY <1>4, <1>5, <1>6, <1>7, <1>8, <1>9, <1>10, <1>11, <1>12, <1>13, <1>14, <1>15, <1>16,
       <1>17, <1>18, Zenon DEF Next, Call, Proceed, PassOn, Serve, Interrupt

\* What msg_broadcast copies keeps being without a callback.
LEMMA BroadcastStep ==
    ASSUME Inv, Inv', BroadcastPlain, CallbackStep, Next
    PROVE  BroadcastPlain'
  <1> SUFFICES ASSUME NEW a \in Actors, Scanning(a)' PROVE msg'[buf'[a]].cb = NoCb
    BY DEF BroadcastPlain, Scanning
  <1>1. CASE Scanning(a) /\ buf'[a] = buf[a]
    <2>1. buf[a] # NoBuf /\ buf[a] \in Buffers
      <3>1. buf[a] \in Buffers \cup {NoBuf} /\ (pc[a] \in {"idle", "flush"} <=> buf[a] = NoBuf)
        BY DEF Inv, TypeOK, CallOK
      <3> QED BY <1>1, <3>1 DEF Scanning
    <2>2. msg[buf[a]] \in Message
      BY <2>1, InvParts, OwnedIsMessage DEF Inv
    <2>3. \E o \in Owners : buf[a] \in Owned'[o]
      <3>1. Owned'[CallOf(a)] = {buf[a]} /\ CallOf(a) \in Owners
        BY <1>1, <2>1, OwnedAtNext, OwnerKinds DEF Pointer
      <3> QED BY <3>1
    <2>4. msg'[buf[a]] # Freed
      BY <2>1, <2>3 DEF Inv, OwnedIsAllocated
    <2>5. msg[buf[a]].cb = NoCb
      BY <1>1 DEF BroadcastPlain, Scanning
    <2> QED BY <1>1, <2>1, <2>2, <2>4, <2>5, FreedIsNoMessage, PlainStaysPlain
  <1>2. CASE ~ (Scanning(a) /\ buf'[a] = buf[a])
    BY <1>2, LoopSteps DEF LoopStep
  <1> QED
    BY <1>1, <1>2

-----------------------------------------------------------------------------
(* Calling the callback *)

\* Only Options counts a call, and only Release ends the place before it.
LEMMA OnlyOptionsCalls ==
    ASSUME Next, called' # called
    PROVE  \E t \in Tasks : Options(t)
  BY Zenon DEF Next, Call, Proceed, PassOn, Serve, Interrupt, Register, StartTimer, StopTimer,
     Create, CreateBroadcast, CreateWithCallback, FlushBegin, MsgSend, MsgUnicast, Deallocate,
     ScanSkip, ScanCopy, ScanNoBuffer, PutCopy, BroadcastDone, FlushGet, FlushFree, Forward,
     Reply, Receive, Dispatch, Return, Release, TimerIsr, IsrSend, cbvars

Releasing(t, b) == cur[t] = b /\ rxpc[t] = "release"

\* A receive loop that is about to free its message frees it in its next step.
LEMMA ReleaseWaits ==
    ASSUME Inv, NoHandOff, Next, NEW t \in Tasks, NEW b \in Buffers, Releasing(t, b),
           msg'[b] # Freed
    PROVE  Releasing(t, b)'
  <1> TypeOK
    BY DEF Inv
  <1>1. ASSUME UNCHANGED <<rxpc, cur>> PROVE Releasing(t, b)'
    BY <1>1 DEF Releasing
  <1>2. ASSUME NEW u \in Tasks, u # t, \A v \in Tasks : v # u => rxpc'[v] = rxpc[v] /\ cur'[v] = cur[v]
        PROVE  Releasing(t, b)'
    BY <1>2 DEF Releasing
  <1>3. ASSUME NEW u \in Tasks, StartTimer(u) \/ StopTimer(u) \/ TimerIsr(u)
        PROVE  Releasing(t, b)'
    BY <1>1, <1>3 DEF StartTimer, StopTimer, TimerIsr, rxvars
  <1>4. ASSUME NEW s \in IsrSends, IsrSend(s[1], s[2], s[3]) PROVE Releasing(t, b)'
    BY <1>1, <1>4 DEF IsrSend, rxvars
  <1>5. ASSUME NEW a \in Senders, Call(a) PROVE Releasing(t, b)'
    BY <1>1, <1>5 DEF Call, Create, CreateBroadcast, CreateWithCallback, rxvars
  <1>6. ASSUME NEW a \in Flushers, NEW u \in Tasks, FlushBegin(a, u) PROVE Releasing(t, b)'
    BY <1>1, <1>6 DEF FlushBegin, rxvars
  <1>7. ASSUME NEW a \in Actors, Proceed(a) PROVE Releasing(t, b)'
    BY <1>1, <1>7 DEF Proceed, MsgSend, MsgUnicast, Deallocate, ScanSkip, ScanCopy,
          ScanNoBuffer, PutCopy, BroadcastDone, FlushGet, FlushFree, rxvars
  <1>8. ASSUME NEW u \in Tasks, PassOn(u) PROVE Releasing(t, b)'
    BY <1>1, <1>8 DEF PassOn, Forward, Reply
  <1>9. ASSUME NEW u \in Tasks, Register(u) PROVE Releasing(t, b)'
    <2>1. u # t
      BY <1>9 DEF Register, Releasing, Inv, ReceiverOK
    <2> QED BY <1>2, <1>9, <2>1 DEF Register, TypeOK
  <1>10. ASSUME NEW u \in Tasks, Receive(u) \/ Dispatch(u) \/ Return(u) \/ Options(u)
         PROVE  Releasing(t, b)'
    <2>1. u # t
      BY <1>10 DEF Receive, Dispatch, Return, Options, Releasing
    <2> QED BY <1>2, <1>10, <2>1 DEF Receive, Dispatch, Return, Options, TypeOK
  <1>11. ASSUME NEW u \in Tasks, Release(u) PROVE Releasing(t, b)'
    <2>1. CASE u = t
      <3>1. msg' = [msg EXCEPT ![b] = Freed]
        BY <1>11, <2>1 DEF Release, Free, NoHandOff, Releasing
      <3> QED BY <3>1 DEF TypeOK
    <2>2. CASE u # t
      BY <1>2, <1>11, <2>2 DEF Release, TypeOK
    <2> QED BY <2>1, <2>2
  <1> QED
    BY <1>3, <1>4, <1>5, <1>6, <1>7, <1>8, <1>9, <1>10, <1>11, Zenon
       DEF Next, Serve, Interrupt

\* Two receive loops do not have the same message.
LEMMA ReceiversApart ==
    ASSUME Inv, NoHandOff, NEW t \in Tasks, NEW u \in Tasks, cur[t] = cur[u], cur[t] # NoBuf
    PROVE  t = u
  <1>1. Owned[ReceiverOf(t)] = {cur[t]} /\ Owned[ReceiverOf(u)] = {cur[t]}
    BY OwnedAt DEF NoHandOff, Pointer
  <1>2. ReceiverOf(t) \in Owners /\ ReceiverOf(u) \in Owners
    BY OwnerKinds
  <1>3. ReceiverOf(t) = ReceiverOf(u)
    BY <1>1, <1>2 DEF Inv, SingleOwner
  <1> QED
    BY <1>3, OwnerKinds

\* The callback that Options calls has not run, and its message is the one that
\* is released next.
LEMMA CalledOnce ==
    ASSUME Inv, NoHandOff, CbInv, NEW t \in Tasks, Options(t)
    PROVE  CallsCounted' /\ CalledThenReleased'
  <1> TypeOK /\ Places /\ OwnedIsAllocated /\ NoCb \notin Callbacks
    BY InvParts, RouterAssumption DEF Inv
  <1> DEFINE b0 == cur[t]
             cb0 == msg[cur[t]].cb
  <1>1. b0 \in Buffers /\ b0 # NoBuf /\ msg[b0] \in Message
    <2>1. cur[t] # NoBuf /\ cur[t] \in Buffers \cup {NoBuf}
      BY DEF Options, Inv, ReceiverOK, TypeOK
    <2>2. msg[cur[t]] \in Message
      BY OwnedIsMessage DEF Options, NoHandOff
    <2> QED BY <2>1, <2>2
  <1>2. msg[b0] # Freed
    BY <1>1, FreedIsNoMessage
  <1>3. /\ called' = IF cb0 \in Callbacks /\ called[cb0] < 2
                     THEN [called EXCEPT ![cb0] = @ + 1] ELSE called
        /\ msg' = msg /\ issued' = issued /\ cur' = cur
        /\ rxpc' = [rxpc EXCEPT ![t] = "release"]
    BY <1>2 DEF Options, CallbackOf
  <1>4. \A u \in Tasks, b \in Buffers : Releasing(u, b) => Releasing(u, b)'
    BY <1>3 DEF Releasing, TypeOK
  <1>5. cur'[t] = b0 /\ rxpc'[t] = "release"
    BY <1>3 DEF TypeOK
  <1>6. CASE cb0 \notin Callbacks
    <2>1. called' = called
      BY <1>3, <1>6
    <2>2. CallsCounted'
      BY <1>3, <2>1 DEF CbInv, CallsCounted
    <2>3. CalledThenReleased'
      BY <1>3, <1>4, <2>1 DEF CbInv, CalledThenReleased, Releasing
    <2> QED BY <2>2, <2>3
  <1>7. CASE cb0 \in Callbacks
    <2>1. cb0 \in issued
      BY <1>1, <1>2, <1>7 DEF CbInv, CallbackIssued
    <2>2. called[cb0] # 1
      <3> SUFFICES ASSUME called[cb0] = 1 PROVE FALSE
        OBVIOUS
      <3>1. PICK u \in Tasks : cur[u] = b0 /\ rxpc[u] = "release"
        BY <1>1, <1>2, <1>7 DEF CbInv, CalledThenReleased
      <3>2. u = t
        BY <1>1, <3>1, ReceiversApart
      <3> QED BY <3>1, <3>2 DEF Options
    <2>3. called[cb0] = 0
      BY <1>7, <2>2 DEF CbInv, CallsCounted
    <2>4. called' = [called EXCEPT ![cb0] = 1]
      BY <1>3, <1>7, <2>3
    <2> HIDE DEF cb0, b0
    <2>5. CallsCounted'
      BY <1>3, <1>7, <2>1, <2>4 DEF CbInv, CallsCounted, TypeOK
    <2>6. ASSUME NEW cb \in Callbacks, NEW b \in Buffers,
                 called'[cb] = 1, msg'[b] # Freed, msg'[b].cb = cb
          PROVE  \E u \in Tasks : Releasing(u, b)'
      <3>1. CASE cb = cb0
        <4>1. b = b0
          BY <1>1, <1>2, <1>3, <1>7, <2>6, <3>1 DEF CbInv, CallbackUnique, cb0, b0
        <4> QED BY <1>5, <4>1 DEF Releasing
      <3>2. CASE cb # cb0
        <4>1. called[cb] = 1 /\ msg[b] # Freed /\ msg[b].cb = cb
          BY <1>3, <2>4, <2>6, <3>2 DEF TypeOK
        <4>2. \E u \in Tasks : Releasing(u, b)
          BY <4>1 DEF CbInv, CalledThenReleased, Releasing
        <4> QED BY <1>4, <4>2
      <3> QED BY <3>1, <3>2
    <2>7. CalledThenReleased'
      BY <2>6 DEF CalledThenReleased, Releasing
    <2> QED BY <2>5, <2>7
  <1> QED
    BY <1>6, <1>7

\* The counts stay right in every other step.
LEMMA NotCalled ==
    ASSUME Inv, NoHandOff, CbInv, CallbackStep, Next, called' = called
    PROVE  CallsCounted' /\ CalledThenReleased'
  <1>1. issued \subseteq issued'
    BY DEF CallbackStep, Kept, Freeing, Rewriting, Filling, Issuing
  <1>2. CallsCounted'
    BY <1>1 DEF CbInv, CallsCounted
  <1>3. ASSUME NEW cb \in Callbacks, NEW b \in Buffers,
               called[cb] = 1, msg'[b] # Freed, msg'[b].cb = cb
        PROVE  \E t \in Tasks : Releasing(t, b)'
    <2>1. cb \in issued /\ cb # NoCb
      BY <1>3, RouterAssumption DEF CbInv, CallsCounted
    <2>2. msg[b] # Freed /\ msg[b].cb = cb
      BY <1>3, <2>1, CallbackWasThere
    <2>3. PICK t \in Tasks : Releasing(t, b)
      BY <1>3, <2>2 DEF CbInv, CalledThenReleased, Releasing
    <2> QED BY <1>3, <2>3, ReleaseWaits
  <1>4. CalledThenReleased'
    BY <1>3 DEF CalledThenReleased, Releasing
  <1> QED
    BY <1>2, <1>4

-----------------------------------------------------------------------------
\* At first nothing is allocated, issued or called.
LEMMA InitCbInv == Init => CbInv
  BY DEF Init, CbInv, CallbackIssued, CallbackUnique, BroadcastPlain, CallsCounted,
         CalledThenReleased

\* Every step in which no handler passes its message on keeps the invariant.
LEMMA NextCbInv ==
    ASSUME Inv, Inv', NoHandOff, CbInv, [Next]_vars
    PROVE  CbInv'
  <1>1. CASE Next
    <2>1. CallbackStep
      BY <1>1, CallbackSteps DEF CbInv
    <2>2. CallbackIssued' /\ CallbackUnique'
      BY <2>1, IssuedStep DEF Inv, CbInv
    <2>3. BroadcastPlain'
      BY <1>1, <2>1, BroadcastStep DEF CbInv
    <2>4. CallsCounted' /\ CalledThenReleased'
      BY <1>1, <2>1, OnlyOptionsCalls, CalledOnce, NotCalled
    <2> QED BY <2>2, <2>3, <2>4 DEF CbInv
  <1>2. CASE UNCHANGED vars
    BY <1>2 DEF vars, rxvars, opvars, cbvars, CbInv, CallbackIssued, CallbackUnique,
                BroadcastPlain, CallsCounted, CalledThenReleased
  <1> QED
    BY <1>1, <1>2

\* So it holds for as long as no handler has passed its message on.
LEMMA CallbacksFollowed == Spec /\ []NoHandOff => []CbInv
  <1>1. Inv /\ Inv' /\ NoHandOff /\ CbInv /\ [Next]_vars => CbInv'
    BY NextCbInv
  <1> QED
    BY <1>1, InitCbInv, Invariance, PTL DEF Spec

\* A callback runs at most once as long as no handler has passed its message on:
\* however messages are sent, broadcast, flushed and freed, no second message and
\* no second look at the options of the same one makes msg_receiver call it again.
THEOREM CallbackOnceUnlessPassedOn == Spec /\ []NoHandOff => []CallbackAtMostOnce
  <1>1. CbInv => CallbackAtMostOnce
    BY DEF CbInv, CallsCounted, CallbackAtMostOnce
  <1> QED
    BY <1>1, CallbacksFollowed, PTL

\* A task without a handler that passes its message on never gives one away.
LEMMA NobodyHandsOff ==
    ASSUME HandOff = {}
    PROVE  Spec => []NoHandOff
  <1>1. Init => NoHandOff
    BY DEF Init, NoHandOff
  <1>2. TypeOK /\ NoHandOff /\ [Next]_vars => NoHandOff'
    <2> SUFFICES ASSUME TypeOK, NoHandOff, [Next]_vars PROVE NoHandOff'
      OBVIOUS
    <2>1. ASSUME NEW t \in Tasks, Release(t) PROVE NoHandOff'
      BY <2>1 DEF Release, NoHandOff, TypeOK
    <2>2. ASSUME NEW t \in Tasks, PassOn(t) PROVE FALSE
      BY <2>2 DEF PassOn, Forward, Reply
    <2>3. CASE res' = res
      BY <2>3 DEF NoHandOff
    <2>4. res' = res \/ \E t \in Tasks : PassOn(t) \/ Release(t)
      BY Zenon DEF Next, Call, Proceed, Serve, Interrupt, Register, StartTimer, StopTimer,
         Create, CreateBroadcast, CreateWithCallback, FlushBegin, MsgSend, MsgUnicast,
         Deallocate, ScanSkip, ScanCopy, ScanNoBuffer, PutCopy, BroadcastDone, FlushGet,
         FlushFree, Receive, Dispatch, Return, Options, TimerIsr, IsrSend, vars, rxvars
    <2> QED
      BY <2>1, <2>2, <2>3, <2>4
  <1> QED
    BY <1>1, <1>2, TypeCorrect, PTL DEF Spec

\* Where no task has a handler that passes its message on, as in app/src, every
\* callback runs at most once.
THEOREM CallbackOnce ==
    ASSUME HandOff = {}
    PROVE  Spec => []CallbackAtMostOnce
  BY NobodyHandsOff, CallbackOnceUnlessPassedOn, PTL

\* While no handler has passed its message on, the options that msg_receiver reads
\* are those of the message it has handled, not bytes of the pool.
THEOREM OptionsUnlessPassedOn == Spec /\ []NoHandOff => []OptionsOfMessage
  <1>1. Inv /\ NoHandOff => OptionsOfMessage
    <2> SUFFICES ASSUME Inv, NoHandOff, NEW t \in Tasks, rxpc[t] = "options"
                 PROVE  msg[cur[t]] # Freed
      BY DEF OptionsOfMessage
    <2>1. msg[cur[t]] \in Message
      BY InvParts, OwnedIsMessage DEF Inv, NoHandOff
    <2> QED
      BY <2>1, FreedIsNoMessage
  <1> QED
    BY <1>1, Invariance, PTL

-----------------------------------------------------------------------------
(* A callback is not lost *)

\* Nobody is flushing a queue.
NoFlush == \A a \in Actors : pc[a] \notin {"flush", "purge"}

\* A pointer stays in its queue until the receiver takes it out.
LEMMA StaysQueued ==
    ASSUME Inv, NoFlush, Next, NEW t \in Tasks, NEW b \in Range(queue[t])
    PROVE  b \in Range(queue'[t]) \/ (Receive(t) /\ cur'[t] = b)
  <1> DEFINE Stays == b \in Range(queue'[t])
  <1>0. TypeOK /\ CallOK /\ queue[t] \in Seq(Buffers)
    BY DEF Inv, TypeOK
  <1>1. ASSUME queue' = queue PROVE Stays
    BY <1>1
  <1>2. ASSUME NEW d, NEW c \in Buffers, queue' = [queue EXCEPT ![d] = Append(@, c)]
        PROVE  Stays
    <2>1. CASE d = t
      <3>1. queue'[t] = Append(queue[t], c)
        BY <1>0, <1>2, <2>1 DEF TypeOK
      <3> QED BY <1>0, <1>2, <3>1, AppendRange
    <2>2. CASE d # t
      BY <1>0, <1>2, <2>2 DEF TypeOK
    <2> QED BY <2>1, <2>2
  <1>3. ASSUME NEW u \in Tasks, Receive(u)
        PROVE  Stays \/ (Receive(t) /\ cur'[t] = b)
    <2>1. CASE u # t
      <3>1. queue'[t] = queue[t]
        BY <1>0, <1>3, <2>1 DEF Receive, TypeOK
      <3> QED BY <3>1
    <2>2. CASE u = t
      <3>1. /\ queue[t] # << >> /\ queue'[t] = Tail(queue[t]) /\ cur'[t] = Head(queue[t])
        BY <1>0, <1>3, <2>2 DEF Receive, TypeOK
      <3>2. PICK i \in DOMAIN queue[t] : queue[t][i] = b
        BY DEF Range
      <3>3. DOMAIN queue[t] = 1 .. Len(queue[t]) /\ Len(queue[t]) \in Nat
        BY <1>0
      <3>4. CASE i = 1
        BY <1>0, <1>3, <2>2, <3>1, <3>2, <3>4
      <3>5. CASE i # 1
        <4>1. i - 1 \in 1 .. (Len(queue[t]) - 1) /\ (i - 1) + 1 = i
          BY <3>2, <3>3, <3>5
        <4>2. Tail(queue[t]) = [j \in 1 .. (Len(queue[t]) - 1) |-> queue[t][j + 1]]
          BY <1>0, <3>1, TailShape
        <4>3. Tail(queue[t])[i - 1] = b /\ i - 1 \in DOMAIN Tail(queue[t])
          BY <3>2, <4>1, <4>2
        <4> QED BY <3>1, <4>3 DEF Range
      <3> QED BY <3>4, <3>5
    <2> QED BY <2>1, <2>2
  <1>4. ASSUME NEW c \in Buffers, NEW m, NEW d, IsrDeliver(c, m, d) PROVE Stays
    BY <1>1, <1>2, <1>4 DEF IsrDeliver
  <1>5. ASSUME NEW a \in Actors, NEW d, pc[a] \in {"send", "unicast"}, buf[a] \in Buffers,
               QueueOrFail(a, d)
        PROVE  Stays
    BY <1>1, <1>2, <1>5 DEF QueueOrFail
  <1>6. ASSUME NEW a \in Actors, MsgSend(a) \/ MsgUnicast(a) PROVE Stays
    <2>1. buf[a] \in Buffers
      <3>1. pc[a] \in {"send", "unicast"}
        BY <1>6 DEF MsgSend, MsgUnicast
      <3>2. buf[a] # NoBuf
        BY <1>0, <3>1 DEF CallOK
      <3> QED BY <1>0, <3>2 DEF TypeOK
    <2>2. PICK d : pc[a] \in {"send", "unicast"} /\ QueueOrFail(a, d)
      BY <1>6 DEF MsgSend, MsgUnicast
    <2> QED BY <1>5, <2>1, <2>2
  <1>7. ASSUME NEW a \in Actors, PutCopy(a) PROVE Stays
    <2>1. copy[a] \in Buffers
      BY <1>0, <1>7 DEF PutCopy, CallOK, TypeOK
    <2> QED BY <1>1, <1>2, <1>7, <2>1 DEF PutCopy
  <1>8. ASSUME NEW u \in Tasks, TimerIsr(u) PROVE Stays
    BY <1>1, <1>4, <1>8 DEF TimerIsr
  <1>9. ASSUME NEW s \in IsrSends, IsrSend(s[1], s[2], s[3]) PROVE Stays
    BY <1>4, <1>9 DEF IsrSend
  <1>10. ASSUME NEW a \in Actors, FlushGet(a) PROVE FALSE
    BY <1>10 DEF FlushGet, NoFlush
  <1>11. ASSUME NEW a \in Actors,
                \/ Deallocate(a) \/ ScanSkip(a) \/ ScanCopy(a) \/ ScanNoBuffer(a)
                \/ BroadcastDone(a) \/ FlushFree(a)
         PROVE  Stays
    BY <1>1, <1>11 DEF Deallocate, ScanSkip, ScanCopy, ScanNoBuffer, BroadcastDone, FlushFree
  <1>12. ASSUME NEW u \in Tasks,
                \/ Register(u) \/ StartTimer(u) \/ StopTimer(u)
                \/ Dispatch(u) \/ Return(u) \/ Options(u) \/ Release(u) \/ PassOn(u)
         PROVE  Stays
    BY <1>1, <1>12 DEF Register, StartTimer, StopTimer, Dispatch, Return, Options, Release,
                       PassOn, Forward, Reply
  <1>13. ASSUME NEW a \in Senders, Call(a) PROVE Stays
    BY <1>1, <1>13 DEF Call, Create, CreateBroadcast, CreateWithCallback
  <1>14. ASSUME NEW a \in Flushers, NEW u \in Tasks, FlushBegin(a, u) PROVE Stays
    BY <1>1, <1>14 DEF FlushBegin
  <1> QED
    BY <1>3, <1>6, <1>7, <1>8, <1>9, <1>10, <1>11, <1>12, <1>13, <1>14, Zenon
       DEF Next, Proceed, Serve, Interrupt

\* A receive loop keeps its message and its place, or goes on to its next one.
LEMMA ReceiverGoesOn ==
    ASSUME Inv, Next, NEW t \in Tasks, rxpc[t] \in {"dispatch", "handler", "options"},
           res'[t] = "FREE"
    PROVE  /\ cur'[t] = cur[t]
           /\ \/ rxpc'[t] = rxpc[t]
              \/ rxpc[t] = "dispatch" /\ Dispatch(t)
              \/ rxpc[t] = "handler" /\ rxpc'[t] = "options"
              \/ rxpc[t] = "options" /\ Options(t)
  <1>0. TypeOK /\ ReceiverOK
    BY DEF Inv
  <1> DEFINE
        Goes ==
          /\ cur'[t] = cur[t]
          /\ \/ rxpc'[t] = rxpc[t]
             \/ rxpc[t] = "dispatch" /\ Dispatch(t)
             \/ rxpc[t] = "handler" /\ rxpc'[t] = "options"
             \/ rxpc[t] = "options" /\ Options(t)
  <1>1. ASSUME UNCHANGED <<rxpc, cur>> PROVE Goes
    BY <1>1
  <1>2. ASSUME NEW u \in Tasks, Register(u) PROVE Goes
    <2>1. u # t
      BY <1>0, <1>2 DEF Register, ReceiverOK
    <2> QED BY <1>0, <1>2, <2>1 DEF Register, TypeOK
  <1>3. ASSUME NEW u \in Tasks \ {t}, Receive(u) \/ Dispatch(u) \/ Return(u) \/ Options(u) \/ Release(u)
        PROVE  Goes
    BY <1>0, <1>3 DEF Receive, Dispatch, Return, Options, Release, TypeOK
  <1>4. ASSUME Receive(t) \/ Dispatch(t) \/ Return(t) \/ Options(t) \/ Release(t) PROVE Goes
    <2>1. ~ Receive(t) /\ ~ Release(t)
      BY <1>4 DEF Receive, Release
    <2>2. CASE Dispatch(t)
      BY <2>2 DEF Dispatch
    <2>3. CASE Return(t)
      BY <1>0, <2>3 DEF Return, TypeOK
    <2>4. CASE Options(t)
      BY <2>4 DEF Options
    <2> QED BY <1>4, <2>1, <2>2, <2>3, <2>4
  <1>5. ASSUME NEW u \in Tasks, StartTimer(u) \/ StopTimer(u) \/ TimerIsr(u) \/ PassOn(u)
        PROVE  Goes
    BY <1>1, <1>5 DEF StartTimer, StopTimer, TimerIsr, PassOn, Forward, Reply, rxvars
  <1>6. ASSUME NEW s \in IsrSends, IsrSend(s[1], s[2], s[3]) PROVE Goes
    BY <1>1, <1>6 DEF IsrSend, rxvars
  <1>7. ASSUME NEW a \in Senders, Call(a) PROVE Goes
    BY <1>1, <1>7 DEF Call, Create, CreateBroadcast, CreateWithCallback, rxvars
  <1>8. ASSUME NEW a \in Flushers, NEW u \in Tasks, FlushBegin(a, u) PROVE Goes
    BY <1>1, <1>8 DEF FlushBegin, rxvars
  <1>9. ASSUME NEW a \in Actors, Proceed(a) PROVE Goes
    BY <1>1, <1>9 DEF Proceed, MsgSend, MsgUnicast, Deallocate, ScanSkip, ScanCopy,
                      ScanNoBuffer, PutCopy, BroadcastDone, FlushGet, FlushFree, rxvars
  <1>10. ASSUME NEW u \in Tasks, Receive(u) \/ Dispatch(u) \/ Return(u) \/ Options(u) \/ Release(u)
         PROVE  Goes
    BY <1>3, <1>4, <1>10
  <1> HIDE DEF Goes
  <1>11. Goes
    BY <1>2, <1>5, <1>6, <1>7, <1>8, <1>9, <1>10, Zenon DEF Next, Serve, Interrupt
  <1> QED
    BY <1>11 DEF Goes

\* A callback that a task owes is owed after the next step, or called in it.
LEMMA OwesStep ==
    ASSUME Inv, NoHandOff, NoHandOff', NoFlush, CbInv, Next,
           NEW t \in Tasks, NEW cb \in Callbacks, Owes(t, cb)
    PROVE  Owes(t, cb)' \/ called'[cb] = called[cb] + 1
  <1>0. TypeOK /\ ReceiverOK
    BY DEF Inv
  <1>1. PICK b \in Buffers :
          /\ \/ b \in Range(queue[t])
             \/ b = cur[t] /\ rxpc[t] \in {"dispatch", "handler", "options"}
          /\ msg[b] # Freed /\ msg[b].cb = cb /\ msg[b].code \in Handles[t]
    BY DEF Owes
  <1>2. CASE b \in Range(queue[t])
    <2>1. msg'[b] = msg[b]
      BY <1>2, QueuedStep
    <2>2. \/ b \in Range(queue'[t])
          \/ b = cur'[t] /\ rxpc'[t] = "dispatch"
      <3>1. Receive(t) => rxpc'[t] = "dispatch"
        BY <1>0 DEF Receive, TypeOK
      <3> QED BY <1>2, <3>1, StaysQueued
    <2>3. Owes(t, cb)'
      BY <1>1, <2>1, <2>2 DEF Owes
    <2> QED BY <2>3
  <1>3. CASE b = cur[t] /\ rxpc[t] \in {"dispatch", "handler", "options"}
    <2>1. cur[t] # NoBuf /\ res[t] = "FREE" /\ res'[t] = "FREE"
      BY <1>0, <1>3 DEF ReceiverOK, NoHandOff
    <2>2. /\ cur'[t] = b
          /\ \/ rxpc'[t] = rxpc[t]
             \/ rxpc[t] = "dispatch" /\ Dispatch(t)
             \/ rxpc[t] = "handler" /\ rxpc'[t] = "options"
             \/ rxpc[t] = "options" /\ Options(t)
      BY <1>3, <2>1, ReceiverGoesOn
    <2>3. msg'[b] = msg[b]
      BY <1>3, <2>1, <2>2, HandledStep
    <2>4. ASSUME rxpc'[t] \in {"dispatch", "handler", "options"} PROVE Owes(t, cb)'
      BY <1>1, <2>2, <2>3, <2>4 DEF Owes
    <2>5. CASE rxpc'[t] = rxpc[t]
      BY <1>3, <2>4, <2>5
    <2>6. CASE Dispatch(t)
      <3>1. rxpc'[t] = "handler"
        BY <1>0, <1>1, <1>3, <2>6 DEF Dispatch, TypeOK
      <3> QED BY <2>4, <3>1
    <2>7. CASE Options(t)
      <3>1. CallbackOf(t) = {cb}
        BY <1>1, <1>3 DEF CallbackOf
      <3>2. called[cb] \in {0, 1}
        BY DEF CbInv, CallsCounted
      <3>3. called' = [called EXCEPT ![cb] = @ + 1]
        BY <2>7, <3>1, <3>2 DEF Options
      <3> QED BY <1>0, <3>3 DEF TypeOK
    <2> QED BY <2>2, <2>4, <2>5, <2>6, <2>7
  <1> QED
    BY <1>1, <1>2, <1>3

\* A callback that waits for its receiver is never lost, whatever the other threads and
\* the interrupts do, as long as no handler has passed its message on and nobody is
\* flushing: it is owed until msg_receiver calls it.
THEOREM OwedUnlessPassedOnOrFlushed ==
    Spec /\ [](NoHandOff /\ NoFlush) => OwedUntilCalled
  <1>1. Inv /\ NoHandOff /\ NoHandOff' /\ NoFlush /\ CbInv /\ [Next]_vars =>
          [\A t \in Tasks, cb \in Callbacks :
             Owes(t, cb) => Owes(t, cb)' \/ called'[cb] = called[cb] + 1]_vars
    BY OwesStep
  <1> QED
    BY <1>1, Invariance, CallbacksFollowed, PTL DEF Spec, OwedUntilCalled

\* Nobody flushes where no thread calls msg_flush.
LEMMA NobodyFlushes ==
    ASSUME Flushers = {}
    PROVE  Spec => []NoFlush
  <1>1. Init => NoFlush
    BY DEF Init, NoFlush
  <1>2. TypeOK /\ NoFlush /\ [Next]_vars => NoFlush'
    <2> SUFFICES ASSUME TypeOK, NoFlush, [Next]_vars PROVE NoFlush'
      OBVIOUS
    <2>1. ASSUME NEW a \in Actors, NEW w \in {"idle", "send", "unicast", "scan", "put", "dealloc"},
                 pc' = [pc EXCEPT ![a] = w]
          PROVE  NoFlush'
      BY <2>1 DEF NoFlush, TypeOK
    <2>2. CASE pc' = pc
      BY <2>2 DEF NoFlush
    <2>3. ASSUME NEW t \in Tasks, PassOn(t) PROVE NoFlush'
      BY <2>1, <2>3 DEF PassOn, Forward, Reply, Begin, Actors
    <2>4. ASSUME NEW a \in Senders, Call(a) PROVE NoFlush'
      <3>1. a \in Actors
        BY RouterAssumption
      <3> QED BY <2>1, <2>4, <3>1 DEF Call, Create, CreateBroadcast, CreateWithCallback, Begin
    <2>5. ASSUME NEW a \in Actors, Proceed(a) PROVE NoFlush'
      <3>1. CASE MsgSend(a) \/ MsgUnicast(a)
        BY <2>1, <3>1 DEF MsgSend, MsgUnicast, QueueOrFail, End, Begin
      <3>2. CASE Deallocate(a) \/ ScanCopy(a) \/ PutCopy(a) \/ BroadcastDone(a)
        BY <2>1, <3>2 DEF Deallocate, ScanCopy, PutCopy, BroadcastDone, End, Begin
      <3>3. CASE ScanSkip(a) \/ ScanNoBuffer(a)
        BY <2>2, <3>3 DEF ScanSkip, ScanNoBuffer
      <3>4. ~ FlushGet(a) /\ ~ FlushFree(a)
        BY DEF NoFlush, FlushGet, FlushFree
      <3> QED BY <2>5, <3>1, <3>2, <3>3, <3>4 DEF Proceed
    <2>6. ASSUME NEW t \in Tasks, \/ Register(t) \/ StartTimer(t) \/ StopTimer(t)
                                  \/ Serve(t) \/ Return(t)
          PROVE  NoFlush'
      BY <2>2, <2>6 DEF Register, StartTimer, StopTimer, Serve, Receive, Dispatch, Options,
                        Release, Return, opvars
    <2>7. CASE Interrupt
      BY <2>2, <2>7 DEF Interrupt, TimerIsr, IsrSend, opvars
    <2>8. CASE UNCHANGED vars
      BY <2>2, <2>8 DEF vars, opvars
    <2> QED
      BY <2>3, <2>4, <2>5, <2>6, <2>7, <2>8 DEF Next
  <1> QED
    BY <1>1, <1>2, TypeCorrect, PTL DEF Spec

\* Where no handler passes its message on and no thread flushes, as in app/src, a
\* callback that waits for its receiver is owed until it is called.
THEOREM CallbackNotLost ==
    ASSUME HandOff = {}, Flushers = {}
    PROVE  Spec => OwedUntilCalled
  BY NobodyHandsOff, NobodyFlushes, OwedUnlessPassedOnOrFlushed, PTL
=============================================================================
