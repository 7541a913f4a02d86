--------------------------- MODULE MsgRouterProofs ---------------------------
(***************************************************************************)
(* Proofs about MsgRouter, for every number of tasks, clients, buffers,     *)
(* codes and callbacks and every queue depth.                               *)
(*                                                                          *)
(* The inductive invariant is Inv.  Its core, ownership, is proved in two   *)
(* parts: the lemmas of the first part say what gaining, losing and moving  *)
(* a buffer does to ANY ownership function, and those of the second that    *)
(* every action does exactly one of these to Owned.                         *)
(***************************************************************************)
EXTENDS MsgRouter, TLAPS

\* A framework call has a message in every place but "idle" and "flush", a copy
\* in "put", and an index or a receiver its place allows.  Tasks call only from
\* their handlers.
CallOK ==
    \A a \in Actors :
        /\ pc[a] \in {"idle", "flush"} <=> buf[a] = NoBuf
        /\ pc[a] = "put" <=> copy[a] # NoBuf
        /\ pc[a] = "send" => dest[a] \in 0 .. NumTasks
        /\ pc[a] = "put" => dest[a] \in Tasks
        /\ pc[a] \in {"flush", "purge"} => dest[a] \in registered
        /\ a \in Tasks /\ pc[a] # "idle" => rxpc[a] = "handler"

\* The receive loop has a message in every place but "off" and "wait".  Only
\* a handler gives it away, and then for the rest of the round.
ReceiverOK ==
    \A t \in Tasks :
        /\ rxpc[t] \in {"off", "wait"} <=> cur[t] = NoBuf
        /\ rxpc[t] \in {"off", "wait", "dispatch"} => res[t] = "FREE"
        /\ rxpc[t] = "off" <=> t \notin registered

Inv ==
    /\ TypeOK
    /\ CallOK
    /\ ReceiverOK
    /\ SingleOwner
    /\ OwnedIsAllocated
    /\ QueuedForReceiver

-----------------------------------------------------------------------------
(* Sequences *)

\* What a sequence has in it after an Append, and before a Tail.
LEMMA AppendRange ==
    ASSUME NEW S, NEW s \in Seq(S), NEW e \in S
    PROVE  /\ Append(s, e) \in Seq(S)
           /\ Range(Append(s, e)) = Range(s) \cup {e}
  <1>1. /\ Append(s, e) \in Seq(S)
        /\ Len(Append(s, e)) = Len(s) + 1
        /\ DOMAIN Append(s, e) = 1 .. Len(s) + 1
        /\ DOMAIN s = 1 .. Len(s)
        /\ Len(s) \in Nat
        /\ \A i \in 1 .. Len(s) : Append(s, e)[i] = s[i]
        /\ Append(s, e)[Len(s) + 1] = e
    OBVIOUS
  <1>2. 1 .. Len(s) + 1 = 1 .. Len(s) \cup {Len(s) + 1}
    BY <1>1
  <1>3. {Append(s, e)[i] : i \in DOMAIN Append(s, e)} = {s[i] : i \in DOMAIN s} \cup {e}
    BY <1>1, <1>2
  <1> QED
    BY <1>1, <1>3, Zenon DEF Range

\* An element that is not yet in a sequence without repetitions can be appended.
LEMMA AppendInjective ==
    ASSUME NEW S, NEW s \in Seq(S), NEW e \in S,
           \A i, j \in DOMAIN s : s[i] = s[j] => i = j,
           e \notin Range(s)
    PROVE  \A i, j \in DOMAIN Append(s, e) : Append(s, e)[i] = Append(s, e)[j] => i = j
  <1>1. /\ DOMAIN Append(s, e) = 1 .. Len(s) + 1
        /\ DOMAIN s = 1 .. Len(s)
        /\ Len(s) \in Nat
        /\ \A i \in 1 .. Len(s) : Append(s, e)[i] = s[i]
        /\ Append(s, e)[Len(s) + 1] = e
    OBVIOUS
  <1> QED
    BY <1>1 DEF Range

\* Taking the head out of a sequence without repetitions removes it.
LEMMA TailRange ==
    ASSUME NEW S, NEW s \in Seq(S), s # << >>,
           \A i, j \in DOMAIN s : s[i] = s[j] => i = j
    PROVE  /\ Head(s) \in S
           /\ Head(s) = s[1] /\ 1 \in DOMAIN s
           /\ Tail(s) \in Seq(S)
           /\ \A i \in DOMAIN Tail(s) : i + 1 \in DOMAIN s /\ Tail(s)[i] = s[i + 1]
           /\ Range(Tail(s)) = Range(s) \ {Head(s)}
           /\ \A i, j \in DOMAIN Tail(s) : Tail(s)[i] = Tail(s)[j] => i = j
  <1>1. /\ Head(s) \in S /\ Head(s) = s[1]
        /\ Tail(s) \in Seq(S)
        /\ Len(s) \in Nat /\ Len(s) > 0
        /\ DOMAIN s = 1 .. Len(s)
        /\ DOMAIN Tail(s) = 1 .. Len(s) - 1
        /\ \A i \in 1 .. Len(s) - 1 : Tail(s)[i] = s[i + 1]
    OBVIOUS
  <1>2. \A i \in 1 .. Len(s) - 1 : i + 1 \in DOMAIN s
    BY <1>1
  <1>3. \A i, j \in DOMAIN Tail(s) : Tail(s)[i] = Tail(s)[j] => i = j
    BY <1>1, <1>2
  <1>4. ASSUME NEW x PROVE x \in {Tail(s)[i] : i \in DOMAIN Tail(s)}
                            <=> x \in {s[i] : i \in DOMAIN s} \ {Head(s)}
    <2>1. ASSUME NEW i \in DOMAIN Tail(s), x = Tail(s)[i]
          PROVE  x \in {s[j] : j \in DOMAIN s} \ {Head(s)}
      BY <1>1, <1>2, <2>1
    <2>2. ASSUME NEW i \in DOMAIN s, x = s[i], x # Head(s)
          PROVE  x \in {Tail(s)[j] : j \in DOMAIN Tail(s)}
      <3>1. i - 1 \in DOMAIN Tail(s) /\ Tail(s)[i - 1] = s[i]
        BY <1>1, <2>2
      <3> QED BY <2>2, <3>1
    <2> QED BY <2>1, <2>2
  <1>5. {Tail(s)[i] : i \in DOMAIN Tail(s)} = {s[i] : i \in DOMAIN s} \ {Head(s)}
    BY <1>4, Zenon
  <1>6. 1 \in DOMAIN s
    BY <1>1
  <1> QED
    BY <1>1, <1>2, <1>3, <1>5, <1>6, Zenon DEF Range

\* A tail, element by element.
LEMMA TailShape ==
    ASSUME NEW S, NEW s \in Seq(S), s # << >>
    PROVE  /\ Len(s) \in Nat /\ Len(s) > 0
           /\ Tail(s) = [i \in 1 .. Len(s) - 1 |-> s[i + 1]]
  <1> DEFINE r == [i \in 1 .. Len(s) - 1 |-> s[i + 1]]
  <1>1. Len(s) \in Nat /\ Len(s) > 0 /\ Tail(s) \in Seq(S) /\ Len(Tail(s)) = Len(s) - 1
    OBVIOUS
  <1>2. r \in Seq(S) /\ Len(r) = Len(s) - 1 /\ \A i \in 1 .. Len(r) : r[i] = Tail(s)[i]
    OBVIOUS
  <1> HIDE DEF r
  <1>3. Tail(s) = r
    BY <1>1, <1>2
  <1> QED
    BY <1>1, <1>3 DEF r

-----------------------------------------------------------------------------
(* Ownership functions *)

Disjoint(own) == \A o1, o2 \in Owners : o1 # o2 => own[o1] \cap own[o2] = {}

Covers(own, alloc) == \A b \in Buffers : b \in alloc <=> \E o \in Owners : b \in own[o]

Allocated == {b \in Buffers : msg[b] # Freed}

Gain(own, own2, o, b) ==
    \A p \in Owners : own2[p] = IF p = o THEN own[p] \cup {b} ELSE own[p]
Loss(own, own2, o, b) ==
    \A p \in Owners : own2[p] = IF p = o THEN own[p] \ {b} ELSE own[p]
Move(own, own2, o1, o2, b) ==
    \A p \in Owners : own2[p] = IF p = o1 THEN own[p] \ {b}
                                ELSE IF p = o2 THEN own[p] \cup {b} ELSE own[p]
Same(own, own2) == \A p \in Owners : own2[p] = own[p]

\* A buffer that nobody owns can be given to one owner.
LEMMA GainKeeps ==
    ASSUME NEW own, NEW own2, NEW alloc, NEW o \in Owners,
           NEW b \in Buffers, b \notin alloc, Disjoint(own), Covers(own, alloc),
           Gain(own, own2, o, b)
    PROVE  Disjoint(own2) /\ Covers(own2, alloc \cup {b})
  <1>1. \A p \in Owners : b \notin own[p]
    BY DEF Covers
  <1>2. Disjoint(own2)
    BY <1>1 DEF Disjoint, Gain
  <1>3. Covers(own2, alloc \cup {b})
    BY DEF Covers, Gain
  <1> QED BY <1>2, <1>3

\* An owner can give a buffer back.
LEMMA LossKeeps ==
    ASSUME NEW own, NEW own2, NEW alloc, NEW o \in Owners,
           NEW b \in own[o], Disjoint(own), Covers(own, alloc),
           Loss(own, own2, o, b)
    PROVE  Disjoint(own2) /\ Covers(own2, alloc \ {b})
  BY DEF Disjoint, Covers, Loss

\* An owner can pass a buffer on.
LEMMA MoveKeeps ==
    ASSUME NEW own, NEW own2, NEW alloc, NEW o1 \in Owners, NEW o2 \in Owners,
           o1 # o2, NEW b \in own[o1], Disjoint(own), Covers(own, alloc),
           Move(own, own2, o1, o2, b)
    PROVE  Disjoint(own2) /\ Covers(own2, alloc)
  <1>1. \A p \in Owners : p # o1 => b \notin own[p]
    BY DEF Disjoint
  <1>2. Disjoint(own2)
    BY <1>1 DEF Disjoint, Move
  <1>3. Covers(own2, alloc)
    BY DEF Covers, Move
  <1> QED BY <1>2, <1>3

\* Where nothing moves, ownership stays as it is.
LEMMA SameKeeps ==
    ASSUME NEW own, NEW own2, NEW alloc, Disjoint(own), Covers(own, alloc), Same(own, own2)
    PROVE  Disjoint(own2) /\ Covers(own2, alloc)
  BY DEF Disjoint, Covers, Same

\* The owners are of four kinds, and differ when their kinds or names do.
LEMMA OwnerKinds ==
    /\ \A o \in Owners :
        \/ \E t \in Tasks : o = QueueOf(t) \/ o = ReceiverOf(t)
        \/ \E a \in Actors : o = CallOf(a) \/ o = CopyOf(a)
    /\ \A t \in Tasks : QueueOf(t) \in Owners /\ ReceiverOf(t) \in Owners
    /\ \A a \in Actors : CallOf(a) \in Owners /\ CopyOf(a) \in Owners
    /\ \A x, y :
        /\ QueueOf(x) # ReceiverOf(y) /\ QueueOf(x) # CallOf(y) /\ QueueOf(x) # CopyOf(y)
        /\ ReceiverOf(x) # CallOf(y) /\ ReceiverOf(x) # CopyOf(y) /\ CallOf(x) # CopyOf(y)
        /\ QueueOf(x) = QueueOf(y) => x = y
        /\ ReceiverOf(x) = ReceiverOf(y) => x = y
        /\ CallOf(x) = CallOf(y) => x = y
        /\ CopyOf(x) = CopyOf(y) => x = y
  BY DEF Owners, QueueOf, ReceiverOf, CallOf, CopyOf

\* Owned, owner by owner, in a state and in the next one.
LEMMA OwnedAt ==
    /\ \A t \in Tasks :
        /\ Owned[QueueOf(t)] = Range(queue[t])
        /\ Owned[ReceiverOf(t)] = IF res[t] = "FREE" THEN Pointer(cur[t]) ELSE {}
    /\ \A a \in Actors :
        /\ Owned[CallOf(a)] = Pointer(buf[a])
        /\ Owned[CopyOf(a)] = Pointer(copy[a])
  BY DEF Owned, Owners, QueueOf, ReceiverOf, CallOf, CopyOf

\* What each owner has after a step.
LEMMA OwnedAtNext ==
    /\ \A t \in Tasks :
        /\ Owned'[QueueOf(t)] = Range(queue'[t])
        /\ Owned'[ReceiverOf(t)] = IF res'[t] = "FREE" THEN Pointer(cur'[t]) ELSE {}
    /\ \A a \in Actors :
        /\ Owned'[CallOf(a)] = Pointer(buf'[a])
        /\ Owned'[CopyOf(a)] = Pointer(copy'[a])
  BY DEF Owned, Owners, Pointer, QueueOf, ReceiverOf, CallOf, CopyOf

\* NoBuf is no buffer.
LEMMA NoBufIsNoBuffer == NoBuf \notin Buffers
  BY RouterAssumption

-----------------------------------------------------------------------------
(* What a change of one variable does to what it owns *)

\* a pointer is put at the end of a queue
LEMMA QueueGrows ==
    ASSUME queue \in [Tasks -> Seq(Buffers)], NEW d \in Tasks, NEW b \in Buffers,
           queue' = [queue EXCEPT ![d] = Append(@, b)]
    PROVE  \A t \in Tasks : Owned'[QueueOf(t)] =
              IF t = d THEN Owned[QueueOf(t)] \cup {b} ELSE Owned[QueueOf(t)]
  <1>1. queue[d] \in Seq(Buffers) /\ queue'[d] = Append(queue[d], b)
    OBVIOUS
  <1>2. \A t \in Tasks \ {d} : queue'[t] = queue[t]
    OBVIOUS
  <1>3. Range(Append(queue[d], b)) = Range(queue[d]) \cup {b}
    BY <1>1, AppendRange
  <1>4. Owned'[QueueOf(d)] = Owned[QueueOf(d)] \cup {b}
    BY <1>1, <1>3, OwnedAt, OwnedAtNext
  <1>5. \A t \in Tasks \ {d} : Owned'[QueueOf(t)] = Owned[QueueOf(t)]
    BY <1>2, OwnedAt, OwnedAtNext
  <1> QED
    BY <1>4, <1>5

\* the first pointer of a queue is taken out
LEMMA QueueShrinks ==
    ASSUME queue \in [Tasks -> Seq(Buffers)], NEW d \in Tasks, queue[d] # << >>,
           \A i, j \in DOMAIN queue[d] : queue[d][i] = queue[d][j] => i = j,
           queue' = [queue EXCEPT ![d] = Tail(@)]
    PROVE  /\ Head(queue[d]) \in Owned[QueueOf(d)]
           /\ \A t \in Tasks : Owned'[QueueOf(t)] =
                IF t = d THEN Owned[QueueOf(t)] \ {Head(queue[d])} ELSE Owned[QueueOf(t)]
  <1>1. queue[d] \in Seq(Buffers) /\ queue'[d] = Tail(queue[d])
    OBVIOUS
  <1>2. \A t \in Tasks \ {d} : queue'[t] = queue[t]
    OBVIOUS
  <1>3. /\ Range(Tail(queue[d])) = Range(queue[d]) \ {Head(queue[d])}
        /\ Head(queue[d]) \in Range(queue[d])
    BY <1>1, TailRange DEF Range
  <1>4. Owned'[QueueOf(d)] = Owned[QueueOf(d)] \ {Head(queue[d])}
    BY <1>1, <1>3, OwnedAt, OwnedAtNext
  <1>5. \A t \in Tasks \ {d} : Owned'[QueueOf(t)] = Owned[QueueOf(t)]
    BY <1>2, OwnedAt, OwnedAtNext
  <1>6. Head(queue[d]) \in Owned[QueueOf(d)]
    BY <1>3, OwnedAt
  <1> QED
    BY <1>4, <1>5, <1>6

\* a call is given a message
LEMMA CallBegins ==
    ASSUME buf \in [Actors -> Buffers \cup {NoBuf}], NEW a \in Actors, NEW b \in Buffers,
           buf[a] = NoBuf, buf' = [buf EXCEPT ![a] = b]
    PROVE  \A c \in Actors : Owned'[CallOf(c)] =
              IF c = a THEN Owned[CallOf(c)] \cup {b} ELSE Owned[CallOf(c)]
  <1>1. Owned[CallOf(a)] = {} /\ Owned'[CallOf(a)] = {b}
    BY NoBufIsNoBuffer, OwnedAt, OwnedAtNext DEF Pointer
  <1>2. \A c \in Actors \ {a} : buf'[c] = buf[c]
    OBVIOUS
  <1>3. \A c \in Actors \ {a} : Owned'[CallOf(c)] = Owned[CallOf(c)]
    BY <1>2, OwnedAt, OwnedAtNext
  <1> QED
    BY <1>1, <1>3

\* a call gives up its message
LEMMA CallEnds ==
    ASSUME buf \in [Actors -> Buffers \cup {NoBuf}], NEW a \in Actors,
           buf[a] \in Buffers, buf' = [buf EXCEPT ![a] = NoBuf]
    PROVE  /\ buf[a] \in Owned[CallOf(a)]
           /\ \A c \in Actors : Owned'[CallOf(c)] =
                IF c = a THEN Owned[CallOf(c)] \ {buf[a]} ELSE Owned[CallOf(c)]
  <1>1. Owned[CallOf(a)] = {buf[a]} /\ Owned'[CallOf(a)] = {}
    BY NoBufIsNoBuffer, OwnedAt, OwnedAtNext DEF Pointer
  <1>2. \A c \in Actors \ {a} : buf'[c] = buf[c]
    OBVIOUS
  <1>3. \A c \in Actors \ {a} : Owned'[CallOf(c)] = Owned[CallOf(c)]
    BY <1>2, OwnedAt, OwnedAtNext
  <1> QED
    BY <1>1, <1>3

\* msg_broadcast has a copy
LEMMA CopyBegins ==
    ASSUME copy \in [Actors -> Buffers \cup {NoBuf}], NEW a \in Actors, NEW b \in Buffers,
           copy[a] = NoBuf, copy' = [copy EXCEPT ![a] = b]
    PROVE  \A c \in Actors : Owned'[CopyOf(c)] =
              IF c = a THEN Owned[CopyOf(c)] \cup {b} ELSE Owned[CopyOf(c)]
  <1>1. Owned[CopyOf(a)] = {} /\ Owned'[CopyOf(a)] = {b}
    BY NoBufIsNoBuffer, OwnedAt, OwnedAtNext DEF Pointer
  <1>2. \A c \in Actors \ {a} : copy'[c] = copy[c]
    OBVIOUS
  <1>3. \A c \in Actors \ {a} : Owned'[CopyOf(c)] = Owned[CopyOf(c)]
    BY <1>2, OwnedAt, OwnedAtNext
  <1> QED
    BY <1>1, <1>3

\* msg_broadcast gives up its copy
LEMMA CopyEnds ==
    ASSUME copy \in [Actors -> Buffers \cup {NoBuf}], NEW a \in Actors,
           copy[a] \in Buffers, copy' = [copy EXCEPT ![a] = NoBuf]
    PROVE  /\ copy[a] \in Owned[CopyOf(a)]
           /\ \A c \in Actors : Owned'[CopyOf(c)] =
                IF c = a THEN Owned[CopyOf(c)] \ {copy[a]} ELSE Owned[CopyOf(c)]
  <1>1. Owned[CopyOf(a)] = {copy[a]} /\ Owned'[CopyOf(a)] = {}
    BY NoBufIsNoBuffer, OwnedAt, OwnedAtNext DEF Pointer
  <1>2. \A c \in Actors \ {a} : copy'[c] = copy[c]
    OBVIOUS
  <1>3. \A c \in Actors \ {a} : Owned'[CopyOf(c)] = Owned[CopyOf(c)]
    BY <1>2, OwnedAt, OwnedAtNext
  <1> QED
    BY <1>1, <1>3

\* msg_receiver is given a message
LEMMA ReceiverBegins ==
    ASSUME cur \in [Tasks -> Buffers \cup {NoBuf}], NEW t \in Tasks, NEW b \in Buffers,
           cur[t] = NoBuf, res[t] = "FREE", cur' = [cur EXCEPT ![t] = b], res' = res
    PROVE  \A u \in Tasks : Owned'[ReceiverOf(u)] =
              IF u = t THEN Owned[ReceiverOf(u)] \cup {b} ELSE Owned[ReceiverOf(u)]
  <1>1. Owned[ReceiverOf(t)] = {} /\ Owned'[ReceiverOf(t)] = {b}
    BY NoBufIsNoBuffer, OwnedAt, OwnedAtNext DEF Pointer
  <1>2. \A u \in Tasks \ {t} : cur'[u] = cur[u] /\ res'[u] = res[u]
    OBVIOUS
  <1>3. \A u \in Tasks \ {t} : Owned'[ReceiverOf(u)] = Owned[ReceiverOf(u)]
    BY <1>2, OwnedAt, OwnedAtNext
  <1> QED
    BY <1>1, <1>3

\* msg_receiver gives up its message: it was passed on, or it is freed
LEMMA ReceiverEnds ==
    ASSUME cur \in [Tasks -> Buffers \cup {NoBuf}],
           res \in [Tasks -> {"FREE", "DO_NOT_FREE"}], NEW t \in Tasks,
           cur[t] \in Buffers, res[t] = "FREE",
           \/ cur' = cur /\ res' = [res EXCEPT ![t] = "DO_NOT_FREE"]
           \/ cur' = [cur EXCEPT ![t] = NoBuf] /\ res' = [res EXCEPT ![t] = "FREE"]
    PROVE  /\ cur[t] \in Owned[ReceiverOf(t)]
           /\ \A u \in Tasks : Owned'[ReceiverOf(u)] =
                IF u = t THEN Owned[ReceiverOf(u)] \ {cur[t]} ELSE Owned[ReceiverOf(u)]
  <1>1. Owned[ReceiverOf(t)] = {cur[t]}
    BY NoBufIsNoBuffer, OwnedAt DEF Pointer
  <1>2. Owned'[ReceiverOf(t)] = {}
    <2>1. res'[t] = "DO_NOT_FREE" \/ cur'[t] = NoBuf
      OBVIOUS
    <2> QED BY <2>1, OwnedAtNext DEF Pointer
  <1>3. \A u \in Tasks \ {t} : cur'[u] = cur[u] /\ res'[u] = res[u]
    OBVIOUS
  <1>4. \A u \in Tasks \ {t} : Owned'[ReceiverOf(u)] = Owned[ReceiverOf(u)]
    BY <1>3, OwnedAt, OwnedAtNext
  <1> QED
    BY <1>1, <1>2, <1>4

\* variables that do not change leave what they own alone
LEMMA Unmoved ==
    /\ queue' = queue => \A t \in Tasks : Owned'[QueueOf(t)] = Owned[QueueOf(t)]
    /\ UNCHANGED <<cur, res>> =>
         \A t \in Tasks : Owned'[ReceiverOf(t)] = Owned[ReceiverOf(t)]
    /\ buf' = buf => \A a \in Actors : Owned'[CallOf(a)] = Owned[CallOf(a)]
    /\ copy' = copy => \A a \in Actors : Owned'[CopyOf(a)] = Owned[CopyOf(a)]
  BY OwnedAt, OwnedAtNext
-----------------------------------------------------------------------------
(* Types, and the places of threads *)

Places == TypeOK /\ CallOK /\ ReceiverOK

\* What somebody owns is a message.
LEMMA OwnedIsMessage ==
    ASSUME Places, OwnedIsAllocated
    PROVE  /\ \A a \in Actors : buf[a] # NoBuf => msg[buf[a]] \in Message
           /\ \A a \in Actors : copy[a] # NoBuf => msg[copy[a]] \in Message
           /\ \A t \in Tasks : rxpc[t] \notin {"off", "wait"} /\ res[t] = "FREE"
                                 => msg[cur[t]] \in Message
  <1>1. \A b \in Buffers, o \in Owners : b \in Owned[o] => msg[b] \in Message
    BY DEF OwnedIsAllocated, Places, TypeOK
  <1>2. ASSUME NEW a \in Actors, buf[a] # NoBuf
        PROVE  buf[a] \in Buffers /\ buf[a] \in Owned[CallOf(a)]
    <2>1. Pointer(buf[a]) = {buf[a]}
      BY <1>2 DEF Pointer
    <2> QED BY <1>2, <2>1, OwnedAt DEF Places, TypeOK
  <1>3. ASSUME NEW a \in Actors, copy[a] # NoBuf
        PROVE  copy[a] \in Buffers /\ copy[a] \in Owned[CopyOf(a)]
    <2>1. Pointer(copy[a]) = {copy[a]}
      BY <1>3 DEF Pointer
    <2> QED BY <1>3, <2>1, OwnedAt DEF Places, TypeOK
  <1>4. ASSUME NEW t \in Tasks, rxpc[t] \notin {"off", "wait"}, res[t] = "FREE"
        PROVE  cur[t] \in Buffers /\ cur[t] \in Owned[ReceiverOf(t)]
    <2>1. cur[t] # NoBuf
      BY <1>4 DEF Places, ReceiverOK
    <2>2. Pointer(cur[t]) = {cur[t]}
      BY <2>1 DEF Pointer
    <2> QED BY <1>4, <2>1, <2>2, OwnedAt DEF Places, TypeOK
  <1> QED
    BY <1>1, <1>2, <1>3, <1>4, OwnerKinds

\* A new message has the type of messages.
LEMMA HeaderIsMessage ==
    ASSUME NEW code \in Codes, NEW tx \in 0 .. NumTasks, NEW cb \in Callbacks \cup {NoCb}
    PROVE  /\ Header(code, tx, cb) \in Message
           /\ Header(code, tx, cb) # Freed
           /\ Header(code, tx, cb).code = code
  BY FreedIsNoMessage, RouterAssumption DEF Header, Message, RESERVED

\* A copy with another receiver is a message.
LEMMA ReaddressedIsMessage ==
    ASSUME NEW m \in Message, NEW d \in Tasks
    PROVE  /\ [m EXCEPT !.rx = d] \in Message /\ [m EXCEPT !.rx = d] # Freed
           /\ [m EXCEPT !.rx = d].rx = d /\ [m EXCEPT !.rx = d].code = m.code
  <1>1. d \in 0 .. NumTasks
    BY RouterAssumption DEF Tasks
  <1>2. [m EXCEPT !.rx = d] \in Message
    BY <1>1 DEF Message
  <1> QED BY <1>2, FreedIsNoMessage DEF Message

\* The reserved id is none of a task.
LEMMA ReservedIsId ==
    RESERVED \in 0 .. NumTasks /\ RESERVED \in 0 .. NumTasks + 1 /\ RESERVED \notin Tasks
  BY RouterAssumption DEF RESERVED, Tasks

\* A sender's id is an id.
LEMMA TxIdIsId == \A a \in Actors : TxId(a) \in 0 .. NumTasks
  BY RouterAssumption DEF TxId, Tasks, RESERVED

\* msg_unicast sends to a registered task, or to nobody.
LEMMA FirstHandlerIsTask ==
    ASSUME registered \subseteq Tasks, NEW code, FirstHandler(code) \in registered
    PROVE  FirstHandler(code) \in Tasks
  OBVIOUS

\* An interrupt handler puts messages into buffers, and buffers into queues.
LEMMA IsrDeliverTypes ==
    ASSUME TypeOK, NEW b \in Buffers, NEW m \in Message, NEW d \in Tasks, IsrDeliver(b, m, d)
    PROVE  msg' \in [Buffers -> Message \cup {Freed}] /\ queue' \in [Tasks -> Seq(Buffers)]
  <1>1. [m EXCEPT !.rx = d] \in Message
    BY ReaddressedIsMessage, Zenon
  <1>2. queue[d] \in Seq(Buffers) /\ Append(queue[d], b) \in Seq(Buffers)
    BY AppendRange DEF TypeOK
  <1>3. CASE CanQueue(d, m.code)
    <2>1. msg' = [msg EXCEPT ![b] = [m EXCEPT !.rx = d]]
      BY <1>3 DEF IsrDeliver, Take
    <2>2. queue' = [queue EXCEPT ![d] = Append(queue[d], b)]
      BY <1>3 DEF IsrDeliver
    <2> QED BY <1>1, <1>2, <2>1, <2>2 DEF TypeOK
  <1>4. CASE ~ CanQueue(d, m.code)
    BY <1>4 DEF IsrDeliver, TypeOK
  <1> QED BY <1>3, <1>4

\* Sending keeps the types and the places, whoever the receiver is.
LEMMA QueueOrFailPlaces ==
    ASSUME Places, OwnedIsAllocated, NEW a \in Actors, NEW d,
           pc[a] \in {"send", "unicast"}, QueueOrFail(a, d),
           UNCHANGED <<registered, timer, rxvars, copy, ret, missed, cbvars>>
    PROVE  Places'
  <1> USE DEF Places
  <1>0. buf[a] # NoBuf
    BY DEF CallOK
  <1>1. buf[a] \in Buffers /\ msg[buf[a]] \in Message
    BY <1>0, OwnedIsMessage DEF TypeOK
  <1>2. CASE CanQueue(d, msg[buf[a]].code)
    <2>1. d \in Tasks /\ d \in 0 .. NumTasks
      BY <1>2, RouterAssumption DEF CanQueue, TypeOK, Tasks
    <2>2. [msg[buf[a]] EXCEPT !.rx = d] \in Message
      BY <1>1, <2>1, ReaddressedIsMessage, Zenon
    <2>3. queue[d] \in Seq(Buffers) /\ Append(queue[d], buf[a]) \in Seq(Buffers)
      BY <1>1, <2>1, AppendRange DEF TypeOK
    <2>4. /\ msg' = [msg EXCEPT ![buf[a]] = [msg[buf[a]] EXCEPT !.rx = d]]
          /\ queue' = [queue EXCEPT ![d] = Append(queue[d], buf[a])]
          /\ End(a)
      BY <1>2 DEF QueueOrFail
    <2> QED BY <1>1, <2>1, <2>2, <2>3, <2>4, ReservedIsId
        DEF End, Begin, TypeOK, CallOK, ReceiverOK, rxvars, opvars, cbvars
  <1>3. CASE ~ CanQueue(d, msg[buf[a]].code)
    <2>1. Begin(a, "dealloc", buf[a], RESERVED) /\ UNCHANGED <<msg, queue>>
      BY <1>3 DEF QueueOrFail
    <2>2. TypeOK'
      BY <1>1, <2>1, ReservedIsId DEF Begin, TypeOK, rxvars, cbvars
    <2>3. CallOK'
      BY <1>1, <2>1, NoBufIsNoBuffer DEF Begin, TypeOK, CallOK, rxvars
    <2>4. ReceiverOK'
      BY DEF ReceiverOK, rxvars
    <2> QED BY <2>2, <2>3, <2>4
  <1> QED BY <1>2, <1>3

\* Every step keeps the types and the places, given that owned buffers are
\* messages.
LEMMA PlacesStep ==
    ASSUME Places, OwnedIsAllocated, Next
    PROVE  Places'
  <1> USE DEF Places
  <1>1. ASSUME NEW t \in Tasks, Register(t) PROVE Places'
    BY <1>1 DEF Register, TypeOK, CallOK, ReceiverOK, rxvars, opvars, cbvars
  <1>2. ASSUME NEW t \in Tasks, StartTimer(t) PROVE Places'
    BY <1>2 DEF StartTimer, TypeOK, CallOK, ReceiverOK, rxvars, opvars, cbvars
  <1>3. ASSUME NEW t \in Tasks, StopTimer(t) PROVE Places'
    BY <1>3 DEF StopTimer, TypeOK, CallOK, ReceiverOK, rxvars, opvars, cbvars
  <1>4. ASSUME NEW t \in Tasks, TimerIsr(t) PROVE Places'
    <2>1. Header(SMC_PERIODIC, t, NoCb) \in Message
      BY HeaderIsMessage, RouterAssumption DEF Tasks
    <2>2. msg' \in [Buffers -> Message \cup {Freed}] /\ queue' \in [Tasks -> Seq(Buffers)]
      <3>1. CASE UNCHANGED <<msg, queue>>
        BY <3>1 DEF TypeOK
      <3>2. CASE \E b \in Buffers : IsrDeliver(b, Header(SMC_PERIODIC, t, NoCb), t)
        BY <2>1, <3>2, IsrDeliverTypes
      <3> QED BY <1>4, <3>1, <3>2 DEF TimerIsr
    <2> QED BY <1>4, <2>2 DEF TimerIsr, TypeOK, CallOK, ReceiverOK, rxvars, opvars, cbvars
  <1>5. ASSUME NEW s \in IsrSends, IsrSend(s[1], s[2], s[3]) PROVE Places'
    <2>1. s[1] \in Tasks /\ s[2] \in Tasks /\ s[3] \in Codes
      BY RouterAssumption
    <2>2. Header(s[3], s[1], NoCb) \in Message
      BY <2>1, HeaderIsMessage DEF Tasks
    <2>3. msg' \in [Buffers -> Message \cup {Freed}] /\ queue' \in [Tasks -> Seq(Buffers)]
      BY <1>5, <2>1, <2>2, IsrDeliverTypes DEF IsrSend
    <2> QED BY <1>5, <2>3 DEF IsrSend, TypeOK, CallOK, ReceiverOK, rxvars, opvars, cbvars
  <1>6. ASSUME NEW a \in Senders, NEW code \in Codes, Create(a, code) PROVE Places'
    <2>1. a \in Actors /\ Header(code, TxId(a), NoCb) \in Message
      BY TxIdIsId, HeaderIsMessage, RouterAssumption
    <2>2. PICK b \in Buffers, d \in 0 .. NumTasks, where \in {"send", "unicast"} :
            Take(b, Header(code, TxId(a), NoCb)) /\ Begin(a, where, b, d)
      BY <1>6, ReservedIsId DEF Create
    <2>3. d \in 0 .. NumTasks + 1
      BY RouterAssumption
    <2>4. TypeOK'
      BY <1>6, <2>1, <2>2, <2>3 DEF Create, Take, Begin, TypeOK, rxvars, cbvars
    <2>5. CallOK'
      BY <1>6, <2>1, <2>2, NoBufIsNoBuffer DEF Create, Begin, MayCall, TypeOK, CallOK, rxvars
    <2>6. ReceiverOK'
      BY <1>6 DEF Create, ReceiverOK, rxvars
    <2> QED BY <2>4, <2>5, <2>6
  <1>7. ASSUME NEW a \in Senders, NEW code \in Codes, CreateBroadcast(a, code) PROVE Places'
    <2>1. a \in Actors /\ Header(code, TxId(a), NoCb) \in Message /\ 1 \in 0 .. NumTasks + 1
      BY TxIdIsId, HeaderIsMessage, RouterAssumption
    <2> QED BY <1>7, <2>1, NoBufIsNoBuffer DEF CreateBroadcast, Take, Begin, MayCall, TypeOK, CallOK, ReceiverOK, rxvars, opvars, cbvars
  <1>8. ASSUME NEW a \in Senders, NEW code \in Codes, NEW cb \in Callbacks,
               CreateWithCallback(a, code, cb)
        PROVE Places'
    <2>1. a \in Actors /\ Header(code, TxId(a), cb) \in Message
      BY TxIdIsId, HeaderIsMessage, RouterAssumption
    <2>2. PICK b \in Buffers, d \in 0 .. NumTasks, where \in {"send", "unicast"} :
            Take(b, Header(code, TxId(a), cb)) /\ Begin(a, where, b, d)
      BY <1>8, ReservedIsId DEF CreateWithCallback
    <2>3. d \in 0 .. NumTasks + 1
      BY RouterAssumption
    <2>4. TypeOK'
      BY <1>8, <2>1, <2>2, <2>3 DEF CreateWithCallback, Take, Begin, TypeOK, rxvars, cbvars
    <2>5. CallOK'
      BY <1>8, <2>1, <2>2, NoBufIsNoBuffer DEF CreateWithCallback, Begin, MayCall, TypeOK, CallOK, rxvars
    <2>6. ReceiverOK'
      BY <1>8 DEF CreateWithCallback, ReceiverOK, rxvars
    <2> QED BY <2>4, <2>5, <2>6
  <1>9. ASSUME NEW a \in Flushers, NEW t \in Tasks, FlushBegin(a, t) PROVE Places'
    <2>1. a \in Actors /\ t \in 0 .. NumTasks + 1
      BY RouterAssumption DEF Actors, Tasks
    <2> QED BY <1>9, <2>1 DEF FlushBegin, Begin, MayCall, TypeOK, CallOK, ReceiverOK, rxvars, opvars, cbvars
  <1>10. ASSUME NEW a \in Actors, MsgSend(a) PROVE Places'
    BY <1>10, QueueOrFailPlaces DEF MsgSend
  <1>11. ASSUME NEW a \in Actors, MsgUnicast(a) PROVE Places'
    BY <1>11, QueueOrFailPlaces DEF MsgUnicast
  <1>12. ASSUME NEW a \in Actors, Deallocate(a) PROVE Places'
    BY <1>12, ReservedIsId DEF Deallocate, Free, End, Begin, TypeOK, CallOK, ReceiverOK, rxvars, opvars, cbvars
  <1>13. ASSUME NEW a \in Actors, ScanSkip(a) PROVE Places'
    BY <1>13, RouterAssumption DEF ScanSkip, Tasks, TypeOK, CallOK, ReceiverOK, rxvars, opvars, cbvars
  <1>14. ASSUME NEW a \in Actors, ScanCopy(a) PROVE Places'
    <2>1. msg[buf[a]] \in Message
      BY <1>14, OwnedIsMessage DEF ScanCopy, CallOK
    <2> QED BY <1>14, <2>1, NoBufIsNoBuffer DEF ScanCopy, Take, TypeOK, CallOK, ReceiverOK, rxvars, opvars, cbvars
  <1>15. ASSUME NEW a \in Actors, ScanNoBuffer(a) PROVE Places'
    BY <1>15, RouterAssumption DEF ScanNoBuffer, Tasks, TypeOK, CallOK, ReceiverOK, rxvars, opvars, cbvars
  <1>16. ASSUME NEW a \in Actors, PutCopy(a) PROVE Places'
    <2>1. copy[a] \in Buffers /\ dest[a] \in Tasks
      BY <1>16 DEF PutCopy, TypeOK, CallOK
    <2>2. queue[dest[a]] \in Seq(Buffers) /\ Append(queue[dest[a]], copy[a]) \in Seq(Buffers)
      BY <2>1, AppendRange DEF TypeOK
    <2>3. queue' \in [Tasks -> Seq(Buffers)] /\ msg' \in [Buffers -> Message \cup {Freed}]
      <3>1. msg[copy[a]] \in Message
        BY <1>16, OwnedIsMessage DEF PutCopy, CallOK
      <3>2. [msg[copy[a]] EXCEPT !.rx = dest[a]] \in Message
        BY <2>1, <3>1, ReaddressedIsMessage, Zenon
      <3>3. CASE CanQueue(dest[a], msg[copy[a]].code)
        <4>1. /\ msg' = [msg EXCEPT ![copy[a]] = [msg[copy[a]] EXCEPT !.rx = dest[a]]]
              /\ queue' = [queue EXCEPT ![dest[a]] = Append(queue[dest[a]], copy[a])]
          BY <1>16, <3>3 DEF PutCopy
        <4> QED BY <2>1, <2>2, <3>2, <4>1 DEF TypeOK
      <3>4. CASE ~ CanQueue(dest[a], msg[copy[a]].code)
        BY <1>16, <2>1, <3>4 DEF PutCopy, Free, TypeOK
      <3> QED BY <3>3, <3>4
    <2>4. missed' \in [Actors -> SUBSET Tasks] /\ ret' \in [Actors -> {"SUCCESS", "ERROR"}]
      <3>1. missed' = missed \/ missed' = [missed EXCEPT ![a] = missed[a] \cup {dest[a]}]
        BY <1>16 DEF PutCopy
      <3>2. ret' \in [Actors -> {"SUCCESS", "ERROR"}]
        BY <1>16 DEF PutCopy, TypeOK
      <3>3. missed \in [Actors -> SUBSET Tasks] /\ missed[a] \cup {dest[a]} \in SUBSET Tasks
        BY <2>1 DEF TypeOK
      <3> QED BY <3>1, <3>2, <3>3
    <2>5. dest[a] + 1 \in 0 .. NumTasks + 1
      BY <2>1, RouterAssumption DEF Tasks
    <2>6. TypeOK'
      BY <1>16, <2>3, <2>4, <2>5 DEF PutCopy, TypeOK, rxvars, cbvars
    <2>7. CallOK'
      BY <1>16, <2>5 DEF PutCopy, TypeOK, CallOK, rxvars
    <2>8. ReceiverOK'
      BY <1>16 DEF PutCopy, ReceiverOK, rxvars
    <2> QED BY <2>6, <2>7, <2>8
  <1>17. ASSUME NEW a \in Actors, BroadcastDone(a) PROVE Places'
    <2>1. \/ msg' = [msg EXCEPT ![buf[a]] = Freed] /\ Begin(a, "idle", NoBuf, RESERVED)
          \/ msg' = msg /\ Begin(a, "dealloc", buf[a], RESERVED)
      BY <1>17 DEF BroadcastDone, Free, End
    <2>2. missed' \in [Actors -> SUBSET Tasks] /\ ret' \in [Actors -> {"SUCCESS", "ERROR"}]
      BY <1>17 DEF BroadcastDone, TypeOK
    <2>3. TypeOK'
      <3>1. CASE msg' = [msg EXCEPT ![buf[a]] = Freed] /\ Begin(a, "idle", NoBuf, RESERVED)
        BY <1>17, <2>2, <3>1, ReservedIsId DEF BroadcastDone, Begin, TypeOK, rxvars, cbvars
      <3>2. CASE msg' = msg /\ Begin(a, "dealloc", buf[a], RESERVED)
        BY <1>17, <2>2, <3>2, ReservedIsId DEF BroadcastDone, Begin, TypeOK, rxvars, cbvars
      <3> QED BY <2>1, <3>1, <3>2
    <2>4. CallOK'
      BY <1>17, <2>1 DEF BroadcastDone, Begin, TypeOK, CallOK, rxvars
    <2>5. ReceiverOK'
      BY <1>17 DEF BroadcastDone, ReceiverOK, rxvars
    <2> QED BY <2>3, <2>4, <2>5
  <1>18. ASSUME NEW a \in Actors, FlushGet(a) PROVE Places'
    <2>1. dest[a] \in Tasks /\ queue[dest[a]] \in Seq(Buffers)
      BY <1>18 DEF FlushGet, TypeOK, CallOK
    <2>2. CASE queue[dest[a]] # << >>
      <3>1. Head(queue[dest[a]]) \in Buffers /\ Tail(queue[dest[a]]) \in Seq(Buffers)
        BY <2>1, <2>2
      <3>5. /\ queue' = [queue EXCEPT ![dest[a]] = Tail(queue[dest[a]])]
            /\ Begin(a, "purge", Head(queue[dest[a]]), dest[a])
        BY <1>18, <2>2 DEF FlushGet
      <3>6. queue' \in [Tasks -> Seq(Buffers)]
        BY <2>1, <3>1, <3>5 DEF TypeOK
      <3>2. TypeOK'
        BY <1>18, <3>1, <3>5, <3>6 DEF FlushGet, Begin, TypeOK, rxvars, cbvars
      <3>3. CallOK'
        BY <1>18, <2>1, <2>2, <3>1, NoBufIsNoBuffer DEF FlushGet, Begin, TypeOK, CallOK, rxvars
      <3>4. ReceiverOK'
        BY <1>18 DEF FlushGet, ReceiverOK, rxvars
      <3> QED BY <3>2, <3>3, <3>4
    <2>3. CASE queue[dest[a]] = << >>
      <3>1. End(a) /\ UNCHANGED queue
        BY <1>18, <2>3 DEF FlushGet
      <3>2. TypeOK'
        BY <1>18, <3>1, ReservedIsId DEF FlushGet, End, Begin, TypeOK, rxvars, cbvars
      <3>3. CallOK'
        BY <1>18, <2>3 DEF FlushGet, End, Begin, TypeOK, CallOK, rxvars
      <3>4. ReceiverOK'
        BY <1>18 DEF FlushGet, ReceiverOK, rxvars
      <3> QED BY <3>2, <3>3, <3>4
    <2> QED BY <2>2, <2>3
  <1>19. ASSUME NEW a \in Actors, FlushFree(a) PROVE Places'
    BY <1>19 DEF FlushFree, Free, Begin, TypeOK, CallOK, ReceiverOK, rxvars, opvars, cbvars
  <1>20. ASSUME NEW t \in Tasks, Receive(t) PROVE Places'
    <2>1. Head(queue[t]) \in Buffers /\ Tail(queue[t]) \in Seq(Buffers)
      BY <1>20 DEF Receive, TypeOK
    <2> QED BY <1>20, <2>1, NoBufIsNoBuffer DEF Receive, TypeOK, CallOK, ReceiverOK, rxvars, opvars, cbvars
  <1>21. ASSUME NEW t \in Tasks, Dispatch(t) PROVE Places'
    BY <1>21 DEF Dispatch, TypeOK, CallOK, ReceiverOK, rxvars, opvars, cbvars
  <1>22. ASSUME NEW t \in Tasks, NEW d \in 0 .. NumTasks, Forward(t, d) PROVE Places'
    <2>1. t \in Actors /\ d \in 0 .. NumTasks + 1 /\ cur[t] # NoBuf
      BY <1>22, RouterAssumption DEF Actors, Forward, MayCall, ReceiverOK
    <2> QED BY <1>22, <2>1 DEF Forward, Begin, MayCall, TypeOK, CallOK, ReceiverOK, rxvars, opvars, cbvars
  <1>23. ASSUME NEW t \in Tasks, NEW code \in Codes, Reply(t, code) PROVE Places'
    <2>1. t \in Actors /\ cur[t] # NoBuf /\ msg[cur[t]] \in Message
      BY <1>23, OwnedIsMessage DEF Actors, Reply, MayCall, ReceiverOK
    <2>2. /\ [code |-> code, rx |-> msg[cur[t]].tx, tx |-> msg[cur[t]].rx, cb |-> msg[cur[t]].cb]
               \in Message
          /\ msg[cur[t]].tx \in 0 .. NumTasks /\ msg[cur[t]].tx \in 0 .. NumTasks + 1
      BY <2>1, RouterAssumption DEF Message
    <2> QED BY <1>23, <2>1, <2>2 DEF Reply, Begin, MayCall, TypeOK, CallOK, ReceiverOK, rxvars, opvars, cbvars
  <1>24. ASSUME NEW t \in Tasks, Return(t) PROVE Places'
    BY <1>24 DEF Return, TypeOK, CallOK, ReceiverOK, rxvars, opvars, cbvars
  <1>25. ASSUME NEW t \in Tasks, Options(t) PROVE Places'
    <2>1. called' \in [Callbacks -> 0 .. 2]
      <3>1. PICK cb \in CallbackOf(t) :
              called' = IF cb \in Callbacks /\ called[cb] < 2
                        THEN [called EXCEPT ![cb] = called[cb] + 1] ELSE called
        BY <1>25 DEF Options
      <3>2. ASSUME cb \in Callbacks, called[cb] < 2 PROVE called[cb] + 1 \in 0 .. 2
        <4>1. called[cb] \in 0 .. 2
          BY <3>2 DEF TypeOK
        <4> QED BY <3>2, <4>1
      <3> QED BY <3>1, <3>2 DEF TypeOK
    <2> QED BY <1>25, <2>1 DEF Options, TypeOK, CallOK, ReceiverOK, rxvars, opvars, cbvars
  <1>26. ASSUME NEW t \in Tasks, Release(t) PROVE Places'
    <2>1. TypeOK'
      BY <1>26 DEF Release, Free, TypeOK, opvars, cbvars
    <2>2. CallOK'
      BY <1>26 DEF Release, CallOK, opvars, TypeOK
    <2>3. ReceiverOK'
      BY <1>26 DEF Release, ReceiverOK, TypeOK
    <2> QED BY <2>1, <2>2, <2>3
  <1> QED
    BY <1>1, <1>2, <1>3, <1>4, <1>5, <1>6, <1>7, <1>8, <1>9, <1>10, <1>11, <1>12, <1>13,
       <1>14, <1>15, <1>16, <1>17, <1>18, <1>19, <1>20, <1>21, <1>22, <1>23, <1>24, <1>25,
       <1>26 DEF Next, Call, Proceed, PassOn, Serve, Interrupt
-----------------------------------------------------------------------------
(* Ownership *)

OwnedApart == Disjoint(Owned) /\ Covers(Owned, Allocated)

\* The buffers of the pool before and after a take, a free and a rewrite.
LEMMA PoolSteps ==
    ASSUME TypeOK, NEW b \in Buffers
    PROVE  /\ \A m : m # Freed /\ Take(b, m) => b \notin Allocated /\ Allocated' = Allocated \cup {b}
           /\ Free(b) => Allocated' = Allocated \ {b}
           /\ \A m : m # Freed /\ msg[b] # Freed /\ msg' = [msg EXCEPT ![b] = m]
                       => Allocated' = Allocated
           /\ msg' = msg => Allocated' = Allocated
  <1>1. \A m : msg' = [msg EXCEPT ![b] = m]
          => msg'[b] = m /\ \A c \in Buffers \ {b} : msg'[c] = msg[c]
    BY DEF TypeOK
  <1> QED
    BY <1>1 DEF Take, Free, Allocated

\* Each kind of change keeps buffers apart and accounted for.
LEMMA GainStep ==
    ASSUME OwnedApart, NEW o \in Owners, NEW b \in Buffers, Gain(Owned, Owned', o, b),
           b \notin Allocated, Allocated' = Allocated \cup {b}
    PROVE  OwnedApart'
  BY GainKeeps DEF OwnedApart

\* A step that frees an owned buffer keeps ownership apart.
LEMMA LossStep ==
    ASSUME OwnedApart, NEW o \in Owners, NEW b \in Owned[o], Loss(Owned, Owned', o, b),
           Allocated' = Allocated \ {b}
    PROVE  OwnedApart'
  BY LossKeeps DEF OwnedApart

\* So does one that hands a buffer over,
LEMMA MoveStep ==
    ASSUME OwnedApart, NEW o1 \in Owners, NEW o2 \in Owners, o1 # o2, NEW b \in Owned[o1],
           Move(Owned, Owned', o1, o2, b), Allocated' = Allocated
    PROVE  OwnedApart'
  BY MoveKeeps DEF OwnedApart

\* and one that moves none.
LEMMA SameStep ==
    ASSUME OwnedApart, UNCHANGED <<queue, cur, res, buf, copy>>, Allocated' = Allocated
    PROVE  OwnedApart'
  <1>1. Same(Owned, Owned')
    BY Unmoved, OwnerKinds DEF Same
  <1> QED BY <1>1, SameKeeps DEF OwnedApart

\* What p owns after b has moved from o1 to o2: it is enough to know it for the
\* owners of each kind.
Moved(p, o1, o2, b) ==
    IF p = o1 THEN Owned[p] \ {b} ELSE IF p = o2 THEN Owned[p] \cup {b} ELSE Owned[p]

\* A move, given by what each kind of owner has after it.
LEMMA MoveByKind ==
    ASSUME NEW o1, NEW o2, NEW b,
           \A t \in Tasks : Owned'[QueueOf(t)] = Moved(QueueOf(t), o1, o2, b),
           \A t \in Tasks : Owned'[ReceiverOf(t)] = Moved(ReceiverOf(t), o1, o2, b),
           \A a \in Actors : Owned'[CallOf(a)] = Moved(CallOf(a), o1, o2, b),
           \A a \in Actors : Owned'[CopyOf(a)] = Moved(CopyOf(a), o1, o2, b)
    PROVE  Move(Owned, Owned', o1, o2, b)
  <1>1. \A p \in Owners : Owned'[p] = Moved(p, o1, o2, b)
    BY OwnerKinds
  <1> QED BY <1>1 DEF Move, Moved

\* Interrupt handlers.
LEMMA IsrOwnership ==
    ASSUME TypeOK, OwnedApart, NEW d \in Tasks, NEW m \in Message,
           \/ \E b \in Buffers : IsrDeliver(b, m, d)
           \/ UNCHANGED <<msg, queue>>,
           UNCHANGED <<cur, res, buf, copy>>
    PROVE  OwnedApart'
  <1>1. CASE UNCHANGED <<msg, queue>>
    <2>1. Allocated' = Allocated
      BY <1>1 DEF Allocated
    <2> QED BY <1>1, <2>1, SameStep
  <1>2. ASSUME NEW b \in Buffers, IsrDeliver(b, m, d), CanQueue(d, m.code)
        PROVE  OwnedApart'
    <2>1. Take(b, [m EXCEPT !.rx = d]) /\ queue' = [queue EXCEPT ![d] = Append(@, b)]
      BY <1>2 DEF IsrDeliver
    <2>2. [m EXCEPT !.rx = d] # Freed
      <3>1. [m EXCEPT !.rx = d] \in Message
        BY ReaddressedIsMessage, Zenon
      <3> QED BY <3>1, FreedIsNoMessage
    <2>3. b \notin Allocated /\ Allocated' = Allocated \cup {b}
      BY <2>1, <2>2, PoolSteps
    <2>4. Gain(Owned, Owned', QueueOf(d), b)
      <3>1. \A t \in Tasks : Owned'[QueueOf(t)] =
              IF t = d THEN Owned[QueueOf(t)] \cup {b} ELSE Owned[QueueOf(t)]
        BY <2>1, QueueGrows DEF TypeOK
      <3> QED BY <3>1, Unmoved, OwnerKinds DEF Gain
    <2> QED BY <2>3, <2>4, GainStep, OwnerKinds
  <1> QED
    BY <1>1, <1>2 DEF IsrDeliver

\* A call of the framework begins with a new message.
LEMMA CreateOwnership ==
    ASSUME Places, OwnedApart, NEW a \in Actors, NEW b \in Buffers, NEW m \in Message,
           pc[a] = "idle", Take(b, m), buf' = [buf EXCEPT ![a] = b],
           UNCHANGED <<queue, cur, res, copy>>
    PROVE  OwnedApart'
  <1>1. b \notin Allocated /\ Allocated' = Allocated \cup {b}
    BY FreedIsNoMessage, PoolSteps DEF Places
  <1>2. \A c \in Actors : Owned'[CallOf(c)] =
            IF c = a THEN Owned[CallOf(c)] \cup {b} ELSE Owned[CallOf(c)]
    <2>1. buf \in [Actors -> Buffers \cup {NoBuf}] /\ buf[a] = NoBuf
      BY DEF Places, TypeOK, CallOK
    <2> QED BY <2>1, CallBegins
  <1>3. Gain(Owned, Owned', CallOf(a), b)
    BY <1>2, Unmoved, OwnerKinds DEF Gain
  <1> QED
    BY <1>1, <1>3, GainStep, OwnerKinds

\* A call frees its message.
LEMMA CallFreesOwnership ==
    ASSUME Places, OwnedApart, NEW a \in Actors, buf[a] # NoBuf, Free(buf[a]),
           buf' = [buf EXCEPT ![a] = NoBuf], UNCHANGED <<queue, cur, res, copy>>
    PROVE  OwnedApart'
  <1>1. buf \in [Actors -> Buffers \cup {NoBuf}] /\ buf[a] \in Buffers
    BY DEF Places, TypeOK
  <1>2. /\ buf[a] \in Owned[CallOf(a)]
        /\ \A c \in Actors : Owned'[CallOf(c)] =
             IF c = a THEN Owned[CallOf(c)] \ {buf[a]} ELSE Owned[CallOf(c)]
    BY <1>1, CallEnds
  <1>3. Loss(Owned, Owned', CallOf(a), buf[a])
    BY <1>2, Unmoved, OwnerKinds DEF Loss
  <1>4. Allocated' = Allocated \ {buf[a]}
    BY <1>1, PoolSteps DEF Places
  <1> QED
    BY <1>2, <1>3, <1>4, LossStep, OwnerKinds

\* A call sends its message, or fails and keeps it.
LEMMA QueueOrFailOwnership ==
    ASSUME Places, OwnedApart, OwnedIsAllocated, NEW a \in Actors, NEW d,
           pc[a] \in {"send", "unicast"}, QueueOrFail(a, d), UNCHANGED <<cur, res, copy>>
    PROVE  OwnedApart'
  <1>1. buf[a] # NoBuf
    BY DEF Places, CallOK
  <1>2. /\ buf \in [Actors -> Buffers \cup {NoBuf}] /\ buf[a] \in Buffers
        /\ msg[buf[a]] \in Message
    BY <1>1, OwnedIsMessage DEF Places, TypeOK
  <1>3. CASE CanQueue(d, msg[buf[a]].code)
    <2>1. /\ msg' = [msg EXCEPT ![buf[a]] = [msg[buf[a]] EXCEPT !.rx = d]]
          /\ queue' = [queue EXCEPT ![d] = Append(@, buf[a])]
          /\ buf' = [buf EXCEPT ![a] = NoBuf]
          /\ d \in Tasks /\ d \in 0 .. NumTasks
      BY <1>3, RouterAssumption DEF QueueOrFail, End, Begin, CanQueue, Places, TypeOK, Tasks
    <2>2. [msg[buf[a]] EXCEPT !.rx = d] \in Message
      BY <1>2, <2>1, ReaddressedIsMessage, Zenon
    <2>3. Allocated' = Allocated
      BY <1>2, <2>1, <2>2, FreedIsNoMessage, PoolSteps DEF Places
    <2>4. \A t \in Tasks : Owned'[QueueOf(t)] =
             IF t = d THEN Owned[QueueOf(t)] \cup {buf[a]} ELSE Owned[QueueOf(t)]
      BY <1>2, <2>1, QueueGrows DEF Places, TypeOK
    <2>5. /\ buf[a] \in Owned[CallOf(a)]
          /\ \A c \in Actors : Owned'[CallOf(c)] =
               IF c = a THEN Owned[CallOf(c)] \ {buf[a]} ELSE Owned[CallOf(c)]
      BY <1>2, <2>1, CallEnds
    <2>6. Move(Owned, Owned', CallOf(a), QueueOf(d), buf[a])
      <3>1. /\ \A t \in Tasks : Owned'[ReceiverOf(t)] = Owned[ReceiverOf(t)]
            /\ \A c \in Actors : Owned'[CopyOf(c)] = Owned[CopyOf(c)]
        BY Unmoved
      <3>2. \A t \in Tasks : Owned'[QueueOf(t)] = Moved(QueueOf(t), CallOf(a), QueueOf(d), buf[a])
        BY <2>4, OwnerKinds DEF Moved
      <3>3. \A t \in Tasks : Owned'[ReceiverOf(t)] = Moved(ReceiverOf(t), CallOf(a), QueueOf(d), buf[a])
        BY <3>1, OwnerKinds DEF Moved
      <3>4. \A c \in Actors : Owned'[CallOf(c)] = Moved(CallOf(c), CallOf(a), QueueOf(d), buf[a])
        BY <2>5, OwnerKinds DEF Moved
      <3>5. \A c \in Actors : Owned'[CopyOf(c)] = Moved(CopyOf(c), CallOf(a), QueueOf(d), buf[a])
        BY <3>1, OwnerKinds DEF Moved
      <3> QED BY <3>2, <3>3, <3>4, <3>5, MoveByKind
    <2> QED
      BY <2>1, <2>3, <2>5, <2>6, MoveStep, OwnerKinds
  <1>4. CASE ~ CanQueue(d, msg[buf[a]].code)
    <2>1. UNCHANGED <<msg, queue>> /\ buf' = [buf EXCEPT ![a] = buf[a]]
      BY <1>4 DEF QueueOrFail, Begin
    <2>2. buf' = buf /\ Allocated' = Allocated
      BY <1>2, <2>1 DEF Allocated
    <2> QED BY <2>1, <2>2, SameStep
  <1> QED
    BY <1>3, <1>4

\* msg_broadcast takes a copy, and queues or frees it.
LEMMA ScanCopyOwnership ==
    ASSUME Places, OwnedApart, OwnedIsAllocated, NEW a \in Actors, ScanCopy(a)
    PROVE  OwnedApart'
  <1>1. pc[a] = "scan" /\ buf[a] # NoBuf /\ copy[a] = NoBuf /\ UNCHANGED <<queue, cur, res, buf>>
    BY DEF ScanCopy, Places, CallOK, rxvars
  <1>2. PICK c \in Buffers : /\ Take(c, msg[buf[a]])
                             /\ copy' = [copy EXCEPT ![a] = c]
    BY DEF ScanCopy
  <1>3. msg[buf[a]] # Freed
    BY <1>1, OwnedIsMessage, FreedIsNoMessage
  <1>4. c \notin Allocated /\ Allocated' = Allocated \cup {c}
    BY <1>2, <1>3, PoolSteps DEF Places
  <1>5. \A x \in Actors : Owned'[CopyOf(x)] =
            IF x = a THEN Owned[CopyOf(x)] \cup {c} ELSE Owned[CopyOf(x)]
    BY <1>1, <1>2, CopyBegins DEF Places, TypeOK
  <1>6. Gain(Owned, Owned', CopyOf(a), c)
    BY <1>1, <1>5, Unmoved, OwnerKinds DEF Gain
  <1> QED
    BY <1>4, <1>6, GainStep, OwnerKinds

\* Queueing a copy, or freeing it, keeps ownership apart.
LEMMA PutCopyOwnership ==
    ASSUME Places, OwnedApart, OwnedIsAllocated, NEW a \in Actors, PutCopy(a)
    PROVE  OwnedApart'
  <1>1. copy[a] # NoBuf /\ dest[a] \in Tasks
    BY DEF PutCopy, Places, CallOK
  <1>2. /\ copy \in [Actors -> Buffers \cup {NoBuf}] /\ copy[a] \in Buffers
        /\ copy' = [copy EXCEPT ![a] = NoBuf] /\ UNCHANGED <<cur, res, buf>>
    BY <1>1 DEF PutCopy, Places, TypeOK, rxvars
  <1>3. /\ copy[a] \in Owned[CopyOf(a)]
        /\ \A x \in Actors : Owned'[CopyOf(x)] =
             IF x = a THEN Owned[CopyOf(x)] \ {copy[a]} ELSE Owned[CopyOf(x)]
    BY <1>2, CopyEnds
  <1>4. /\ \A t \in Tasks : Owned'[ReceiverOf(t)] = Owned[ReceiverOf(t)]
        /\ \A x \in Actors : Owned'[CallOf(x)] = Owned[CallOf(x)]
    BY <1>2, Unmoved
  <1>5. CASE CanQueue(dest[a], msg[copy[a]].code)
    <2>1. /\ queue' = [queue EXCEPT ![dest[a]] = Append(@, copy[a])]
          /\ msg' = [msg EXCEPT ![copy[a]] = [msg[copy[a]] EXCEPT !.rx = dest[a]]]
      BY <1>5 DEF PutCopy
    <2>2. \A t \in Tasks : Owned'[QueueOf(t)] =
             IF t = dest[a] THEN Owned[QueueOf(t)] \cup {copy[a]} ELSE Owned[QueueOf(t)]
      BY <1>1, <1>2, <2>1, QueueGrows DEF Places, TypeOK
    <2>3. Move(Owned, Owned', CopyOf(a), QueueOf(dest[a]), copy[a])
      <3>1. \A t \in Tasks : Owned'[QueueOf(t)] = Moved(QueueOf(t), CopyOf(a), QueueOf(dest[a]), copy[a])
        BY <2>2, OwnerKinds DEF Moved
      <3>2. \A t \in Tasks : Owned'[ReceiverOf(t)] = Moved(ReceiverOf(t), CopyOf(a), QueueOf(dest[a]), copy[a])
        BY <1>4, OwnerKinds DEF Moved
      <3>3. \A x \in Actors : Owned'[CallOf(x)] = Moved(CallOf(x), CopyOf(a), QueueOf(dest[a]), copy[a])
        BY <1>4, OwnerKinds DEF Moved
      <3>4. \A x \in Actors : Owned'[CopyOf(x)] = Moved(CopyOf(x), CopyOf(a), QueueOf(dest[a]), copy[a])
        BY <1>3, OwnerKinds DEF Moved
      <3> QED BY <3>1, <3>2, <3>3, <3>4, MoveByKind
    <2>4. Allocated' = Allocated
      <3>1. msg[copy[a]] \in Message
        BY <1>1, OwnedIsMessage
      <3>2. dest[a] \in Tasks
        BY <1>1
      <3>3. [msg[copy[a]] EXCEPT !.rx = dest[a]] \in Message
        BY <3>1, <3>2, ReaddressedIsMessage, Zenon
      <3> QED BY <1>2, <2>1, <3>1, <3>3, FreedIsNoMessage, PoolSteps DEF Places
    <2> QED BY <1>1, <1>3, <2>3, <2>4, MoveStep, OwnerKinds
  <1>6. CASE ~ CanQueue(dest[a], msg[copy[a]].code)
    <2>1. queue' = queue /\ Free(copy[a])
      BY <1>6 DEF PutCopy
    <2>2. Loss(Owned, Owned', CopyOf(a), copy[a])
      <3>1. \A t \in Tasks : Owned'[QueueOf(t)] = Owned[QueueOf(t)]
        BY <2>1, Unmoved
      <3> QED BY <1>3, <1>4, <3>1, OwnerKinds DEF Loss
    <2>3. Allocated' = Allocated \ {copy[a]}
      BY <1>2, <2>1, PoolSteps DEF Places
    <2> QED BY <1>3, <2>2, <2>3, LossStep, OwnerKinds
  <1> QED
    BY <1>5, <1>6

\* The first message of a queue goes to msg_flush or to msg_receiver.
LEMMA FlushGetOwnership ==
    ASSUME Places, OwnedApart, SingleOwner, NEW a \in Actors, FlushGet(a)
    PROVE  OwnedApart'
  <1>1. buf[a] = NoBuf /\ dest[a] \in Tasks /\ UNCHANGED <<cur, res, copy>> /\ msg' = msg
    BY DEF FlushGet, Places, CallOK, TypeOK, rxvars
  <1>2. Allocated' = Allocated
    BY <1>1 DEF Allocated
  <1>3. CASE queue[dest[a]] # << >>
    <2> DEFINE d == dest[a]
               b == Head(queue[d])
    <2>1. /\ queue' = [queue EXCEPT ![d] = Tail(@)] /\ buf' = [buf EXCEPT ![a] = b]
      BY <1>3 DEF FlushGet, Begin
    <2>2. /\ b \in Owned[QueueOf(d)]
          /\ \A t \in Tasks : Owned'[QueueOf(t)] =
               IF t = d THEN Owned[QueueOf(t)] \ {b} ELSE Owned[QueueOf(t)]
      BY <1>1, <1>3, <2>1, QueueShrinks DEF Places, TypeOK, SingleOwner
    <2>3. b \in Buffers
      BY <1>1, <1>3 DEF Places, TypeOK
    <2>4. \A c \in Actors : Owned'[CallOf(c)] =
             IF c = a THEN Owned[CallOf(c)] \cup {b} ELSE Owned[CallOf(c)]
      BY <1>1, <2>1, <2>3, CallBegins DEF Places, TypeOK
    <2>5. Move(Owned, Owned', QueueOf(d), CallOf(a), b)
      <3> HIDE DEF d, b
      <3>1. \A t \in Tasks : Owned'[QueueOf(t)] = Moved(QueueOf(t), QueueOf(d), CallOf(a), b)
        BY <2>2, OwnerKinds DEF Moved
      <3>2. \A t \in Tasks : Owned'[ReceiverOf(t)] = Moved(ReceiverOf(t), QueueOf(d), CallOf(a), b)
        BY <1>1, Unmoved, OwnerKinds DEF Moved
      <3>3. \A c \in Actors : Owned'[CallOf(c)] = Moved(CallOf(c), QueueOf(d), CallOf(a), b)
        BY <2>4, OwnerKinds DEF Moved
      <3>4. \A c \in Actors : Owned'[CopyOf(c)] = Moved(CopyOf(c), QueueOf(d), CallOf(a), b)
        BY <1>1, Unmoved, OwnerKinds DEF Moved
      <3> QED BY <3>1, <3>2, <3>3, <3>4, MoveByKind
    <2> QED BY <1>1, <1>2, <2>2, <2>5, MoveStep, OwnerKinds
  <1>4. CASE queue[dest[a]] = << >>
    <2>1. queue' = queue /\ buf' = [buf EXCEPT ![a] = NoBuf]
      BY <1>4 DEF FlushGet, End, Begin
    <2>2. buf' = buf
      BY <1>1, <2>1 DEF Places, TypeOK
    <2> QED BY <1>1, <1>2, <2>1, <2>2, SameStep
  <1> QED
    BY <1>3, <1>4

\* So does taking a message out of a queue.
LEMMA ReceiveOwnership ==
    ASSUME Places, OwnedApart, SingleOwner, NEW t \in Tasks, Receive(t)
    PROVE  OwnedApart'
  <1> DEFINE b == Head(queue[t])
  <1>1. /\ cur[t] = NoBuf /\ res[t] = "FREE" /\ queue[t] # << >>
        /\ cur' = [cur EXCEPT ![t] = b] /\ queue' = [queue EXCEPT ![t] = Tail(@)]
        /\ UNCHANGED <<res, buf, copy>> /\ msg' = msg
    BY DEF Receive, Places, ReceiverOK, opvars
  <1>2. b \in Buffers
    BY <1>1 DEF Places, TypeOK
  <1>3. /\ b \in Owned[QueueOf(t)]
        /\ \A u \in Tasks : Owned'[QueueOf(u)] =
             IF u = t THEN Owned[QueueOf(u)] \ {b} ELSE Owned[QueueOf(u)]
    BY <1>1, QueueShrinks DEF Places, TypeOK, SingleOwner
  <1>4. \A u \in Tasks : Owned'[ReceiverOf(u)] =
           IF u = t THEN Owned[ReceiverOf(u)] \cup {b} ELSE Owned[ReceiverOf(u)]
    BY <1>1, <1>2, ReceiverBegins DEF Places, TypeOK
  <1>5. Move(Owned, Owned', QueueOf(t), ReceiverOf(t), b)
    <2> HIDE DEF b
    <2>1. \A u \in Tasks : Owned'[QueueOf(u)] = Moved(QueueOf(u), QueueOf(t), ReceiverOf(t), b)
      BY <1>3, OwnerKinds DEF Moved
    <2>2. \A u \in Tasks : Owned'[ReceiverOf(u)] = Moved(ReceiverOf(u), QueueOf(t), ReceiverOf(t), b)
      BY <1>4, OwnerKinds DEF Moved
    <2>3. \A c \in Actors : Owned'[CallOf(c)] = Moved(CallOf(c), QueueOf(t), ReceiverOf(t), b)
      BY <1>1, Unmoved, OwnerKinds DEF Moved
    <2>4. \A c \in Actors : Owned'[CopyOf(c)] = Moved(CopyOf(c), QueueOf(t), ReceiverOf(t), b)
      BY <1>1, Unmoved, OwnerKinds DEF Moved
    <2> QED BY <2>1, <2>2, <2>3, <2>4, MoveByKind
  <1>6. Allocated' = Allocated
    BY <1>1 DEF Allocated
  <1> QED BY <1>3, <1>5, <1>6, MoveStep, OwnerKinds

\* A handler passes its message to a call of its own.
LEMMA PassOnOwnership ==
    ASSUME Places, OwnedApart, NEW t \in Tasks, MayCall(t), res[t] = "FREE",
           res' = [res EXCEPT ![t] = "DO_NOT_FREE"], buf' = [buf EXCEPT ![t] = cur[t]],
           UNCHANGED <<queue, cur, copy>>, Allocated' = Allocated
    PROVE  OwnedApart'
  <1>1. t \in Actors /\ buf[t] = NoBuf /\ cur[t] # NoBuf
    BY DEF MayCall, Places, CallOK, ReceiverOK, Actors
  <1>2. cur[t] \in Buffers
    BY <1>1 DEF Places, TypeOK
  <1>3. /\ cur[t] \in Owned[ReceiverOf(t)]
        /\ \A u \in Tasks : Owned'[ReceiverOf(u)] =
             IF u = t THEN Owned[ReceiverOf(u)] \ {cur[t]} ELSE Owned[ReceiverOf(u)]
    BY <1>2, ReceiverEnds DEF Places, TypeOK
  <1>4. \A c \in Actors : Owned'[CallOf(c)] =
           IF c = t THEN Owned[CallOf(c)] \cup {cur[t]} ELSE Owned[CallOf(c)]
    BY <1>1, <1>2, CallBegins DEF Places, TypeOK
  <1>5. Move(Owned, Owned', ReceiverOf(t), CallOf(t), cur[t])
    <2>1. \A u \in Tasks : Owned'[QueueOf(u)] = Moved(QueueOf(u), ReceiverOf(t), CallOf(t), cur[t])
      BY Unmoved, OwnerKinds DEF Moved
    <2>2. \A u \in Tasks : Owned'[ReceiverOf(u)] = Moved(ReceiverOf(u), ReceiverOf(t), CallOf(t), cur[t])
      BY <1>3, OwnerKinds DEF Moved
    <2>3. \A c \in Actors : Owned'[CallOf(c)] = Moved(CallOf(c), ReceiverOf(t), CallOf(t), cur[t])
      BY <1>4, OwnerKinds DEF Moved
    <2>4. \A c \in Actors : Owned'[CopyOf(c)] = Moved(CopyOf(c), ReceiverOf(t), CallOf(t), cur[t])
      BY Unmoved, OwnerKinds DEF Moved
    <2> QED BY <2>1, <2>2, <2>3, <2>4, MoveByKind
  <1> QED BY <1>1, <1>3, <1>5, MoveStep, OwnerKinds

\* msg_receiver frees its message, unless its handler has passed it on.
LEMMA ReleaseOwnership ==
    ASSUME Places, OwnedApart, NEW t \in Tasks, Release(t)
    PROVE  OwnedApart'
  <1>1. /\ cur[t] # NoBuf /\ UNCHANGED <<queue, buf, copy>>
        /\ cur' = [cur EXCEPT ![t] = NoBuf] /\ res' = [res EXCEPT ![t] = "FREE"]
    BY DEF Release, Places, ReceiverOK, opvars
  <1>2. cur[t] \in Buffers
    BY <1>1 DEF Places, TypeOK
  <1>3. CASE res[t] = "FREE"
    <2>1. /\ cur[t] \in Owned[ReceiverOf(t)]
          /\ \A u \in Tasks : Owned'[ReceiverOf(u)] =
               IF u = t THEN Owned[ReceiverOf(u)] \ {cur[t]} ELSE Owned[ReceiverOf(u)]
      BY <1>1, <1>2, <1>3, ReceiverEnds DEF Places, TypeOK
    <2>2. Loss(Owned, Owned', ReceiverOf(t), cur[t])
      <3>1. /\ \A u \in Tasks : Owned'[QueueOf(u)] = Owned[QueueOf(u)]
            /\ \A a \in Actors : Owned'[CallOf(a)] = Owned[CallOf(a)]
            /\ \A a \in Actors : Owned'[CopyOf(a)] = Owned[CopyOf(a)]
        BY <1>1, Unmoved
      <3> QED BY <2>1, <3>1, OwnerKinds DEF Loss
    <2>3. Allocated' = Allocated \ {cur[t]}
      BY <1>2, <1>3, PoolSteps DEF Release, Places
    <2> QED BY <2>1, <2>2, <2>3, LossStep, OwnerKinds
  <1>4. CASE res[t] # "FREE"
    <2>1. Owned[ReceiverOf(t)] = {} /\ Owned'[ReceiverOf(t)] = {}
      BY <1>1, <1>4, OwnedAt, OwnedAtNext DEF Places, TypeOK, Pointer
    <2>2. \A u \in Tasks \ {t} : cur'[u] = cur[u] /\ res'[u] = res[u]
      BY <1>1 DEF Places, TypeOK
    <2>3. \A u \in Tasks \ {t} : Owned'[ReceiverOf(u)] = Owned[ReceiverOf(u)]
      BY <2>2, OwnedAt, OwnedAtNext
    <2>4. \A u \in Tasks : Owned'[ReceiverOf(u)] = Owned[ReceiverOf(u)]
      BY <2>1, <2>3
    <2>5. Same(Owned, Owned')
      BY <1>1, <2>4, Unmoved, OwnerKinds DEF Same
    <2>6. Allocated' = Allocated
      BY <1>4 DEF Release, Allocated
    <2> QED BY <2>5, <2>6, SameKeeps DEF OwnedApart
  <1> QED BY <1>3, <1>4

\* Every step keeps buffers apart and accounted for.
LEMMA OwnershipStep ==
    ASSUME Places, OwnedApart, SingleOwner, OwnedIsAllocated, Next
    PROVE  OwnedApart'
  <1>1. ASSUME NEW t \in Tasks, Register(t) \/ StartTimer(t) \/ StopTimer(t) PROVE OwnedApart'
    <2>1. UNCHANGED <<queue, cur, res, buf, copy>> /\ msg' = msg
      BY <1>1 DEF Register, StartTimer, StopTimer, rxvars, opvars
    <2> QED BY <2>1, SameStep DEF Allocated
  <1>2. ASSUME NEW t \in Tasks, TimerIsr(t) PROVE OwnedApart'
    <2>1. Header(SMC_PERIODIC, t, NoCb) \in Message
      BY HeaderIsMessage, RouterAssumption DEF Tasks
    <2> QED BY <1>2, <2>1, IsrOwnership DEF TimerIsr, Places, rxvars, opvars
  <1>3. ASSUME NEW s \in IsrSends, IsrSend(s[1], s[2], s[3]) PROVE OwnedApart'
    <2>1. s[1] \in Tasks /\ s[2] \in Tasks /\ s[3] \in Codes
      BY RouterAssumption
    <2>2. Header(s[3], s[1], NoCb) \in Message
      BY <2>1, HeaderIsMessage DEF Tasks
    <2> QED BY <1>3, <2>1, <2>2, IsrOwnership DEF IsrSend, Places, rxvars, opvars
  <1>4. ASSUME NEW a \in Senders, NEW code \in Codes,
               Create(a, code) \/ CreateBroadcast(a, code)
                 \/ \E cb \in Callbacks : CreateWithCallback(a, code, cb)
        PROVE OwnedApart'
    <2>1. a \in Actors /\ pc[a] = "idle" /\ UNCHANGED <<queue, cur, res, copy>>
      BY <1>4, RouterAssumption DEF Create, CreateBroadcast, CreateWithCallback, MayCall, rxvars
    <2>2. \E b \in Buffers, cb \in Callbacks \cup {NoCb} :
            Take(b, Header(code, TxId(a), cb)) /\ buf' = [buf EXCEPT ![a] = b]
      BY <1>4 DEF Create, CreateBroadcast, CreateWithCallback, Begin
    <2>3. PICK b \in Buffers, cb \in Callbacks \cup {NoCb} :
            Take(b, Header(code, TxId(a), cb)) /\ buf' = [buf EXCEPT ![a] = b]
      BY <2>2
    <2>4. Header(code, TxId(a), cb) \in Message
      BY <2>1, TxIdIsId, HeaderIsMessage
    <2> QED BY <2>1, <2>3, <2>4, CreateOwnership
  <1>5. ASSUME NEW a \in Flushers, NEW t \in Tasks, FlushBegin(a, t) PROVE OwnedApart'
    <2>1. a \in Actors /\ buf[a] = NoBuf
      BY <1>5, RouterAssumption DEF FlushBegin, MayCall, Places, CallOK, Actors
    <2>2. UNCHANGED <<queue, cur, res, copy>> /\ msg' = msg /\ buf' = [buf EXCEPT ![a] = NoBuf]
      BY <1>5 DEF FlushBegin, Begin, rxvars
    <2>3. buf' = buf
      BY <2>1, <2>2 DEF Places, TypeOK
    <2> QED BY <2>2, <2>3, SameStep DEF Allocated
  <1>6. ASSUME NEW a \in Actors, MsgSend(a) \/ MsgUnicast(a) PROVE OwnedApart'
    <2>1. CASE MsgSend(a)
      BY <2>1, QueueOrFailOwnership DEF MsgSend, rxvars
    <2>2. CASE MsgUnicast(a)
      BY <2>2, QueueOrFailOwnership DEF MsgUnicast, rxvars
    <2> QED BY <1>6, <2>1, <2>2
  <1>7. ASSUME NEW a \in Actors, Deallocate(a) \/ FlushFree(a) PROVE OwnedApart'
    <2>1. /\ buf[a] # NoBuf /\ Free(buf[a]) /\ buf' = [buf EXCEPT ![a] = NoBuf]
          /\ UNCHANGED <<queue, cur, res, copy>>
      BY <1>7 DEF Deallocate, FlushFree, End, Begin, Places, CallOK, rxvars
    <2> QED BY <2>1, CallFreesOwnership
  <1>8. ASSUME NEW a \in Actors, ScanSkip(a) \/ ScanNoBuffer(a) PROVE OwnedApart'
    <2>1. UNCHANGED <<queue, cur, res, buf, copy>> /\ msg' = msg
      BY <1>8 DEF ScanSkip, ScanNoBuffer, rxvars
    <2> QED BY <2>1, SameStep DEF Allocated
  <1>9. ASSUME NEW a \in Actors, BroadcastDone(a) PROVE OwnedApart'
    <2>1. buf[a] # NoBuf /\ UNCHANGED <<queue, cur, res, copy>>
      BY <1>9 DEF BroadcastDone, Places, CallOK, rxvars
    <2>2. CASE ret[a] = "SUCCESS"
      <3>1. Free(buf[a]) /\ buf' = [buf EXCEPT ![a] = NoBuf]
        BY <1>9, <2>2 DEF BroadcastDone, End, Begin
      <3> QED BY <2>1, <3>1, CallFreesOwnership
    <2>3. CASE ret[a] # "SUCCESS"
      <3>1. msg' = msg /\ buf' = [buf EXCEPT ![a] = buf[a]]
        BY <1>9, <2>3 DEF BroadcastDone, Begin
      <3>2. buf' = buf
        BY <3>1 DEF Places, TypeOK
      <3> QED BY <2>1, <3>1, <3>2, SameStep DEF Allocated
    <2> QED BY <2>2, <2>3
  <1>10. ASSUME NEW t \in Tasks, Dispatch(t) \/ Return(t) \/ Options(t) PROVE OwnedApart'
    <2>1. UNCHANGED <<queue, cur, res, buf, copy>> /\ msg' = msg
      BY <1>10 DEF Dispatch, Return, Options, opvars
    <2> QED BY <2>1, SameStep DEF Allocated
  <1>11. ASSUME NEW t \in Tasks, NEW d \in 0 .. NumTasks, Forward(t, d) PROVE OwnedApart'
    <2>1. msg' = msg
      BY <1>11 DEF Forward
    <2> QED BY <1>11, <2>1, PassOnOwnership DEF Forward, Begin, Allocated
  <1>12. ASSUME NEW t \in Tasks, NEW code \in Codes, Reply(t, code) PROVE OwnedApart'
    <2>1. cur[t] \in Buffers /\ msg[cur[t]] \in Message
      BY <1>12, OwnedIsMessage DEF Reply, MayCall, Places, ReceiverOK, TypeOK, Actors
    <2>2. /\ msg' = [msg EXCEPT ![cur[t]] = [code |-> code, rx |-> msg[cur[t]].tx,
                                             tx |-> msg[cur[t]].rx, cb |-> msg[cur[t]].cb]]
          /\ [code |-> code, rx |-> msg[cur[t]].tx,
              tx |-> msg[cur[t]].rx, cb |-> msg[cur[t]].cb] \in Message
      BY <1>12, <2>1 DEF Reply, Message
    <2>3. Allocated' = Allocated
      BY <2>1, <2>2, FreedIsNoMessage, PoolSteps DEF Places
    <2> QED BY <1>12, <2>3, PassOnOwnership DEF Reply, Begin
  <1> QED
    BY <1>1, <1>2, <1>3, <1>4, <1>5, <1>6, <1>7, <1>8, <1>9, <1>10, <1>11, <1>12,
       ScanCopyOwnership, PutCopyOwnership, FlushGetOwnership, ReceiveOwnership,
       ReleaseOwnership
    DEF Next, Call, Proceed, PassOn, Serve, Interrupt

-----------------------------------------------------------------------------
(* The mailboxes *)

\* The mailboxes of the next state.
LEMMA BoxesNext ==
    \A t \in Tasks : Boxes'[t] = [i \in DOMAIN queue'[t] |-> msg'[queue'[t][i]]]
  BY DEF Boxes, Contents

\* A mailbox is a sequence as long as the queue, of the messages it points to.
LEMMA ContentsIsSeq ==
    ASSUME TypeOK, NEW t \in Tasks
    PROVE  /\ Boxes[t] = [i \in 1 .. Len(queue[t]) |-> msg[queue[t][i]]]
           /\ Boxes[t] \in Seq(Message \cup {Freed})
           /\ Len(Boxes[t]) = Len(queue[t]) /\ Len(queue[t]) \in Nat
  <1>1. queue[t] \in Seq(Buffers) /\ DOMAIN queue[t] = 1 .. Len(queue[t]) /\ Len(queue[t]) \in Nat
    BY DEF TypeOK
  <1>2. Boxes[t] = [i \in 1 .. Len(queue[t]) |-> msg[queue[t][i]]]
    BY <1>1 DEF Boxes, Contents
  <1>3. \A i \in 1 .. Len(queue[t]) : msg[queue[t][i]] \in Message \cup {Freed}
    BY <1>1 DEF TypeOK
  <1> QED
    BY <1>1, <1>2, <1>3

\* Mailboxes do not change while the queues and what they point to do not.
LEMMA BoxesUntouched ==
    ASSUME TypeOK, queue' = queue,
           NEW b, \A t \in Tasks : b \notin Range(queue[t]),
           \A c \in Buffers : c # b => msg'[c] = msg[c]
    PROVE  Boxes' = Boxes
  <1>1. ASSUME NEW t \in Tasks, NEW i \in DOMAIN queue[t]
        PROVE  msg'[queue[t][i]] = msg[queue[t][i]]
    <2>1. queue[t][i] \in Range(queue[t])
      BY DEF Range
    <2>2. queue[t][i] \in Buffers
      BY DEF TypeOK
    <2> QED BY <2>1, <2>2
  <1>2. \A t \in Tasks : [i \in DOMAIN queue'[t] |-> msg'[queue'[t][i]]] =
                         [i \in DOMAIN queue[t] |-> msg[queue[t][i]]]
    BY <1>1
  <1> QED
    BY <1>2 DEF Boxes, Contents

\* Putting a pointer at the end of a queue delivers the message.
LEMMA BoxesAppend ==
    ASSUME TypeOK, NEW d \in Tasks, NEW b \in Buffers,
           \A t \in Tasks : b \notin Range(queue[t]),
           queue' = [queue EXCEPT ![d] = Append(@, b)],
           \A c \in Buffers : c # b => msg'[c] = msg[c],
           Len(queue[d]) < QueueDepth,
           msg'[b] \in Letters, msg'[b].rx = d
    PROVE  Mail!Next
  <1>1. queue[d] \in Seq(Buffers) /\ queue'[d] = Append(queue[d], b)
    BY DEF TypeOK
  <1>2. \A t \in Tasks \ {d} : queue'[t] = queue[t]
    BY DEF TypeOK
  <1>3. ASSUME NEW t \in Tasks, NEW i \in DOMAIN queue[t]
        PROVE  msg'[queue[t][i]] = msg[queue[t][i]]
    <2>1. queue[t][i] \in Range(queue[t])
      BY DEF Range
    <2>2. queue[t][i] \in Buffers
      BY DEF TypeOK
    <2> QED BY <2>1, <2>2
  <1>4. \A t \in Tasks \ {d} : Boxes'[t] = Boxes[t]
    <2>1. \A t \in Tasks \ {d} : Boxes'[t] = [i \in DOMAIN queue[t] |-> msg[queue[t][i]]]
      BY <1>2, <1>3, BoxesNext
    <2> QED BY <2>1 DEF Boxes, Contents
  <1>5. Boxes'[d] = Append(Boxes[d], msg'[b])
    <2> DEFINE n == Len(queue[d])
               q == queue'[d]
    <2>1. n \in Nat /\ DOMAIN q = 1 .. n + 1 /\ q[n + 1] = b
          /\ \A i \in 1 .. n : q[i] = queue[d][i]
      BY <1>1
    <2>2. Boxes'[d] = [i \in 1 .. n + 1 |-> msg'[q[i]]]
      BY <2>1, BoxesNext
    <2>3. /\ Boxes[d] = [i \in 1 .. n |-> msg[queue[d][i]]]
          /\ Boxes[d] \in Seq(Message \cup {Freed}) /\ Len(Boxes[d]) = n
      BY ContentsIsSeq
    <2>4. Append(Boxes[d], msg'[b]) = [i \in 1 .. n + 1 |-> IF i = n + 1 THEN msg'[b] ELSE Boxes[d][i]]
      BY <2>1, <2>3 DEF Letters
    <2>5. \A i \in 1 .. n + 1 : msg'[q[i]] = IF i = n + 1 THEN msg'[b] ELSE Boxes[d][i]
      <3>1. \A i \in 1 .. n : msg'[queue[d][i]] = msg[queue[d][i]]
        BY <1>1, <1>3
      <3> QED BY <2>1, <2>3, <3>1
    <2> HIDE DEF n, q
    <2> QED BY <2>2, <2>4, <2>5
  <1>6. Boxes' = [Boxes EXCEPT ![d] = Append(@, msg'[b])]
    BY <1>4, <1>5 DEF Boxes
  <1>7. Len(Boxes[d]) < QueueDepth
    BY ContentsIsSeq
  <1>8. Mail!Deliver(d, msg'[b])
    BY <1>6, <1>7 DEF Mail!Deliver
  <1> QED
    BY <1>8 DEF Mail!Next

\* Taking the first pointer out of a queue takes the message out.
LEMMA BoxesTail ==
    ASSUME TypeOK, NEW d \in Tasks, queue[d] # << >>,
           queue' = [queue EXCEPT ![d] = Tail(@)], msg' = msg
    PROVE  Mail!Next
  <1>1. queue[d] \in Seq(Buffers) /\ queue'[d] = Tail(queue[d])
    BY DEF TypeOK
  <1>2. \A t \in Tasks \ {d} : Boxes'[t] = Boxes[t]
    <2>1. \A t \in Tasks \ {d} : queue'[t] = queue[t]
      BY DEF TypeOK
    <2> QED BY <2>1, BoxesNext DEF Boxes, Contents
  <1>3. Boxes'[d] = Tail(Boxes[d]) /\ Boxes[d] # << >>
    <2> DEFINE n == Len(queue[d])
               q == queue'[d]
    <2>1. n \in Nat /\ n > 0 /\ q = [i \in 1 .. n - 1 |-> queue[d][i + 1]]
      BY <1>1, TailShape
    <2>2. /\ Boxes[d] = [i \in 1 .. n |-> msg[queue[d][i]]]
          /\ Boxes[d] \in Seq(Message \cup {Freed}) /\ Len(Boxes[d]) = n
      BY ContentsIsSeq
    <2>3. Boxes[d] # << >>
      BY <2>1, <2>2
    <2>4. Tail(Boxes[d]) = [i \in 1 .. n - 1 |-> Boxes[d][i + 1]]
      BY <2>2, <2>3, TailShape
    <2>5. Boxes'[d] = [i \in DOMAIN q |-> msg[q[i]]]
      BY BoxesNext
    <2> HIDE DEF n, q
    <2>6. \A i \in 1 .. n - 1 : q[i] = queue[d][i + 1] /\ i + 1 \in 1 .. n
      BY <2>1
    <2>7. \A i \in 1 .. n - 1 : Boxes[d][i + 1] = msg[q[i]]
      BY <2>2, <2>6
    <2>8. Boxes'[d] = [i \in 1 .. n - 1 |-> msg[q[i]]]
      BY <2>1, <2>5
    <2> QED BY <2>3, <2>4, <2>7, <2>8
  <1>4. Boxes' = [Boxes EXCEPT ![d] = Tail(@)]
    BY <1>2, <1>3 DEF Boxes
  <1>5. Mail!TakeOut(d)
    BY <1>3, <1>4 DEF Mail!TakeOut
  <1> QED
    BY <1>5 DEF Mail!Next

-----------------------------------------------------------------------------
(* The messages in the queues *)

Injective(s) == \A i, j \in DOMAIN s : s[i] = s[j] => i = j

QueuesOK == (\A t \in Tasks : Injective(queue[t])) /\ QueuedForReceiver

\* What every step does to the queues: they stay as they should be, and the
\* mailboxes they stand for make a step or stay as they are.
QueuesKept == QueuesOK' /\ (Mail!Next \/ Boxes' = Boxes)

\* A free buffer, and one that is owned from elsewhere, is in no queue.
LEMMA NotQueued ==
    ASSUME OwnedApart, NEW b \in Buffers,
           \/ b \notin Allocated
           \/ \E t \in Tasks : b \in Owned[ReceiverOf(t)]
           \/ \E a \in Actors : b \in Owned[CallOf(a)] \/ b \in Owned[CopyOf(a)]
    PROVE  \A t \in Tasks : b \notin Range(queue[t])
  <1>1. \A t \in Tasks : QueueOf(t) \in Owners /\ Owned[QueueOf(t)] = Range(queue[t])
    BY OwnerKinds, OwnedAt
  <1>2. CASE b \notin Allocated
    BY <1>1, <1>2 DEF OwnedApart, Covers
  <1>3. ASSUME NEW o \in Owners, b \in Owned[o], \A t \in Tasks : o # QueueOf(t)
        PROVE  \A t \in Tasks : b \notin Range(queue[t])
    BY <1>1, <1>3 DEF OwnedApart, Disjoint
  <1>4. \A x, y : /\ ReceiverOf(y) # QueueOf(x) /\ CallOf(y) # QueueOf(x)
                   /\ CopyOf(y) # QueueOf(x)
    BY OwnerKinds
  <1>5. CASE \E t \in Tasks : b \in Owned[ReceiverOf(t)]
    BY <1>3, <1>4, <1>5, OwnerKinds
  <1>6. ASSUME NEW a \in Actors, b \in Owned[CallOf(a)] \/ b \in Owned[CopyOf(a)]
        PROVE  \A t \in Tasks : b \notin Range(queue[t])
    <2>1. CallOf(a) \in Owners /\ CopyOf(a) \in Owners
      BY OwnerKinds
    <2> QED BY <1>3, <1>4, <1>6, <2>1
  <1> QED
    BY <1>2, <1>5, <1>6

\* What happens to a buffer that is in no queue does not disturb the queues.
LEMMA QueuesUntouched ==
    ASSUME TypeOK, QueuesOK, queue' = queue, registered \subseteq registered',
           NEW b, \A t \in Tasks : b \notin Range(queue[t]),
           \A c \in Buffers : c # b => msg'[c] = msg[c]
    PROVE  QueuesKept
  <1>1. ASSUME NEW t \in Tasks, NEW i \in DOMAIN queue[t]
        PROVE  msg'[queue[t][i]] = msg[queue[t][i]]
    <2>1. queue[t][i] \in Range(queue[t])
      BY DEF Range
    <2>2. queue[t][i] \in Buffers
      BY DEF TypeOK
    <2> QED BY <2>1, <2>2
  <1>2. QueuedForReceiver'
    BY <1>1 DEF QueuedForReceiver, QueuesOK
  <1>3. Boxes' = Boxes
    BY BoxesUntouched
  <1> QED
    BY <1>2, <1>3 DEF QueuesOK, QueuesKept

\* Steps that touch no message and no queue.
LEMMA QueuesSame ==
    ASSUME QueuesOK, queue' = queue, msg' = msg, registered \subseteq registered'
    PROVE  QueuesKept
  <1>1. QueuesOK'
    BY DEF QueuesOK, QueuedForReceiver, Injective
  <1>2. Boxes' = Boxes
    BY DEF Boxes, Contents
  <1> QED
    BY <1>1, <1>2 DEF QueuesKept

\* A message that fits can be put at the end of a queue.
LEMMA QueuesAppend ==
    ASSUME TypeOK, QueuesOK, NEW d \in Tasks, NEW b \in Buffers,
           \A t \in Tasks : b \notin Range(queue[t]),
           queue' = [queue EXCEPT ![d] = Append(@, b)], registered' = registered,
           \A c \in Buffers : c # b => msg'[c] = msg[c],
           msg'[b] \in Message, msg'[b].rx = d, msg'[b].code # SMC_INVALID,
           d \in registered, Len(queue[d]) < QueueDepth
    PROVE  QueuesKept
  <1>1. queue[d] \in Seq(Buffers) /\ queue'[d] = Append(queue[d], b)
    BY DEF TypeOK
  <1>2. \A t \in Tasks \ {d} : queue'[t] = queue[t]
    BY DEF TypeOK
  <1>3. Injective(queue'[d])
    BY <1>1, AppendInjective DEF QueuesOK, Injective
  <1>4. \A t \in Tasks : Injective(queue'[t])
    BY <1>2, <1>3 DEF QueuesOK
  <1>5. ASSUME NEW t \in Tasks, NEW c \in Range(queue'[t])
        PROVE  /\ msg'[c] # Freed /\ msg'[c].rx = t /\ msg'[c].code # SMC_INVALID
               /\ t \in registered
    <2>1. CASE c = b
      <3>1. t = d
        BY <1>2, <1>5, <2>1
      <3> QED BY <2>1, <3>1, FreedIsNoMessage
    <2>2. CASE c # b
      <3>1. c \in Range(queue[t])
        <4>1. CASE t = d
          BY <1>1, <1>5, <2>2, <4>1, AppendRange
        <4>2. CASE t # d
          BY <1>2, <1>5, <4>2
        <4> QED BY <4>1, <4>2
      <3>2. PICK i \in DOMAIN queue[t] : c = queue[t][i]
        BY <3>1 DEF Range
      <3>3. c \in Buffers
        BY <3>2 DEF TypeOK
      <3> QED BY <2>2, <3>2, <3>3 DEF QueuesOK, QueuedForReceiver
    <2> QED BY <2>1, <2>2
  <1>6. QueuedForReceiver'
    <2>1. \A t \in Tasks : \A i \in DOMAIN queue'[t] : queue'[t][i] \in Range(queue'[t])
      BY DEF Range
    <2> QED BY <1>5, <2>1 DEF QueuedForReceiver
  <1>7. Mail!Next
    <2>1. msg'[b] \in Letters
      BY DEF Letters
    <2> QED BY <2>1, BoxesAppend
  <1> QED
    BY <1>4, <1>6, <1>7 DEF QueuesOK, QueuesKept

\* The first message can be taken out of a queue.
LEMMA QueuesTail ==
    ASSUME TypeOK, QueuesOK, NEW d \in Tasks, queue[d] # << >>,
           queue' = [queue EXCEPT ![d] = Tail(@)], registered' = registered, msg' = msg
    PROVE  QueuesKept
  <1>1. queue[d] \in Seq(Buffers) /\ queue'[d] = Tail(queue[d])
    BY DEF TypeOK
  <1>2. \A t \in Tasks \ {d} : queue'[t] = queue[t]
    BY DEF TypeOK
  <1>3. /\ Injective(Tail(queue[d]))
        /\ \A i \in DOMAIN Tail(queue[d]) :
             i + 1 \in DOMAIN queue[d] /\ Tail(queue[d])[i] = queue[d][i + 1]
    BY <1>1, TailRange DEF QueuesOK, Injective
  <1>4. \A t \in Tasks : Injective(queue'[t])
    BY <1>1, <1>2, <1>3 DEF QueuesOK
  <1>5. ASSUME NEW t \in Tasks, NEW i \in DOMAIN queue'[t]
        PROVE  \E j \in DOMAIN queue[t] : queue'[t][i] = queue[t][j]
    BY <1>1, <1>2, <1>3, <1>5
  <1>6. QueuedForReceiver'
    BY <1>5 DEF QueuedForReceiver, QueuesOK
  <1>7. Mail!Next
    BY BoxesTail
  <1> QED
    BY <1>4, <1>6, <1>7 DEF QueuesOK, QueuesKept

\* Interrupt handlers queue messages that fit.
LEMMA IsrQueues ==
    ASSUME TypeOK, OwnedApart, QueuesOK, NEW d \in Tasks, NEW m \in Message,
           \/ \E b \in Buffers : IsrDeliver(b, m, d)
           \/ UNCHANGED <<msg, queue>>,
           registered' = registered
    PROVE  QueuesKept
  <1>1. CASE UNCHANGED <<msg, queue>>
    BY <1>1, QueuesSame
  <1>2. ASSUME NEW b \in Buffers, IsrDeliver(b, m, d), CanQueue(d, m.code)
        PROVE  QueuesKept
    <2>1. /\ msg[b] = Freed /\ msg' = [msg EXCEPT ![b] = [m EXCEPT !.rx = d]]
          /\ queue' = [queue EXCEPT ![d] = Append(@, b)]
          /\ m.code # SMC_INVALID /\ d \in registered /\ Len(queue[d]) < QueueDepth
      BY <1>2 DEF IsrDeliver, Take, CanQueue
    <2>2. /\ [m EXCEPT !.rx = d] \in Message /\ [m EXCEPT !.rx = d].rx = d
          /\ [m EXCEPT !.rx = d].code = m.code
      BY ReaddressedIsMessage, Zenon
    <2>3. b \notin Allocated
      BY <2>1 DEF Allocated
    <2>4. \A t \in Tasks : b \notin Range(queue[t])
      BY <2>3, NotQueued
    <2>5. msg'[b] = [m EXCEPT !.rx = d] /\ \A c \in Buffers : c # b => msg'[c] = msg[c]
      BY <2>1 DEF TypeOK
    <2> QED
      BY <2>1, <2>2, <2>4, <2>5, QueuesAppend
  <1> QED
    BY <1>1, <1>2 DEF IsrDeliver

\* A call queues a message that fits.
LEMMA QueueOrFailQueues ==
    ASSUME Places, OwnedApart, OwnedIsAllocated, QueuesOK, NEW a \in Actors, NEW d,
           pc[a] \in {"send", "unicast"}, QueueOrFail(a, d), registered' = registered
    PROVE  QueuesKept
  <1>1. buf[a] # NoBuf
    BY DEF Places, CallOK
  <1>2. buf[a] \in Buffers /\ msg[buf[a]] \in Message
    BY <1>1, OwnedIsMessage DEF Places, TypeOK
  <1>3. CASE CanQueue(d, msg[buf[a]].code)
    <2>1. /\ msg' = [msg EXCEPT ![buf[a]] = [msg[buf[a]] EXCEPT !.rx = d]]
          /\ queue' = [queue EXCEPT ![d] = Append(@, buf[a])]
          /\ msg[buf[a]].code # SMC_INVALID /\ d \in registered
          /\ d \in Tasks /\ d \in 0 .. NumTasks /\ Len(queue[d]) < QueueDepth
      BY <1>3, RouterAssumption DEF QueueOrFail, CanQueue, Places, TypeOK, Tasks
    <2>3. \A t \in Tasks : buf[a] \notin Range(queue[t])
      <3>1. buf[a] \in Owned[CallOf(a)]
        BY <1>1, OwnedAt DEF Pointer
      <3> QED BY <1>2, <3>1, NotQueued
    <2>4. /\ msg'[buf[a]] = [msg[buf[a]] EXCEPT !.rx = d]
          /\ \A c \in Buffers : c # buf[a] => msg'[c] = msg[c]
      BY <1>2, <2>1 DEF Places, TypeOK
    <2> QED
      <3>1. msg'[buf[a]] \in Message /\ msg'[buf[a]].rx = d /\ msg'[buf[a]].code # SMC_INVALID
        <4>1. LET m == [msg[buf[a]] EXCEPT !.rx = d] IN
              m \in Message /\ m.rx = d /\ m.code = msg[buf[a]].code
          BY <1>2, <2>1, ReaddressedIsMessage, Zenon
        <4> QED BY <2>1, <2>4, <4>1, Zenon
      <3> QED BY <1>2, <2>1, <2>3, <2>4, <3>1, QueuesAppend DEF Places
  <1>4. CASE ~ CanQueue(d, msg[buf[a]].code)
    BY <1>4, QueuesSame DEF QueueOrFail
  <1> QED
    BY <1>3, <1>4

\* msg_broadcast queues a copy that fits.
LEMMA PutCopyQueues ==
    ASSUME Places, OwnedApart, OwnedIsAllocated, QueuesOK, NEW a \in Actors, PutCopy(a)
    PROVE  QueuesKept
  <1>1. copy[a] # NoBuf /\ dest[a] \in Tasks /\ registered' = registered
    BY DEF PutCopy, Places, CallOK
  <1>2. copy[a] \in Buffers /\ \A t \in Tasks : copy[a] \notin Range(queue[t])
    <2>1. copy[a] \in Buffers
      BY <1>1 DEF Places, TypeOK
    <2>2. copy[a] \in Owned[CopyOf(a)]
      BY <1>1, OwnedAt DEF Pointer
    <2> QED BY <2>1, <2>2, NotQueued
  <1>3. CASE CanQueue(dest[a], msg[copy[a]].code)
    <2>1. /\ queue' = [queue EXCEPT ![dest[a]] = Append(@, copy[a])]
          /\ msg' = [msg EXCEPT ![copy[a]] = [msg[copy[a]] EXCEPT !.rx = dest[a]]]
          /\ msg[copy[a]].code # SMC_INVALID /\ dest[a] \in registered
          /\ Len(queue[dest[a]]) < QueueDepth
      BY <1>3 DEF PutCopy, CanQueue
    <2>2. msg[copy[a]] \in Message
      BY <1>1, OwnedIsMessage
    <2>3. /\ msg'[copy[a]] = [msg[copy[a]] EXCEPT !.rx = dest[a]]
          /\ \A c \in Buffers : c # copy[a] => msg'[c] = msg[c]
      BY <1>2, <2>1 DEF Places, TypeOK
    <2>4. msg'[copy[a]] \in Message /\ msg'[copy[a]].rx = dest[a] /\ msg'[copy[a]].code # SMC_INVALID
      <3>1. LET m == [msg[copy[a]] EXCEPT !.rx = dest[a]] IN
            m \in Message /\ m.rx = dest[a] /\ m.code = msg[copy[a]].code
        BY <1>1, <2>2, ReaddressedIsMessage, Zenon
      <3> QED BY <2>1, <2>3, <3>1, Zenon
    <2> QED BY <1>1, <1>2, <2>1, <2>3, <2>4, QueuesAppend DEF Places
  <1>4. CASE ~ CanQueue(dest[a], msg[copy[a]].code)
    <2>1. queue' = queue /\ \A c \in Buffers : c # copy[a] => msg'[c] = msg[c]
      BY <1>2, <1>4 DEF PutCopy, Free, Places, TypeOK
    <2> QED BY <1>1, <1>2, <2>1, QueuesUntouched DEF Places
  <1> QED
    BY <1>3, <1>4
\* What is done to a buffer that is free, or owned by a call or a receiver.
LEMMA ElsewhereQueues ==
    ASSUME TypeOK, OwnedApart, QueuesOK, queue' = queue, registered \subseteq registered',
           \/ msg' = msg
           \/ \E b \in Buffers : \E m :
                /\ msg' = [msg EXCEPT ![b] = m]
                /\ \/ msg[b] = Freed
                   \/ \E t \in Tasks : cur[t] = b /\ b # NoBuf /\ res[t] = "FREE"
                   \/ \E a \in Actors : buf[a] = b /\ b # NoBuf
    PROVE  QueuesKept
  <1>1. CASE msg' = msg
    BY <1>1, QueuesSame
  <1>2. ASSUME NEW b \in Buffers, NEW m, msg' = [msg EXCEPT ![b] = m],
               \/ msg[b] = Freed
               \/ \E t \in Tasks : cur[t] = b /\ b # NoBuf /\ res[t] = "FREE"
               \/ \E a \in Actors : buf[a] = b /\ b # NoBuf
        PROVE  QueuesKept
    <2>1. \A c \in Buffers : c # b => msg'[c] = msg[c]
      BY <1>2 DEF TypeOK
    <2>2. CASE msg[b] = Freed
      <3>1. b \notin Allocated
        BY <2>2 DEF Allocated
      <3>2. \A t \in Tasks : b \notin Range(queue[t])
        BY <3>1, NotQueued
      <3> QED BY <2>1, <3>2, QueuesUntouched
    <2>3. ASSUME NEW t \in Tasks, cur[t] = b, b # NoBuf, res[t] = "FREE" PROVE QueuesKept
      <3>1. b \in Owned[ReceiverOf(t)]
        BY <2>3, OwnedAt DEF Pointer
      <3>2. \A u \in Tasks : b \notin Range(queue[u])
        BY <3>1, NotQueued
      <3> QED BY <2>1, <3>2, QueuesUntouched
    <2>4. ASSUME NEW a \in Actors, buf[a] = b, b # NoBuf PROVE QueuesKept
      <3>1. b \in Owned[CallOf(a)]
        BY <2>4, OwnedAt DEF Pointer
      <3>2. \A u \in Tasks : b \notin Range(queue[u])
        BY <3>1, NotQueued
      <3> QED BY <2>1, <3>2, QueuesUntouched
    <2> QED BY <1>2, <2>2, <2>3, <2>4
  <1> QED
    BY <1>1, <1>2

\* Every step keeps the queues without repetitions and their messages readable,
\* and is a step of the mailboxes or leaves them alone.
LEMMA QueuesStep ==
    ASSUME Places, OwnedApart, OwnedIsAllocated, QueuesOK, Next
    PROVE  QueuesKept
  <1>1. ASSUME NEW t \in Tasks, Register(t) \/ StartTimer(t) \/ StopTimer(t) PROVE QueuesKept
    <2>1. queue' = queue /\ msg' = msg /\ registered \subseteq registered'
      BY <1>1 DEF Register, StartTimer, StopTimer
    <2> QED BY <2>1, ElsewhereQueues DEF Places
  <1>2. ASSUME NEW t \in Tasks, TimerIsr(t) PROVE QueuesKept
    <2>1. Header(SMC_PERIODIC, t, NoCb) \in Message
      BY HeaderIsMessage, RouterAssumption DEF Tasks
    <2> QED BY <1>2, <2>1, IsrQueues DEF TimerIsr, Places
  <1>3. ASSUME NEW s \in IsrSends, IsrSend(s[1], s[2], s[3]) PROVE QueuesKept
    <2>1. s[1] \in Tasks /\ s[2] \in Tasks /\ s[3] \in Codes
      BY RouterAssumption
    <2>2. Header(s[3], s[1], NoCb) \in Message
      BY <2>1, HeaderIsMessage DEF Tasks
    <2> QED BY <1>3, <2>1, <2>2, IsrQueues DEF IsrSend, Places
  <1>4. ASSUME NEW a \in Senders, NEW code \in Codes,
               Create(a, code) \/ CreateBroadcast(a, code)
                 \/ \E cb \in Callbacks : CreateWithCallback(a, code, cb)
        PROVE QueuesKept
    <2>1. queue' = queue /\ registered' = registered
      BY <1>4 DEF Create, CreateBroadcast, CreateWithCallback
    <2>2. \E b \in Buffers : \E m : msg[b] = Freed /\ msg' = [msg EXCEPT ![b] = m]
      BY <1>4 DEF Create, CreateBroadcast, CreateWithCallback, Take
    <2> QED BY <2>1, <2>2, ElsewhereQueues DEF Places
  <1>5. ASSUME NEW a \in Flushers, NEW t \in Tasks, FlushBegin(a, t) PROVE QueuesKept
    <2>1. queue' = queue /\ msg' = msg /\ registered \subseteq registered'
      BY <1>5 DEF FlushBegin
    <2> QED BY <2>1, ElsewhereQueues DEF Places
  <1>6. ASSUME NEW a \in Actors, MsgSend(a) \/ MsgUnicast(a) PROVE QueuesKept
    <2>1. CASE MsgSend(a)
      BY <2>1, QueueOrFailQueues DEF MsgSend
    <2>2. CASE MsgUnicast(a)
      BY <2>2, QueueOrFailQueues DEF MsgUnicast
    <2> QED BY <1>6, <2>1, <2>2
  <1>7. ASSUME NEW a \in Actors, Deallocate(a) \/ FlushFree(a) \/ BroadcastDone(a)
        PROVE QueuesKept
    <2>1. buf[a] # NoBuf
      BY <1>7 DEF Deallocate, FlushFree, BroadcastDone, Places, CallOK
    <2>2. buf[a] \in Buffers
      BY <2>1 DEF Places, TypeOK
    <2>3. /\ queue' = queue /\ registered' = registered
          /\ msg' = msg \/ msg' = [msg EXCEPT ![buf[a]] = Freed]
      BY <1>7 DEF Deallocate, FlushFree, BroadcastDone, Free
    <2> QED BY <2>1, <2>2, <2>3, ElsewhereQueues DEF Places
  <1>8. ASSUME NEW a \in Actors, ScanSkip(a) \/ ScanNoBuffer(a) PROVE QueuesKept
    <2>1. queue' = queue /\ msg' = msg /\ registered \subseteq registered'
      BY <1>8 DEF ScanSkip, ScanNoBuffer
    <2> QED BY <2>1, ElsewhereQueues DEF Places
  <1>9. ASSUME NEW a \in Actors, ScanCopy(a) PROVE QueuesKept
    <2>1. queue' = queue /\ registered' = registered
      BY <1>9 DEF ScanCopy
    <2>2. \E b \in Buffers : \E m : msg[b] = Freed /\ msg' = [msg EXCEPT ![b] = m]
      BY <1>9 DEF ScanCopy, Take
    <2> QED BY <2>1, <2>2, ElsewhereQueues DEF Places
  <1>10. ASSUME NEW a \in Actors, FlushGet(a) PROVE QueuesKept
    <2>1. registered' = registered /\ msg' = msg /\ dest[a] \in Tasks
      BY <1>10 DEF FlushGet, Places, CallOK, TypeOK
    <2>2. CASE queue[dest[a]] # << >>
      <3>1. queue' = [queue EXCEPT ![dest[a]] = Tail(@)]
        BY <1>10, <2>2 DEF FlushGet
      <3> QED BY <2>1, <2>2, <3>1, QueuesTail DEF Places
    <2>3. CASE queue[dest[a]] = << >>
      <3>1. queue' = queue
        BY <1>10, <2>3 DEF FlushGet
      <3> QED BY <2>1, <3>1, ElsewhereQueues DEF Places
    <2> QED BY <2>2, <2>3
  <1>11. ASSUME NEW t \in Tasks, Receive(t) PROVE QueuesKept
    BY <1>11, QueuesTail DEF Receive, Places
  <1>12. ASSUME NEW t \in Tasks, Dispatch(t) \/ Return(t) \/ Options(t) PROVE QueuesKept
    <2>1. queue' = queue /\ msg' = msg /\ registered \subseteq registered'
      BY <1>12 DEF Dispatch, Return, Options
    <2> QED BY <2>1, ElsewhereQueues DEF Places
  <1>13. ASSUME NEW t \in Tasks, NEW d \in 0 .. NumTasks, Forward(t, d) PROVE QueuesKept
    <2>1. queue' = queue /\ msg' = msg /\ registered \subseteq registered'
      BY <1>13 DEF Forward
    <2> QED BY <2>1, ElsewhereQueues DEF Places
  <1>14. ASSUME NEW t \in Tasks, NEW code \in Codes, Reply(t, code) PROVE QueuesKept
    <2>1. cur[t] # NoBuf
      BY <1>14 DEF Reply, MayCall, Places, ReceiverOK, Actors
    <2>2. cur[t] \in Buffers
      BY <2>1 DEF Places, TypeOK
    <2>3. /\ queue' = queue /\ registered' = registered /\ res[t] = "FREE"
          /\ \E m : msg' = [msg EXCEPT ![cur[t]] = m]
      BY <1>14 DEF Reply
    <2> QED BY <2>1, <2>2, <2>3, ElsewhereQueues DEF Places
  <1>15. ASSUME NEW t \in Tasks, Release(t) PROVE QueuesKept
    <2>1. cur[t] # NoBuf
      BY <1>15 DEF Release, Places, ReceiverOK
    <2>2. cur[t] \in Buffers
      BY <2>1 DEF Places, TypeOK
    <2>3. /\ queue' = queue /\ registered' = registered
          /\ \/ msg' = msg
             \/ res[t] = "FREE" /\ msg' = [msg EXCEPT ![cur[t]] = Freed]
      BY <1>15 DEF Release, Free
    <2> QED BY <2>1, <2>2, <2>3, ElsewhereQueues DEF Places
  <1> QED
    BY <1>1, <1>2, <1>3, <1>4, <1>5, <1>6, <1>7, <1>8, <1>9, <1>10, <1>11, <1>12, <1>13,
       <1>14, <1>15, PutCopyQueues
    DEF Next, Call, Proceed, PassOn, Serve, Interrupt

-----------------------------------------------------------------------------
(* The theorems *)

\* Inv in the terms of the lemmas.
LEMMA InvParts == Inv <=> Places /\ OwnedApart /\ QueuesOK
  <1>1. SingleOwner <=> Disjoint(Owned) /\ \A t \in Tasks : Injective(queue[t])
    BY DEF SingleOwner, Disjoint, Injective
  <1>2. OwnedIsAllocated <=> Covers(Owned, Allocated)
    BY DEF OwnedIsAllocated, Covers, Allocated
  <1> QED
    BY <1>1, <1>2 DEF Inv, Places, OwnedApart, QueuesOK

\* All buffers are in the pool at first.
LEMMA InitInv == Init => Inv
  <1> SUFFICES ASSUME Init PROVE Inv
    OBVIOUS
  <1>1. TypeOK
    BY ReservedIsId, RouterAssumption DEF Init, TypeOK
  <1>2. CallOK
    BY RouterAssumption DEF Init, CallOK
  <1>3. ReceiverOK
    BY DEF Init, ReceiverOK
  <1>4. \A o \in Owners : Owned[o] = {}
    <2>1. \A t \in Tasks : Range(queue[t]) = {}
      BY DEF Init, Range
    <2>2. /\ \A t \in Tasks : Owned[QueueOf(t)] = {} /\ Owned[ReceiverOf(t)] = {}
          /\ \A a \in Actors : Owned[CallOf(a)] = {} /\ Owned[CopyOf(a)] = {}
      BY <2>1, OwnedAt DEF Init, Pointer
    <2> QED BY <2>2, OwnerKinds
  <1>5. SingleOwner /\ OwnedIsAllocated
    BY <1>4 DEF Init, SingleOwner, OwnedIsAllocated
  <1>6. QueuedForReceiver
    BY DEF Init, QueuedForReceiver
  <1> QED
    BY <1>1, <1>2, <1>3, <1>5, <1>6 DEF Inv

\* Every step keeps the invariant.
LEMMA NextInv == Inv /\ [Next]_vars => Inv'
  <1> SUFFICES ASSUME Inv, [Next]_vars PROVE Inv'
    OBVIOUS
  <1>1. CASE Next
    <2>1. Places' /\ OwnedApart' /\ QueuesOK'
      BY <1>1, InvParts, PlacesStep, OwnershipStep, QueuesStep DEF Inv, QueuesKept
    <2>2. SingleOwner' <=> Disjoint(Owned') /\ \A t \in Tasks : Injective(queue'[t])
      BY DEF SingleOwner, Disjoint, Injective
    <2>3. OwnedIsAllocated' <=> Covers(Owned', Allocated')
      BY DEF OwnedIsAllocated, Covers, Allocated
    <2> QED
      BY <2>1, <2>2, <2>3 DEF Inv, Places, OwnedApart, QueuesOK
  <1>2. CASE UNCHANGED vars
    <2>1. TypeOK' /\ CallOK' /\ ReceiverOK'
      BY <1>2 DEF Inv, TypeOK, CallOK, ReceiverOK, vars, rxvars, opvars, cbvars
    <2>2. QueuedForReceiver'
      BY <1>2 DEF Inv, QueuedForReceiver, vars
    <2>3. Owned' = Owned
      BY <1>2 DEF Owned, vars, rxvars, opvars
    <2>4. SingleOwner' /\ OwnedIsAllocated'
      BY <1>2, <2>3 DEF Inv, SingleOwner, OwnedIsAllocated, vars
    <2> QED
      BY <2>1, <2>2, <2>4 DEF Inv
  <1> QED
    BY <1>1, <1>2

\* The invariant holds in every behaviour.
THEOREM Invariance == Spec => []Inv
  BY InitInv, NextInv, PTL DEF Spec

\* The variables of the framework always have their types.
THEOREM TypeCorrect == Spec => []TypeOK
  <1>1. Inv => TypeOK
    BY DEF Inv
  <1> QED BY <1>1, Invariance, PTL

\* No buffer is ever owned from two places: the framework never lets two threads,
\* or a thread and an interrupt handler, free or rewrite the same message.
THEOREM OwnershipIsExclusive == Spec => []SingleOwner
  <1>1. Inv => SingleOwner
    BY DEF Inv
  <1> QED BY <1>1, Invariance, PTL

\* No path of the framework leaks a buffer or uses one it has freed.
THEOREM NothingLeaks == Spec => []OwnedIsAllocated
  <1>1. Inv => OwnedIsAllocated
    BY DEF Inv
  <1> QED BY <1>1, Invariance, PTL

\* Whatever is queued for a task is a valid message for that task.
THEOREM QueuesHoldMessages == Spec => []QueuedForReceiver
  <1>1. Inv => QueuedForReceiver
    BY DEF Inv
  <1> QED BY <1>1, Invariance, PTL

\* The queues of pointers implement bounded first-in first-out mailboxes of
\* message values: no message is changed, moved or lost while it waits.
THEOREM RefinesMailboxes == Spec => ImplementsMailboxes
  <1>1. Init => Mail!Init
    <2> SUFFICES ASSUME Init PROVE Boxes = [t \in Tasks |-> << >>]
      BY DEF Mail!Init
    <2>1. \A t \in Tasks : Contents(queue[t]) = << >>
      BY DEF Init, Contents
    <2> QED BY <2>1 DEF Boxes
  <1>2. Inv /\ [Next]_vars => [Mail!Next]_Boxes
    <2> SUFFICES ASSUME Inv, [Next]_vars PROVE Mail!Next \/ Boxes' = Boxes
      OBVIOUS
    <2>1. CASE Next
      BY <2>1, InvParts, QueuesStep DEF Inv, QueuesKept
    <2>2. CASE UNCHANGED vars
      BY <2>2 DEF vars, Boxes, Contents
    <2> QED BY <2>1, <2>2
  <1> QED
    BY <1>1, <1>2, Invariance, PTL DEF Spec, ImplementsMailboxes, Mail!Spec

-----------------------------------------------------------------------------
(* The message a task is handling *)

\* It is allocated, and no call, no copy and no other receive loop has it.
LEMMA HandledApart ==
    ASSUME Inv, NEW t \in Tasks, cur[t] # NoBuf, res[t] = "FREE"
    PROVE  /\ cur[t] \in Buffers /\ msg[cur[t]] # Freed
           /\ \A a \in Actors : buf[a] # cur[t] /\ copy[a] # cur[t]
           /\ \A u \in Tasks \ {t} : res[u] = "FREE" => cur[u] # cur[t]
  <1>1. cur[t] \in Buffers
    BY DEF Inv, TypeOK
  <1>2. Owned[ReceiverOf(t)] = {cur[t]} /\ ReceiverOf(t) \in Owners
    BY OwnedAt, OwnerKinds DEF Pointer
  <1>3. msg[cur[t]] # Freed
    BY <1>1, <1>2 DEF Inv, OwnedIsAllocated
  <1>4. \A o \in Owners : o # ReceiverOf(t) => cur[t] \notin Owned[o]
    BY <1>2 DEF Inv, SingleOwner
  <1>5. ASSUME NEW a \in Actors PROVE buf[a] # cur[t] /\ copy[a] # cur[t]
    <2>1. cur[t] \notin Owned[CallOf(a)] /\ cur[t] \notin Owned[CopyOf(a)]
      BY <1>4, OwnerKinds
    <2> QED BY <1>5, <2>1, OwnedAt DEF Pointer
  <1>6. ASSUME NEW u \in Tasks \ {t}, res[u] = "FREE" PROVE cur[u] # cur[t]
    <2>1. cur[t] \notin Owned[ReceiverOf(u)]
      BY <1>4, OwnerKinds
    <2> QED BY <1>6, <2>1, OwnedAt DEF Pointer
  <1> QED
    BY <1>1, <1>3, <1>5, <1>6

\* What a step writes to is free before, or belongs to the call or the receive
\* loop that makes the step: a message that no call has, and whose receive loop, if
\* one has it, keeps it, is not written to.
LEMMA NotWritten ==
    ASSUME TypeOK, Next, NEW b \in Buffers, msg[b] # Freed,
           \A a \in Actors : buf[a] # b /\ copy[a] # b,
           \A u \in Tasks : res[u] = "FREE" /\ cur[u] = b => res'[u] = "FREE" /\ cur'[u] = b
    PROVE  msg'[b] = msg[b]
  <1> DEFINE Untouched == msg'[b] = msg[b]
  <1>0. /\ TypeOK /\ b \in Buffers /\ msg[b] # Freed
        /\ \A a \in Actors : buf[a] # b /\ copy[a] # b
    OBVIOUS
  <1>1. ASSUME NEW c \in Buffers, NEW m, Take(c, m) PROVE Untouched
    BY <1>0, <1>1 DEF Take, TypeOK
  <1>2. ASSUME NEW x, x # b, NEW m, msg' = [msg EXCEPT ![x] = m] PROVE Untouched
    BY <1>0, <1>2 DEF TypeOK
  <1>3. ASSUME NEW a \in Actors, Free(buf[a]) \/ Free(copy[a]) PROVE Untouched
    BY <1>0, <1>2, <1>3 DEF Free
  <1>4. ASSUME NEW c \in Buffers, NEW m, NEW d, IsrDeliver(c, m, d) PROVE Untouched
    BY <1>1, <1>4 DEF IsrDeliver
  <1>5. ASSUME NEW a \in Actors, NEW d, QueueOrFail(a, d) PROVE Untouched
    <2>1. CASE CanQueue(d, msg[buf[a]].code)
      <3>1. msg' = [msg EXCEPT ![buf[a]].rx = d]
        BY <1>5, <2>1 DEF QueueOrFail
      <3> QED BY <1>0, <1>2, <3>1
    <2>2. CASE ~ CanQueue(d, msg[buf[a]].code)
      BY <1>5, <2>2 DEF QueueOrFail
    <2> QED BY <2>1, <2>2
  <1>6. ASSUME msg' = msg PROVE Untouched
    BY <1>6
  <1>7. ASSUME NEW u \in Tasks, TimerIsr(u) PROVE Untouched
    BY <1>4, <1>6, <1>7 DEF TimerIsr
  <1>8. ASSUME NEW s \in IsrSends, IsrSend(s[1], s[2], s[3]) PROVE Untouched
    BY <1>4, <1>8 DEF IsrSend
  <1>9. ASSUME NEW a \in Senders, Call(a) PROVE Untouched
    BY <1>1, <1>9 DEF Call, Create, CreateBroadcast, CreateWithCallback
  <1>10. ASSUME NEW a \in Actors, MsgSend(a) \/ MsgUnicast(a) PROVE Untouched
    BY <1>5, <1>10 DEF MsgSend, MsgUnicast
  <1>11. ASSUME NEW a \in Actors, Deallocate(a) \/ FlushFree(a) \/ BroadcastDone(a)
         PROVE  Untouched
    BY <1>3, <1>6, <1>11 DEF Deallocate, FlushFree, BroadcastDone
  <1>12. ASSUME NEW a \in Actors, ScanCopy(a) PROVE Untouched
    BY <1>1, <1>12 DEF ScanCopy
  <1>13. ASSUME NEW a \in Actors, PutCopy(a) PROVE Untouched
    <2>1. CASE CanQueue(dest[a], msg[copy[a]].code)
      <3>1. msg' = [msg EXCEPT ![copy[a]].rx = dest[a]]
        BY <1>13, <2>1 DEF PutCopy
      <3> QED BY <1>0, <1>2, <3>1
    <2>2. CASE ~ CanQueue(dest[a], msg[copy[a]].code)
      BY <1>3, <1>13, <2>2 DEF PutCopy
    <2> QED BY <2>1, <2>2
  <1>14. ASSUME NEW a \in Actors, ScanSkip(a) \/ ScanNoBuffer(a) \/ FlushGet(a)
         PROVE  Untouched
    BY <1>6, <1>14 DEF ScanSkip, ScanNoBuffer, FlushGet
  <1>15. ASSUME NEW u \in Tasks, NEW d, Forward(u, d) PROVE Untouched
    BY <1>6, <1>15 DEF Forward
  <1>16. ASSUME NEW u \in Tasks, NEW code, Reply(u, code) PROVE Untouched
    <2>1. res[u] = "FREE" /\ res'[u] = "DO_NOT_FREE"
      BY <1>0, <1>16 DEF Reply, TypeOK
    <2>2. cur[u] # b
      BY <2>1
    <2> QED BY <1>2, <1>16, <2>2 DEF Reply
  <1>17. ASSUME NEW u \in Tasks, Release(u) PROVE Untouched
    <2>1. cur'[u] = NoBuf /\ b # NoBuf
      BY <1>0, <1>17, NoBufIsNoBuffer DEF Release, TypeOK
    <2>2. CASE res[u] = "FREE"
      <3>1. cur[u] # b
        BY <2>1, <2>2
      <3> QED BY <1>2, <1>17, <2>2, <3>1 DEF Release, Free
    <2>3. CASE res[u] # "FREE"
      BY <1>6, <1>17, <2>3 DEF Release
    <2> QED BY <2>2, <2>3
  <1>18. ASSUME NEW u \in Tasks,
                \/ Register(u) \/ StartTimer(u) \/ StopTimer(u)
                \/ Receive(u) \/ Dispatch(u) \/ Return(u) \/ Options(u)
         PROVE  Untouched
    BY <1>6, <1>18 DEF Register, StartTimer, StopTimer, Receive, Dispatch, Return, Options
  <1>19. ASSUME NEW a \in Flushers, NEW u \in Tasks, FlushBegin(a, u) PROVE Untouched
    BY <1>6, <1>19 DEF FlushBegin
  <1> QED
    BY <1>7, <1>8, <1>9, <1>10, <1>11, <1>12, <1>13, <1>14, <1>15, <1>16, <1>17, <1>18, <1>19,
       Zenon DEF Next, Proceed, PassOn, Serve, Interrupt

\* So is the message that a task handles.
LEMMA HandledStep ==
    ASSUME Inv, Next, NEW t \in Tasks, cur[t] # NoBuf, cur'[t] = cur[t],
           res[t] = "FREE", res'[t] = "FREE"
    PROVE  msg'[cur[t]] = msg[cur[t]]
  <1>1. /\ cur[t] \in Buffers /\ msg[cur[t]] # Freed
        /\ \A a \in Actors : buf[a] # cur[t] /\ copy[a] # cur[t]
        /\ \A u \in Tasks \ {t} : res[u] = "FREE" => cur[u] # cur[t]
    BY HandledApart
  <1>2. \A u \in Tasks : res[u] = "FREE" /\ cur[u] = cur[t]
                            => res'[u] = "FREE" /\ cur'[u] = cur[t]
    BY <1>1
  <1> QED
    BY <1>1, <1>2, NotWritten DEF Inv

\* And a message that waits in a queue.
LEMMA QueuedStep ==
    ASSUME Inv, Next, NEW t \in Tasks, NEW b \in Range(queue[t])
    PROVE  b \in Buffers /\ msg[b] # Freed /\ msg'[b] = msg[b]
  <1>1. b \in Owned[QueueOf(t)] /\ QueueOf(t) \in Owners
    BY OwnedAt, OwnerKinds
  <1>2. b \in Buffers
    BY DEF Inv, TypeOK, Range
  <1>3. msg[b] # Freed
    BY <1>1, <1>2 DEF Inv, OwnedIsAllocated
  <1>4. \A o \in Owners : o # QueueOf(t) => b \notin Owned[o]
    BY <1>1 DEF Inv, SingleOwner
  <1>5. ASSUME NEW a \in Actors PROVE buf[a] # b /\ copy[a] # b
    <2>1. b \notin Owned[CallOf(a)] /\ b \notin Owned[CopyOf(a)]
      BY <1>4, OwnerKinds
    <2> QED BY <1>2, <2>1, OwnedAt, NoBufIsNoBuffer DEF Pointer
  <1>6. ASSUME NEW u \in Tasks, res[u] = "FREE" PROVE cur[u] # b
    <2>1. b \notin Owned[ReceiverOf(u)]
      BY <1>4, OwnerKinds
    <2> QED BY <1>2, <1>6, <2>1, OwnedAt, NoBufIsNoBuffer DEF Pointer
  <1> QED
    BY <1>2, <1>3, <1>5, <1>6, NotWritten DEF Inv

\* Nobody frees or rewrites a message under the task that handles it, in any
\* interleaving of threads and interrupts, until its handler passes it on.
THEOREM HandledStaysUndisturbed == Spec => HandledUndisturbed
  <1>1. Inv /\ [Next]_vars =>
          [\A t \in Tasks :
             /\ cur[t] # NoBuf /\ cur'[t] = cur[t]
             /\ res[t] = "FREE" /\ res'[t] = "FREE"
             => msg'[cur[t]] = msg[cur[t]]]_vars
    BY HandledStep
  <1> QED
    BY <1>1, Invariance, PTL DEF Spec, HandledUndisturbed
=============================================================================
