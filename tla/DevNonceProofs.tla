--------------------------- MODULE DevNonceProofs ---------------------------
(***************************************************************************)
(* Proofs about DevNonce, for every range of the nonce and any number of    *)
(* resets, losses and commands of the shell.  The inductive invariant ties  *)
(* the nonce in RAM to the one in the NVS, and both to the requests of all  *)
(* boots.                                                                   *)
(***************************************************************************)
EXTENDS DevNonce, TLAPS

\* The NVS is up to date wherever the device can lose power, but for the request
\* under way, whose nonce it still holds.
Lag ==
    ~ wrapped /\ ~ failed /\ sets = 0 =>
        /\ \A n \in sent : n <= Stored
        /\ pc \notin {"boot", "down"} => dev_nonce = Stored

Inv == TypeOK /\ Lag

\* The initial state satisfies the invariant.
LEMMA InitInv == Init => Inv
  <1> SUFFICES ASSUME Init PROVE TypeOK /\ Lag
    BY DEF Inv
  <1>1. 0 \in Nonce /\ 0 \in 0 .. Range16 /\ 0 \in 0 .. MaxResets /\ 0 \in 0 .. MaxLost
       /\ 0 \in 0 .. MaxSets
    BY NonceAssumption DEF Nonce
  <1>2. TypeOK
    BY <1>1 DEF Init, TypeOK
  <1>3. Lag
    BY DEF Init, Lag, Stored
  <1> QED
    BY <1>2, <1>3

\* The next nonce is a nonce, and greater unless it overflows.
LEMMA Succ16Grows ==
    ASSUME NEW n \in Nonce
    PROVE  /\ Succ16(n) \in Nonce
           /\ n + 1 # Range16 => Succ16(n) = n + 1
  BY NonceAssumption DEF Succ16, Nonce

\* Every step keeps the types.
LEMMA TypeStep == TypeOK /\ [Next]_vars => TypeOK'
  <1> SUFFICES ASSUME TypeOK, [Next]_vars PROVE TypeOK'
    OBVIOUS
  <1> USE NonceAssumption
  <1>1. CASE Boot
    <2>1. 0 \in Nonce
      BY DEF Nonce
    <2>2. dev_nonce' \in Nonce
      BY <1>1, <2>1 DEF Boot, Stored, TypeOK
    <2>3. failed' \in BOOLEAN
      BY <1>1 DEF Boot, TypeOK
    <2> QED
      BY <1>1, <2>2, <2>3, Zenon DEF Boot, TypeOK
  <1>2. CASE Request
    BY <1>2 DEF Request, TypeOK
  <1>3. CASE Answer
    BY <1>3 DEF Answer, TypeOK, Nonce
  <1>4. CASE TimeOut
    BY <1>4 DEF TimeOut, TypeOK
  <1>5. CASE IncDevNonce
    BY <1>5, Succ16Grows DEF IncDevNonce, SysCfgSet, TypeOK
  <1>6. CASE Reset
    BY <1>6 DEF Reset, TypeOK, Nonce
  <1>7. CASE UNCHANGED vars
    BY <1>7 DEF vars, TypeOK
  <1>8. ASSUME NEW n \in Nonce, ShellSet(n) PROVE TypeOK'
    BY <1>8 DEF ShellSet, TypeOK
  <1> QED
    BY <1>1, <1>2, <1>3, <1>4, <1>5, <1>6, <1>7, <1>8 DEF Next, Joining, Settled

\* Every step keeps what the NVS says about the requests.
LEMMA LagStep == Inv /\ [Next]_vars => Lag'
  <1> SUFFICES ASSUME TypeOK, Lag, [Next]_vars, ~ wrapped', ~ failed', sets' = 0 PROVE Lag'
    BY DEF Inv, Lag
  <1> USE NonceAssumption
  <1>1. CASE Boot
    BY <1>1 DEF Boot, Lag, Stored
  <1>2. CASE Request
    BY <1>2 DEF Request, TypeOK, Nonce, Lag, Stored
  <1>3. CASE Answer
    BY <1>3 DEF Answer, Lag, Stored
  <1>4. CASE TimeOut
    BY <1>4 DEF TimeOut, Lag, Stored
  <1>5. CASE IncDevNonce
    <2>1. /\ ~ wrapped /\ ~ failed /\ dev_nonce \in Nonce /\ Succ16(dev_nonce) = dev_nonce + 1
          /\ dev_nonce' = dev_nonce + 1 /\ nvs' = dev_nonce + 1 /\ sent' = sent
      BY <1>5, Succ16Grows DEF IncDevNonce, SysCfgSet, TypeOK
    <2>2. nvs' # None
      BY <1>5, <2>1, Succ16Grows
    <2>3. \A n \in sent : n \in Nat /\ n <= dev_nonce
      BY <1>5, <2>1 DEF Lag, IncDevNonce, TypeOK, Nonce
    <2> QED
      BY <2>1, <2>2, <2>3 DEF Lag, Stored, Nonce
  <1>6. CASE Reset
    BY <1>6 DEF Reset, Lag, Stored
  <1>7. CASE UNCHANGED vars
    BY <1>7 DEF vars, Lag, Stored
  <1>8. ASSUME NEW n \in Nonce, ShellSet(n) PROVE FALSE
    BY <1>8 DEF ShellSet, TypeOK
  <1> QED
    BY <1>1, <1>2, <1>3, <1>4, <1>5, <1>6, <1>7, <1>8 DEF Next, Joining, Settled

\* The nonce never leaves its sixteen bits, nor the bounds of the model theirs.
THEOREM NonceTypeCorrect == Spec => []TypeOK
  <1>1. Init => TypeOK
    BY InitInv DEF Inv
  <1> QED BY <1>1, TypeStep, PTL DEF Spec

\* Join requests never go back to a lower nonce, through any number of resets at
\* any moment, until the NVS fails, the nonce overflows or the shell sets it.
THEOREM NoncesNeverFallEver == Spec => NoncesNeverFall
  <1>1. Inv /\ [Next]_vars => Inv'
    BY TypeStep, LagStep DEF Inv
  <1>2. Inv /\ [Next]_vars => [Request /\ ~ wrapped /\ ~ failed /\ sets = 0
                               => \A n \in sent : n <= dev_nonce]_vars
    BY DEF Inv, Lag, Request
  <1> QED
    BY InitInv, <1>1, <1>2, PTL DEF Spec, NoncesNeverFall

-----------------------------------------------------------------------------
(* When a nonce is used twice *)

\* Power is not lost between a request and the write of the next nonce.
ResetsOutsideJoin == [][Reset => pc \notin {"wait", "result"}]_vars

\* What the NVS holds then is above all that was sent, but for the request under
\* way.
Ahead ==
    ~ wrapped /\ ~ failed /\ sets = 0 /\ pc \notin {"wait", "result"} =>
        \A n \in sent : n < Stored

\* Every step but a reset in the middle of a join keeps the NVS ahead of all requests.
LEMMA AheadStep ==
    ASSUME Inv, Ahead, [Next]_vars, [Reset => pc \notin {"wait", "result"}]_vars
    PROVE  Ahead'
  <1> SUFFICES ASSUME TypeOK, Lag, ~ wrapped', ~ failed', sets' = 0, pc' \notin {"wait", "result"}
               PROVE  Ahead'
    BY DEF Inv, Ahead
  <1>1. CASE Boot
    BY <1>1 DEF Boot, Ahead, Stored
  <1>2. CASE Request
    BY <1>2 DEF Request
  <1>3. CASE Answer \/ TimeOut
    BY <1>3 DEF Answer, TimeOut
  <1>4. CASE IncDevNonce
    <2>1. /\ ~ wrapped /\ ~ failed /\ dev_nonce \in Nonce /\ Succ16(dev_nonce) = dev_nonce + 1
          /\ nvs' = dev_nonce + 1 /\ sent' = sent /\ nvs' \in Nonce
      BY <1>4, Succ16Grows DEF IncDevNonce, SysCfgSet, TypeOK
    <2>2. \A n \in sent : n \in Nat /\ n <= dev_nonce
      BY <1>4, <2>1 DEF Lag, IncDevNonce, TypeOK, Nonce
    <2>3. Stored' = dev_nonce + 1
      BY <2>1, NonceAssumption DEF Stored
    <2> QED
      BY <2>1, <2>2, <2>3, NonceAssumption DEF Ahead, Nonce
  <1>5. CASE Reset
    <2>1. pc \notin {"wait", "result"}
      <3>1. ASSUME UNCHANGED vars PROVE FALSE
        BY <1>5, <3>1 DEF Reset, vars, TypeOK
      <3> QED
        BY <1>5, <3>1
    <2> QED
      BY <1>5, <2>1 DEF Reset, Ahead, Stored
  <1>6. CASE UNCHANGED vars
    BY <1>6 DEF vars, Ahead, Stored
  <1>7. ASSUME NEW n \in Nonce, ShellSet(n) PROVE FALSE
    BY <1>7 DEF ShellSet, TypeOK
  <1> QED
    BY <1>1, <1>2, <1>3, <1>4, <1>5, <1>6, <1>7 DEF Next, Joining, Settled

\* A nonce is used twice only if power is lost between a request and the write of
\* the next nonce, or the shell sets it: everywhere else the NVS is ahead of what
\* was sent, however often the device restarts and whatever gets lost.
THEOREM NonceUsedOnceOtherwise ==
    Spec /\ [](sets = 0) /\ ResetsOutsideJoin => NonceUsedOnce
  <1>1. Init => Ahead
    BY DEF Init, Ahead
  <1>2. Inv /\ [Next]_vars => Inv'
    BY TypeStep, LagStep DEF Inv
  <1>3. Inv /\ Ahead /\ [Next]_vars /\ [Reset => pc \notin {"wait", "result"}]_vars => Ahead'
    BY AheadStep
  <1>4. Inv /\ Ahead /\ sets = 0 /\ [Next]_vars
          => [Request /\ ~ wrapped /\ ~ failed => dev_nonce \notin sent]_vars
    <2> SUFFICES ASSUME Inv, Ahead, sets = 0, Request, ~ wrapped, ~ failed
                 PROVE  dev_nonce \notin sent
      OBVIOUS
    <2>1. /\ dev_nonce = Stored /\ dev_nonce \in Nat
          /\ \A n \in sent : n < Stored
      BY NonceAssumption DEF Request, Inv, Lag, Ahead, TypeOK, Nonce
    <2> QED
      BY <2>1
  <1> QED
    BY InitInv, <1>1, <1>2, <1>3, <1>4, PTL DEF Spec, NonceUsedOnce, ResetsOutsideJoin
=============================================================================
