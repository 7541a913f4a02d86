----------------------------- MODULE MCMsgRouter -----------------------------
(* Instances of MsgRouter for TLC. *)
EXTENDS MsgRouter, TLC

CONSTANTS A     \* a code of the application

\* Every dispatcher of app/src has a handler for SMC_INVALID.  Both tasks handle
\* A, and only task 2 the timer's code.
MCHandles ==
    [t \in Tasks |-> {SMC_INVALID, A} \cup (IF t = 2 THEN {SMC_PERIODIC} ELSE {})]

\* both take every broadcast
MCAccepts == [t \in Tasks |-> Codes]

\* an interrupt handler of the driver behind task 2
MCIsrSends == {<<2, 2, A>>}

\* buffers are interchangeable (not used where a liveness property is checked)
Symmetry == Permutations(Buffers)
=============================================================================
