------------------------------ MODULE DevNonce ------------------------------
(***************************************************************************)
(* Joining the LoRaWAN network (control_task.c): the device counts its join *)
(* requests in dev_nonce, which it keeps in RAM while it runs and in the    *)
(* NVS for the next boot.  A request goes out first, and the next nonce is  *)
(* written when its result is known; the device may lose power anywhere in  *)
(* between.  When the radio's stack does not start, the device does not join *)
(* before its next boot.                                                    *)
(*                                                                          *)
(* The network is external: it answers a request whose nonce is above all   *)
(* the nonces it has accepted, and requests and answers may be lost.        *)
(***************************************************************************)
EXTENDS Naturals

CONSTANTS
    Range16,        \* the nonces are 0 .. Range16 - 1 (uint16_t: 2^16)
    MaxResets,      \* bound: how often the device loses power
    MaxLost,        \* bound: how many requests or answers are lost
    MaxSets,        \* bound: how often the shell sets the nonce
    None            \* no value in the NVS

Nonce == 0 .. Range16 - 1

ASSUME NonceAssumption ==
    /\ Range16 \in Nat \ {0} /\ MaxResets \in Nat
    /\ MaxLost \in Nat /\ MaxSets \in Nat
    /\ None \notin Nonce

VARIABLES
    pc,             \* where the control task is; "down" when its radio has not started
    dev_nonce,      \* the nonce in RAM
    nvs,            \* "dev_nonce" in the NVS: the number get_dev_nonce makes of its text
    ret,            \* the result of lorawan_join
    accepted,       \* the network: one more than the last nonce it accepted
    sent,           \* history: the nonces of the requests so far
    wrapped,        \* history: dev_nonce has overflowed
    failed,         \* history: a read or a write of the NVS has failed
    resets, lost, sets  \* counters of the bounds

vars ==
    <<pc, dev_nonce, nvs, ret, accepted, sent, wrapped, failed, resets, lost, sets>>

Init ==
    /\ pc = "boot"
    /\ dev_nonce = 0
    /\ nvs = None
    /\ ret = "none"
    /\ accepted = 0
    /\ sent = {}
    /\ wrapped = FALSE /\ failed = FALSE
    /\ resets = 0 /\ lost = 0 /\ sets = 0

-----------------------------------------------------------------------------
\* uint16_t addition of one
Succ16(n) == IF n + 1 = Range16 THEN 0 ELSE n + 1

\* get_dev_nonce, with syscfg_get: without a value in the NVS it starts at 0 ...
Stored == IF nvs = None THEN 0 ELSE nvs

\* ... and so it does when syscfg_init has failed, which main ignores, or nvs_read.
\* lorawan_init reads the nonce and posts JOIN only when lorawan_start has
\* succeeded; its own result is ignored, and it is not called again.
Boot ==
    /\ pc = "boot"
    /\ \/ pc' = "join" /\ dev_nonce' = Stored /\ UNCHANGED failed
       \/ pc' = "join" /\ dev_nonce' = 0 /\ failed' = TRUE
       \/ pc' = "down" /\ UNCHANGED <<dev_nonce, failed>>
    /\ UNCHANGED <<nvs, ret, accepted, sent, wrapped, resets, lost, sets>>

\* lorawan_join: the request goes out with the nonce of join_cfg ...
Request ==
    /\ pc = "join"
    /\ sent' = sent \cup {dev_nonce}
    /\ pc' = "wait"
    /\ UNCHANGED <<dev_nonce, nvs, ret, accepted, wrapped, failed, resets, lost, sets>>

\* ... the network answers it, and the answer arrives or is lost ...
Answer ==
    /\ pc = "wait" /\ dev_nonce >= accepted
    /\ accepted' = dev_nonce + 1
    /\ \/ ret' = "success" /\ UNCHANGED lost
       \/ ret' = "error" /\ lost < MaxLost /\ lost' = lost + 1
    /\ pc' = "result"
    /\ UNCHANGED <<dev_nonce, nvs, sent, wrapped, failed, resets, sets>>

\* ... or it does not, because it has seen the nonce, or because the request is
\* lost, and lorawan_join times out
TimeOut ==
    /\ pc = "wait"
    /\ \/ dev_nonce < accepted /\ UNCHANGED lost
       \/ lost < MaxLost /\ lost' = lost + 1
    /\ ret' = "error"
    /\ pc' = "result"
    /\ UNCHANGED <<dev_nonce, nvs, accepted, sent, wrapped, failed, resets, sets>>

\* Mutant: the next nonce is kept in RAM only.
IncDevNonceInRam ==
    /\ pc = "result"
    /\ dev_nonce' = Succ16(dev_nonce)
    /\ wrapped' = (wrapped \/ dev_nonce + 1 = Range16)
    /\ pc' = IF ret = "success" THEN "joined" ELSE "join"
    /\ UNCHANGED <<nvs, ret, accepted, sent, failed, resets, lost, sets>>

\* Mutant: a nonce is used up only by a join that succeeds.
IncDevNonceOnSuccess ==
    /\ pc = "result"
    /\ dev_nonce' = IF ret = "success" THEN Succ16(dev_nonce) ELSE dev_nonce
    /\ wrapped' = (wrapped \/ dev_nonce + 1 = Range16)
    /\ nvs' = dev_nonce'
    /\ pc' = IF ret = "success" THEN "joined" ELSE "join"
    /\ UNCHANGED <<ret, accepted, sent, failed, resets, lost, sets>>

\* Mutant: no overflow.
IncDevNonceWide ==
    /\ pc = "result"
    /\ dev_nonce' = dev_nonce + 1
    /\ wrapped' = (wrapped \/ dev_nonce + 1 = Range16)
    /\ nvs' = dev_nonce'
    /\ pc' = IF ret = "success" THEN "joined" ELSE "join"
    /\ UNCHANGED <<ret, accepted, sent, failed, resets, lost, sets>>

\* syscfg_set of "dev_nonce", which may fail
SysCfgSet(n) ==
    \/ nvs' = n /\ UNCHANGED failed
    \/ nvs' = nvs /\ failed' = TRUE

\* inc_dev_nonce, whatever the result of the join; that of syscfg_set is
\* ignored.  After an error the loop goes round again.
IncDevNonce ==
    /\ pc = "result"
    /\ dev_nonce' = Succ16(dev_nonce)
    /\ wrapped' = (wrapped \/ dev_nonce + 1 = Range16)
    /\ SysCfgSet(dev_nonce')
    /\ pc' = IF ret = "success" THEN "joined" ELSE "join"
    /\ UNCHANGED <<ret, accepted, sent, resets, lost, sets>>

\* power is lost: what was not in the NVS is gone
Reset ==
    /\ resets < MaxResets
    /\ resets' = resets + 1
    /\ pc' = "boot"
    /\ dev_nonce' = 0 /\ ret' = "none"
    /\ UNCHANGED <<nvs, accepted, sent, wrapped, failed, lost, sets>>

\* cmd_syscfg_set: `syscfg set dev_nonce <n>`, whatever the control task is at
ShellSet(n) ==
    /\ sets < MaxSets
    /\ sets' = sets + 1
    /\ nvs' = n
    /\ UNCHANGED <<pc, dev_nonce, ret, accepted, sent, wrapped, failed, resets, lost>>

Joining == Boot \/ Request \/ Answer \/ TimeOut \/ IncDevNonce

\* The device has nothing more to do for the network when it has joined, or when
\* its radio has not started.
Settled == pc \in {"joined", "down"} /\ UNCHANGED vars

Next == Joining \/ Reset \/ Settled \/ \E n \in Nonce : ShellSet(n)

Spec == Init /\ [][Next]_vars

\* lorawan_join returns, and the control task runs.  Resets, losses and the
\* shell's commands end with their bounds.
FairSpec == Spec /\ WF_vars(Joining)
-----------------------------------------------------------------------------
(* Properties *)

\* The variables have their types.
TypeOK ==
    /\ pc \in {"boot", "join", "wait", "result", "joined", "down"}
    /\ dev_nonce \in Nonce
    /\ nvs \in Nonce \cup {None}
    /\ ret \in {"none", "success", "error"}
    /\ accepted \in 0 .. Range16
    /\ sent \subseteq Nonce
    /\ wrapped \in BOOLEAN /\ failed \in BOOLEAN
    /\ resets \in 0 .. MaxResets /\ lost \in 0 .. MaxLost /\ sets \in 0 .. MaxSets

\* As long as syscfg_get and syscfg_set have succeeded, the nonce has not
\* overflowed and the shell has left it alone, no request has a lower nonce than
\* an earlier one, over all boots: the NVS lags behind by no more than the one
\* request that was under way at a reset.
NoncesNeverFall ==
    [][Request /\ ~ wrapped /\ ~ failed /\ sets = 0 => \A n \in sent : n <= dev_nonce]_vars

\* The device ends up joined, however often it was reset in the middle of a join
\* or later, however many answers were lost, whether or not its nonce could be
\* written and read, and whatever the shell made of it meanwhile, unless the
\* nonce overflows.  If lorawan_start failed in the last boot it ends up without
\* the network, and nothing but the next boot would try again.
JoinsInTheEnd == <>wrapped \/ <>[](pc = "joined") \/ <>[](pc = "down")

\* control_task.c:221: "Increment DevNonce as per LoRaWAN 1.0.4 Spec." - by which
\* a device never uses a nonce twice.
NonceUsedOnce == [][Request /\ ~ wrapped /\ ~ failed => dev_nonce \notin sent]_vars
=============================================================================
