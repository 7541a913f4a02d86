------------------------------ MODULE Mailboxes ------------------------------
(***************************************************************************)
(* What the message framework promises its users, without buffers or        *)
(* pointers: every receiver has a bounded first-in first-out mailbox of     *)
(* message VALUES.  A letter is put at the end of the mailbox it is         *)
(* addressed to, and stays there unchanged until it is the first and is     *)
(* taken out.                                                               *)
(***************************************************************************)
EXTENDS Naturals, Sequences

CONSTANTS Receivers, Letters, Depth

VARIABLE box    \* box[r]: the letters waiting for r

Init == box = [r \in Receivers |-> <<>>]

Deliver(r, m) ==
    /\ m.rx = r
    /\ Len(box[r]) < Depth
    /\ box' = [box EXCEPT ![r] = Append(@, m)]

TakeOut(r) ==
    /\ box[r] # <<>>
    /\ box' = [box EXCEPT ![r] = Tail(@)]

Next ==
    \E r \in Receivers : TakeOut(r) \/ \E m \in Letters : Deliver(r, m)

Spec == Init /\ [][Next]_box
=============================================================================
