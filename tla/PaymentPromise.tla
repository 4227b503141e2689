--------------------------- MODULE PaymentPromise ---------------------------
(***************************************************************************)
(* What the payment pipeline promises about one invoice, whatever process  *)
(* handles it and however often: the invoice is open, then its key is      *)
(* handed over, then it is settled; or it is cancelled while still open.   *)
(* Nothing ever leaves "settled" or "canceled", and no invoice is settled  *)
(* whose key was not handed over first.                                    *)
(***************************************************************************)
CONSTANT Payments
VARIABLE stage

Stages == {"open", "delivered", "settled", "canceled"}

Move(p, from, to) ==
    /\ stage[p] = from
    /\ stage' = [stage EXCEPT ![p] = to]

Deliver(p) == Move(p, "open", "delivered")
Settle(p)  == Move(p, "delivered", "settled")
Cancel(p)  == Move(p, "open", "canceled")

Init == stage = [p \in Payments |-> "open"]
Next == \E p \in Payments : Deliver(p) \/ Settle(p) \/ Cancel(p)
Spec == Init /\ [][Next]_stage
=============================================================================
