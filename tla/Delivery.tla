------------------------------ MODULE Delivery ------------------------------
(***************************************************************************)
(* What a pool of goroutines promises its consumer: every item reaches it  *)
(* exactly once, in some order.                                            *)
(***************************************************************************)
EXTENDS Sequences

CONSTANT Items

VARIABLE delivered

Got == {delivered[i] : i \in DOMAIN delivered}

Init == delivered = <<>>

Deliver == \E i \in Items \ Got : delivered' = Append(delivered, i)

Spec == Init /\ [][Deliver]_delivered
=============================================================================
