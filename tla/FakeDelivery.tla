---------------------------- MODULE FakeDelivery ----------------------------
(***************************************************************************)
(* What the request protocol of fake-flow promises of every fake packet,   *)
(* without saying how: a fake that is asked for is built and put on its    *)
(* way at most once, leaves the WAN at most once, and is never anything    *)
(* else than a fake -- the observer does not take it for traffic.          *)
(***************************************************************************)
CONSTANT Ids    \* the request ids

VARIABLE delivery    \* per id: how far the fake came

Init == delivery = [id \in Ids |-> "none"]

Move(id, from, to) ==
    /\ delivery[id] \in from
    /\ delivery' = [delivery EXCEPT ![id] = to]

Ask(id)    == Move(id, {"none"}, "asked")
Submit(id) == Move(id, {"asked"}, "wire")
Send(id)   == Move(id, {"wire"}, "sent")
Drop(id)   == Move(id, {"asked", "wire"}, "gone")

Next == \E id \in Ids : Ask(id) \/ Submit(id) \/ Send(id) \/ Drop(id)

Spec == Init /\ [][Next]_delivery
=============================================================================
