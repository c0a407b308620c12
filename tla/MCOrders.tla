------------------------------ MODULE MCOrders ------------------------------
(***************************************************************************)
(* Three small instances of Orders for TLC, side by side: an order made by *)
(* hand that is fulfilled, tracked and refunded as a whole; one that is    *)
(* refunded by any amounts; and a channel's order that is synced, held,    *)
(* cancelled and refunded in two parts, with points redeemed.              *)
(***************************************************************************)
EXTENDS Orders, TLC

VARIABLE part

OpsOf == [track  |-> {"hold", "release", "fulfil", "ship", "deliver", "refund"},
          refund |-> {"hold", "release", "fulfil", "refund"},
          sync   |-> {"hold", "release", "cancel", "sync", "refund"}]

MCInit ==
    /\ part \in DOMAIN OpsOf
    /\ Init
    /\ channel <=> part = "sync"

\* Bound: refunds race each other past their check only where they are the question.
RefundsRaceAlone == part # "refund" => crowd = 1

MCNext ==
    /\ Next
    /\ UNCHANGED part
    /\ RefundsRaceAlone'
    /\ \A t \in Call : job'[t].op \in OpsOf[part] \cup {"none"}
    /\ part # "sync" => UNCHANGED purchase
    /\ \A t \in Call : job'[t].amount \in CASE part = "track"  -> {0, TotalMinor}
                                            [] part = "refund" -> Nat
                                            [] part = "sync"   -> {0, 1}

MCSpec == MCInit /\ [][MCNext]_<<vars, part>>

Symmetry == Permutations(Call) \cup Permutations(RefundKey)

=============================================================================
