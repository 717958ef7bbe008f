-------------------------- MODULE MCGatewayRefunds --------------------------
(***************************************************************************)
(* An order of three cents: one request at a time with any key and amount, *)
(* at a ShopBridge store that verifies, cancels and ships and at a demo    *)
(* store, and two requests at once, of which one asks for all that         *)
(* remains.                                                                *)
(*                                                                         *)
(* Apart from it, the verifier's ledger for a payment of two cents: two    *)
(* refunds that share it and one that is asked for twice, on both rails;   *)
(* one reference with two amounts; one refund that is reconciled; and a    *)
(* payment that was refunded before there was a ledger.                    *)
(***************************************************************************)
EXTENDS GatewayRefunds, RefundLedger

CONSTANTS t1, t2, k1, k2, r1, r2

AnyAmount == [key : {k1, k2}, amount : 0 .. 2]
HalfAndRest == {[key |-> k1, amount |-> 1], [key |-> k2, amount |-> 0]}

OneHalf == {[key |-> k1, amount |-> 1]}

Scene(plugin, moves, threads, requests) ==
    [plugin |-> plugin, verifier |-> moves, cancels |-> moves, ships |-> moves,
     threads |-> threads, requests |-> requests]

AtTheVerifier == Scene(FALSE, FALSE, {}, {})

AllScenes == {Scene(TRUE, TRUE, {t1}, AnyAmount), Scene(FALSE, FALSE, {t1}, AnyAmount),
              Scene(TRUE, FALSE, {t1, t2}, HalfAndRest), AtTheVerifier}

APayment(rail, legacy, reconciled, requests, times) ==
    [rail |-> rail, legacy |-> legacy, reconciled |-> reconciled, requests |-> requests,
     asks |-> times]

Refund(k, amount) == [key |-> k, amount |-> amount]
Shared == {Refund(r1, 1), Refund(r2, 2)}

NoRefunds == APayment("stripe", 0, FALSE, {}, 0)

AllPayments ==
    {APayment("stripe", 0, FALSE, Shared, 2),
     APayment("tempo", 0, FALSE, Shared, 1),
     APayment("tempo", 0, FALSE, {Refund(r1, 1)}, 2),
     APayment("stripe", 0, FALSE, {Refund(r1, 1), Refund(r1, 2)}, 2),
     APayment("stripe", 0, TRUE, {Refund(r1, 1)}, 1),
     APayment("tempo", 0, TRUE, {Refund(r1, 1)}, 1),
     APayment("stripe", 1, FALSE, {Refund(r1, 2)}, 1),
     NoRefunds}

MCInit ==
    /\ Init
    /\ LedgerInit
    /\ scene = AtTheVerifier <=> payment # NoRefunds

MCNext ==
    \/ scene # AtTheVerifier /\ Next /\ UNCHANGED refunding
    \/ scene = AtTheVerifier /\ LedgerNext /\ UNCHANGED vars

MCSpec == MCInit /\ [][MCNext]_<<vars, refunding>> /\ RetryFairness /\ LedgerFairness

(***************************************************************************)
(* Properties                                                              *)
(***************************************************************************)
\* A refund whose answer was lost is recorded, and none is left undecided.
RefundsAreFinished == RefundIsRecorded /\ RefundsAreDecided
=============================================================================
