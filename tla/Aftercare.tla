------------------------------ MODULE Aftercare ------------------------------
(***************************************************************************)
(* What is said about an order after its purchase: by the merchant         *)
(* (aftercare_state of agentcart-shopbridge.php), by the gateway, which    *)
(* mixes its own refunds with the merchant's last answer (aftercare_state  *)
(* and buyer_aftercare_messages of gateway/agentcart.py), and by the       *)
(* direct skill, which has nothing but one answer of the merchant          *)
(* (compact_aftercare and buyer_aftercare_messages of                      *)
(* shopbridge-command.py).                                                 *)
(*                                                                         *)
(* Every order is paid.  A progress is [total, refunded, status, tracking, *)
(* verified]: cents, the WooCommerce status, how far the parcel is, and    *)
(* whether some refund in the list was verified on its rail.               *)
(***************************************************************************)
EXTENDS Naturals

CONSTANT None  \* no answer of the merchant yet

Statuses == {"processing", "completed", "cancelled", "refunded"}
Trackings == {"none", "shipped", "exception", "delivered"}

Remains(p) == IF p.refunded >= p.total THEN 0 ELSE p.total - p.refunded

Full(p) == p.refunded > 0 /\ Remains(p) = 0
Partial(p) == p.refunded > 0 /\ Remains(p) > 0

\* A cancelled order was paid: the rest of it must be refunded.
Required(p) == p.status = "cancelled" /\ Remains(p) > 0

\* Neither cancelled nor closed, and no tracking attached.
Eligible(p) == p.status = "processing" /\ p.tracking = "none"

(***************************************************************************)
(* States, told by the merchant and by the gateway alike                   *)
(***************************************************************************)
RefundState(p) ==
    CASE Full(p)                      -> "refunded"
      [] Required(p)                  -> "refund_required_after_cancellation"
      [] Partial(p) /\ ~Required(p)   -> "partially_refunded"
      [] p.refunded = 0 /\ ~Required(p) -> "refund_available"

CancelledState(p) ==
    IF Required(p) THEN "cancelled_refund_required"
    ELSE IF Full(p) THEN "cancelled_refunded" ELSE "cancelled_no_refund_due"

LifecycleState(p, cancellation) ==
    CASE p.status = "cancelled" -> CancelledState(p)
      [] p.status # "cancelled" /\ Full(p) -> "refunded"
      [] p.status # "cancelled" /\ Partial(p) -> "partially_refunded"
      [] p.status # "cancelled" /\ p.refunded = 0 ->
            IF cancellation = "cancellable_before_fulfillment" THEN "cancellable"
            ELSE IF cancellation = "fulfillment_locked" THEN cancellation
            ELSE "active"

NextActions(p, refund, cancellation, attention) ==
    {IF p.tracking = "none" THEN "check_status_later" ELSE "open_tracking", "export_audit"}
    \cup (IF attention THEN {"review_delivery_exception", "contact_merchant"} ELSE {})
    \cup (IF cancellation = "cancellable_before_fulfillment"
          THEN {"request_cancellation"} ELSE {})
    \cup (IF refund \in {"refund_available", "partially_refunded",
                         "refund_required_after_cancellation"}
          THEN {"request_refund"} ELSE {})
    \cup (IF Required(p) THEN {"complete_verified_refund"} ELSE {})

(***************************************************************************)
(* The merchant                                                            *)
(***************************************************************************)
MerchantCancellation(p) ==
    CASE Eligible(p) -> "cancellable_before_fulfillment"
      [] p.status = "cancelled" -> CancelledState(p)
      [] p.status # "cancelled" /\ p.tracking # "none" -> "fulfillment_locked"
      [] p.status \in {"completed", "refunded"} /\ p.tracking = "none" -> "terminal"

MerchantState(p) ==
    [refund       |-> RefundState(p),
     cancellation |-> MerchantCancellation(p),
     lifecycle    |-> LifecycleState(p, MerchantCancellation(p)),
     remaining    |-> Remains(p),
     required     |-> Required(p),
     attention    |-> p.tracking = "exception"]

(***************************************************************************)
(* The gateway                                                             *)
(***************************************************************************)
\* Faulty variant: its own refunds are added to what the merchant reports.
GatewayProgressAdded(own, seen) ==
    IF seen = None THEN own
    ELSE [seen EXCEPT !.refunded = IF @ + own.refunded > seen.total THEN seen.total
                                   ELSE @ + own.refunded,
                      !.verified = own.verified]

\* Once the merchant's state was seen, its refund progress replaces what the
\* gateway recorded; what was verified is read off the gateway's refunds.
GatewayProgress(own, seen) ==
    IF seen = None THEN own ELSE [seen EXCEPT !.verified = own.verified]

\* Without the merchant's word an order that was not cancelled cannot be.
GatewayCancellation(own, seen) ==
    IF seen = None THEN "not_available" ELSE MerchantCancellation(seen)

GatewayState(own, seen) ==
    LET p == GatewayProgress(own, seen)
        cancellation == GatewayCancellation(own, seen)
    IN  [refund       |-> RefundState(p),
         cancellation |-> cancellation,
         lifecycle    |-> LifecycleState(p, cancellation),
         remaining    |-> Remains(p),
         required     |-> Required(p),
         attention    |-> p.tracking = "exception"]

\* The merchant's own next actions are added, and follow from the same state.
GatewayActions(own, seen) ==
    LET s == GatewayState(own, seen)
    IN  NextActions(GatewayProgress(own, seen), s.refund, s.cancellation, s.attention)

(***************************************************************************)
(* What an agent may claim                                                 *)
(***************************************************************************)
\* The states that say that an order is cancelled.
Cancelled == {"cancelled_refund_required", "cancelled_refunded", "cancelled_no_refund_due"}

\* The merchant's states are taken over as they are; money_returned is never
\* claimed.  allRefunded is the message that nothing remains to be refunded.
Claims(p, s) ==
    [orderCancelled      |-> s.lifecycle \in Cancelled,
     refundRecorded      |-> p.refunded > 0,
     refundExecuted      |-> p.verified,
     refundStillRequired |-> s.required,
     carrierException    |-> s.attention,
     allRefunded         |-> s.refund = "refunded" \/ s.lifecycle = "cancelled_refunded"]

\* Where the progress says that nothing was refunded, the gateway claims what it
\* has recorded itself.
GatewayClaims(own, seen) ==
    LET p == GatewayProgress(own, seen)
    IN  Claims([p EXCEPT !.refunded = IF @ > 0 THEN @ ELSE own.refunded],
               GatewayState(own, seen))

\* The skill passes the merchant's states on, the delivery exception included.
SkillState(answer) == MerchantState(answer)

SkillClaims(answer) == Claims(answer, SkillState(answer))

\* The skill reads eligibility and what remains off the merchant's policies.
SkillEligible(answer) == Eligible(answer)

SkillActions(answer) ==
    {IF answer.tracking = "none" THEN "check_status_later" ELSE "open_tracking"}
    \cup (IF answer.tracking = "exception" THEN {"review_delivery_exception"} ELSE {})
    \cup (IF SkillEligible(answer) THEN {"request_cancellation"} ELSE {})
    \cup (IF Remains(answer) > 0 THEN {"request_refund"} ELSE {})
    \cup (IF Required(answer) THEN {"complete_verified_refund"} ELSE {})

\* Drafts of requests to the merchant.  An amount of zero is none; where nothing
\* remains, what was asked for stays.
RefundDraft(answer, asked) ==
    LET remains == Remains(answer)
    IN  IF remains > 0 /\ (asked = 0 \/ asked > remains) THEN remains ELSE asked

CancellationDraft(answer) ==
    [eligible |-> SkillEligible(answer),
     separateRefund |-> Remains(answer) > 0]
=============================================================================
