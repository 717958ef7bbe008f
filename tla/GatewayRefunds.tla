--------------------------- MODULE GatewayRefunds ---------------------------
(***************************************************************************)
(* Refunds and status refreshes of one order of the buyer gateway          *)
(* (refund_order and refresh_order_status of gateway/agentcart.py), and    *)
(* what the gateway and the direct skill say about it (Aftercare),         *)
(* against a ShopBridge store (create_refund, order_status and             *)
(* create_cancellation of agentcart-shopbridge.php) or a demo store.       *)
(*                                                                         *)
(* Both handlers copy the order under the lock, call the merchant without  *)
(* it, and change the order under the lock again; each locked section ends *)
(* in save_state(), so memory and file are one here and a crash only ends  *)
(* the calls under way.  Amounts are small numbers of cents.               *)
(***************************************************************************)
EXTENDS Aftercare, Sequences, FiniteSets, Functions

CONSTANTS Threads,
          Requests,  \* [key, amount]: amount 0 asks for all that remains
          Total,     \* cents of the order
          Retried,   \* those a buyer repeats until they are answered
          Scenes     \* [plugin, verifier, cancels, ships, threads, requests]:
                     \* a ShopBridge store or a demo (mock) store, whether it
                     \* verifies refunds on the rail, cancels and ships, and
                     \* who asks it for what

ASSUME TotalIsPositive == Total \in Nat \ {0}
ASSUME RequestsAreRecords ==
    /\ \A r \in Requests : r.amount \in 0 .. Total /\ r.key # None
    /\ Retried \subseteq {r \in Requests : r.amount > 0}
    /\ IsFiniteSet(Requests) /\ None \notin Requests

ASSUME ScenesAreScenes ==
    \A s \in Scenes :
        /\ {s.plugin, s.verifier, s.cancels, s.ships} \subseteq BOOLEAN
        /\ s.threads \subseteq Threads /\ s.requests \subseteq Requests

Keys == {r.key : r \in Requests}

VARIABLES scene,      \* chosen once
          refunds,    \* order["refunds"]
          bound,      \* refund_idempotency: the request of each key
          view,       \* the merchant's state of the last refresh, or None
          call,       \* where each thread is
          pending,    \* _agentcart_pending_refunds: the merchant's reservations
          given,      \* the merchant's own books: refunds by key,
          otherwise,  \* the cents it refunded without the gateway,
          status,     \* the status of its order,
          tracking,   \* how far the parcel is,
          happened    \* and what has happened to the order

shop == <<given, otherwise, status, tracking, happened>>
vars == <<scene, refunds, bound, view, call, pending, shop>>

Idle == [at |-> "idle", request |-> None, amount |-> 0, status |-> None]

Init ==
    /\ scene \in Scenes
    /\ refunds = <<>>
    /\ bound = [k \in Keys |-> None]
    /\ view = None
    /\ call = [t \in Threads |-> Idle]
    /\ pending = [k \in Keys |-> 0]
    /\ given = [k \in Keys |-> 0]
    /\ otherwise = 0
    /\ status = "processing"
    /\ tracking = "none"
    /\ happened = {}

Sum(s) == SumFunction([i \in 1 .. Len(s) |-> s[i].amount])

\* Faulty variant: refunds made before are not subtracted.
RemainingOfTotal == Total

\* remaining_refundable_cents: of the refunds this gateway recorded.
Remaining == IF Sum(refunds) >= Total THEN 0 ELSE Total - Sum(refunds)

\* What the merchant has paid back by its own books.
PaidBack == SumFunction(given) + otherwise

\* WooCommerce closes an order that is refunded in full.
PaysBack(amount) ==
    status' = IF PaidBack + amount = Total THEN "refunded" ELSE status

\* What the merchant answers about the order.
Answer ==
    [total |-> Total, refunded |-> PaidBack, status |-> status, tracking |-> tracking,
     verified |-> scene.verifier /\ \E k \in Keys : given[k] > 0]

\* What the gateway knows without an answer.
OwnProgress ==
    [total |-> Total, refunded |-> Sum(refunds), status |-> "processing",
     tracking |-> "none", verified |-> scene.verifier /\ refunds # <<>>]

Becomes(t, at) == call' = [call EXCEPT ![t] = at]

(***************************************************************************)
(* refund_order                                                            *)
(***************************************************************************)
\* Faulty variant: a key that has its refund is not looked up.
StartRefundUnchecked(t, r) ==
    LET amount == IF r.amount = 0 THEN Remaining ELSE r.amount IN
    /\ call[t] = Idle
    /\ Remaining > 0
    /\ amount <= Remaining
    /\ Becomes(t, [Idle EXCEPT !.at = "asking", !.request = r, !.amount = amount])
    /\ UNCHANGED <<scene, refunds, bound, view, pending, shop>>

\* A key with a refund is answered with it, or refused, and changes nothing.
StartRefund(t, r) ==
    LET amount == IF r.amount = 0 THEN Remaining ELSE r.amount IN
    /\ call[t] = Idle
    /\ bound[r.key] = None
    /\ Remaining > 0
    /\ amount <= Remaining
    /\ Becomes(t, [Idle EXCEPT !.at = "asking", !.request = r, !.amount = amount])
    /\ UNCHANGED <<scene, refunds, bound, view, pending, shop>>

\* What other requests have reserved: their rail may have paid already.
ReservedBeside(k) == SumFunction([pending EXCEPT ![k] = 0])

\* A ShopBridge store refunds a key once, for the amount it reserved, and never
\* more than was paid; a demo store records what it is asked for.
Refundable(k, amount) ==
    \/ ~scene.plugin
    \/ /\ given[k] = 0
       /\ pending[k] \in {0, amount}
       /\ PaidBack + ReservedBeside(k) + amount <= Total

\* The reservation is taken and given back within the request.
MerchantRefunds(t) ==
    LET k == call[t].request.key IN
    /\ call[t].at = "asking"
    /\ Refundable(k, call[t].amount)
    /\ IF scene.plugin
       THEN /\ given' = [given EXCEPT ![k] = call[t].amount]
            /\ pending' = [pending EXCEPT ![k] = 0]
            /\ PaysBack(call[t].amount)
       ELSE UNCHANGED <<given, pending, status>>
    /\ Becomes(t, [call[t] EXCEPT !.at = "refunded"])
    /\ UNCHANGED <<scene, refunds, bound, view, otherwise, tracking, happened>>

\* The verifier does not say that the rail paid, or the refund cannot be saved:
\* the reservation stays, unless the rail has refused.
MerchantReserves(t) ==
    LET k == call[t].request.key IN
    /\ call[t].at = "asking"
    /\ scene.plugin
    /\ Refundable(k, call[t].amount)
    /\ \E reserved \in {0, call[t].amount} : pending' = [pending EXCEPT ![k] = reserved]
    /\ Becomes(t, Idle)
    /\ UNCHANGED <<scene, refunds, bound, view, shop>>

\* Faulty variant: a lost answer counts as a refund of nothing.
MerchantReplaysZero(t) ==
    /\ call[t].at = "asking"
    /\ scene.plugin
    /\ given[call[t].request.key] = call[t].amount
    /\ Becomes(t, [call[t] EXCEPT !.at = "refunded", !.amount = 0])
    /\ UNCHANGED <<scene, refunds, bound, view, pending, shop>>

MerchantReplays(t) ==
    /\ call[t].at = "asking"
    /\ scene.plugin
    /\ given[call[t].request.key] = call[t].amount
    /\ Becomes(t, [call[t] EXCEPT !.at = "refunded"])
    /\ UNCHANGED <<scene, refunds, bound, view, pending, shop>>

\* The merchant refuses or fails, its answer is lost or is no evidence of this
\* refund (provider_refund_evidence), or the process dies.
RefundFails(t) ==
    /\ call[t].at \in {"asking", "refunded"}
    /\ Becomes(t, Idle)
    /\ UNCHANGED <<scene, refunds, bound, view, pending, shop>>

\* Faulty variant: the amount is taken from the order as it is now.
RecordRefundOfRest(t) ==
    LET r == call[t].request IN
    /\ call[t].at = "refunded"
    /\ refunds' = Append(refunds, [key |-> r.key,
                    amount |-> IF r.amount = 0 THEN Remaining ELSE r.amount])
    /\ bound' = [bound EXCEPT ![r.key] = r]
    /\ Becomes(t, Idle)
    /\ UNCHANGED <<scene, view, pending, shop>>

\* Faulty variant: the key is not bound to the refund.
RecordRefundForgetful(t) ==
    /\ call[t].at = "refunded"
    /\ refunds' = Append(refunds, [key |-> call[t].request.key, amount |-> call[t].amount])
    /\ Becomes(t, Idle)
    /\ UNCHANGED <<scene, bound, view, pending, shop>>

\* Neither the key nor what remains is looked at again.
RecordRefund(t) ==
    LET r == call[t].request IN
    /\ call[t].at = "refunded"
    /\ refunds' = Append(refunds, [key |-> r.key, amount |-> call[t].amount])
    /\ bound' = [bound EXCEPT ![r.key] = r]
    /\ Becomes(t, Idle)
    /\ UNCHANGED <<scene, view, pending, shop>>

(***************************************************************************)
(* refresh_order_status                                                    *)
(***************************************************************************)
AskStatus(t) ==
    /\ scene.plugin
    /\ call[t] = Idle
    /\ Becomes(t, [Idle EXCEPT !.at = "status", !.status = Answer])
    /\ UNCHANGED <<scene, refunds, bound, view, pending, shop>>

ApplyStatus(t) ==
    /\ call[t].at = "status"
    /\ view' = call[t].status
    /\ Becomes(t, Idle)
    /\ UNCHANGED <<scene, refunds, bound, pending, shop>>

\* Answers under way to the gateway, and so old already, stand for those that
\* the skill asked for or was handed.
SkillAnswers == {call[t].status : t \in Threads} \ {None}

(***************************************************************************)
(* The merchant on its own                                                 *)
(***************************************************************************)
MerchantPaysBack ==
    /\ scene.plugin
    /\ PaidBack < Total
    /\ otherwise' = otherwise + 1
    /\ PaysBack(1)
    /\ UNCHANGED <<scene, refunds, bound, view, call, pending, given, tracking, happened>>

\* create_cancellation, which refunds nothing.
MerchantCancels ==
    /\ scene.cancels
    /\ Eligible(Answer)
    /\ status' = "cancelled"
    /\ happened' = happened \cup {"cancelled"}
    /\ UNCHANGED <<scene, refunds, bound, view, call, pending, given, otherwise, tracking>>

ParcelMoves(to) ==
    /\ scene.ships
    /\ status = "processing"
    /\ <<tracking, to>> \in {<<"none", "shipped">>, <<"shipped", "exception">>,
                            <<"shipped", "delivered">>, <<"exception", "delivered">>}
    /\ tracking' = to
    /\ status' = IF to = "delivered" THEN "completed" ELSE status
    /\ happened' = happened \cup {to}
    /\ UNCHANGED <<scene, refunds, bound, view, call, pending, given, otherwise>>

Next ==
    \/ \E t \in scene.threads :
          \/ \E r \in scene.requests : StartRefund(t, r)
          \/ MerchantRefunds(t) \/ MerchantReserves(t) \/ MerchantReplays(t) \/ RefundFails(t)
          \/ RecordRefund(t) \/ AskStatus(t) \/ ApplyStatus(t)
    \/ MerchantPaysBack \/ MerchantCancels
    \/ \E to \in Trackings : ParcelMoves(to)

Spec == Init /\ [][Next]_vars

\* A refund request that failed is repeated if it is one of Retried, the
\* merchant's replay gets through now and then, and calls end.
RetryFairness ==
    /\ \A t \in Threads :
          WF_vars(RecordRefund(t) \/ RefundFails(t) \/ ApplyStatus(t))
    /\ \A r \in Retried :
          /\ SF_vars(\E t \in scene.threads : StartRefund(t, r))
          /\ SF_vars(\E t \in Threads : call[t].request = r /\ MerchantReplays(t))
          /\ SF_vars(\E t \in Threads : call[t].request = r /\ RecordRefund(t))

RetrySpec == Spec /\ RetryFairness

(***************************************************************************)
(* Properties                                                              *)
(***************************************************************************)
OneAtATime == \E t \in Threads : scene.threads = {t}

\* One request at a time, the gateway never records more than the order's
\* total, also against a demo store that refuses nothing.
RefundsWithinTotal == OneAtATime => Sum(refunds) <= Total

\* What an agent says may be old, but it is never more than what happened: no
\* cancellation, refund, verified refund or full refund is claimed that the
\* merchant did not make, whatever was lost, repeated or overtaken; and nobody
\* who says that all is refunded offers a refund, or that one is still required
\* offers none (buyer_aftercare_messages of both agents).  A request the skill
\* drafts is one it offers, for no more than the answer says remains.
ClaimsAreTrue ==
    LET gateway == [claims  |-> GatewayClaims(OwnProgress, view),
                    actions |-> GatewayActions(OwnProgress, view)]
        skill(answer) == [claims |-> SkillClaims(answer), actions |-> SkillActions(answer)]
        Drafted(answer) ==
            /\ \A asked \in 0 .. Total + 1 :
                  "request_refund" \in SkillActions(answer) =>
                      RefundDraft(answer, asked) \in 1 .. Remains(answer)
            /\ CancellationDraft(answer).eligible <=>
                  "request_cancellation" \in SkillActions(answer)
            /\ CancellationDraft(answer).separateRefund => answer.refunded < Total
        said == {skill(answer) : answer \in SkillAnswers}
                  \cup (IF OneAtATime \/ view # None THEN {gateway} ELSE {})
    IN  scene.plugin =>
          /\ \A answer \in SkillAnswers : Drafted(answer)
          /\ \A s \in said :
            /\ s.claims.orderCancelled => "cancelled" \in happened
            /\ s.claims.refundRecorded => PaidBack > 0
            /\ s.claims.refundExecuted => Answer.verified
            /\ s.claims.allRefunded => PaidBack = Total
            /\ s.claims.carrierException => "exception" \in happened
            /\ s.claims.allRefunded => "request_refund" \notin s.actions
            /\ s.claims.refundStillRequired => "complete_verified_refund" \in s.actions

\* Whatever runs concurrently, a recorded refund is one the merchant gave for
\* that key, of exactly that amount; one request at a time, it is recorded once,
\* whatever was lost and retried.
RefundsAreTheMerchants ==
    /\ scene.plugin =>
          \A i \in 1 .. Len(refunds) : given[refunds[i].key] = refunds[i].amount
    /\ OneAtATime =>
          \A i, j \in 1 .. Len(refunds) : refunds[i].key = refunds[j].key => i = j

\* The gateway never refunds more than the order's total, and what it has on
\* record is what the merchant gave (refund_order).
RefundsAreRight == RefundsWithinTotal /\ RefundsAreTheMerchants

\* A refund the merchant gave is recorded once its request is repeated.
RefundIsRecorded ==
    \A r \in Retried : given[r.key] = r.amount ~> bound[r.key] # None
=============================================================================
