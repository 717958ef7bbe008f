---------------------------- MODULE CheckoutStore ----------------------------
(***************************************************************************)
(* The durable checkout draft of AgentCart ShopBridge: one WooCommerce     *)
(* order per merchant quote, and the writes                                *)
(* AgentCart_ShopBridge_Checkout_Store makes to it.  Each operator is the  *)
(* order after one save().  Who may call which write, under which lock and *)
(* in which order, is in module Checkout.                                  *)
(*                                                                         *)
(* An order keeps the checkout request it is bound to (the request hash of *)
(* the code) and, of the payment verification, only whether it is stored:  *)
(* its transaction reference is the reference of the bound request.        *)
(***************************************************************************)
EXTENDS Naturals

CONSTANTS Requests,  \* checkout requests, told apart by their request hash
          None       \* "no request", "nobody"

ASSUME NoneIsNoRequest == None \notin Requests

\* run_checkout_recovery_job gives up after this many automatic attempts.
MaxAttempts == 3

OrderStatus == {"absent", "checkout-draft", "pending", "processing", "cancelled"}

CheckoutState ==
    {"none", "reserved", "intent_saved", "verifying", "verification_pending",
     "checkout_rejected", "payment_verified", "compensation_required",
     "compensating", "compensated", "completed"}

Order == [status    : OrderStatus,
          state     : CheckoutState,
          bound     : Requests \cup {None},
          saved     : BOOLEAN,          \* encrypted recovery request present
          attempted : BOOLEAN,          \* _agentcart_verifier_attempted_at set
          verified  : BOOLEAN,          \* _agentcart_payment_verification set
          attempts  : 0 .. MaxAttempts, \* _agentcart_recovery_attempts
          intent    : BOOLEAN,          \* pending compensation refund
          refunded  : BOOLEAN]          \* WooCommerce refund recorded

NoOrder == [status |-> "absent", state |-> "none", bound |-> None, saved |-> FALSE,
            attempted |-> FALSE, verified |-> FALSE, attempts |-> 0,
            intent |-> FALSE, refunded |-> FALSE]

(***************************************************************************)
(* Reads                                                                   *)
(***************************************************************************)
Started(o) == o.bound # None

CheckoutComplete(o) == o.state = "completed"

\* Faulty variants of Stopped: each forgets one of the two states.
StoppedOnceCompensated(o) == o.state = "compensated"
StoppedWhileCompensating(o) == o.state = "compensating"

\* begin() refuses a checkout that was stopped for payment compensation.
Stopped(o) == o.state \in {"compensating", "compensated"}

BoundElsewhere(o, r) == o.bound \notin {None, r}

\* Statuses in which confirm() still accepts the draft's reservation.
HoldsStock(o) == o.status \in {"checkout-draft", "pending"}

\* Faulty variant: one attempt too many.
AttemptsLeftOffByOne(o) == o.attempts <= MaxAttempts

AttemptsLeft(o) == o.attempts < MaxAttempts

(***************************************************************************)
(* Writes                                                                  *)
(***************************************************************************)
Draft(o) ==
    IF o.status = "absent"
    THEN [o EXCEPT !.status = "checkout-draft", !.state = "reserved"]
    ELSE o

Begin(o, r) ==
    IF Started(o)
    THEN o
    ELSE [Draft(o) EXCEPT !.bound = r, !.saved = TRUE,
                          !.state = "intent_saved", !.status = "pending"]

\* Faulty variant: the state is saved, the attempt is not.
MarkVerifyingStateOnly(o) == [o EXCEPT !.state = "verifying"]

MarkVerifying(o) == [o EXCEPT !.attempted = TRUE, !.state = "verifying"]

Verified(o) == [o EXCEPT !.verified = TRUE, !.state = "payment_verified"]

\* Faulty variant: takes an attempted payment for a rejected one.
FailureStateIgnoringAttempt(o, settled) ==
    IF settled THEN "compensation_required" ELSE "checkout_rejected"

FailureState(o, settled) ==
    IF settled THEN "compensation_required"
    ELSE IF o.attempted THEN "verification_pending"
    ELSE "checkout_rejected"

Failure(o, settled) ==
    IF Started(o) THEN [o EXCEPT !.state = FailureState(o, settled)] ELSE o

\* The items, totals and payment_complete() of the promotion transaction.
Promote(o) == [o EXCEPT !.status = "processing"]

Complete(o) == [o EXCEPT !.state = "completed", !.saved = FALSE]

\* A first decision to compensate restarts the attempt budget.
Compensate(o) ==
    [o EXCEPT !.state = "compensating",
              !.attempts = IF o.state = "compensating" THEN @ ELSE 0]

Compensated(o) ==
    [o EXCEPT !.state = "compensated", !.status = "cancelled", !.saved = FALSE]

\* release() gives up a reservation that no checkout has started to use.
Release(o) ==
    IF o.state = "reserved" THEN [o EXCEPT !.status = "cancelled"] ELSE o
=============================================================================
