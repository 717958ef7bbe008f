------------------------------- MODULE Checkout -------------------------------
(***************************************************************************)
(* Paid checkout of the AgentCart ShopBridge plugin: POST /orders          *)
(* (create_order), the manager's and the scheduler's recovery of an        *)
(* interrupted checkout (run_checkout_recovery, recover_checkout_job), and *)
(* the refund that compensates a payment that cannot be fulfilled.         *)
(*                                                                         *)
(* A process is a PHP request or cron run with a database connection of    *)
(* its own.  It may die at any step; MySQL then frees its connection locks *)
(* and rolls its transaction back.  Up to MaxLosses times a process loses  *)
(* only its connection, and carries on over a new one.  The payment        *)
(* verifier and the refund rail are external: they answer, refuse, answer  *)
(* too late or not at all.                                                 *)
(***************************************************************************)
EXTENDS CheckoutStore, FiniteSets

CONSTANTS Procs,              \* PHP processes
          Quotes,             \* merchant quotes, one draft order each
          Keys,               \* checkout idempotency keys
          Refs,               \* payment transaction references
          KeyOf, QuoteOf, RefOf,  \* what each request carries
          Stock,              \* units of the one product every quote asks for
          HardHolds,          \* hard stock-reservation mode
          Recovered,          \* bound: quotes a manager or the scheduler recovers
          MaxLosses,          \* bound: connections lost under a live process
          SlowSweep           \* may the expiry sweep pause halfway?

ASSUME CheckoutConstants ==
    /\ None \notin Procs \cup Quotes
    /\ KeyOf \in [Requests -> Keys]
    /\ QuoteOf \in [Requests -> Quotes]
    /\ RefOf \in [Requests -> Refs]
    /\ Stock \in Nat
    /\ Recovered \subseteq Quotes
    /\ MaxLosses \in Nat
    /\ HardHolds \in BOOLEAN /\ SlowSweep \in BOOLEAN

VARIABLES
    order,       \* [Quotes -> Order], the shop database
    quote,       \* the quote transient: "unissued", "live", "expired" or "gone"
    held,        \* quotes with a valid native stock reservation
    sweeping,    \* quotes a paused expiry sweep has read as merely reserved
    lock,        \* owner of each MySQL connection lock
    claim,       \* verifier: the quote each transaction reference has paid for
    late,        \* verifier: requests it will process after the caller gave up
    railRefund,  \* refund rail: the compensation refund of each quote
    pc, req, route,  \* each process: its step, request and errand
    tried, paid, \* its in-memory draft: attempted? verification known?
    tx,          \* its transaction: "closed", "open", "promoted" or "marked"
    losses       \* connections lost so far

shop == <<order, quote, held, sweeping>>
rail == <<claim, late, railRefund>>
task == <<req, route>>
view == <<tried, paid>>
vars == <<shop, rail, lock, pc, task, view, tx, losses>>

LockNames == ({"checkout"} \X Keys) \cup ({"quote", "refund", "job"} \X Quotes)

OrderSteps == {"lookup", "lock", "load", "begin", "stock", "hold", "attempt",
               "wait", "answer", "checkpoint", "rehold", "owned", "promote", "mark",
               "recheck", "commit", "cleanup", "fail", "unlockq", "unlock"}
RecoverySteps == {"rlock", "rload", "rwait", "ranswer", "rcheckpoint", "rstop",
                  "refund", "intent", "refundwait", "record", "rdone", "rquit",
                  "rgo"}
Steps == {"idle"} \cup OrderSteps \cup RecoverySteps

TypeOK ==
    /\ order \in [Quotes -> Order]
    /\ quote \in [Quotes -> {"unissued", "live", "expired", "gone"}]
    /\ held \subseteq Quotes
    /\ sweeping \subseteq Quotes
    /\ lock \in [LockNames -> Procs \cup {None}]
    /\ claim \in [Refs -> Quotes \cup {None}]
    /\ late \subseteq Requests
    /\ railRefund \in [Quotes -> {"none", "pending", "succeeded", "failed"}]
    /\ pc \in [Procs -> Steps]
    /\ req \in [Procs -> Requests \cup {None}]
    /\ \A p \in Procs : pc[p] # "idle" => req[p] \in Requests
    /\ route \in [Procs -> {"order", "retry", "compensate"}]
    /\ tried \in [Procs -> BOOLEAN]
    /\ paid \in [Procs -> BOOLEAN]
    /\ tx \in [Procs -> {"closed", "open", "promoted", "marked"}]
    /\ losses \in 0 .. MaxLosses

Init ==
    /\ order = [q \in Quotes |-> NoOrder]
    /\ quote = [q \in Quotes |-> "unissued"]
    /\ held = {}
    /\ sweeping = {}
    /\ lock = [n \in LockNames |-> None]
    /\ claim = [x \in Refs |-> None]
    /\ late = {}
    /\ railRefund = [q \in Quotes |-> "none"]
    /\ pc = [p \in Procs |-> "idle"]
    /\ req = [p \in Procs |-> None]
    /\ route = [p \in Procs |-> "order"]
    /\ tried = [p \in Procs |-> FALSE]
    /\ paid = [p \in Procs |-> FALSE]
    /\ tx = [p \in Procs |-> "closed"]
    /\ losses = 0

(***************************************************************************)
(* Helpers                                                                 *)
(***************************************************************************)
Go(p, from, to) == pc[p] = from /\ pc' = [pc EXCEPT ![p] = to]

QuoteLock(q) == <<"quote", q>>
CheckoutLock(r) == <<"checkout", KeyOf[r]>>
RefundLock(q) == <<"refund", q>>
JobLock(q) == <<"job", q>>

\* Faulty variant: GET_LOCK's answer is not looked at.
FreeUnchecked(n) == n \in LockNames

Free(n) == lock[n] = None
Owned(n, p) == lock[n] = p
Acquired(n, p) == [lock EXCEPT ![n] = p]
Released(n, p) == [lock EXCEPT ![n] = IF @ = p THEN None ELSE @]
ReleasedAll(p) == [n \in LockNames |-> IF lock[n] = p THEN None ELSE lock[n]]

Save(q, o) == order' = [order EXCEPT ![q] = o]

Sold == {q \in Quotes : order[q].status = "processing"}

\* WooCommerce reserves a unit only if stock and the other holds leave one.
UnitAvailable(q) == Cardinality(Sold) + Cardinality(held \ {q}) < Stock

\* Faulty variant: trusts that the reservation of the quote is still there.
ConfirmsOnTrust(q) == HardHolds => HoldsStock(order[q])

\* confirm_stock_reservation_for_order
Confirms(q) == HardHolds => HoldsStock(order[q]) /\ UnitAvailable(q)
HeldFor(q) == IF HardHolds THEN held \cup {q} ELSE held

\* The replay lookup: an order already bound to the request's key must be
\* bound to this very request, and must still need its checkout.
MayCheckout(r) ==
    \A q \in Quotes :
        Started(order[q]) /\ KeyOf[order[q].bound] = KeyOf[r]
            => order[q].bound = r /\ ~CheckoutComplete(order[q])

\* Local replay protection: some order already stores this reference.
ReferenceStored(x) ==
    \E q \in Quotes : order[q].verified /\ RefOf[order[q].bound] = x

(***************************************************************************)
(* The quote's life outside checkout                                       *)
(***************************************************************************)

\* POST /quotes: reserve a unit (hard mode), remember the quote in the draft.
IssueQuote(q) ==
    /\ quote[q] = "unissued"
    /\ HardHolds => UnitAvailable(q)
    /\ quote' = [quote EXCEPT ![q] = "live"]
    /\ held' = HeldFor(q)
    /\ Save(q, Draft(order[q]))
    /\ UNCHANGED <<sweeping, rail, lock, pc, task, view, tx, losses>>

\* expires_at passes; later the transient itself is evicted.
QuoteAges(q) ==
    /\ \/ quote[q] = "live" /\ quote' = [quote EXCEPT ![q] = "expired"]
       \/ quote[q] = "expired" /\ quote' = [quote EXCEPT ![q] = "gone"]
    /\ UNCHANGED <<order, held, sweeping, rail, lock, pc, task, view, tx, losses>>

\* A native reservation runs out.  Never between the second confirm(), which
\* extends it by at least 300 seconds, and the promotion that follows.
HoldLapses(q) ==
    /\ q \in held
    /\ quote[q] # "live"
    /\ \A p \in Procs :
           pc[p] \in {"owned", "promote", "mark", "recheck", "commit"}
               => QuoteOf[req[p]] # q
    /\ held' = held \ {q}
    /\ UNCHANGED <<order, quote, sweeping, rail, lock, pc, task, view, tx, losses>>

ReleaseReservation(q) ==
    /\ Save(q, Release(order[q]))
    /\ held' = IF order[q].state = "reserved" THEN held \ {q} ELSE held

\* stock_holds(): any request that counts holds first releases the expired ones.
Sweep(q) ==
    /\ HardHolds /\ quote[q] \in {"expired", "gone"}
    /\ order[q].status # "cancelled"
    /\ order[q].state = "reserved"
    /\ ReleaseReservation(q)
    /\ UNCHANGED <<quote, sweeping, rail, lock, pc, task, view, tx, losses>>

\* release() takes no lock: it may be overtaken between its read of the state
\* and the two writes that follow.
SweepRead(q) ==
    /\ SlowSweep /\ HardHolds
    /\ quote[q] \in {"expired", "gone"}
    /\ order[q].state = "reserved" /\ order[q].status # "cancelled"
    /\ sweeping' = sweeping \cup {q}
    /\ UNCHANGED <<order, quote, held, rail, lock, pc, task, view, tx, losses>>

SweepWrite(q) ==
    /\ q \in sweeping
    /\ sweeping' = sweeping \ {q}
    /\ held' = held \ {q}
    /\ Save(q, [order[q] EXCEPT !.status = "cancelled"])
    /\ UNCHANGED <<quote, rail, lock, pc, task, view, tx, losses>>

(***************************************************************************)
(* create_order                                                            *)
(***************************************************************************)
Begins(p, r, errand, step) ==
    /\ pc[p] = "idle"
    /\ pc' = [pc EXCEPT ![p] = step]
    /\ req' = [req EXCEPT ![p] = r]
    /\ route' = [route EXCEPT ![p] = errand]

Finish(p) ==
    /\ pc' = [pc EXCEPT ![p] = "idle"]
    /\ req' = [req EXCEPT ![p] = None]
    /\ route' = [route EXCEPT ![p] = "order"]
    /\ tried' = [tried EXCEPT ![p] = FALSE]
    /\ paid' = [paid EXCEPT ![p] = FALSE]

SubmitOrder(p, r) ==
    /\ quote[QuoteOf[r]] # "unissued"
    /\ Begins(p, r, "order", "lookup")
    /\ UNCHANGED <<shop, rail, lock, view, tx, losses>>

\* First replay lookup, before any lock: a completed order is answered from
\* the record and a different request under the same key is a conflict.
Lookup(p) ==
    /\ pc[p] = "lookup"
    /\ IF MayCheckout(req[p])
       THEN Go(p, "lookup", "lock") /\ UNCHANGED <<task, view, lock>>
       ELSE Finish(p) /\ lock' = Released(JobLock(QuoteOf[req[p]]), p)
    /\ UNCHANGED <<shop, rail, tx, losses>>

\* GET_LOCK(.., 0) on the key, then the same lookup again.
LockCheckout(p) ==
    LET r == req[p] IN
    /\ pc[p] = "lock"
    /\ IF Free(CheckoutLock(r))
       THEN /\ lock' = Acquired(CheckoutLock(r), p)
            /\ Go(p, "lock", IF MayCheckout(r) THEN "load" ELSE "unlock")
            /\ UNCHANGED <<task, view>>
       ELSE Finish(p) /\ lock' = Released(JobLock(QuoteOf[r]), p)
    /\ UNCHANGED <<shop, rail, tx, losses>>

\* GET_LOCK on the quote; the quote comes from its transient or, once a
\* payment was attempted, from the draft.  An expired quote nobody tried to
\* pay loses its transient and its reservation.
LoadQuote(p) ==
    LET q == QuoteOf[req[p]]
        o == order[q]
        consumed == Started(o) /\ CheckoutComplete(o)
        usable == quote[q] = "live" \/ o.attempted
    IN
    /\ pc[p] = "load"
    /\ IF Free(QuoteLock(q))
       THEN /\ lock' = Acquired(QuoteLock(q), p)
            /\ Go(p, "load", IF ~consumed /\ usable THEN "begin" ELSE "unlockq")
            /\ IF ~consumed /\ ~o.attempted /\ quote[q] = "expired"
               THEN /\ quote' = [quote EXCEPT ![q] = "gone"]
                    /\ ReleaseReservation(q)
                    /\ UNCHANGED sweeping
               ELSE UNCHANGED shop
       ELSE Go(p, "load", "unlock") /\ UNCHANGED <<lock, shop>>
    /\ UNCHANGED <<rail, task, view, tx, losses>>

\* Checkout_Store::begin: bind the draft to this request, once.
BeginCheckout(p) ==
    LET r == req[p]
        q == QuoteOf[r]
        o == Draft(order[q])
    IN
    /\ pc[p] = "begin"
    /\ IF BoundElsewhere(o, r) \/ Stopped(o)
       THEN Go(p, "begin", "unlockq") /\ Save(q, o) /\ UNCHANGED view
       ELSE /\ Go(p, "begin", "stock")
            /\ Save(q, Begin(o, r))
            /\ tried' = [tried EXCEPT ![p] = o.attempted]
            /\ paid' = [paid EXCEPT ![p] = o.verified]
    /\ UNCHANGED <<quote, held, sweeping, rail, lock, task, tx, losses>>

\* Products, stock and, before payment, the live total are validated again:
\* the catalogue may have changed, so the checks may fail at any time.
ValidateItems(p) ==
    /\ \/ Go(p, "stock", "fail")
       \/ /\ Go(p, "stock", IF paid[p] THEN "checkpoint" ELSE "hold")
          /\ UnitAvailable(QuoteOf[req[p]])
    /\ UNCHANGED <<shop, rail, lock, task, view, tx, losses>>

\* confirm_stock_reservation_for_order, before and after the payment.
ConfirmHold(p, from, to) ==
    LET q == QuoteOf[req[p]] IN
    /\ Go(p, from, IF Confirms(q) THEN to ELSE "fail")
    /\ held' = IF Confirms(q) THEN HeldFor(q) ELSE held
    /\ UNCHANGED <<order, quote, sweeping, rail, lock, task, view, tx, losses>>

HoldBeforePayment(p) == ConfirmHold(p, "hold", "attempt")
HoldAfterPayment(p) == ConfirmHold(p, "rehold", "owned")

\* verify_payment_receipt up to the POST: a receipt that does not fit the
\* quote is refused here; otherwise the attempt is durable before it is made.
AttemptPayment(p) ==
    LET q == QuoteOf[req[p]] IN
    /\ \/ Go(p, "attempt", "fail") /\ UNCHANGED <<order, tried>>
       \/ /\ Go(p, "attempt", "wait")
          /\ IF tried[p] THEN UNCHANGED order
             ELSE Save(q, MarkVerifying(order[q]))
          /\ tried' = [tried EXCEPT ![p] = TRUE]
    /\ UNCHANGED <<quote, held, sweeping, rail, lock, task, paid, tx, losses>>

(***************************************************************************)
(* The payment verifier (external) and the call to it                      *)
(***************************************************************************)
Calling(p) == pc[p] \in {"wait", "rwait"}
Replied(p) == IF pc[p] = "wait" THEN "answer" ELSE "ranswer"

\* Faulty variant: the WP_Error of the verifier call is taken for an answer.
NotVerifiedUnnoticed(p) == Replied(p)

NotVerified(p) == IF pc[p] = "wait" THEN "fail" ELSE "rquit"

\* Faulty variant: a verifier without its replay store.
MaySettleAgain(r) == r \in Requests

\* A reference pays for one quote; asking again for that quote is idempotent.
MaySettle(r) == claim[RefOf[r]] \in {None, QuoteOf[r]}
Settled(r) == [claim EXCEPT ![RefOf[r]] = QuoteOf[r]]

VerifierAccepts(p) ==
    /\ Calling(p)
    /\ MaySettle(req[p])
    /\ claim' = Settled(req[p])
    /\ Go(p, pc[p], Replied(p))
    /\ UNCHANGED <<shop, late, railRefund, lock, task, view, tx, losses>>

\* recovery records the failure of its own call without reading the draft again.
RecordFailure(p, settled) ==
    LET q == QuoteOf[req[p]] IN Save(q, Failure(order[q], settled))

\* The verifier refuses, or its answer does not arrive in time; in the second
\* case it may still process the request.
VerifierFails(p) ==
    /\ Calling(p)
    /\ late' \in {late, late \cup {req[p]}}
    /\ Go(p, pc[p], NotVerified(p))
    /\ IF pc[p] = "rwait" THEN RecordFailure(p, FALSE) ELSE UNCHANGED order
    /\ UNCHANGED <<quote, held, sweeping, claim, railRefund, lock, task, view, tx,
                   losses>>

VerifierSettlesLate(r) ==
    /\ r \in late
    /\ late' = late \ {r}
    /\ claim' = IF MaySettle(r) THEN Settled(r) ELSE claim
    /\ UNCHANGED <<shop, railRefund, lock, pc, task, view, tx, losses>>

\* The answer is checked against every reference the shop has stored.
CheckReplay(p) ==
    LET replayed == ReferenceStored(RefOf[req[p]]) IN
    /\ \/ Go(p, "answer", IF replayed THEN "fail" ELSE "checkpoint")
          /\ UNCHANGED order
       \/ Go(p, "ranswer", IF replayed THEN "rquit" ELSE "rcheckpoint")
          /\ IF replayed THEN RecordFailure(p, FALSE) ELSE UNCHANGED order
    /\ UNCHANGED <<quote, held, sweeping, rail, lock, task, view, tx, losses>>

(***************************************************************************)
(* create_order, after the payment                                         *)
(***************************************************************************)

\* Checkout_Store::verified: the payment checkpoint.
Checkpoint(p) ==
    LET q == QuoteOf[req[p]] IN
    /\ Go(p, "checkpoint", "rehold")
    /\ Save(q, Verified(order[q]))
    /\ paid' = [paid EXCEPT ![p] = TRUE]
    /\ UNCHANGED <<quote, held, sweeping, rail, lock, task, tried, tx, losses>>

\* Still the quote lock's owner?  Then START TRANSACTION.
StartPromotion(p) ==
    LET mine == Owned(QuoteLock(QuoteOf[req[p]]), p) IN
    /\ Go(p, "owned", IF mine THEN "promote" ELSE "fail")
    /\ tx' = [tx EXCEPT ![p] = IF mine THEN "open" ELSE @]
    /\ UNCHANGED <<shop, rail, lock, task, view, losses>>

\* Inside its transaction a write waits for the COMMIT; after a silent
\* reconnect there is no transaction and it is committed by itself.
WritePromotion(p) ==
    LET q == QuoteOf[req[p]] IN
    /\ \/ Go(p, "promote", "fail") /\ UNCHANGED <<order, held, tx>>
       \/ /\ Go(p, "promote", "mark")
          /\ IF tx[p] = "open"
             THEN tx' = [tx EXCEPT ![p] = "promoted"] /\ UNCHANGED <<order, held>>
             ELSE Save(q, Promote(order[q])) /\ held' = held \ {q} /\ UNCHANGED tx
    /\ UNCHANGED <<quote, sweeping, rail, lock, task, view, losses>>

\* Faulty variant: the completion marker is saved outside the transaction.
MarkCompleteAutocommit(p) ==
    LET q == QuoteOf[req[p]] IN
    /\ Go(p, "mark", "recheck")
    /\ Save(q, Complete(order[q]))
    /\ UNCHANGED <<quote, held, sweeping, rail, lock, task, view, tx, losses>>

MarkComplete(p) ==
    LET q == QuoteOf[req[p]] IN
    /\ Go(p, "mark", "recheck")
    /\ IF tx[p] = "promoted"
       THEN tx' = [tx EXCEPT ![p] = "marked"] /\ UNCHANGED order
       ELSE Save(q, Complete(order[q])) /\ UNCHANGED tx
    /\ UNCHANGED <<quote, held, sweeping, rail, lock, task, view, losses>>

CheckOwnership(p) ==
    /\ Go(p, "recheck",
          IF Owned(QuoteLock(QuoteOf[req[p]]), p) THEN "commit" ELSE "fail")
    /\ UNCHANGED <<shop, rail, lock, task, view, tx, losses>>

\* COMMIT, which over a new connection has nothing to commit and succeeds.
\* It may also fail, having committed or not.
Commit(p) ==
    LET q == QuoteOf[req[p]] IN
    /\ \/ Go(p, "commit", "fail") /\ UNCHANGED <<order, held>>
       \/ /\ Go(p, "commit", "cleanup") \/ Go(p, "commit", "fail")
          /\ IF tx[p] = "marked"
             THEN Save(q, Complete(Promote(order[q]))) /\ held' = held \ {q}
             ELSE UNCHANGED <<order, held>>
    /\ tx' = [tx EXCEPT ![p] = "closed"]
    /\ UNCHANGED <<quote, sweeping, rail, lock, task, view, losses>>

Cleanup(p) ==
    /\ Go(p, "cleanup", "unlockq")
    /\ quote' = [quote EXCEPT ![QuoteOf[req[p]]] = "gone"]
    /\ UNCHANGED <<order, held, sweeping, rail, lock, task, view, tx, losses>>

\* Faulty variant: the draft is not read again after the ROLLBACK.
RecordIncompleteUnread(p) ==
    /\ Go(p, "fail", "unlockq")
    /\ RecordFailure(p, paid[p])
    /\ tx' = [tx EXCEPT ![p] = "closed"]
    /\ UNCHANGED <<quote, held, sweeping, rail, lock, task, view, losses>>

\* The finally block: ROLLBACK, read the draft again, and unless the checkout
\* turns out complete record how far it got.
RecordIncomplete(p) ==
    LET o == order[QuoteOf[req[p]]] IN
    /\ Go(p, "fail", "unlockq")
    /\ IF CheckoutComplete(o)
       THEN UNCHANGED order ELSE RecordFailure(p, o.verified)
    /\ tx' = [tx EXCEPT ![p] = "closed"]
    /\ UNCHANGED <<quote, held, sweeping, rail, lock, task, view, losses>>

UnlockQuote(p) ==
    /\ Go(p, "unlockq", "unlock")
    /\ lock' = Released(QuoteLock(QuoteOf[req[p]]), p)
    /\ UNCHANGED <<shop, rail, task, view, tx, losses>>

\* Releases the checkout lock, if owned, and in a cron job the job's.
UnlockCheckout(p) ==
    /\ pc[p] = "unlock"
    /\ Finish(p)
    /\ lock' = [n \in LockNames |->
                   IF n \in {CheckoutLock(req[p]), JobLock(QuoteOf[req[p]])}
                   THEN Released(n, p)[n] ELSE lock[n]]
    /\ UNCHANGED <<shop, rail, tx, losses>>

(***************************************************************************)
(* run_checkout_recovery                                                   *)
(***************************************************************************)

\* A WooCommerce manager presses Retry or Refund payment.
ManagerRecovers(p, q, action) ==
    /\ Started(order[q])
    /\ Begins(p, order[q].bound, action, "rlock")
    /\ UNCHANGED <<shop, rail, lock, view, tx, losses>>

\* Faulty variant: forgets the checkout whose process died in the verifier call.
AutomaticStatesWithoutVerifying ==
    {"verification_pending", "payment_verified", "compensating"}

AutomaticStates ==
    {"verifying", "verification_pending", "payment_verified", "compensating"}

\* recover_checkout_job, from its own cron event or from operations_tick: one
\* at a time per order, and the attempt is counted before it is made.
JobRecovers(p, q) ==
    LET o == order[q]
        action == IF o.state = "compensating" THEN "compensate" ELSE "retry"
    IN
    /\ o.state \in AutomaticStates
    /\ AttemptsLeft(o)
    /\ Free(JobLock(q))
    /\ Begins(p, o.bound, action, "rlock")
    /\ lock' = Acquired(JobLock(q), p)
    /\ Save(q, [o EXCEPT !.attempts = @ + 1])
    /\ UNCHANGED <<quote, held, sweeping, rail, view, tx, losses>>

LeaveRecovery(p, n) ==
    /\ Finish(p)
    /\ lock' = [m \in LockNames |->
                   IF m \in {n, JobLock(QuoteOf[req[p]])}
                   THEN Released(m, p)[m] ELSE lock[m]]

LockForRecovery(p) ==
    LET q == QuoteOf[req[p]] IN
    /\ pc[p] = "rlock"
    /\ IF Free(QuoteLock(q))
       THEN Go(p, "rlock", "rload") /\ lock' = Acquired(QuoteLock(q), p)
                                    /\ UNCHANGED <<task, view>>
       ELSE LeaveRecovery(p, QuoteLock(q))
    /\ UNCHANGED <<shop, rail, tx, losses>>

\* The state read under the lock decides what the errand may still do.
LoadRecovery(p) ==
    LET o == order[QuoteOf[req[p]]]
        settledCase == o.state \in {"completed", "compensated"}
        stopped == o.state = "compensating" /\ route[p] # "compensate"
        next == IF settledCase \/ stopped \/ ~o.saved THEN "rquit"
                ELSE IF o.verified
                     THEN IF route[p] = "compensate" THEN "rstop" ELSE "rgo"
                ELSE IF o.attempted THEN "rwait" ELSE "rquit"
    IN
    /\ Go(p, "rload", next)
    /\ UNCHANGED <<shop, rail, lock, task, view, tx, losses>>

CheckpointRecovery(p) ==
    LET q == QuoteOf[req[p]]
        mine == Owned(QuoteLock(q), p)
    IN
    /\ Go(p, "rcheckpoint", IF ~mine THEN "rquit"
                            ELSE IF route[p] = "compensate" THEN "rstop" ELSE "rgo")
    /\ IF mine THEN Save(q, Verified(order[q])) ELSE UNCHANGED order
    /\ UNCHANGED <<quote, held, sweeping, rail, lock, task, view, tx, losses>>

\* The manager's decision is durable before the refund is requested.
StopCheckout(p) ==
    LET q == QuoteOf[req[p]] IN
    /\ Go(p, "rstop", "refund")
    /\ Save(q, Compensate(order[q]))
    /\ UNCHANGED <<quote, held, sweeping, rail, lock, task, view, tx, losses>>

\* create_refund for the full amount under a key fixed by the order: a
\* recorded refund is replayed, otherwise the order-wide refund lock is taken.
LockRefund(p) ==
    LET q == QuoteOf[req[p]]
        available == Free(RefundLock(q))
    IN
    /\ Go(p, "refund", IF order[q].refunded THEN "rdone"
                       ELSE IF available THEN "intent" ELSE "rquit")
    /\ lock' = IF available /\ ~order[q].refunded
               THEN Acquired(RefundLock(q), p) ELSE lock
    /\ UNCHANGED <<shop, rail, task, view, tx, losses>>

SaveRefundIntent(p) ==
    LET q == QuoteOf[req[p]] IN
    /\ Go(p, "intent", "refundwait")
    /\ Save(q, [order[q] EXCEPT !.intent = TRUE])
    /\ UNCHANGED <<quote, held, sweeping, rail, lock, task, view, tx, losses>>

\* The verifier's ledger keeps one refund per request reference; the provider
\* settles it now or later, and the plugin may or may not see the answer.
RailOutcomes(status) ==
    IF status = "none" THEN {"pending", "succeeded", "failed"} ELSE {status}

\* Faulty variant: a pending refund is recorded like a succeeded one.
RefundConfirmedIfPending(outcome, seen) == seen /\ outcome # "failed"

RefundConfirmed(outcome, seen) == seen /\ outcome = "succeeded"

RequestRefund(p) ==
    LET q == QuoteOf[req[p]] IN
    /\ pc[p] = "refundwait"
    /\ \E outcome \in RailOutcomes(railRefund[q]), seen \in BOOLEAN :
        /\ railRefund' = [railRefund EXCEPT ![q] = outcome]
        /\ Go(p, "refundwait",
              IF RefundConfirmed(outcome, seen) THEN "record" ELSE "rquit")
        /\ Save(q, [order[q] EXCEPT !.intent = ~(seen /\ outcome = "failed")])
        /\ lock' = IF RefundConfirmed(outcome, seen)
                   THEN lock ELSE Released(RefundLock(q), p)
    /\ UNCHANGED <<quote, held, sweeping, claim, late, task, view, tx, losses>>

RefundUnreachable(p) ==
    LET q == QuoteOf[req[p]] IN
    /\ Go(p, "refundwait", "rquit")
    /\ lock' = Released(RefundLock(q), p)
    /\ UNCHANGED <<shop, rail, task, view, tx, losses>>

RailSettles(q) ==
    /\ railRefund[q] = "pending"
    /\ \E outcome \in {"succeeded", "failed"} :
           railRefund' = [railRefund EXCEPT ![q] = outcome]
    /\ UNCHANGED <<shop, claim, late, lock, pc, task, view, tx, losses>>

\* The WooCommerce refund and its replay data are one transaction.
RecordRefund(p) ==
    LET q == QuoteOf[req[p]]
        mine == Owned(RefundLock(q), p)
    IN
    /\ \/ Go(p, "record", "rquit") /\ UNCHANGED order
       \/ /\ Go(p, "record", "rdone") \/ Go(p, "record", "rquit")
          /\ mine
          /\ Save(q, [order[q] EXCEPT !.refunded = TRUE, !.intent = FALSE])
    /\ lock' = Released(RefundLock(q), p)
    /\ UNCHANGED <<quote, held, sweeping, rail, task, view, tx, losses>>

FinishCompensation(p) ==
    LET q == QuoteOf[req[p]] IN
    /\ Go(p, "rdone", "rquit")
    /\ Save(q, Compensated(order[q]))
    /\ held' = held \ {q}
    /\ UNCHANGED <<quote, sweeping, rail, lock, task, view, tx, losses>>

QuitRecovery(p) ==
    /\ pc[p] = "rquit"
    /\ LeaveRecovery(p, QuoteLock(QuoteOf[req[p]]))
    /\ UNCHANGED <<shop, rail, tx, losses>>

\* A retry gives the quote lock back, then runs create_order from its start.
ResumeCheckout(p) ==
    /\ Go(p, "rgo", "lookup")
    /\ lock' = Released(QuoteLock(QuoteOf[req[p]]), p)
    /\ UNCHANGED <<shop, rail, task, view, tx, losses>>

(***************************************************************************)
(* Failures                                                                *)
(***************************************************************************)

\* The PHP process dies; a request already sent may still be processed.
Crash(p) ==
    /\ pc[p] # "idle"
    /\ Finish(p)
    /\ lock' = ReleasedAll(p)
    /\ tx' = [tx EXCEPT ![p] = "closed"]
    /\ late' \in {late, IF Calling(p) THEN late \cup {req[p]} ELSE late}
    /\ UNCHANGED <<shop, claim, railRefund, losses>>

\* Only the connection dies: wpdb reconnects and the process continues
\* without its locks and without its transaction.
LoseConnection(p) ==
    /\ losses < MaxLosses
    /\ losses' = losses + 1
    /\ pc[p] # "idle"
    /\ lock' = ReleasedAll(p)
    /\ tx' = [tx EXCEPT ![p] = "closed"]
    /\ UNCHANGED <<shop, rail, pc, task, view>>

CreateOrder(p) ==
    \/ Lookup(p) \/ LockCheckout(p) \/ LoadQuote(p) \/ BeginCheckout(p)
    \/ ValidateItems(p) \/ HoldBeforePayment(p) \/ AttemptPayment(p)
    \/ Checkpoint(p) \/ HoldAfterPayment(p) \/ StartPromotion(p)
    \/ WritePromotion(p) \/ MarkComplete(p) \/ CheckOwnership(p) \/ Commit(p)
    \/ Cleanup(p) \/ RecordIncomplete(p) \/ UnlockQuote(p) \/ UnlockCheckout(p)

Verify(p) == VerifierAccepts(p) \/ VerifierFails(p) \/ CheckReplay(p)

Recover(p) ==
    \/ LockForRecovery(p) \/ LoadRecovery(p) \/ CheckpointRecovery(p)
    \/ StopCheckout(p) \/ LockRefund(p) \/ SaveRefundIntent(p)
    \/ RequestRefund(p) \/ RefundUnreachable(p) \/ RecordRefund(p)
    \/ FinishCompensation(p) \/ QuitRecovery(p) \/ ResumeCheckout(p)

Step(p) == CreateOrder(p) \/ Verify(p) \/ Recover(p)

Arrival(p) ==
    \/ \E r \in Requests : SubmitOrder(p, r)
    \/ \E q \in Recovered :
           \/ \E action \in {"retry", "compensate"} :
                  ManagerRecovers(p, q, action)
           \/ JobRecovers(p, q)

Environment ==
    \/ \E q \in Quotes : \/ IssueQuote(q) \/ QuoteAges(q) \/ HoldLapses(q)
                         \/ Sweep(q) \/ SweepRead(q) \/ SweepWrite(q)
                         \/ RailSettles(q)
    \/ \E r \in Requests : VerifierSettlesLate(r)

Next ==
    \/ Environment
    \/ \E p \in Procs : Arrival(p) \/ Step(p) \/ Crash(p) \/ LoseConnection(p)

Spec == Init /\ [][Next]_vars

\* A PHP process runs on until it ends or dies, and operations_tick, fired
\* every minute, gets round to every order that is due for a retry.
FairSpec ==
    /\ Spec
    /\ \A p \in Procs : WF_vars(Step(p))
    /\ \A q \in Recovered : SF_vars(\E p \in Procs : JobRecovers(p, q))

(***************************************************************************)
(* Safety                                                                  *)
(***************************************************************************)

\* Hard holds never sell more units than there are, whichever checkouts
\* race, die, or outlive their hold while the verifier is slow.
NoOversell == Cardinality(Sold) <= Stock

\* One payment reference fulfils at most one order, and only the order whose
\* quote the verifier settled it for - also when two requests present the same
\* payment for two quotes and both pass the local replay check.
PaymentBuysOneOrder ==
    \A q \in Quotes :
        order[q].status = "processing" => claim[RefOf[order[q].bound]] = q

\* An idempotency key is bound to one order at most, although requests under
\* that key for different quotes may run at the same time.
KeyBindsOneOrder ==
    \A q1, q2 \in Quotes :
        Started(order[q1]) /\ Started(order[q2]) /\ q1 # q2
            => KeyOf[order[q1].bound] # KeyOf[order[q2].bound]

QueueStates == AutomaticStates \cup {"compensation_required"}

\* Money the verifier took for a quote is never out of sight: the draft is
\* bound to a paying request, and either the case is closed or it is in the
\* manager's queue with the request that recovery needs.  Whatever crashes,
\* times out, or is answered late.
PaidIsRecoverable ==
    \A x \in Refs :
        claim[x] # None =>
            LET o == order[claim[x]] IN
            /\ Started(o) /\ RefOf[o.bound] = x
            /\ \/ o.state \in {"completed", "compensated"}
               \/ o.state \in QueueStates /\ o.saved /\ o.attempted

\* The draft says completed only when the promotion - items, stock and payment -
\* has been committed with it.
CompletedIsPromoted ==
    \A q \in Quotes :
        order[q].state = "completed" => order[q].status = "processing"

\* A payment is never both given back and fulfilled.
FulfilledXorRefunded ==
    \A q \in Quotes :
        order[q].status = "processing" => railRefund[q] = "none"

\* A checkout is only reported compensated once the refund rail has paid and
\* the WooCommerce refund is on record.
CompensatedIsRefunded ==
    \A q \in Quotes :
        order[q].state = "compensated" =>
            railRefund[q] = "succeeded" /\ order[q].refunded /\ ~order[q].intent

\* A completed checkout stays completed: no recovery, late answer or failure
\* path of another process takes the order back to an open case.
CompletionIsFinal ==
    [][\A q \in Quotes :
          order[q].state = "completed" => order'[q].state = "completed"]_vars

\* Refund payment permanently stops the checkout: once a manager has decided
\* to compensate, no step of any process leads back to fulfilment.
CompensationIsFinal ==
    [][\A q \in Quotes :
          Stopped(order[q]) =>
              /\ Stopped(order'[q])
              /\ order[q].state = "compensated" => order'[q].state = "compensated"
      ]_vars

(***************************************************************************)
(* Liveness                                                                *)
(***************************************************************************)
Decided(q) ==
    \/ order[q].state \in {"completed", "compensated", "compensation_required"}
    \/ order[q].attempts = MaxAttempts

\* The scheduler overlooks no payment: once the verifier has taken the money
\* the checkout is completed, compensated, handed to the manager, or retried
\* until its three attempts are spent - whenever the process behind it dies.
PaidIsDecided ==
    \A x \in Refs, q \in Recovered : claim[x] = q ~> Decided(q)
=============================================================================
