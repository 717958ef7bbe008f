----------------------------- MODULE RefundLedger -----------------------------
(***************************************************************************)
(* The refunds of one payment at the verifier: the durable ledger and what *)
(* advances an operation at Stripe or on Tempo                             *)
(* (verifier-refund-operations.mjs), and the reconciler that resumes       *)
(* operations nobody asks for again (verifier-refund-reconciler.mjs).      *)
(*                                                                         *)
(* Workers are requests and reconcilers of verifiers that share the SQLite *)
(* database.  Every transaction on it is a step; so is every answer of a   *)
(* provider.  What is read again after a write is read in a step of its    *)
(* own.                                                                    *)
(***************************************************************************)
EXTENDS Naturals, Sequences, FiniteSets, Functions

CONSTANTS Nothing,
          Workers,
          References,   \* requested_reference of a refund
          Paid,         \* cents of the payment
          Payments,     \* [rail, legacy, reconciled, requests, asks]: how it was paid,
                        \* cents that were refunded before there was a ledger,
                        \* whether refunds are reconciled, and [key, amount] of
                        \* the refunds that are asked for, asks times under one
                        \* reference (a bound)
          Bytes,        \* what may be signed for one transfer: fees differ
          MaxAttempts   \* of the reconciler: 8 in the code

ASSUME RequestsAreRefunds ==
    /\ Nothing \notin Bytes \cup References \cup {1}
    /\ \A p \in Payments : \A r \in p.requests : r.key \in References /\ r.amount \in Nat
ASSUME PaymentsAreOfCents ==
    /\ IsFiniteSet(References)
    /\ Paid \in Nat
    /\ \A p \in Payments : p.legacy \in 0 .. Paid

VARIABLES payment,  \* chosen once
          ledger,   \* refund_operations
          age,      \* how old each operation is
          queue,    \* refund_reconciliation
          work,     \* what each worker does
          asks,     \* requests so far
          stripe,   \* refunds Stripe made under each idempotency key
          chain     \* what was sent and mined in the nonce lane of each operation

rails == <<stripe, chain>>
refunding == <<payment, ledger, age, queue, work, asks, rails>>

NoOperation == [state |-> "none", amount |-> 0, reference |-> Nothing, version |-> 0]
NotWorking  == [at |-> "idle", key |-> Nothing, amount |-> 0, op |-> NoOperation,
                got |-> Nothing, lease |-> 0, late |-> FALSE]

LedgerInit ==
    /\ payment \in Payments
    /\ ledger = [k \in References |-> NoOperation]
    /\ age = [k \in References |-> "fresh"]
    /\ queue = [k \in References |-> [attempts |-> 0, lease |-> 0, live |-> FALSE, due |-> TRUE]]
    /\ work = [w \in Workers |-> NotWorking]
    /\ asks = [k \in References |-> 0]
    /\ stripe = [k \in References |-> <<>>]
    /\ chain = [k \in References |-> [sent |-> {}, mined |-> Nothing, status |-> "none"]]

Open == {"reserved", "prepared", "pending"}
Lost == {"failed", "canceled"}

Turns(w, to) == work' = [work EXCEPT ![w] = to]

\* An answer to who asked, or the end of a turn of the reconciler.
Over(w) ==
    IF work[w].lease = 0 THEN NotWorking
    ELSE [work[w] EXCEPT !.at = "finish", !.op = NoOperation, !.got = Nothing]

(***************************************************************************)
(* The ledger                                                              *)
(***************************************************************************)
\* Faulty variant: an operation of unknown outcome holds no balance.
HeldOnceKnown ==
    SumFunction([k \in References |->
        IF ledger[k].state \in Lost \cup {"none", "reserved"} THEN 0 ELSE ledger[k].amount])

\* What failed gives its share back; what is unknown keeps it.
Held ==
    SumFunction([k \in References |->
        IF ledger[k].state \in Lost \cup {"none"} THEN 0 ELSE ledger[k].amount])

\* Faulty variant: refunds from before the ledger are not asked about.
ReserveBesideLegacy(w, k, amount) ==
    /\ work[w].at = "idle" /\ asks[k] < payment.asks
    /\ ledger' = IF ledger[k].state = "none" /\ amount + Held <= Paid
                 THEN [ledger EXCEPT ![k] = [NoOperation EXCEPT !.state = "reserved",
                                                                !.amount = amount]]
                 ELSE ledger
    /\ asks' = [asks EXCEPT ![k] = @ + 1]
    /\ Turns(w, [NotWorking EXCEPT !.at = "load", !.key = k, !.amount = amount])
    /\ UNCHANGED <<payment, age, queue, rails>>

\* A reference that has its operation keeps it.
Reserve(w, k, amount) ==
    /\ work[w].at = "idle" /\ asks[k] < payment.asks
    /\ ledger' = IF ledger[k].state = "none" /\ payment.legacy = 0 /\ amount + Held <= Paid
                 THEN [ledger EXCEPT ![k] = [NoOperation EXCEPT !.state = "reserved",
                                                                !.amount = amount]]
                 ELSE ledger
    /\ asks' = [asks EXCEPT ![k] = @ + 1]
    /\ Turns(w, [NotWorking EXCEPT !.at = "load", !.key = k, !.amount = amount])
    /\ UNCHANGED <<payment, age, queue, rails>>

\* Faulty variant: the age of a submission is not looked at.
TurnOfAnyAge(k, op) ==
    IF payment.rail = "stripe"
    THEN IF op.state \in {"succeeded"} \cup Lost THEN "over"
         ELSE IF op.reference # Nothing THEN "retrieve" ELSE "create"
    ELSE IF op.state \in {"succeeded", "failed", "review_required"} THEN "over"
         ELSE IF op.reference = Nothing THEN "prepare" ELSE "receipt"

\* Where advanceStripeRefund and advanceTempoRefund begin.
Turn(k, op) ==
    IF payment.rail = "stripe"
    THEN IF op.state \in {"succeeded"} \cup Lost THEN "over"
         ELSE IF op.reference # Nothing THEN "retrieve"
         ELSE IF age[k] = "fresh" THEN "create" ELSE "over"
    ELSE IF op.state \in {"succeeded", "failed", "review_required"} THEN "over"
         ELSE IF op.reference = Nothing THEN "prepare" ELSE "receipt"

Takes(w, k, op) ==
    Turns(w, IF Turn(k, op) = "over" THEN Over(w)
             ELSE [work[w] EXCEPT !.at = Turn(k, op), !.op = op])

\* A request that found no balance, or another amount under its reference, is
\* refused.
Load(w) ==
    LET k == work[w].key  op == ledger[k] IN
    /\ work[w].at = "load"
    /\ IF op.state = "none" \/ op.amount # work[w].amount
       THEN Turns(w, NotWorking) ELSE Takes(w, k, op)
    /\ UNCHANGED <<payment, ledger, age, queue, asks, rails>>

\* Faulty variant: whoever writes last is right.
WriteAnyway(k, op, state, reference) ==
    ledger' = [ledger EXCEPT ![k].state = state, ![k].reference = reference,
                             ![k].version = @ + 1]

\* update: only over the version that was read.
Write(k, op, state, reference) ==
    ledger' = IF ledger[k].version = op.version
              THEN [ledger EXCEPT ![k].state = state, ![k].reference = reference,
                                  ![k].version = @ + 1]
              ELSE ledger

(***************************************************************************)
(* Stripe                                                                  *)
(***************************************************************************)
Goes(w, at) == Turns(w, [work[w] EXCEPT !.at = at])
Gets(w, at, got) == Turns(w, [work[w] EXCEPT !.at = at, !.got = got])

\* A submission under an idempotency key that Stripe remembers is answered as
\* the first one was.
StripeCreates(w, status) ==
    LET k == work[w].key
        known == stripe[k] # <<>> /\ age[k] # "forgotten" IN
    /\ work[w].at = "create"
    /\ stripe' = IF known THEN stripe
                 ELSE [stripe EXCEPT ![k] = Append(@, [first |-> status, now |-> status])]
    /\ Gets(w, "write", [reference |-> Len(stripe'[k]), state |-> stripe'[k][Len(stripe'[k])].first])
    /\ UNCHANGED <<payment, ledger, age, queue, asks, chain>>

StripeRetrieves(w) ==
    LET id == work[w].op.reference IN
    /\ work[w].at = "retrieve"
    /\ Gets(w, "write", [reference |-> id, state |-> stripe[work[w].key][id].now])
    /\ UNCHANGED <<payment, ledger, age, queue, asks, rails>>

\* The answer is written down; the worker is over.
WriteAnswer(w) ==
    LET got == work[w].got IN
    /\ work[w].at = "write"
    /\ Write(work[w].key, work[w].op, got.state, got.reference)
    /\ Turns(w, Over(w))
    /\ UNCHANGED <<payment, age, queue, asks, rails>>

StripeMoves(k, i, status) ==
    /\ stripe[k][i].now \in {"pending", "requires_action"}
    /\ stripe' = [stripe EXCEPT ![k][i].now = status]
    /\ UNCHANGED <<payment, ledger, age, queue, work, asks, chain>>

(***************************************************************************)
(* Tempo                                                                   *)
(***************************************************************************)
\* Two workers may sign different bytes for one nonce.
Prepare(w, bytes) ==
    /\ work[w].at = "prepare"
    /\ Gets(w, "save", bytes)
    /\ UNCHANGED <<payment, ledger, age, queue, asks, rails>>

SavePrepared(w) ==
    /\ work[w].at = "save"
    /\ Write(work[w].key, work[w].op, "prepared", work[w].got)
    /\ Goes(w, "reread")
    /\ UNCHANGED <<payment, age, queue, asks, rails>>

\* Faulty variant: a worker goes on with the bytes that it signed itself.
RereadOwn(w) ==
    /\ work[w].at = "reread"
    /\ Turns(w, [work[w] EXCEPT !.at = "receipt",
                                !.op = [ledger[work[w].key] EXCEPT !.reference = work[w].got]])
    /\ UNCHANGED <<payment, ledger, age, queue, asks, rails>>

\* A losing worker uses the winner's identity.
Reread(w) ==
    /\ work[w].at = "reread"
    /\ Turns(w, [work[w] EXCEPT !.at = "receipt", !.op = ledger[work[w].key]])
    /\ UNCHANGED <<payment, ledger, age, queue, asks, rails>>

Outcome(status) == CASE status = "success"  -> "succeeded"
                     [] status = "reverted" -> "failed"
                     [] status = "other"    -> "review_required"

Confirmed(w) ==
    LET k == work[w].key IN
    /\ work[w].at \in {"receipt", "receipt again"}
    /\ chain[k].mined = work[w].op.reference
    /\ Gets(w, "write", [reference |-> work[w].op.reference, state |-> Outcome(chain[k].status)])
    /\ UNCHANGED <<payment, ledger, age, queue, asks, rails>>

\* Not mined, too few confirmations, or no answer.
NoReceipt(w) ==
    /\ \/ work[w].at = "receipt" /\ Goes(w, "broadcast")
       \/ work[w].at = "receipt again" /\ Turns(w, Over(w))
    /\ UNCHANGED <<payment, ledger, age, queue, asks, rails>>

\* The acknowledgement does not matter.
Broadcast(w) ==
    LET k == work[w].key IN
    /\ work[w].at = "broadcast"
    /\ \/ chain' = [chain EXCEPT ![k].sent = @ \cup {work[w].op.reference}]
       \/ UNCHANGED chain
    /\ Goes(w, "receipt again")
    /\ UNCHANGED <<payment, ledger, age, queue, asks, stripe>>

\* The lane of an operation has one nonce: one of the transactions is mined.
ChainMines(k, bytes, status) ==
    /\ bytes \in chain[k].sent
    /\ chain[k].mined = Nothing
    /\ chain' = [chain EXCEPT ![k].mined = bytes, ![k].status = status]
    /\ UNCHANGED <<payment, ledger, age, queue, work, asks, stripe>>

(***************************************************************************)
(* The reconciler                                                          *)
(***************************************************************************)
\* Faulty variant: a lease that its worker does not give back is kept.
ClaimUnleased(w, k) ==
    LET n == queue[k].attempts + 1 IN
    /\ payment.reconciled
    /\ work[w].at = "idle"
    /\ ledger[k].state \in Open
    /\ n <= MaxAttempts /\ queue[k].due /\ queue[k].lease = 0
    /\ queue' = [queue EXCEPT ![k].attempts = n, ![k].lease = n, ![k].live = TRUE]
    /\ Turns(w, [NotWorking EXCEPT !.at = "get", !.key = k, !.lease = n])
    /\ UNCHANGED <<payment, ledger, age, asks, rails>>

\* The number of the attempt stands for the token of its lease.
Claim(w, k) ==
    LET n == queue[k].attempts + 1 IN
    /\ payment.reconciled
    /\ work[w].at = "idle"
    /\ ledger[k].state \in Open
    /\ n <= MaxAttempts /\ queue[k].due /\ ~queue[k].live
    /\ queue' = [queue EXCEPT ![k].attempts = n, ![k].lease = n, ![k].live = TRUE]
    /\ Turns(w, [NotWorking EXCEPT !.at = "get", !.key = k, !.lease = n])
    /\ UNCHANGED <<payment, ledger, age, asks, rails>>

Get(w) ==
    LET op == ledger[work[w].key] IN
    /\ work[w].at = "get"
    /\ IF op.state \in Open THEN Takes(w, work[w].key, op) ELSE Turns(w, Over(w))
    /\ UNCHANGED <<payment, ledger, age, queue, asks, rails>>

\* Faulty variant: a worker ends whatever lease there is.
FinishAny(w) ==
    /\ work[w].at = "finish"
    /\ queue' = [queue EXCEPT ![work[w].key] = [@ EXCEPT !.lease = 0, !.live = FALSE, !.due = FALSE]]
    /\ Turns(w, NotWorking)
    /\ UNCHANGED <<payment, ledger, age, asks, rails>>

Finish(w) ==
    LET k == work[w].key IN
    /\ work[w].at = "finish"
    /\ queue' = IF queue[k].lease = work[w].lease
                THEN [queue EXCEPT ![k] = [@ EXCEPT !.lease = 0, !.live = FALSE, !.due = FALSE]]
                ELSE queue
    /\ Turns(w, NotWorking)
    /\ UNCHANGED <<payment, ledger, age, asks, rails>>

\* The back-off is over.
ComesDue(k) ==
    /\ ~queue[k].due
    /\ queue' = [queue EXCEPT ![k].due = TRUE]
    /\ UNCHANGED <<payment, ledger, age, work, asks, rails>>

\* Five minutes are over before the worker is.
LeaseRunsOut(k) ==
    /\ queue[k].live
    /\ queue' = [queue EXCEPT ![k].live = FALSE]
    /\ work' = [w \in Workers |->
                  IF work[w].key = k /\ work[w].lease = queue[k].lease
                  THEN [work[w] EXCEPT !.late = TRUE] ELSE work[w]]
    /\ UNCHANGED <<payment, ledger, age, asks, rails>>

(***************************************************************************)
(* Faults and time                                                         *)
(***************************************************************************)
\* The call fails, the answer is lost, or the database is locked too long.
CallFails(w) ==
    /\ work[w].at \in {"load", "create", "retrieve", "write", "prepare", "save"}
    /\ Turns(w, Over(w))
    /\ UNCHANGED <<payment, ledger, age, queue, asks, rails>>

WorkerDies(w) ==
    /\ work[w].at # "idle"
    /\ Turns(w, NotWorking)
    /\ UNCHANGED <<payment, ledger, age, queue, asks, rails>>

\* After 23 hours an operation is old; after 24 Stripe forgets its key, and no
\* submission of the first 23 is under way any more.  Tempo forgets nothing, and
\* what has its reference is not submitted again.
OperationAges(k) ==
    /\ payment.rail = "stripe"
    /\ ledger[k].state # "none" /\ ledger[k].reference = Nothing
    /\ \/ age[k] = "fresh" /\ age' = [age EXCEPT ![k] = "old"]
       \/ /\ age[k] = "old" /\ \A w \in Workers : work[w].key = k => work[w].at # "create"
          /\ age' = [age EXCEPT ![k] = "forgotten"]
    /\ UNCHANGED <<payment, ledger, queue, work, asks, rails>>

(***************************************************************************)
(* The system                                                              *)
(***************************************************************************)
WorkStep(w) ==
    \/ Load(w) \/ Get(w)
    \/ \E status \in {"pending", "succeeded"} : StripeCreates(w, status)
    \/ StripeRetrieves(w) \/ WriteAnswer(w)
    \/ \E bytes \in Bytes : Prepare(w, bytes)
    \/ SavePrepared(w) \/ Reread(w) \/ Confirmed(w) \/ NoReceipt(w) \/ Broadcast(w)
    \/ Finish(w)

RailStep(k) ==
    \/ \E i \in 1 .. Len(stripe[k]),
          status \in {"requires_action", "succeeded", "failed", "canceled"} :
          StripeMoves(k, i, status)
    \/ \E bytes \in Bytes, status \in {"success", "reverted", "other"} :
          ChainMines(k, bytes, status)

Reconciles(k) == \E w \in Workers : Claim(w, k)

LedgerNext ==
    \/ \E w \in Workers :
          \/ WorkStep(w) \/ CallFails(w) \/ WorkerDies(w)
          \/ \E r \in payment.requests : Reserve(w, r.key, r.amount)
    \/ \E k \in References :
          Reconciles(k) \/ RailStep(k) \/ ComesDue(k) \/ LeaseRunsOut(k) \/ OperationAges(k)

\* Calls end, and the reconciler runs again and again.
LedgerFairness ==
    /\ \A w \in Workers : WF_refunding(WorkStep(w))
    /\ \A k \in References :
          SF_refunding(Reconciles(k)) /\ WF_refunding(ComesDue(k)) /\ WF_refunding(LeaseRunsOut(k))

LedgerSpec == LedgerInit /\ [][LedgerNext]_refunding /\ LedgerFairness

(***************************************************************************)
(* Properties                                                              *)
(***************************************************************************)
\* The cents a rail has paid back for an operation, or still may.
AtRail(k) ==
    LET alive == {i \in 1 .. Len(stripe[k]) : stripe[k][i].now \notin Lost}
    IN  ledger[k].amount * (Cardinality(alive) + IF chain[k].status = "success" THEN 1 ELSE 0)

\* What the rails pay back never exceeds the payment, whatever requests share
\* it, were lost, repeated after a day or overtaken, and whatever was refunded
\* before there was a ledger (reserve, advanceStripeRefund, advanceTempoRefund).
NeverOverRefunded == payment.legacy + SumFunction([k \in References |-> AtRail(k)]) <= Paid

\* No operation is refunded twice, and what the ledger says of it is what the
\* rail did: the bytes that were mined are the ones on record, a success was
\* one, and a balance was given back only for what failed (update, which keeps
\* the winner's answer).
LedgerIsTheRails ==
    \A k \in References :
        LET op == ledger[k] IN
        /\ Len(stripe[k]) <= 1
        /\ chain[k].mined # Nothing => chain[k].mined = op.reference
        /\ op.state = "succeeded" =>
              \/ chain[k].status = "success"
              \/ stripe[k] # <<>> /\ stripe[k][1].now = "succeeded"
        /\ op.state \in Lost =>
              \/ chain[k].status = "reverted"
              \/ stripe[k] # <<>> /\ stripe[k][1].now \in Lost

\* A reconciler has its operation to itself until its time is over, also when the
\* one before it was too late and ends afterwards: so two of them work on one
\* operation only after a lease has run out (claim, finish).
LeasesAreKept ==
    \A w \in Workers :
        work[w].lease > 0 /\ ~work[w].late =>
            queue[work[w].key].lease = work[w].lease /\ queue[work[w].key].live

\* What is on record is what happened, one worker at a time answers for it, and
\* together it is no more than was paid (update, claim, reserve).
LedgerIsTrue == LedgerIsTheRails /\ LeasesAreKept /\ NeverOverRefunded

\* No refund is forgotten, though nobody asks again and workers die with their
\* leases: it is resolved, needs an operator, or has had its attempts, which is
\* reported (reconcileRefunds).
RefundsAreDecided ==
    \A k \in References :
        payment.reconciled /\ ledger[k].state \in Open
            ~> ledger[k].state \notin Open \/ queue[k].attempts = MaxAttempts
=============================================================================
