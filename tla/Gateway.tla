------------------------------- MODULE Gateway -------------------------------
(***************************************************************************)
(* The buyer gateway (gateway/agentcart.py): quotes, approvals, payment    *)
(* challenges and checkout, as AgentCartService keeps them.                *)
(*                                                                         *)
(* The service answers every request on a thread of its own and guards one *)
(* in-memory state with one lock.  save_state() writes the whole of it to  *)
(* one file, so a crash puts the memory back to the last save.  checkout() *)
(* takes the lock twice: once to look for a replay and to see that the     *)
(* quote and the approval are ready, once more to redeem the challenge;    *)
(* the second time it calls the merchant while it holds the lock.          *)
(*                                                                         *)
(* Every quote is for one unit of one product at the price of one unit of  *)
(* the monthly budget, and months are counted from 1.  A setup says which  *)
(* merchant sells it: a store with the ShopBridge plugin, which quotes     *)
(* itself, offers rails and tells replays by key and request body, or a    *)
(* plain WooCommerce store (rest or mock), which creates an order for      *)
(* every call.                                                             *)
(***************************************************************************)
EXTENDS Naturals, Sequences, FiniteSets

CONSTANTS Threads, Quotes, Approvals, Challenges, Keys,
          None,
          AskedRails,  \* rails a request may name
          Setups       \* the stores and households the gateway may face

(***************************************************************************)
(* A setup says: plugin, the merchant is a ShopBridge store; offered, the  *)
(* rails its quotes list, in order; stock, the units the gateway believes  *)
(* a plain store has; budget, the orders the monthly budget pays for;      *)
(* keyInBody, the idempotency key travels in the JSON body rather than in  *)
(* a header; planner, Vikunja and the Home Assistant calendar are          *)
(* configured; crashes, how often the process may die, and months, the     *)
(* last month there is (bounds).                                           *)
(***************************************************************************)
ASSUME SetupsAreSetups ==
    \A s \in Setups :
        /\ {s.plugin, s.keyInBody, s.planner} \subseteq BOOLEAN
        /\ s.offered \in Seq(STRING) /\ (~s.plugin => s.offered = <<>>)
        /\ s.stock \in Nat /\ s.budget \in Nat \ {0}
        /\ s.crashes \in Nat /\ s.months \in Nat \ {0}

ASSUME NoneIsNobody == None \notin Threads

X402 == "x402-compatible"

VARIABLES mem,       \* AgentCartService.state
          disk,      \* the state file
          lock,      \* the thread that is inside a locked merchant call
          call,      \* where each thread is in checkout()
          merchant,  \* orders the merchant has created
          month,     \* the calendar month, UTC
          overdue,   \* quotes, approvals and challenges past expires_at
          told,      \* what checkouts that bought, or had bought, were answered
          crashes,
          setup      \* chosen once

vars == <<mem, disk, lock, call, merchant, month, overdue, told, crashes, setup>>

Rails == {setup.offered[i] : i \in 1 .. Len(setup.offered)}

NoApproval == [state |-> "none", quote |-> None, rail |-> None]
NoChallenge == [state |-> "none", quote |-> None, approval |-> None, key |-> None]
Idle == [at |-> "idle", quote |-> None, approval |-> None, key |-> None, by |-> None,
         month |-> 0]

EmptyState ==
    [made      |-> [q \in Quotes |-> 0],      \* the month a quote is made in
     rail      |-> [q \in Quotes |-> None],   \* quote["payment_rail"]
     stamp     |-> [q \in Quotes |-> None],   \* quote["policy_result"], told
                                              \* apart by who asked for it
     approval  |-> [a \in Approvals |-> NoApproval],
     challenge |-> [c \in Challenges |-> NoChallenge],
     stock     |-> setup.stock,
     orders    |-> <<>>]                      \* orders and idempotency

Init ==
    /\ setup \in Setups
    /\ mem = EmptyState
    /\ disk = EmptyState
    /\ lock = None
    /\ call = [t \in Threads |-> Idle]
    /\ merchant = {}
    /\ month = 1
    /\ overdue = {}
    /\ told = {}
    /\ crashes = 0

(***************************************************************************)
(* Reads                                                                   *)
(***************************************************************************)
\* The rail a quote is paid on, or None where quote_payment_destination raises.
Destination(s, q) ==
    IF s.rail[q] # None
    THEN IF s.rail[q] \in Rails THEN s.rail[q] ELSE None
    ELSE IF setup.offered = <<>> THEN "provider" ELSE setup.offered[1]

Quoted(s, q) == s.made[q] # 0

\* The orders that were created in that month; no order is taken back.
Spent(s, m) == Cardinality({i \in 1 .. Len(s.orders) : s.orders[i].month = m})

\* Faulty variant: the month ends before its last order counts.
AllowedOneMore(s, q) == Spent(s, s.made[q]) <= setup.budget

\* evaluate_policy_for_quote does not answer "deny".  It looks at the month the
\* quote was made in, whatever month it is.
Allowed(s, q) == Spent(s, s.made[q]) + 1 <= setup.budget

Placed(s, k) == \E i \in 1 .. Len(s.orders) : s.orders[i].key = k

\* Faulty variant: the hash of an x402 approval is not compared.
ReadyWithoutHash(s, q, a) ==
    /\ Destination(s, q) # None
    /\ q \notin overdue
    /\ s.approval[a].quote = q
    /\ s.approval[a].state = "approved"

\* Faulty variant: an approval that was asked for is taken for given.
ReadyUndecided(s, q, a) ==
    /\ Destination(s, q) # None
    /\ q \notin overdue
    /\ s.approval[a].quote = q
    /\ s.approval[a].state \in {"pending", "approved"}
    /\ Destination(s, q) = X402 => s.approval[a].rail = X402

\* require_checkout_ready.  The approval hash covers the payment destination;
\* it is compared for x402 only.
Ready(s, q, a) ==
    /\ Destination(s, q) # None
    /\ q \notin overdue
    /\ s.approval[a].quote = q
    /\ s.approval[a].state = "approved"
    /\ Destination(s, q) = X402 => s.approval[a].rail = X402

(***************************************************************************)
(* Quotes                                                                  *)
(***************************************************************************)
\* Faulty variant: the memory changes and the file does not.
ChangedOnly(s) == mem' = s /\ disk' = disk

\* save_state writes the whole memory.
Saved(s) == mem' = s /\ disk' = s

CreateQuote(q, rail) ==
    /\ lock = None
    /\ ~setup.plugin
    /\ ~Quoted(mem, q)
    /\ mem.stock >= 1
    /\ Saved([mem EXCEPT !.made[q] = month, !.rail[q] = rail])
    /\ UNCHANGED <<lock, call, merchant, month, overdue, told, crashes, setup>>

\* The merchant quotes outside the lock; the stock of the gateway becomes at
\* least the quantity of this one quote.
CreateRemoteQuote(q, rail) ==
    /\ lock = None
    /\ setup.plugin
    /\ ~Quoted(mem, q)
    /\ Saved([mem EXCEPT !.made[q] = month, !.rail[q] = rail,
                         !.stock = IF @ >= 1 THEN @ ELSE 1])
    /\ UNCHANGED <<lock, call, merchant, month, overdue, told, crashes, setup>>

(***************************************************************************)
(* Approvals                                                               *)
(***************************************************************************)
\* A named rail is written into the quote before anything else is checked.
WithRail(s, q, rail) == IF rail = None THEN s ELSE [s EXCEPT !.rail[q] = rail]

CreateApproval(a, q, rail) ==
    LET s == WithRail(mem, q, rail)
        e == [s EXCEPT !.stamp[q] = a]
    IN  /\ lock = None
        /\ Quoted(mem, q)
        /\ mem.approval[a].state = "none"
        /\ rail # None => mem.rail[q] \in {None, rail}
        /\ \/ /\ Destination(s, q) = None
              /\ mem' = s
              /\ UNCHANGED disk
           \/ /\ Destination(s, q) # None
              /\ ~Allowed(s, q)
              /\ Saved(e)
           \/ /\ Destination(s, q) # None
              /\ Allowed(s, q)
              /\ Saved([e EXCEPT !.approval[a] =
                          [state |-> "pending", quote |-> q,
                           rail |-> Destination(s, q)]])
        /\ UNCHANGED <<lock, call, merchant, month, overdue, told, crashes, setup>>

\* Faulty variant: a decision replaces an earlier one.
DecideAgain(a, decision) ==
    /\ lock = None
    /\ mem.approval[a].state # "none"
    /\ Saved([mem EXCEPT !.approval[a].state =
                IF a \in overdue THEN "expired" ELSE decision])
    /\ UNCHANGED <<lock, call, merchant, month, overdue, told, crashes, setup>>

DecideApproval(a, decision) ==
    /\ lock = None
    /\ mem.approval[a].state = "pending"
    /\ Saved([mem EXCEPT !.approval[a].state =
                IF a \in overdue THEN "expired" ELSE decision])
    /\ UNCHANGED <<lock, call, merchant, month, overdue, told, crashes, setup>>

\* expire_stale_approvals_locked, which dashboard_state calls and saves.
ExpireStaleApprovals ==
    LET stale == {a \in Approvals : mem.approval[a].state = "pending" /\ a \in overdue}
    IN  /\ lock = None
        /\ stale # {}
        /\ Saved([mem EXCEPT !.approval =
                    [a \in Approvals |->
                        IF a \in stale
                        THEN [mem.approval[a] EXCEPT !.state = "expired"]
                        ELSE mem.approval[a]]])
        /\ UNCHANGED <<lock, call, merchant, month, overdue, told, crashes, setup>>

(***************************************************************************)
(* Checkout, first locked section                                          *)
(***************************************************************************)
\* What a buyer is answered for a key: the order it made, an order that was
\* there, or an error although there is one.
Answer(k, with) == [key |-> k, with |-> with]

\* A key with an order is answered with that order, whatever else was asked.
Replay(t, k) ==
    /\ lock = None
    /\ call[t] = Idle
    /\ Placed(mem, k)
    /\ told' = told \cup {Answer(k, "replay")}
    /\ UNCHANGED <<mem, disk, lock, call, merchant, month, overdue, crashes, setup>>

Enters(t, q, a, k) ==
    /\ lock = None
    /\ call[t] = Idle
    /\ ~Placed(mem, k)
    /\ Quoted(mem, q)
    /\ Ready(mem, q, a)

\* An x402 receipt is paid for without leaving the section.
CheckoutX402(t, q, a, k) ==
    /\ Enters(t, q, a, k)
    /\ Destination(mem, q) = X402
    /\ setup.plugin
    /\ Allowed(mem, q)
    /\ mem.stock >= 1
    /\ lock' = t
    /\ call' = [call EXCEPT ![t] = [at |-> "merchant", quote |-> q, approval |-> a,
                                    key |-> k, by |-> X402, month |-> month]]
    /\ UNCHANGED <<mem, disk, merchant, month, overdue, told, crashes, setup>>

\* Without an Authorization header a challenge follows, with one the payment.
Checkout(t, q, a, k, c) ==
    /\ Enters(t, q, a, k)
    /\ Destination(mem, q) # X402
    /\ call' = [call EXCEPT ![t] =
                  [at |-> IF c = None THEN "challenge" ELSE "pay",
                   quote |-> q, approval |-> a, key |-> k, by |-> c, month |-> 0]]
    /\ UNCHANGED <<mem, disk, lock, merchant, month, overdue, told, crashes, setup>>

Done(t) == call' = [call EXCEPT ![t] = Idle]

CreatePaymentChallenge(t, c) ==
    /\ lock = None
    /\ call[t].at = "challenge"
    /\ mem.challenge[c].state = "none"
    /\ Saved([mem EXCEPT !.challenge[c] =
                [state |-> "open", quote |-> call[t].quote,
                 approval |-> call[t].approval, key |-> call[t].key]])
    /\ Done(t)
    /\ UNCHANGED <<lock, merchant, month, overdue, told, crashes, setup>>

(***************************************************************************)
(* Checkout, second locked section                                         *)
(***************************************************************************)
\* Faulty variant: a used challenge is accepted.
RedeemsUsed(s, r) ==
    LET c == s.challenge[r.by] IN
    /\ c.state # "none"
    /\ r.by \notin overdue
    /\ c.quote = r.quote
    /\ c.approval = r.approval
    /\ setup.keyInBody => c.key = r.key

\* The digest of the body covers the idempotency key only if it is in there.
Redeems(s, r) ==
    LET c == s.challenge[r.by] IN
    /\ c.state = "open"
    /\ r.by \notin overdue
    /\ c.quote = r.quote
    /\ c.approval = r.approval
    /\ setup.keyInBody => c.key = r.key

\* The replay lookup of the first section is not repeated here.  The order has
\* its created_at before the merchant is asked.
BeginPayment(t) ==
    LET r == call[t] IN
    /\ lock = None
    /\ r.at = "pay"
    /\ Redeems(mem, r)
    /\ Ready(mem, r.quote, r.approval)
    /\ Allowed(mem, r.quote)
    /\ mem.stock >= 1
    /\ lock' = t
    /\ call' = [call EXCEPT ![t].at = "merchant", ![t].month = month]
    /\ UNCHANGED <<mem, disk, merchant, month, overdue, told, crashes, setup>>

\* Any of these guards, or a required value proof that cannot be produced.
RefusePayment(t) ==
    /\ lock = None
    /\ call[t].at = "pay"
    /\ Done(t)
    /\ UNCHANGED <<mem, disk, lock, merchant, month, overdue, told, crashes, setup>>

(***************************************************************************)
(* The merchant's order                                                    *)
(***************************************************************************)
\* The body of an x402 order repeats only while the quote is unchanged; any
\* other order names a gateway order id that is new for every attempt.
OrderBody(r) == [key |-> r.key, quote |-> r.quote, approval |-> r.approval,
                 stamp |-> mem.stamp[r.quote], by |-> r.by]

Replayed(r) == r.by = X402 /\ OrderBody(r) \in merchant

Creatable(r) ==
    \/ ~setup.plugin
    \/ \A m \in merchant : m.key # r.key /\ m.quote # r.quote

Unlock(t) == lock' = None /\ Done(t)

MerchantCreatesOrder(t) ==
    /\ call[t].at = "merchant"
    /\ Creatable(call[t])
    /\ merchant' = merchant \cup {OrderBody(call[t])}
    /\ call' = [call EXCEPT ![t].at = "created"]
    /\ UNCHANGED <<mem, disk, lock, month, overdue, told, crashes, setup>>

MerchantReplaysOrder(t) ==
    /\ call[t].at = "merchant"
    /\ setup.plugin
    /\ Replayed(call[t])
    /\ call' = [call EXCEPT ![t].at = "created"]
    /\ UNCHANGED <<mem, disk, lock, merchant, month, overdue, told, crashes, setup>>

MerchantRefuses(t) ==
    /\ call[t].at = "merchant"
    /\ ~Creatable(call[t])
    /\ ~Replayed(call[t])
    /\ Unlock(t)
    /\ UNCHANGED <<mem, disk, merchant, month, overdue, told, crashes, setup>>

\* The merchant fails, or its answer is lost, or it is no verified settlement.
MerchantUnavailable(t) ==
    /\ call[t].at \in {"merchant", "created"}
    /\ Unlock(t)
    /\ UNCHANGED <<mem, disk, merchant, month, overdue, told, crashes, setup>>

(***************************************************************************)
(* The gateway's order                                                     *)
(***************************************************************************)
\* Faulty variant: the unit stays in stock.
WithOrderInStock(s, r) ==
    [s EXCEPT !.orders = Append(@, [key |-> r.key, quote |-> r.quote,
                                    approval |-> r.approval, by |-> r.by,
                                    month |-> r.month,
                                    rail |-> Destination(s, r.quote),
                                    task |-> "open", event |-> "open"])]

WithOrder(s, r) ==
    [s EXCEPT !.stock = @ - 1,
              !.orders = Append(@, [key |-> r.key, quote |-> r.quote,
                                    approval |-> r.approval, by |-> r.by,
                                    month |-> r.month,
                                    rail |-> Destination(s, r.quote),
                                    task |-> "open", event |-> "open"])]

RecordOrder(t) ==
    /\ call[t].at = "created"
    /\ Saved(WithOrder(mem, call[t]))
    /\ call' = [call EXCEPT ![t].at = "recorded"]
    /\ UNCHANGED <<lock, merchant, month, overdue, told, crashes, setup>>

\* sync_vikunja_task: a task of the order, or why there is none.
TaskOutcomes == IF setup.planner THEN {"created", "failed"} ELSE {"skipped"}

\* sync_home_assistant_delivery_event: skipped also without a delivery window.
EventOutcomes ==
    IF setup.planner THEN {"created", "failed", "skipped"} ELSE {"skipped"}

\* Faulty variant: the order is stored before it knows its task.
WithPlansUnsaved(s, task, event) == s

WithPlans(s, task, event) ==
    [s EXCEPT !.orders[Len(s.orders)].task = task,
              !.orders[Len(s.orders)].event = event]

WithUsed(s, r) == IF r.by = X402 THEN s ELSE [s EXCEPT !.challenge[r.by].state = "used"]

\* Task and calendar are synchronized, the challenge is used, the buyer told.
FinishCheckout(t) ==
    /\ call[t].at = "recorded"
    /\ \E task \in TaskOutcomes, event \in EventOutcomes :
          Saved(WithUsed(WithPlans(mem, task, event), call[t]))
    /\ told' = told \cup {Answer(call[t].key, "order")}
    /\ Unlock(t)
    /\ UNCHANGED <<merchant, month, overdue, crashes, setup>>

\* The audit log cannot be written, or the task or the calendar service times out
\* or answers no JSON: only an AgentCartError is caught.  The order is stored, the
\* task of it perhaps, and its challenge remains open.
CheckoutBreaks(t) ==
    /\ call[t].at = "recorded"
    /\ \E task \in {"open"} \cup TaskOutcomes :
          /\ mem' = WithPlans(mem, task, "open")
          /\ disk' \in {disk, mem'}
    /\ told' = told \cup {Answer(call[t].key, "error")}
    /\ Unlock(t)
    /\ UNCHANGED <<merchant, month, overdue, crashes, setup>>

(***************************************************************************)
(* Time and crashes                                                        *)
(***************************************************************************)
MonthPasses ==
    /\ month < setup.months
    /\ month' = month + 1
    /\ UNCHANGED <<mem, disk, lock, call, merchant, overdue, told, crashes, setup>>

QuoteExpires(q) ==
    /\ Quoted(mem, q)
    /\ overdue' = overdue \cup {q}
    /\ UNCHANGED <<mem, disk, lock, call, merchant, month, told, crashes, setup>>

\* The expiry of an approval is read only while it is pending, that of a
\* challenge only while it is open.
ApprovalExpires(a) ==
    /\ mem.approval[a].state = "pending"
    /\ overdue' = overdue \cup {a}
    /\ UNCHANGED <<mem, disk, lock, call, merchant, month, told, crashes, setup>>

ChallengeExpires(c) ==
    /\ mem.challenge[c].state = "open"
    /\ overdue' = overdue \cup {c}
    /\ UNCHANGED <<mem, disk, lock, call, merchant, month, told, crashes, setup>>

Crash ==
    /\ crashes < setup.crashes
    /\ crashes' = crashes + 1
    /\ mem' = disk
    /\ lock' = None
    /\ call' = [t \in Threads |-> Idle]
    /\ UNCHANGED <<disk, merchant, month, overdue, told, setup>>

Next ==
    \/ \E q \in Quotes, rail \in AskedRails \cup {None} :
          CreateQuote(q, rail) \/ CreateRemoteQuote(q, rail)
    \/ \E a \in Approvals, q \in Quotes, rail \in AskedRails \cup {None} :
          CreateApproval(a, q, rail)
    \/ \E a \in Approvals, d \in {"approved", "rejected"} : DecideApproval(a, d)
    \/ ExpireStaleApprovals
    \/ \E t \in Threads, k \in Keys : Replay(t, k)
    \/ \E t \in Threads, q \in Quotes, a \in Approvals, k \in Keys :
          \/ CheckoutX402(t, q, a, k)
          \/ \E c \in Challenges \cup {None} : Checkout(t, q, a, k, c)
    \/ \E t \in Threads, c \in Challenges : CreatePaymentChallenge(t, c)
    \/ \E t \in Threads :
          \/ BeginPayment(t) \/ RefusePayment(t)
          \/ MerchantCreatesOrder(t) \/ MerchantReplaysOrder(t)
          \/ MerchantRefuses(t) \/ MerchantUnavailable(t)
          \/ RecordOrder(t) \/ FinishCheckout(t) \/ CheckoutBreaks(t)
    \/ MonthPasses
    \/ \E q \in Quotes : QuoteExpires(q)
    \/ \E a \in Approvals : ApprovalExpires(a)
    \/ \E c \in Challenges : ChallengeExpires(c)
    \/ Crash

Spec == Init /\ [][Next]_vars

(***************************************************************************)
(* Types                                                                   *)
(***************************************************************************)
RailOrNone == Rails \cup AskedRails \cup {None, "provider"}

ApprovalRecord ==
    [state : {"none", "pending", "approved", "rejected", "expired"},
     quote : Quotes \cup {None}, rail : RailOrNone]

ChallengeRecord ==
    [state : {"none", "open", "used"}, quote : Quotes \cup {None},
     approval : Approvals \cup {None}, key : Keys \cup {None}]

Outcome == {"open", "created", "failed", "skipped"}

OrderRecord == [key : Keys, quote : Quotes, approval : Approvals,
                by : Challenges \cup {X402}, month : Nat, rail : RailOrNone,
                task : Outcome, event : Outcome]

ServiceState ==
    [made : [Quotes -> Nat], rail : [Quotes -> RailOrNone],
     stamp : [Quotes -> Approvals \cup {None}],
     approval : [Approvals -> ApprovalRecord],
     challenge : [Challenges -> ChallengeRecord],
     stock : Nat, orders : Seq(OrderRecord)]

Call == [at : {"idle", "challenge", "pay", "merchant", "created", "recorded"},
         quote : Quotes \cup {None}, approval : Approvals \cup {None},
         key : Keys \cup {None}, by : Challenges \cup {None, X402}, month : Nat]

\* Every field has its type; the stock never goes below zero.
TypeOK ==
    /\ setup \in Setups
    /\ mem \in ServiceState
    /\ disk \in ServiceState
    /\ lock \in Threads \cup {None}
    /\ call \in [Threads -> Call]
    /\ overdue \subseteq Quotes \cup Approvals \cup Challenges
    /\ month \in 1 .. setup.months
    /\ told \subseteq [key : Keys, with : {"order", "replay", "error"}]
    /\ crashes \in 0 .. setup.crashes

(***************************************************************************)
(* What the household relies on, read off the state file                   *)
(***************************************************************************)
Household == INSTANCE Purchases
    WITH Budgets  <- {s.budget : s \in Setups},
         NoQuote  <- None,
         budget   <- setup.budget,
         made     <- disk.made,
         decision <- [a \in Approvals |-> disk.approval[a].state],
         about    <- [a \in Approvals |-> disk.approval[a].quote],
         bought   <- [i \in 1 .. Len(disk.orders) |->
                        [approval |-> disk.orders[i].approval,
                         quote    |-> disk.orders[i].quote,
                         month    |-> disk.orders[i].month]]

\* The gateway implements Purchases: threads, the lock, failures and crashes
\* never show an order without a final approval of its quote, or one that the
\* budget of its quote's month did not pay for, and never take a decision or an
\* order back.
ImplementsPurchases == Household!Spec

(***************************************************************************)
(* Properties                                                              *)
(***************************************************************************)
\* An order of a month that was quoted in that month keeps that month's orders
\* within the household's budget, although any number of quotes is approved while
\* each of them alone still fits, and older quotes are paid in between: the policy
\* is evaluated again at checkout, and the lock is held until the order is stored
\* (checkout, create_order_locked).  A quote of an earlier month is compared with
\* that month's orders only, and may exceed the budget of the month it is paid in.
\* Nor are a plain store's units sold twice, though no quote reserves one.
WithinLimits ==
    /\ \A i \in 1 .. Len(mem.orders) :
          mem.orders[i].month = mem.made[mem.orders[i].quote] =>
              Cardinality({j \in 1 .. i : mem.orders[j].month = mem.orders[i].month})
                  <= setup.budget
    /\ ~setup.plugin => Len(mem.orders) <= setup.stock

\* The request of this order ended in an error after the order was stored.
Broke(o) == o.event = "open" /\ Answer(o.key, "error") \in told

\* One payment challenge pays for one order, across concurrent requests and a
\* crash before the challenge is marked used - unless the request of the earlier
\* order failed after the order was stored; then it pays for the same key again.
ChallengePaysOnce ==
    setup.keyInBody =>
        \A i, j \in 1 .. Len(mem.orders) :
            i < j /\ mem.orders[i].by = mem.orders[j].by /\ mem.orders[i].by # X402 =>
                mem.orders[i].key = mem.orders[j].key /\ Broke(mem.orders[i])

\* What an x402 order is paid on is what its approval bound, although the quote
\* may have been given another rail after the approval was decided.
X402PaidAsApproved ==
    \A i \in 1 .. Len(mem.orders) :
        LET o == mem.orders[i] IN
        o.rail = X402 => /\ mem.approval[o.approval].rail = X402
                         /\ mem.approval[o.approval].quote = o.quote

\* Every order has a payment of its own: a challenge pays for one order, but for
\* requests that break, and an order on x402 is paid on what was approved for it
\* (create_order_locked).
PaymentsAreTheOrders == ChallengePaysOnce /\ X402PaidAsApproved

\* A buyer that was answered with an order finds it after any crash, and one that
\* was answered with its new order finds what became of its task and its calendar
\* event as well (create_order_locked saves before the answer).
AnsweredIsDurable ==
    /\ \A r \in told : \E i \in 1 .. Len(disk.orders) : disk.orders[i].key = r.key
    /\ \A r \in told :
          r.with = "order" =>
              \E i \in 1 .. Len(disk.orders) :
                 /\ disk.orders[i].key = r.key
                 /\ disk.orders[i].task # "open" /\ disk.orders[i].event # "open"
=============================================================================
