---------------------------- MODULE GatewayProofs ----------------------------
(***************************************************************************)
(* Theorems about Gateway, for every set of threads, quotes, approvals,    *)
(* challenges and keys, every setup, any number of crashes and of months:  *)
(* the state is well-formed, the budget and the stock hold, a challenge    *)
(* pays for one order, an answered order is durable, and the gateway       *)
(* implements Purchases.  The last part is about QuoteTournament: in every *)
(* market, a tournament is fair.                                           *)
(***************************************************************************)
EXTENDS Gateway, QuoteTournament, FiniteSetTheorems, SequenceTheorems,
        WellFoundedInduction, TLAPS

USE SetupsAreSetups, NoneIsNobody

(***************************************************************************)
(* The state record                                                        *)
(***************************************************************************)

\* What a setup is.
LEMMA SetupFacts ==
    ASSUME setup \in Setups
    PROVE  /\ setup.plugin \in BOOLEAN /\ setup.keyInBody \in BOOLEAN
           /\ setup.planner \in BOOLEAN
           /\ setup.offered \in Seq(STRING)
           /\ setup.stock \in Nat /\ setup.budget \in Nat /\ setup.budget > 0
           /\ setup.crashes \in Nat /\ setup.months \in Nat /\ setup.months > 0
OBVIOUS

\* Replacing one field of the state by a value of its type gives a state.
LEMMA StateUpdates ==
    ASSUME NEW s \in ServiceState
    PROVE  /\ \A q \in Quotes, n \in Nat : [s EXCEPT !.made[q] = n] \in ServiceState
           /\ \A q \in Quotes, r \in RailOrNone : [s EXCEPT !.rail[q] = r] \in ServiceState
           /\ \A q \in Quotes, a \in Approvals :
                 [s EXCEPT !.stamp[q] = a] \in ServiceState
           /\ \A a \in Approvals, e \in ApprovalRecord :
                 [s EXCEPT !.approval[a] = e] \in ServiceState
           /\ \A f \in [Approvals -> ApprovalRecord] :
                 [s EXCEPT !.approval = f] \in ServiceState
           /\ \A c \in Challenges, e \in ChallengeRecord :
                 [s EXCEPT !.challenge[c] = e] \in ServiceState
           /\ \A n \in Nat : [s EXCEPT !.stock = n] \in ServiceState
           /\ \A o \in Seq(OrderRecord) : [s EXCEPT !.orders = o] \in ServiceState
<1>1. \A q \in Quotes, n \in Nat : [s EXCEPT !.made[q] = n] \in ServiceState
  BY DEF ServiceState
<1>2. \A q \in Quotes, r \in RailOrNone : [s EXCEPT !.rail[q] = r] \in ServiceState
  BY DEF ServiceState
<1>3. \A q \in Quotes, a \in Approvals : [s EXCEPT !.stamp[q] = a] \in ServiceState
  BY DEF ServiceState
<1>4. \A a \in Approvals, e \in ApprovalRecord :
         [s EXCEPT !.approval[a] = e] \in ServiceState
  BY DEF ServiceState
<1>5. \A f \in [Approvals -> ApprovalRecord] : [s EXCEPT !.approval = f] \in ServiceState
  BY DEF ServiceState
<1>6. \A c \in Challenges, e \in ChallengeRecord :
         [s EXCEPT !.challenge[c] = e] \in ServiceState
  BY DEF ServiceState
<1>7. \A n \in Nat : [s EXCEPT !.stock = n] \in ServiceState
  BY DEF ServiceState
<1>8. \A o \in Seq(OrderRecord) : [s EXCEPT !.orders = o] \in ServiceState
  BY DEF ServiceState
<1>. QED
  BY <1>1, <1>2, <1>3, <1>4, <1>5, <1>6, <1>7, <1>8

\* The rail a quote is paid on is one it may have, or None.
LEMMA DestinationType ==
    ASSUME setup \in Setups, NEW s \in ServiceState, NEW q \in Quotes
    PROVE  Destination(s, q) \in RailOrNone
<1>1. s.rail[q] \in RailOrNone
  BY DEF ServiceState
<1>2. ASSUME setup.offered # <<>>
      PROVE  setup.offered[1] \in Rails
  BY <1>2, SetupFacts DEF Rails
<1>. QED
  BY <1>1, <1>2 DEF Destination, RailOrNone

\* A request may name any asked rail, or none.
LEMMA AskedType == AskedRails \cup {None} \subseteq RailOrNone
BY DEF RailOrNone

(***************************************************************************)
(* The inductive invariant                                                 *)
(***************************************************************************)
Inside == {"merchant", "created", "recorded"}

\* A thread at work knows what it buys; one inside the locked merchant call is
\* the owner of the lock.
AtWork ==
    \A t \in Threads :
        /\ call[t].at # "idle" => /\ call[t].quote \in Quotes
                                  /\ call[t].approval \in Approvals
                                  /\ call[t].key \in Keys
        /\ call[t].at = "pay" => call[t].by \in Challenges
        /\ call[t].at \in Inside => call[t].by \in Challenges \cup {X402} /\ lock = t

\* An order is the same but for what became of its task and its event.
SamePurchase(o, p) ==
    /\ o.key = p.key /\ o.quote = p.quote /\ o.approval = p.approval
    /\ o.by = p.by /\ o.rail = p.rail /\ o.month = p.month

\* The file has the memory, but for rails that a refused approval left behind and
\* the tasks of orders whose request broke.
Mirrored ==
    /\ mem.made = disk.made /\ mem.stamp = disk.stamp
    /\ mem.approval = disk.approval /\ mem.challenge = disk.challenge
    /\ mem.stock = disk.stock /\ Len(mem.orders) = Len(disk.orders)
    /\ \A i \in 1 .. Len(mem.orders) :
          /\ SamePurchase(mem.orders[i], disk.orders[i])
          /\ mem.orders[i].event = disk.orders[i].event
          /\ mem.orders[i].event # "open" => mem.orders[i].task = disk.orders[i].task

\* What is bought was quoted, no later than it is bought, and nothing is dated
\* ahead.
Dated ==
    /\ \A t \in Threads : call[t].at # "idle" => Quoted(mem, call[t].quote)
    /\ \A i \in 1 .. Len(mem.orders) : Quoted(mem, mem.orders[i].quote)
    /\ \A q \in Quotes : mem.made[q] <= month
    /\ \A t \in Threads : call[t].at \in Inside =>
          mem.made[call[t].quote] <= call[t].month /\ call[t].month <= month

\* The approval is a final one of that quote, and binds x402 where it is paid on.
Covers(a, q, rail) ==
    /\ mem.approval[a].state = "approved"
    /\ mem.approval[a].quote = q
    /\ rail = X402 => mem.approval[a].rail = X402

\* What the second section saw is so until the order is stored.
VettedCall(r) ==
    /\ Allowed(mem, r.quote) /\ mem.stock >= 1
    /\ Covers(r.approval, r.quote, Destination(mem, r.quote))
    /\ setup.keyInBody /\ r.by # X402 =>
          /\ mem.challenge[r.by].state = "open"
          /\ mem.challenge[r.by].key = r.key
          /\ \A i \in 1 .. Len(mem.orders) :
                mem.orders[i].by = r.by => Broke(mem.orders[i])

Vetted == \A t \in Threads : call[t].at \in {"merchant", "created"} => VettedCall(call[t])

\* Every order is covered by its approval.
Covered ==
    \A i \in 1 .. Len(mem.orders) :
        Covers(mem.orders[i].approval, mem.orders[i].quote, mem.orders[i].rail)

\* A plain store's units are sold or in stock.
UnitsKept == ~setup.plugin => mem.stock + Len(mem.orders) <= setup.stock

\* A challenge that was paid with is used, or its request is about to mark it,
\* or broke, or that request died: then no request that could pay with it again
\* has its key, and a new one with that key is answered with the order.
Unspendable(o) ==
    \/ mem.challenge[o.by].state = "used"
    \/ \E t \in Threads : call[t].at = "recorded" /\ call[t].by = o.by
    \/ Broke(o)
    \/ \A t \in Threads : call[t].at = "pay" /\ call[t].by = o.by => call[t].key # o.key

PaidOnce ==
    setup.keyInBody =>
        \A i \in 1 .. Len(mem.orders) : mem.orders[i].by # X402 =>
            /\ mem.challenge[mem.orders[i].by].state # "none"
            /\ mem.challenge[mem.orders[i].by].key = mem.orders[i].key
            /\ Unspendable(mem.orders[i])
            /\ \A j \in 1 .. Len(mem.orders) :
                  i < j /\ mem.orders[j].by = mem.orders[i].by => Broke(mem.orders[i])

\* The thread that has stored its order stored the last one.
LastIsMine ==
    \A t \in Threads : call[t].at = "recorded" =>
        /\ Len(mem.orders) >= 1
        /\ mem.orders[Len(mem.orders)].key = call[t].key
        /\ mem.orders[Len(mem.orders)].by = call[t].by
        /\ mem.orders[Len(mem.orders)].event = "open"

IInv ==
    /\ TypeOK /\ AtWork /\ Mirrored /\ Dated /\ Vetted /\ Covered /\ UnitsKept
    /\ PaidOnce /\ LastIsMine /\ WithinLimits /\ AnsweredIsDurable

(***************************************************************************)
(* Types                                                                   *)
(***************************************************************************)

\* The setup is chosen once, and with it what the types depend on.
LEMMA SetupIsKept ==
    ASSUME [Next]_vars
    PROVE  setup' = setup
BY DEF Next, vars, CreateQuote, CreateRemoteQuote, CreateApproval, DecideApproval,
       ExpireStaleApprovals, Replay, CheckoutX402, Checkout, CreatePaymentChallenge,
       BeginPayment, RefusePayment, MerchantCreatesOrder, MerchantReplaysOrder,
       MerchantRefuses, MerchantUnavailable, RecordOrder, FinishCheckout,
       CheckoutBreaks, MonthPasses, QuoteExpires, ApprovalExpires, ChallengeExpires, Crash

LEMMA TypesAreKept ==
    ASSUME setup' = setup
    PROVE  ServiceState' = ServiceState
BY DEF ServiceState, ApprovalRecord, ChallengeRecord, OrderRecord, RailOrNone, Rails

\* An approval that is decided or expires, a challenge that is used.
LEMMA RecordUpdates ==
    /\ \A r \in ApprovalRecord, e \in {"approved", "rejected", "expired"} :
          [r EXCEPT !.state = e] \in ApprovalRecord
    /\ \A r \in ChallengeRecord : [r EXCEPT !.state = "used"] \in ChallengeRecord
BY DEF ApprovalRecord, ChallengeRecord

\* A thread goes to a place with the quote, approval, key and challenge it has.
LEMMA CallUpdates ==
    ASSUME call \in [Threads -> Call], NEW t \in Threads
    PROVE  /\ [call EXCEPT ![t] = Idle] \in [Threads -> Call]
           /\ \A at \in {"merchant", "created", "recorded"} :
                 [call EXCEPT ![t].at = at] \in [Threads -> Call]
           /\ \A r \in Call : [call EXCEPT ![t] = r] \in [Threads -> Call]
<1>1. Idle \in Call
  BY DEF Idle, Call
<1>2. \A at \in {"merchant", "created", "recorded"} : [call[t] EXCEPT !.at = at] \in Call
  BY DEF Call
<1>. QED
  BY <1>1, <1>2

\* The steps that prepare a purchase: they take the lock for themselves, and
\* leave the orders and the threads alone.
Prepares ==
    \/ \E q \in Quotes, rail \in AskedRails \cup {None} :
          CreateQuote(q, rail) \/ CreateRemoteQuote(q, rail)
    \/ \E a \in Approvals, q \in Quotes, rail \in AskedRails \cup {None} :
          CreateApproval(a, q, rail)
    \/ \E a \in Approvals, d \in {"approved", "rejected"} : DecideApproval(a, d)
    \/ ExpireStaleApprovals

\* What a thread does in its checkout.
Enter(t) ==
    \E q \in Quotes, a \in Approvals, k \in Keys :
        \/ CheckoutX402(t, q, a, k)
        \/ \E c \in Challenges \cup {None} : Checkout(t, q, a, k, c)
GoOn(t) == MerchantCreatesOrder(t) \/ MerchantReplaysOrder(t) \/ RecordOrder(t)
Close(t) == FinishCheckout(t) \/ CheckoutBreaks(t)
Leave(t) == MerchantRefuses(t) \/ MerchantUnavailable(t) \/ Close(t)
Return(t) == RefusePayment(t) \/ \E c \in Challenges : CreatePaymentChallenge(t, c)

\* The steps that change neither the memory nor the file.
Quiet ==
    /\ UNCHANGED <<mem, disk, crashes>>
    /\ \/ UNCHANGED <<call, lock>>
       \/ \E t \in Threads :
             \/ Enter(t) \/ BeginPayment(t) \/ RefusePayment(t)
             \/ MerchantCreatesOrder(t) \/ MerchantReplaysOrder(t)
             \/ MerchantRefuses(t) \/ MerchantUnavailable(t)

\* Every other step but a crash makes a challenge or stores an order.
LEMMA StepKinds ==
    ASSUME [Next]_vars
    PROVE  \/ Prepares \/ Quiet \/ Crash
           \/ \E t \in Threads, c \in Challenges : CreatePaymentChallenge(t, c)
           \/ \E t \in Threads : RecordOrder(t) \/ Close(t)
<1>1. CASE \/ \E t \in Threads, k \in Keys : Replay(t, k)
           \/ MonthPasses
           \/ \E q \in Quotes : QuoteExpires(q)
           \/ \E a \in Approvals : ApprovalExpires(a)
           \/ \E c \in Challenges : ChallengeExpires(c)
           \/ UNCHANGED vars
  BY <1>1 DEF Quiet, Replay, MonthPasses, QuoteExpires, ApprovalExpires,
              ChallengeExpires, vars
<1>2. ASSUME NEW t \in Threads,
             \/ Enter(t) \/ BeginPayment(t) \/ RefusePayment(t)
             \/ MerchantCreatesOrder(t) \/ MerchantReplaysOrder(t)
             \/ MerchantRefuses(t) \/ MerchantUnavailable(t)
      PROVE  Quiet
  <2>1. UNCHANGED <<mem, disk, crashes>>
    BY <1>2 DEF Enter, CheckoutX402, Checkout, BeginPayment, RefusePayment,
                MerchantCreatesOrder, MerchantReplaysOrder, MerchantRefuses,
                MerchantUnavailable
  <2>. QED
    BY <1>2, <2>1 DEF Quiet
<1>. QED
  BY <1>1, <1>2 DEF Next, Prepares, Enter, Close

\* What the quotes and approvals leave well-formed.
LEMMA PreparingKeepsTypes ==
    ASSUME TypeOK, Prepares
    PROVE  mem' \in ServiceState /\ disk' \in ServiceState
<1>. USE DEF Saved
<1>0. /\ mem \in ServiceState /\ disk \in ServiceState /\ setup \in Setups
      /\ month \in Nat
  BY DEF TypeOK
<1>1. ASSUME NEW q \in Quotes, NEW rail \in AskedRails \cup {None}, CreateQuote(q, rail)
      PROVE  mem' \in ServiceState /\ disk' \in ServiceState
  <2>1. [mem EXCEPT !.made[q] = month] \in ServiceState
    BY <1>0, StateUpdates
  <2>2. [[mem EXCEPT !.made[q] = month] EXCEPT !.rail[q] = rail] \in ServiceState
    BY <2>1, StateUpdates, AskedType
  <2>3. mem' = [[mem EXCEPT !.made[q] = month] EXCEPT !.rail[q] = rail]
    BY <1>1 DEF CreateQuote
  <2>. QED
    BY <1>1, <2>2, <2>3 DEF CreateQuote
<1>2. ASSUME NEW q \in Quotes, NEW rail \in AskedRails \cup {None},
             CreateRemoteQuote(q, rail)
      PROVE  mem' \in ServiceState /\ disk' \in ServiceState
  <2>1. [mem EXCEPT !.made[q] = month] \in ServiceState
    BY <1>0, StateUpdates
  <2>2. [[mem EXCEPT !.made[q] = month] EXCEPT !.rail[q] = rail] \in ServiceState
    BY <2>1, StateUpdates, AskedType
  <2>3. PICK n \in Nat :
           mem' = [[[mem EXCEPT !.made[q] = month] EXCEPT !.rail[q] = rail]
                    EXCEPT !.stock = n]
    BY <1>0, <1>2 DEF CreateRemoteQuote, ServiceState
  <2>4. disk' = mem'
    BY <1>2 DEF CreateRemoteQuote
  <2>. QED
    BY <2>2, <2>3, <2>4, StateUpdates
<1>3. ASSUME NEW a \in Approvals, NEW q \in Quotes, NEW rail \in AskedRails \cup {None},
             CreateApproval(a, q, rail)
      PROVE  mem' \in ServiceState /\ disk' \in ServiceState
  <2>. DEFINE s == WithRail(mem, q, rail)
              e == [s EXCEPT !.stamp[q] = a]
              r == [state |-> "pending", quote |-> q, rail |-> Destination(s, q)]
  <2>1. s \in ServiceState
    BY <1>0, StateUpdates, AskedType DEF WithRail
  <2>2. e \in ServiceState
    BY <2>1, StateUpdates
  <2>3. r \in ApprovalRecord
    BY <1>0, <2>1, DestinationType DEF ApprovalRecord
  <2>4. [e EXCEPT !.approval[a] = r] \in ServiceState
    BY <2>2, <2>3, StateUpdates
  <2>5. \/ mem' = s /\ disk' = disk
        \/ mem' = e /\ disk' = e
        \/ mem' = [e EXCEPT !.approval[a] = r] /\ disk' = mem'
    BY <1>3 DEF CreateApproval
  <2>. QED
    BY <1>0, <2>1, <2>2, <2>4, <2>5
<1>4. ASSUME NEW a \in Approvals, NEW d \in {"approved", "rejected"}, DecideApproval(a, d)
      PROVE  mem' \in ServiceState /\ disk' \in ServiceState
  <2>1. PICK e \in {"approved", "rejected", "expired"} :
           mem' = [mem EXCEPT !.approval[a].state = e] /\ disk' = mem'
    BY <1>4 DEF DecideApproval
  <2>2. [mem.approval[a] EXCEPT !.state = e] \in ApprovalRecord
    <3>1. mem.approval[a] \in ApprovalRecord
      BY <1>0 DEF ServiceState
    <3>. QED
      BY <3>1, RecordUpdates
  <2>3. mem' = [mem EXCEPT !.approval[a] = [mem.approval[a] EXCEPT !.state = e]]
    BY <2>1
  <2>. QED
    BY <1>0, <2>1, <2>2, <2>3, StateUpdates
<1>5. CASE ExpireStaleApprovals
  <2>1. PICK f :
           /\ f = [x \in Approvals |->
                     IF mem.approval[x].state = "pending" /\ x \in overdue
                     THEN [mem.approval[x] EXCEPT !.state = "expired"]
                     ELSE mem.approval[x]]
           /\ mem' = [mem EXCEPT !.approval = f] /\ disk' = mem'
    BY <1>5 DEF ExpireStaleApprovals
  <2>2. f \in [Approvals -> ApprovalRecord]
    <3>1. \A x \in Approvals : mem.approval[x] \in ApprovalRecord
      BY <1>0 DEF ServiceState
    <3>. QED
      BY <2>1, <3>1, RecordUpdates
  <2>. QED
    BY <1>0, <2>1, <2>2, StateUpdates
<1>. QED
  BY <1>1, <1>2, <1>3, <1>4, <1>5 DEF Prepares

\* A challenge is well-formed.
LEMMA ChallengingKeepsTypes ==
    ASSUME TypeOK, AtWork, NEW t \in Threads, NEW c \in Challenges,
           CreatePaymentChallenge(t, c)
    PROVE  mem' \in ServiceState /\ disk' \in ServiceState
<1>. DEFINE r == [state |-> "open", quote |-> call[t].quote,
                  approval |-> call[t].approval, key |-> call[t].key]
<1>1. r \in ChallengeRecord
  BY DEF CreatePaymentChallenge, AtWork, ChallengeRecord
<1>2. mem' = [mem EXCEPT !.challenge[c] = r] /\ disk' = mem'
  BY DEF CreatePaymentChallenge, Saved
<1>. QED
  BY <1>1, <1>2, StateUpdates DEF TypeOK

\* An order, and what became of it, are well-formed.
LEMMA OrderingKeepsTypes ==
    ASSUME TypeOK, AtWork, Vetted, LastIsMine, NEW t \in Threads,
           RecordOrder(t) \/ Close(t)
    PROVE  mem' \in ServiceState /\ disk' \in ServiceState
<1>. USE DEF Saved
<1>0. /\ mem \in ServiceState /\ disk \in ServiceState /\ setup \in Setups
      /\ mem.stock \in Nat /\ mem.orders \in Seq(OrderRecord)
      /\ mem.challenge \in [Challenges -> ChallengeRecord]
  BY DEF TypeOK, ServiceState
<1>2. CASE RecordOrder(t)
  <2>. DEFINE o == [key |-> call[t].key, quote |-> call[t].quote,
                    approval |-> call[t].approval, by |-> call[t].by,
                    month |-> call[t].month,
                    rail |-> Destination(mem, call[t].quote),
                    task |-> "open", event |-> "open"]
  <2>1. /\ call[t].key \in Keys /\ call[t].quote \in Quotes
        /\ call[t].approval \in Approvals /\ call[t].by \in Challenges \cup {X402}
        /\ mem.stock - 1 \in Nat /\ call[t].month \in Nat
    BY <1>0, <1>2 DEF RecordOrder, AtWork, Inside, Vetted, VettedCall, TypeOK, Call
  <2>2. Destination(mem, call[t].quote) \in RailOrNone
    BY <1>0, <2>1, DestinationType
  <2>3. o \in OrderRecord
    BY <2>1, <2>2 DEF OrderRecord, Outcome
  <2>4. Append(mem.orders, o) \in Seq(OrderRecord)
    BY <1>0, <2>3
  <2>5. [mem EXCEPT !.stock = mem.stock - 1] \in ServiceState
    BY <1>0, <2>1, StateUpdates
  <2>6. [[mem EXCEPT !.stock = mem.stock - 1] EXCEPT !.orders = Append(mem.orders, o)]
           \in ServiceState
    BY <2>4, <2>5, StateUpdates
  <2>7. mem' = [[mem EXCEPT !.stock = mem.stock - 1] EXCEPT !.orders = Append(mem.orders, o)]
        /\ disk' = mem'
    BY <1>0, <1>2 DEF RecordOrder, WithOrder, ServiceState
  <2>. QED
    BY <2>6, <2>7
<1>3. CASE Close(t)
  <2>. DEFINE n == Len(mem.orders)
  <2>1. PICK task \in {"open"} \cup TaskOutcomes, event \in {"open"} \cup EventOutcomes :
           /\ \/ mem' = WithUsed(WithPlans(mem, task, event), call[t])
              \/ mem' = WithPlans(mem, task, event)
           /\ disk' \in {disk, mem'} /\ call[t].at = "recorded"
    BY <1>3 DEF Close, FinishCheckout, CheckoutBreaks
  <2>2. n \in 1 .. Len(mem.orders) /\ mem.orders[n] \in OrderRecord
    BY <1>0, <2>1 DEF LastIsMine
  <2>3. task \in Outcome /\ event \in Outcome
    BY DEF TaskOutcomes, EventOutcomes, Outcome
  <2>. DEFINE o == [[mem.orders[n] EXCEPT !.task = task] EXCEPT !.event = event]
              orders == [mem.orders EXCEPT ![n] = o]
  <2>4. o \in OrderRecord
    BY <2>2, <2>3 DEF OrderRecord
  <2>5. orders \in Seq(OrderRecord)
    BY <1>0, <2>2, <2>4
  <2>6. [mem EXCEPT !.orders = orders] \in ServiceState
    BY <1>0, <2>5, StateUpdates
  <2>7. WithPlans(mem, task, event) = [mem EXCEPT !.orders = orders]
    BY <1>0, <2>2 DEF WithPlans, ServiceState
  <2>8. call[t].by # X402 =>
           /\ call[t].by \in Challenges
           /\ [mem.challenge[call[t].by] EXCEPT !.state = "used"] \in ChallengeRecord
    BY <1>0, <2>1, RecordUpdates DEF AtWork, Inside
  <2>9. mem' \in ServiceState
    <3>. DEFINE w == [mem EXCEPT !.orders = orders]
    <3>1. w.challenge = mem.challenge
      BY <1>0 DEF ServiceState
    <3>2. CASE mem' = w
      BY <2>6, <3>2
    <3>3. CASE mem' = [w EXCEPT !.challenge[call[t].by].state = "used"] /\ call[t].by # X402
      <4>1. mem' = [w EXCEPT !.challenge[call[t].by] =
                       [mem.challenge[call[t].by] EXCEPT !.state = "used"]]
        BY <3>1, <3>3
      <4>. QED
        <5>1. w \in ServiceState
          BY <2>6
        <5>. HIDE DEF w
        <5>. QED
          BY <2>8, <3>3, <4>1, <5>1, StateUpdates
    <3>. QED
      BY <2>1, <2>7, <3>2, <3>3 DEF WithUsed
  <2>. QED
    BY <1>0, <2>1, <2>9
<1>. QED
  BY <1>2, <1>3

\* No step leaves the types.
LEMMA TypeStep ==
    ASSUME TypeOK, AtWork, Vetted, LastIsMine, [Next]_vars
    PROVE  TypeOK'
<1>0. /\ setup' = setup /\ ServiceState' = ServiceState
      /\ setup \in Setups /\ mem \in ServiceState /\ disk \in ServiceState
      /\ call \in [Threads -> Call] /\ crashes \in 0 .. setup.crashes
      /\ told \subseteq [key : Keys, with : {"order", "replay", "error"}]
      /\ overdue \subseteq Quotes \cup Approvals \cup Challenges
      /\ month \in 1 .. setup.months
      /\ lock \in Threads \cup {None}
  BY SetupIsKept, TypesAreKept DEF TypeOK
<1>1. /\ mem' \in ServiceState /\ disk' \in ServiceState
  <2>1. CASE Quiet \/ Crash
    BY <1>0, <2>1 DEF Quiet, Crash
  <2>2. CASE Prepares
    BY <2>2, PreparingKeepsTypes
  <2>3. ASSUME NEW t \in Threads, NEW c \in Challenges, CreatePaymentChallenge(t, c)
        PROVE  mem' \in ServiceState /\ disk' \in ServiceState
    BY <2>3, <1>0, ChallengingKeepsTypes
  <2>4. ASSUME NEW t \in Threads, RecordOrder(t) \/ Close(t)
        PROVE  mem' \in ServiceState /\ disk' \in ServiceState
    BY <2>4, <1>0, OrderingKeepsTypes
  <2>. QED
    BY <2>1, <2>2, <2>3, <2>4, StepKinds
<1>2. call' \in [Threads -> Call] /\ lock' \in Threads \cup {None}
  <2>1. CASE UNCHANGED <<call, lock>>
    BY <1>0, <2>1
  <2>2. ASSUME NEW t \in Threads, NEW q \in Quotes, NEW a \in Approvals, NEW k \in Keys,
               \/ CheckoutX402(t, q, a, k)
               \/ \E c \in Challenges \cup {None} : Checkout(t, q, a, k, c)
        PROVE  call' \in [Threads -> Call] /\ lock' \in Threads \cup {None}
    <3>1. PICK r \in Call : call' = [call EXCEPT ![t] = r]
      <4>1. \A by \in Challenges \cup {None, X402}, at \in {"merchant", "challenge", "pay"} :
               \A m \in {0, month} :
                  [at |-> at, quote |-> q, approval |-> a, key |-> k, by |-> by,
                   month |-> m] \in Call
        BY <1>0 DEF Call
      <4>. QED
        BY <2>2, <4>1 DEF CheckoutX402, Checkout
    <3>2. lock' \in {lock, t}
      BY <2>2 DEF CheckoutX402, Checkout
    <3>. QED
      BY <1>0, <3>1, <3>2, CallUpdates
  <2>3. ASSUME NEW t \in Threads,
               \/ \E c \in Challenges : CreatePaymentChallenge(t, c)
               \/ RefusePayment(t)
               \/ MerchantCreatesOrder(t) \/ MerchantReplaysOrder(t)
               \/ MerchantRefuses(t) \/ MerchantUnavailable(t)
               \/ RecordOrder(t) \/ Close(t)
        PROVE  call' \in [Threads -> Call] /\ lock' \in Threads \cup {None}
    <3>1. \/ Done(t)
          \/ \E at \in {"merchant", "created", "recorded"} :
                call' = [call EXCEPT ![t].at = at]
      BY <2>3 DEF CreatePaymentChallenge, RefusePayment,
                  MerchantCreatesOrder, MerchantReplaysOrder, MerchantRefuses,
                  MerchantUnavailable, RecordOrder, Close, FinishCheckout,
                  CheckoutBreaks, Unlock
    <3>2. lock' \in {lock, t, None}
      BY <2>3 DEF CreatePaymentChallenge, RefusePayment,
                  MerchantCreatesOrder, MerchantReplaysOrder, MerchantRefuses,
                  MerchantUnavailable, RecordOrder, Close, FinishCheckout,
                  CheckoutBreaks, Unlock
    <3>3. CASE Done(t)
      BY <1>0, <3>2, <3>3, CallUpdates DEF Done
    <3>4. ASSUME NEW at \in {"merchant", "created", "recorded"},
                 call' = [call EXCEPT ![t].at = at]
          PROVE  call' \in [Threads -> Call]
      BY <1>0, <3>4, CallUpdates
    <3>. QED
      BY <1>0, <3>1, <3>2, <3>3, <3>4
  <2>4. CASE Crash
    BY <2>4 DEF Crash, Idle, Call
  <2>5. ASSUME NEW t \in Threads, BeginPayment(t)
        PROVE  call' \in [Threads -> Call] /\ lock' \in Threads \cup {None}
    <3>1. /\ lock' = t
          /\ call' = [call EXCEPT ![t] = [[call[t] EXCEPT !.at = "merchant"]
                                             EXCEPT !.month = month]]
      BY <1>0, <2>5 DEF BeginPayment
    <3>2. [[call[t] EXCEPT !.at = "merchant"] EXCEPT !.month = month] \in Call
      <4>1. call[t] \in Call /\ month \in Nat
        BY <1>0, SetupFacts
      <4>. QED
        BY <4>1 DEF Call
    <3>. QED
      BY <1>0, <3>1, <3>2, CallUpdates
  <2>. QED
    BY <2>1, <2>2, <2>3, <2>4, <2>5
       DEF Next, vars, CreateQuote, CreateRemoteQuote, CreateApproval, DecideApproval,
           ExpireStaleApprovals, Replay, MonthPasses, QuoteExpires, ApprovalExpires,
           ChallengeExpires, Close
<1>3. told' \subseteq [key : Keys, with : {"order", "replay", "error"}]
  <2>1. \A k \in Keys, w \in {"order", "replay", "error"} :
           Answer(k, w) \in [key : Keys, with : {"order", "replay", "error"}]
    BY DEF Answer
  <2>2. ASSUME NEW t \in Threads, Close(t)
        PROVE  told' \subseteq [key : Keys, with : {"order", "replay", "error"}]
    <3>1. call[t].key \in Keys
      BY <2>2 DEF Close, FinishCheckout, CheckoutBreaks, AtWork
    <3>. QED
      BY <1>0, <2>1, <2>2, <3>1 DEF Close, FinishCheckout, CheckoutBreaks
  <2>3. ASSUME NEW t \in Threads, NEW k \in Keys, Replay(t, k)
        PROVE  told' \subseteq [key : Keys, with : {"order", "replay", "error"}]
    BY <1>0, <2>1, <2>3 DEF Replay
  <2>. QED
    BY <1>0, <2>2, <2>3
       DEF Next, vars, CreateQuote, CreateRemoteQuote, CreateApproval, DecideApproval,
           ExpireStaleApprovals, CheckoutX402, Checkout, CreatePaymentChallenge,
           BeginPayment, RefusePayment, MerchantCreatesOrder, MerchantReplaysOrder,
           MerchantRefuses, MerchantUnavailable, RecordOrder, Close, MonthPasses,
           QuoteExpires, ApprovalExpires, ChallengeExpires, Crash
<1>4. overdue' \subseteq Quotes \cup Approvals \cup Challenges
  <2>1. ASSUME NEW x \in Quotes \cup Approvals \cup Challenges,
               QuoteExpires(x) \/ ApprovalExpires(x) \/ ChallengeExpires(x)
        PROVE  overdue' \subseteq Quotes \cup Approvals \cup Challenges
    BY <1>0, <2>1 DEF QuoteExpires, ApprovalExpires, ChallengeExpires
  <2>2. \/ overdue' = overdue
        \/ \E q \in Quotes : QuoteExpires(q)
        \/ \E a \in Approvals : ApprovalExpires(a)
        \/ \E c \in Challenges : ChallengeExpires(c)
    BY DEF Next, vars, CreateQuote, CreateRemoteQuote, CreateApproval, DecideApproval,
           ExpireStaleApprovals, Replay, CheckoutX402, Checkout, CreatePaymentChallenge,
           BeginPayment, RefusePayment, MerchantCreatesOrder, MerchantReplaysOrder,
           MerchantRefuses, MerchantUnavailable, RecordOrder, FinishCheckout,
           CheckoutBreaks, MonthPasses, Crash
  <2>. QED
    BY <1>0, <2>1, <2>2
<1>5. crashes' \in 0 .. setup.crashes
  <2>1. CASE Crash
    <3>1. crashes' = crashes + 1 /\ crashes < setup.crashes
      BY <2>1 DEF Crash
    <3>. QED
      BY <1>0, <3>1, SetupFacts
  <2>2. CASE ~Crash
    BY <1>0, <2>2
       DEF Next, vars, CreateQuote, CreateRemoteQuote, CreateApproval, DecideApproval,
           ExpireStaleApprovals, Replay, CheckoutX402, Checkout, CreatePaymentChallenge,
           BeginPayment, RefusePayment, MerchantCreatesOrder, MerchantReplaysOrder,
           MerchantRefuses, MerchantUnavailable, RecordOrder, FinishCheckout,
           CheckoutBreaks, MonthPasses, QuoteExpires, ApprovalExpires, ChallengeExpires
  <2>. QED
    BY <2>1, <2>2
<1>6. month' \in 1 .. setup.months
  <2>1. CASE MonthPasses
    BY <1>0, <2>1, SetupFacts DEF MonthPasses
  <2>2. CASE ~MonthPasses
    BY <1>0, <2>2
       DEF Next, vars, CreateQuote, CreateRemoteQuote, CreateApproval, DecideApproval,
           ExpireStaleApprovals, Replay, CheckoutX402, Checkout, CreatePaymentChallenge,
           BeginPayment, RefusePayment, MerchantCreatesOrder, MerchantReplaysOrder,
           MerchantRefuses, MerchantUnavailable, RecordOrder, FinishCheckout,
           CheckoutBreaks, QuoteExpires, ApprovalExpires, ChallengeExpires, Crash
  <2>. QED
    BY <2>1, <2>2
<1>. QED
  BY <1>0, <1>1, <1>2, <1>3, <1>4, <1>5, <1>6 DEF TypeOK

(***************************************************************************)
(* The lock                                                                *)
(***************************************************************************)

\* The steps that leave every thread where it is.
LEMMA StandingStill ==
    ASSUME \/ Prepares
           \/ \E t \in Threads, k \in Keys : Replay(t, k)
           \/ MonthPasses
           \/ \E q \in Quotes : QuoteExpires(q)
           \/ \E a \in Approvals : ApprovalExpires(a)
           \/ \E c \in Challenges : ChallengeExpires(c)
           \/ UNCHANGED vars
    PROVE  UNCHANGED <<call, lock, crashes>>
BY DEF Prepares, CreateQuote, CreateRemoteQuote, CreateApproval, DecideApproval,
       ExpireStaleApprovals, Replay, MonthPasses, QuoteExpires, ApprovalExpires,
       ChallengeExpires, vars

LEMMA CheckoutSteps ==
    ASSUME [Next]_vars
    PROVE  \/ Crash \/ UNCHANGED <<call, lock, crashes>>
           \/ \E t \in Threads : \/ Enter(t) \/ BeginPayment(t) \/ GoOn(t)
                                 \/ Leave(t) \/ Return(t)
BY StandingStill DEF Next, Prepares, Enter, GoOn, Leave, Close, Return

\* A thread inside the locked call has the lock, and knows what it buys.
LEMMA AtWorkStep ==
    ASSUME TypeOK, AtWork, [Next]_vars
    PROVE  AtWork'
<1>0. call \in [Threads -> Call]
  BY DEF TypeOK
<1>1. CASE UNCHANGED <<call, lock, crashes>>
  BY <1>1 DEF AtWork
<1>2. CASE Crash
  BY <1>2 DEF Crash, AtWork, Idle, Inside
<1>3. ASSUME NEW t \in Threads, Enter(t)
      PROVE  AtWork'
  <2>1. PICK q \in Quotes, a \in Approvals, k \in Keys :
           \/ CheckoutX402(t, q, a, k)
           \/ \E c \in Challenges \cup {None} : Checkout(t, q, a, k, c)
    BY <1>3 DEF Enter
  <2>2. CASE CheckoutX402(t, q, a, k)
    BY <1>0, <2>2 DEF CheckoutX402, Enters, AtWork, Inside
  <2>3. ASSUME NEW c \in Challenges \cup {None}, Checkout(t, q, a, k, c)
        PROVE  AtWork'
    BY <1>0, <2>3 DEF Checkout, Enters, AtWork, Inside
  <2>. QED
    BY <2>1, <2>2, <2>3
<1>4. ASSUME NEW t \in Threads, BeginPayment(t)
      PROVE  AtWork'
  BY <1>0, <1>4 DEF BeginPayment, AtWork, Inside, Call
<1>5. ASSUME NEW t \in Threads, GoOn(t)
      PROVE  AtWork'
  BY <1>0, <1>5 DEF GoOn, MerchantCreatesOrder, MerchantReplaysOrder, RecordOrder,
                    AtWork, Inside, Call
<1>6. ASSUME NEW t \in Threads, Leave(t)
      PROVE  AtWork'
  BY <1>0, <1>6 DEF Leave, MerchantRefuses, MerchantUnavailable, Close, FinishCheckout,
                    CheckoutBreaks, Unlock, Done, AtWork, Inside, Idle
<1>7. ASSUME NEW t \in Threads, Return(t)
      PROVE  AtWork'
  <2>1. /\ call' = [call EXCEPT ![t] = Idle] /\ lock' = lock
        /\ call[t].at \notin Inside
    BY <1>7 DEF Return, RefusePayment, CreatePaymentChallenge, Done, Inside
  <2>. QED
    BY <1>0, <2>1 DEF AtWork, Inside, Idle
<1>. QED
  BY <1>1, <1>2, <1>3, <1>4, <1>5, <1>6, <1>7, CheckoutSteps

(***************************************************************************)
(* What the steps do to the memory                                         *)
(***************************************************************************)

\* A final approval stays, and so does all that was bought.
LEMMA PreparingEffect ==
    ASSUME TypeOK, Prepares
    PROVE  /\ lock = None /\ UNCHANGED <<call, lock, told, crashes>>
           /\ mem'.orders = mem.orders /\ mem'.challenge = mem.challenge
           /\ ~setup.plugin => mem'.stock = mem.stock
           /\ \A a \in Approvals : mem.approval[a].state = "approved" =>
                 mem'.approval[a] = mem.approval[a]
           /\ month' = month
           /\ \A q \in Quotes : mem'.made[q] \in {mem.made[q], month}
           /\ \A q \in Quotes : Quoted(mem, q) => mem'.made[q] = mem.made[q]
<1>. USE DEF Saved
<1>0. mem \in ServiceState
  BY DEF TypeOK
<1>. DEFINE Effect ==
       /\ lock = None /\ UNCHANGED <<call, lock, told, crashes>>
       /\ mem'.orders = mem.orders /\ mem'.challenge = mem.challenge
       /\ ~setup.plugin => mem'.stock = mem.stock
       /\ \A a \in Approvals : mem.approval[a].state = "approved" =>
             mem'.approval[a] = mem.approval[a]
       /\ month' = month
       /\ \A q \in Quotes : mem'.made[q] \in {mem.made[q], month}
       /\ \A q \in Quotes : Quoted(mem, q) => mem'.made[q] = mem.made[q]
<1>1. ASSUME NEW q \in Quotes, NEW rail \in AskedRails \cup {None},
             CreateQuote(q, rail)
      PROVE  Effect
  BY <1>0, <1>1 DEF CreateQuote, ServiceState, Quoted
<1>2. ASSUME NEW q \in Quotes, NEW rail \in AskedRails \cup {None},
             CreateRemoteQuote(q, rail)
      PROVE  Effect
  BY <1>0, <1>2 DEF CreateRemoteQuote, ServiceState, Quoted
<1>3. ASSUME NEW a \in Approvals, NEW q \in Quotes, NEW rail \in AskedRails \cup {None},
             CreateApproval(a, q, rail)
      PROVE  Effect
  <2>. DEFINE s == WithRail(mem, q, rail)
              e == [s EXCEPT !.stamp[q] = a]
              r == [state |-> "pending", quote |-> q, rail |-> Destination(s, q)]
  <2>1. /\ \/ mem' = s
           \/ mem' = e
           \/ mem' = [e EXCEPT !.approval[a] = r]
        /\ lock = None /\ UNCHANGED <<call, lock, told, crashes, month>>
        /\ mem.approval[a].state = "none"
    BY <1>3 DEF CreateApproval
  <2>2. /\ DOMAIN e = DOMAIN mem
        /\ e.orders = mem.orders /\ e.challenge = mem.challenge
        /\ e.stock = mem.stock /\ e.approval = mem.approval
        /\ e.made = mem.made /\ s.made = mem.made
        /\ s.orders = mem.orders /\ s.challenge = mem.challenge
        /\ s.stock = mem.stock /\ s.approval = mem.approval
    BY <1>0 DEF WithRail, ServiceState
  <2>3. CASE mem' = s \/ mem' = e
    BY <2>1, <2>2, <2>3
  <2>4. CASE mem' = [e EXCEPT !.approval[a] = r]
    <3>1. /\ mem'.orders = e.orders /\ mem'.challenge = e.challenge
          /\ mem'.stock = e.stock /\ mem'.made = e.made
          /\ mem'.approval = [e.approval EXCEPT ![a] = r]
      BY <1>0, <2>2, <2>4 DEF ServiceState
    <3>2. mem.approval \in [Approvals -> ApprovalRecord]
      BY <1>0 DEF ServiceState
    <3>3. \A x \in Approvals : x # a => mem'.approval[x] = mem.approval[x]
      BY <2>2, <3>1, <3>2
    <3>. QED
      BY <2>1, <2>2, <3>1, <3>3
  <2>. QED
    BY <2>1, <2>3, <2>4
<1>4. ASSUME NEW a \in Approvals, NEW d \in {"approved", "rejected"}, DecideApproval(a, d)
      PROVE  Effect
  BY <1>0, <1>4 DEF DecideApproval, ServiceState
<1>5. CASE ExpireStaleApprovals
  BY <1>0, <1>5 DEF ExpireStaleApprovals, ServiceState
<1>. QED
  BY <1>1, <1>2, <1>3, <1>4, <1>5 DEF Prepares

\* A challenge is made of none.
LEMMA ChallengingEffect ==
    ASSUME TypeOK, NEW t \in Threads, NEW c \in Challenges, CreatePaymentChallenge(t, c)
    PROVE  /\ lock = None /\ Done(t) /\ call[t].at = "challenge"
           /\ UNCHANGED <<lock, told, crashes, month>> /\ mem'.made = mem.made
           /\ mem'.orders = mem.orders /\ mem'.stock = mem.stock
           /\ mem'.approval = mem.approval /\ mem'.rail = mem.rail
           /\ mem.challenge[c].state = "none"
           /\ \A d \in Challenges \ {c} : mem'.challenge[d] = mem.challenge[d]
BY DEF CreatePaymentChallenge, Saved, TypeOK, ServiceState

\* The order of a thread, before its task and its event are known.
NewOrder(r) == [key |-> r.key, quote |-> r.quote, approval |-> r.approval, by |-> r.by,
                month |-> r.month, rail |-> Destination(mem, r.quote),
                task |-> "open", event |-> "open"]

LEMMA RecordingEffect ==
    ASSUME TypeOK, NEW t \in Threads, RecordOrder(t)
    PROVE  /\ call[t].at = "created" /\ call' = [call EXCEPT ![t].at = "recorded"]
           /\ UNCHANGED <<lock, told, crashes, month>> /\ mem'.made = mem.made
           /\ mem'.orders = Append(mem.orders, NewOrder(call[t]))
           /\ mem'.stock = mem.stock - 1
           /\ mem'.approval = mem.approval /\ mem'.rail = mem.rail
           /\ mem'.challenge = mem.challenge
BY DEF RecordOrder, WithOrder, NewOrder, Saved, TypeOK, ServiceState

LEMMA FinishingEffect ==
    ASSUME TypeOK, AtWork, LastIsMine, NEW t \in Threads, FinishCheckout(t)
    PROVE  /\ call[t].at = "recorded" /\ Unlock(t) /\ UNCHANGED <<crashes, month>>
           /\ told' = told \cup {Answer(call[t].key, "order")}
           /\ mem'.stock = mem.stock /\ mem'.approval = mem.approval
           /\ mem'.made = mem.made /\ Len(mem.orders) \in Nat
           /\ Len(mem'.orders) = Len(mem.orders)
           /\ \A i \in 1 .. Len(mem.orders) :
                 SamePurchase(mem'.orders[i], mem.orders[i])
           /\ \A i \in 1 .. Len(mem.orders) - 1 : mem'.orders[i] = mem.orders[i]
           /\ mem'.orders[Len(mem.orders)].task # "open"
           /\ mem'.orders[Len(mem.orders)].event # "open"
           /\ \A c \in Challenges :
                 /\ mem'.challenge[c].key = mem.challenge[c].key
                 /\ IF c = call[t].by /\ c # X402
                    THEN mem'.challenge[c].state = "used"
                    ELSE mem'.challenge[c].state = mem.challenge[c].state
<1>0. /\ mem \in ServiceState /\ mem.orders \in Seq(OrderRecord)
      /\ mem.challenge \in [Challenges -> ChallengeRecord]
      /\ call[t].at = "recorded" /\ Unlock(t) /\ UNCHANGED <<crashes, month>>
      /\ told' = told \cup {Answer(call[t].key, "order")}
  BY DEF TypeOK, ServiceState, FinishCheckout
<1>. DEFINE n == Len(mem.orders)
<1>1. n \in 1 .. Len(mem.orders) /\ mem.orders[n] \in OrderRecord
  BY <1>0 DEF LastIsMine
<1>2. PICK task \in TaskOutcomes, event \in EventOutcomes :
         mem' = WithUsed(WithPlans(mem, task, event), call[t])
  BY DEF FinishCheckout, Saved
<1>3. task # "open" /\ event # "open"
  BY DEF TaskOutcomes, EventOutcomes
<1>. DEFINE o == [[mem.orders[n] EXCEPT !.task = task] EXCEPT !.event = event]
            w == [mem EXCEPT !.orders = [mem.orders EXCEPT ![n] = o]]
<1>4. WithPlans(mem, task, event) = w
  BY <1>0, <1>1 DEF WithPlans, ServiceState
<1>5. /\ w.stock = mem.stock /\ w.approval = mem.approval /\ w.made = mem.made
      /\ w.challenge = mem.challenge /\ w.orders = [mem.orders EXCEPT ![n] = o]
  BY <1>0 DEF ServiceState
<1>6. /\ SamePurchase(o, mem.orders[n]) /\ o.task = task /\ o.event = event
  BY <1>1 DEF SamePurchase, OrderRecord
<1>7. /\ Len(w.orders) = n /\ w.orders[n] = o
      /\ \A i \in 1 .. n - 1 : w.orders[i] = mem.orders[i]
  BY <1>0, <1>1, <1>5
<1>8. \A i \in 1 .. n : SamePurchase(w.orders[i], mem.orders[i])
  BY <1>0, <1>1, <1>6, <1>7 DEF SamePurchase
<1>9. CASE call[t].by = X402
  <2>1. mem' = w
    BY <1>2, <1>4, <1>9 DEF WithUsed
  <2>. HIDE DEF w, o
  <2>2. \A c \in Challenges : ~(c = call[t].by /\ c # X402)
    BY <1>9
  <2>3. /\ mem'.stock = mem.stock /\ mem'.approval = mem.approval /\ mem'.made = mem.made
        /\ mem'.challenge = mem.challenge /\ Len(mem'.orders) = n
        /\ mem'.orders[n].task # "open" /\ mem'.orders[n].event # "open"
    BY <1>3, <1>5, <1>6, <1>7, <2>1
  <2>. QED
    BY <1>0, <1>1, <1>7, <1>8, <2>1, <2>2, <2>3
<1>10. CASE call[t].by # X402
  <2>1. call[t].by \in Challenges
    BY <1>0, <1>10 DEF AtWork, Inside
  <2>2. mem' = [w EXCEPT !.challenge[call[t].by].state = "used"]
    BY <1>2, <1>4, <1>10 DEF WithUsed
  <2>3. /\ mem'.stock = w.stock /\ mem'.approval = w.approval /\ mem'.orders = w.orders
        /\ mem'.made = w.made
        /\ mem'.challenge = [w.challenge EXCEPT ![call[t].by].state = "used"]
    BY <1>0, <2>2 DEF ServiceState
  <2>4. \A c \in Challenges :
           /\ mem'.challenge[c].key = mem.challenge[c].key
           /\ IF c = call[t].by
              THEN mem'.challenge[c].state = "used"
              ELSE mem'.challenge[c].state = mem.challenge[c].state
    BY <1>0, <1>5, <2>1, <2>3 DEF ChallengeRecord
  <2>5. /\ Len(mem'.orders) = n
        /\ \A i \in 1 .. n : SamePurchase(mem'.orders[i], mem.orders[i])
        /\ \A i \in 1 .. n - 1 : mem'.orders[i] = mem.orders[i]
        /\ mem'.orders[n].task # "open" /\ mem'.orders[n].event # "open"
    BY <1>3, <1>6, <1>7, <1>8, <2>3
  <2>6. mem'.stock = mem.stock /\ mem'.approval = mem.approval /\ mem'.made = mem.made
    BY <1>5, <2>3
  <2>. QED
    BY <1>0, <1>10, <2>4, <2>5, <2>6
<1>. QED
  BY <1>9, <1>10

LEMMA BreakingEffect ==
    ASSUME TypeOK, LastIsMine, NEW t \in Threads, CheckoutBreaks(t)
    PROVE  /\ call[t].at = "recorded" /\ Unlock(t) /\ UNCHANGED <<crashes, month>>
           /\ told' = told \cup {Answer(call[t].key, "error")}
           /\ mem'.stock = mem.stock /\ mem'.approval = mem.approval
           /\ mem'.made = mem.made /\ mem'.stamp = mem.stamp
           /\ mem'.challenge = mem.challenge /\ Len(mem'.orders) = Len(mem.orders)
           /\ \A i \in 1 .. Len(mem.orders) :
                 /\ SamePurchase(mem'.orders[i], mem.orders[i])
                 /\ mem'.orders[i].event = mem.orders[i].event
           /\ \A i \in 1 .. Len(mem.orders) - 1 : mem'.orders[i] = mem.orders[i]
           /\ mem'.orders[Len(mem.orders)].event = "open"
           /\ Len(mem.orders) \in Nat /\ Len(mem.orders) >= 1
<1>0. /\ mem \in ServiceState /\ mem.orders \in Seq(OrderRecord)
      /\ call[t].at = "recorded" /\ Unlock(t) /\ UNCHANGED <<crashes, month>>
      /\ told' = told \cup {Answer(call[t].key, "error")}
  BY DEF TypeOK, ServiceState, CheckoutBreaks
<1>. DEFINE n == Len(mem.orders)
<1>1. /\ n \in 1 .. Len(mem.orders) /\ mem.orders[n] \in OrderRecord
      /\ mem.orders[n].event = "open"
  BY <1>0 DEF LastIsMine
<1>2. PICK task : mem' = WithPlans(mem, task, "open")
  BY DEF CheckoutBreaks
<1>. DEFINE o == [[mem.orders[n] EXCEPT !.task = task] EXCEPT !.event = "open"]
            w == [mem EXCEPT !.orders = [mem.orders EXCEPT ![n] = o]]
<1>3. mem' = w
  BY <1>0, <1>1, <1>2 DEF WithPlans, ServiceState
<1>4. /\ w.stock = mem.stock /\ w.approval = mem.approval /\ w.made = mem.made
      /\ w.challenge = mem.challenge /\ w.stamp = mem.stamp
      /\ w.orders = [mem.orders EXCEPT ![n] = o]
  BY <1>0 DEF ServiceState
<1>5. SamePurchase(o, mem.orders[n]) /\ o.event = "open"
  BY <1>1 DEF SamePurchase, OrderRecord
<1>6. /\ Len(w.orders) = n /\ w.orders[n] = o
      /\ \A i \in 1 .. n - 1 : w.orders[i] = mem.orders[i]
  BY <1>0, <1>1, <1>4
<1>7. \A i \in 1 .. n : /\ SamePurchase(w.orders[i], mem.orders[i])
                        /\ w.orders[i].event = mem.orders[i].event
  BY <1>0, <1>1, <1>5, <1>6 DEF SamePurchase
<1>. QED
  BY <1>0, <1>1, <1>3, <1>4, <1>5, <1>6, <1>7

\* Either way the thread leaves, and what was bought stays the same.
LEMMA ClosingEffect ==
    ASSUME TypeOK, AtWork, LastIsMine, NEW t \in Threads, Close(t)
    PROVE  /\ call[t].at = "recorded" /\ Unlock(t) /\ UNCHANGED <<crashes, month>>
           /\ mem'.stock = mem.stock /\ mem'.approval = mem.approval
           /\ mem'.made = mem.made /\ Len(mem'.orders) = Len(mem.orders)
           /\ \A i \in 1 .. Len(mem.orders) :
                 SamePurchase(mem'.orders[i], mem.orders[i])
           /\ Len(mem.orders) \in Nat
<1>1. CASE FinishCheckout(t)
  BY <1>1, FinishingEffect
<1>2. CASE CheckoutBreaks(t)
  BY <1>2, BreakingEffect
<1>. QED
  BY <1>1, <1>2 DEF Close

\* A quiet step stores nothing: whoever has stored an order had before.
LEMMA QuietEffect ==
    ASSUME TypeOK, AtWork, Quiet
    PROVE  /\ UNCHANGED <<mem, disk, crashes>>
           /\ \A t \in Threads : call'[t].at = "recorded" <=> call[t].at = "recorded"
           /\ \A t \in Threads : call[t].at = "recorded" => call'[t] = call[t]
<1>. DEFINE Effect ==
       /\ \A t \in Threads : call'[t].at = "recorded" <=> call[t].at = "recorded"
       /\ \A t \in Threads : call[t].at = "recorded" => call'[t] = call[t]
<1>0. call \in [Threads -> Call]
  BY DEF TypeOK
<1>1. ASSUME NEW t \in Threads, NEW r,
             call' = [call EXCEPT ![t] = r], r.at # "recorded", call[t].at # "recorded"
      PROVE  Effect
  BY <1>0, <1>1
<1>2. ASSUME NEW t \in Threads, Enter(t)
      PROVE  Effect
  BY <1>1, <1>2 DEF Enter, CheckoutX402, Checkout, Enters, Idle
<1>3. ASSUME NEW t \in Threads,
             BeginPayment(t) \/ MerchantCreatesOrder(t) \/ MerchantReplaysOrder(t)
      PROVE  Effect
  BY <1>0, <1>3 DEF BeginPayment, MerchantCreatesOrder, MerchantReplaysOrder, Call
<1>4. ASSUME NEW t \in Threads,
             RefusePayment(t) \/ MerchantRefuses(t) \/ MerchantUnavailable(t)
      PROVE  Effect
  BY <1>1, <1>4 DEF RefusePayment, MerchantRefuses, MerchantUnavailable, Unlock, Done, Idle
<1>. QED
  BY <1>2, <1>3, <1>4 DEF Quiet

\* A quiet step does not turn the calendar back.
LEMMA QuietMonth ==
    ASSUME TypeOK, Quiet, [Next]_vars
    PROVE  month' \in Nat /\ month <= month'
<1>1. month \in Nat
  BY SetupFacts DEF TypeOK
<1>2. CASE MonthPasses
  BY <1>1, <1>2 DEF MonthPasses
<1>3. CASE ~MonthPasses
  <2>1. month' = month
    BY <1>3
       DEF Next, vars, CreateQuote, CreateRemoteQuote, CreateApproval, DecideApproval,
           ExpireStaleApprovals, Replay, CheckoutX402, Checkout, CreatePaymentChallenge,
           BeginPayment, RefusePayment, MerchantCreatesOrder, MerchantReplaysOrder,
           MerchantRefuses, MerchantUnavailable, RecordOrder, FinishCheckout,
           CheckoutBreaks, QuoteExpires, ApprovalExpires, ChallengeExpires, Crash
  <2>. QED
    BY <1>1, <2>1
<1>. QED
  BY <1>2, <1>3

\* A crash loses no more than a rail, the task of an order whose request broke,
\* and the threads.
LEMMA CrashEffect ==
    ASSUME Mirrored, Crash
    PROVE  /\ Len(mem'.orders) = Len(mem.orders) /\ mem'.challenge = mem.challenge
           /\ mem'.approval = mem.approval /\ mem'.stock = mem.stock
           /\ mem'.made = mem.made
           /\ \A i \in 1 .. Len(mem.orders) :
                 /\ SamePurchase(mem'.orders[i], mem.orders[i])
                 /\ mem'.orders[i].event = mem.orders[i].event
           /\ \A t \in Threads : call'[t] = Idle
           /\ lock' = None /\ UNCHANGED <<told, month>>
BY DEF Mirrored, Crash, SamePurchase

\* The fields of an order, and of the memory.
LEMMA MemoryFacts ==
    ASSUME TypeOK
    PROVE  /\ mem.orders \in Seq(OrderRecord) /\ Len(mem.orders) \in Nat /\ mem.stock \in Nat
           /\ \A i \in 1 .. Len(mem.orders) :
                 /\ mem.orders[i].key \in Keys /\ mem.orders[i].quote \in Quotes
                 /\ mem.orders[i].approval \in Approvals
                 /\ mem.orders[i].by \in Challenges \cup {X402}
           /\ setup.budget \in Nat /\ setup.stock \in Nat
<1>1. mem.orders \in Seq(OrderRecord) /\ mem.stock \in Nat
  BY DEF TypeOK, ServiceState
<1>2. \A i \in 1 .. Len(mem.orders) : mem.orders[i] \in OrderRecord
  BY <1>1
<1>. QED
  BY <1>1, <1>2, SetupFacts DEF OrderRecord, TypeOK

\* What was answered stays answered.
LEMMA ToldStays ==
    ASSUME [Next]_vars
    PROVE  told \subseteq told'
BY DEF Next, vars, CreateQuote, CreateRemoteQuote, CreateApproval, DecideApproval,
       ExpireStaleApprovals, Replay, CheckoutX402, Checkout, CreatePaymentChallenge,
       BeginPayment, RefusePayment, MerchantCreatesOrder, MerchantReplaysOrder,
       MerchantRefuses, MerchantUnavailable, RecordOrder, FinishCheckout,
       CheckoutBreaks, MonthPasses, QuoteExpires, ApprovalExpires, ChallengeExpires, Crash

\* The file has what the memory has.
LEMMA MirroredStep ==
    ASSUME TypeOK, AtWork, Mirrored, LastIsMine, [Next]_vars
    PROVE  Mirrored'
<1>0. mem \in ServiceState /\ disk \in ServiceState
  BY DEF TypeOK
<1>1. ASSUME NEW a \in Approvals, NEW q \in Quotes, NEW rail \in AskedRails \cup {None},
             CreateApproval(a, q, rail)
      PROVE  Mirrored'
  <2>. DEFINE s == WithRail(mem, q, rail)
              e == [s EXCEPT !.stamp[q] = a]
              r == [state |-> "pending", quote |-> q, rail |-> Destination(s, q)]
  <2>1. \/ mem' = s /\ disk' = disk
        \/ mem' = e /\ disk' = e
        \/ mem' = [e EXCEPT !.approval[a] = r] /\ disk' = mem'
    BY <1>1 DEF CreateApproval, Saved
  <2>2. CASE mem' = s /\ disk' = disk
    <3>1. /\ s.made = mem.made /\ s.stamp = mem.stamp /\ s.approval = mem.approval
          /\ s.challenge = mem.challenge /\ s.stock = mem.stock /\ s.orders = mem.orders
      BY <1>0 DEF WithRail, ServiceState
    <3>. QED
      BY <2>2, <3>1 DEF Mirrored
  <2>3. CASE mem' = disk'
    BY <2>3 DEF Mirrored, SamePurchase
  <2>. QED
    BY <2>1, <2>2, <2>3
<1>2. CASE mem' = disk' \/ UNCHANGED <<mem, disk>>
  BY <1>2 DEF Mirrored, SamePurchase
<1>3. CASE Crash
  BY <1>2, <1>3 DEF Crash
<1>4. ASSUME NEW q \in Quotes, NEW rail \in AskedRails \cup {None},
             CreateQuote(q, rail) \/ CreateRemoteQuote(q, rail)
      PROVE  Mirrored'
  BY <1>2, <1>4 DEF CreateQuote, CreateRemoteQuote, Saved
<1>5. ASSUME NEW a \in Approvals, NEW d \in {"approved", "rejected"}, DecideApproval(a, d)
      PROVE  Mirrored'
  BY <1>2, <1>5 DEF DecideApproval, Saved
<1>6. CASE ExpireStaleApprovals
  BY <1>2, <1>6 DEF ExpireStaleApprovals, Saved
<1>7. ASSUME NEW t \in Threads, NEW c \in Challenges, CreatePaymentChallenge(t, c)
      PROVE  Mirrored'
  BY <1>2, <1>7 DEF CreatePaymentChallenge, Saved
<1>8. ASSUME NEW t \in Threads, RecordOrder(t) \/ FinishCheckout(t)
      PROVE  Mirrored'
  BY <1>2, <1>8 DEF RecordOrder, FinishCheckout, Saved
<1>9. ASSUME NEW t \in Threads, CheckoutBreaks(t)
      PROVE  Mirrored'
  <2>1. CASE mem' = disk'
    BY <1>2, <2>1
  <2>2. CASE disk' = disk
    <3>1. /\ mem'.stock = mem.stock /\ mem'.approval = mem.approval
          /\ mem'.made = mem.made /\ mem'.stamp = mem.stamp
          /\ mem'.challenge = mem.challenge /\ Len(mem'.orders) = Len(mem.orders)
          /\ \A i \in 1 .. Len(mem.orders) :
                /\ SamePurchase(mem'.orders[i], mem.orders[i])
                /\ mem'.orders[i].event = mem.orders[i].event
          /\ \A i \in 1 .. Len(mem.orders) - 1 : mem'.orders[i] = mem.orders[i]
          /\ mem'.orders[Len(mem.orders)].event = "open"
          /\ Len(mem.orders) \in Nat
      BY <1>9, BreakingEffect
    <3>2. \A i \in 1 .. Len(mem.orders) : i \in 1 .. Len(mem.orders) - 1 \/ i = Len(mem.orders)
      BY <3>1
    <3>. QED
      BY <2>2, <3>1, <3>2 DEF Mirrored, SamePurchase
  <2>. QED
    BY <1>9, <2>1, <2>2 DEF CheckoutBreaks
<1>. QED
  BY <1>1, <1>2, <1>3, <1>4, <1>5, <1>6, <1>7, <1>8, <1>9, StepKinds
     DEF Prepares, Quiet, Close

(***************************************************************************)
(* Limits                                                                  *)
(***************************************************************************)

\* Every order keeps the approval that covers it.
LEMMA CoveredStep ==
    ASSUME TypeOK, AtWork, Mirrored, Vetted, LastIsMine, Covered, [Next]_vars
    PROVE  Covered'
<1>0. /\ mem.orders \in Seq(OrderRecord) /\ Len(mem.orders) \in Nat
      /\ \A i \in 1 .. Len(mem.orders) : mem.orders[i].approval \in Approvals
  BY MemoryFacts
<1>1. CASE Prepares
  BY <1>0, <1>1, PreparingEffect DEF Covered, Covers
<1>2. ASSUME NEW t \in Threads, NEW c \in Challenges, CreatePaymentChallenge(t, c)
      PROVE  Covered'
  BY <1>2, ChallengingEffect DEF Covered, Covers
<1>3. ASSUME NEW t \in Threads, RecordOrder(t)
      PROVE  Covered'
  <2>. DEFINE o == NewOrder(call[t])
  <2>1. mem'.orders = Append(mem.orders, o) /\ mem'.approval = mem.approval
        /\ call[t].at = "created"
    BY <1>3, RecordingEffect
  <2>2. Covers(o.approval, o.quote, o.rail)
    BY <2>1 DEF Vetted, VettedCall, NewOrder
  <2>. HIDE DEF o
  <2>3. Len(mem'.orders) = Len(mem.orders) + 1
        /\ mem'.orders[Len(mem.orders) + 1] = o
        /\ \A i \in 1 .. Len(mem.orders) : mem'.orders[i] = mem.orders[i]
    BY <1>0, <2>1
  <2>. QED
    BY <1>0, <2>1, <2>2, <2>3 DEF Covered, Covers
<1>4. ASSUME NEW t \in Threads, Close(t)
      PROVE  Covered'
  BY <1>4, ClosingEffect DEF Covered, Covers, SamePurchase
<1>5. CASE Crash
  BY <1>5, CrashEffect DEF Covered, Covers, SamePurchase
<1>6. CASE Quiet
  BY <1>6 DEF Quiet, Covered, Covers
<1>. QED
  BY <1>1, <1>2, <1>3, <1>4, <1>5, <1>6, StepKinds

\* Quotes are dated when they are made, orders before they are stored.
LEMMA DatedStep ==
    ASSUME TypeOK, AtWork, Mirrored, Dated, LastIsMine, [Next]_vars
    PROVE  Dated'
<1>0. /\ mem.orders \in Seq(OrderRecord) /\ Len(mem.orders) \in Nat
      /\ call \in [Threads -> Call] /\ month \in Nat
      /\ \A i \in 1 .. Len(mem.orders) : mem.orders[i].quote \in Quotes
      /\ mem.made \in [Quotes -> Nat]
  BY MemoryFacts, SetupFacts DEF TypeOK, ServiceState
<1>1. CASE Prepares
  BY <1>0, <1>1, PreparingEffect DEF Dated, Quoted, AtWork, Inside
<1>2. ASSUME NEW t \in Threads, NEW c \in Challenges, CreatePaymentChallenge(t, c)
      PROVE  Dated'
  <2>1. /\ call' = [call EXCEPT ![t] = Idle] /\ mem'.orders = mem.orders
        /\ mem'.made = mem.made /\ month' = month
    BY <1>2, ChallengingEffect DEF Done
  <2>2. \A u \in Threads : call'[u].at # "idle" => call'[u] = call[u]
    BY <1>0, <2>1 DEF Idle
  <2>. QED
    BY <2>1, <2>2 DEF Dated, Quoted, Inside
<1>3. ASSUME NEW t \in Threads, RecordOrder(t)
      PROVE  Dated'
  <2>. DEFINE o == NewOrder(call[t])
  <2>1. /\ mem'.orders = Append(mem.orders, o) /\ call[t].at = "created"
        /\ call' = [call EXCEPT ![t].at = "recorded"] /\ month' = month
        /\ o.quote = call[t].quote /\ mem'.made = mem.made
    BY <1>3, RecordingEffect DEF NewOrder
  <2>. HIDE DEF o
  <2>2. /\ Len(mem'.orders) = Len(mem.orders) + 1
        /\ mem'.orders[Len(mem.orders) + 1] = o
        /\ \A i \in 1 .. Len(mem.orders) : mem'.orders[i] = mem.orders[i]
    BY <1>0, <2>1
  <2>3. /\ \A u \in Threads : u # t => call'[u] = call[u]
        /\ call'[t].quote = call[t].quote /\ call'[t].month = call[t].month
        /\ call'[t].at = "recorded"
    BY <1>0, <2>1 DEF Call
  <2>4. \A i \in 1 .. Len(mem'.orders) : Quoted(mem', mem'.orders[i].quote)
    BY <1>0, <2>1, <2>2 DEF Dated, Quoted
  <2>5. \A u \in Threads :
           /\ call'[u].at # "idle" => Quoted(mem', call'[u].quote)
           /\ call'[u].at \in Inside =>
                 mem'.made[call'[u].quote] <= call'[u].month /\ call'[u].month <= month
    BY <2>1, <2>3 DEF Dated, Quoted, Inside
  <2>. QED
    BY <2>1, <2>4, <2>5 DEF Dated, Quoted
<1>4. ASSUME NEW t \in Threads, Close(t)
      PROVE  Dated'
  <2>1. /\ call' = [call EXCEPT ![t] = Idle] /\ mem'.made = mem.made /\ month' = month
        /\ Len(mem'.orders) = Len(mem.orders)
        /\ \A i \in 1 .. Len(mem.orders) : mem'.orders[i].quote = mem.orders[i].quote
    BY <1>4, ClosingEffect DEF Unlock, Done, SamePurchase
  <2>2. \A u \in Threads : call'[u].at # "idle" => call'[u] = call[u]
    BY <1>0, <2>1 DEF Idle
  <2>. QED
    BY <2>1, <2>2 DEF Dated, Quoted, Inside
<1>5. CASE Crash
  BY <1>5, CrashEffect DEF Dated, Quoted, Inside, Idle, SamePurchase
<1>6. CASE Quiet
  <2>0. mem' = mem /\ month' \in Nat /\ month <= month'
    BY <1>0, <1>6, QuietMonth DEF Quiet
  <2>1. SUFFICES ASSUME NEW u \in Threads, call'[u] # call[u], call'[u].at # "idle"
                 PROVE  /\ Quoted(mem, call'[u].quote)
                        /\ call'[u].at \in Inside =>
                              /\ mem.made[call'[u].quote] <= call'[u].month
                              /\ call'[u].month <= month'
    <3>1. \A u \in Threads : call'[u] = call[u] /\ call[u].at \in Inside =>
             call'[u].month \in Nat
      BY <1>0 DEF Call
    <3>. QED
      BY <1>0, <2>0, <3>1 DEF Dated, Quoted, Inside
  <2>2. ASSUME NEW t \in Threads, Enter(t)
        PROVE  /\ Quoted(mem, call'[u].quote)
               /\ call'[u].at \in Inside =>
                     /\ mem.made[call'[u].quote] <= call'[u].month
                     /\ call'[u].month <= month'
    <3>1. PICK q \in Quotes, a \in Approvals, k \in Keys :
             \/ CheckoutX402(t, q, a, k)
             \/ \E c \in Challenges \cup {None} : Checkout(t, q, a, k, c)
      BY <2>2 DEF Enter
    <3>2. /\ Quoted(mem, q) /\ month' = month /\ call'[u].quote = q
          /\ call'[u].at \in Inside => call'[u].month = month
      BY <1>0, <2>1, <3>1 DEF CheckoutX402, Checkout, Enters, Inside
    <3>. QED
      BY <1>0, <3>2 DEF Dated
  <2>3. ASSUME NEW t \in Threads, BeginPayment(t)
        PROVE  /\ Quoted(mem, call'[u].quote)
               /\ mem.made[call'[u].quote] <= call'[u].month
               /\ call'[u].month <= month'
    <3>1. /\ u = t /\ call'[u].quote = call[t].quote /\ call'[u].month = month
          /\ month' = month /\ call[t].at = "pay" /\ call[t].quote \in Quotes
      BY <1>0, <2>1, <2>3 DEF BeginPayment, Call, AtWork
    <3>. QED
      BY <1>0, <3>1 DEF Dated
  <2>4. ASSUME NEW t \in Threads, MerchantCreatesOrder(t) \/ MerchantReplaysOrder(t)
        PROVE  /\ Quoted(mem, call'[u].quote)
               /\ mem.made[call'[u].quote] <= call'[u].month
               /\ call'[u].month <= month'
    <3>1. /\ u = t /\ call'[u].quote = call[t].quote /\ call'[u].month = call[t].month
          /\ month' = month /\ call[t].at = "merchant"
      BY <1>0, <2>1, <2>4 DEF MerchantCreatesOrder, MerchantReplaysOrder, Call
    <3>. QED
      BY <3>1 DEF Dated, Inside
  <2>5. ASSUME NEW t \in Threads,
               RefusePayment(t) \/ MerchantRefuses(t) \/ MerchantUnavailable(t)
        PROVE  FALSE
    BY <1>0, <2>1, <2>5
       DEF RefusePayment, MerchantRefuses, MerchantUnavailable, Unlock, Done, Idle
  <2>. QED
    BY <1>6, <2>1, <2>2, <2>3, <2>4, <2>5 DEF Quiet
<1>. QED
  BY <1>1, <1>2, <1>3, <1>4, <1>5, <1>6, StepKinds

\* The numbers up to n that are counted, with n + 1 that is.
LEMMA OneMoreCounted ==
    ASSUME NEW n \in Nat, NEW before \in SUBSET (1 .. n)
    PROVE  /\ Cardinality(before) \in Nat
           /\ Cardinality(before \cup {n + 1}) = Cardinality(before) + 1
<1>1. IsFiniteSet(before)
  <2>1. IsFiniteSet(1 .. n)
    BY FS_Interval
  <2>. QED
    BY <2>1, FS_Subset
<1>2. n + 1 \notin before
  OBVIOUS
<1>. QED
  BY <1>1, <1>2, FS_AddElement, FS_CardinalityType

\* Neither the budget nor the stock is overdrawn.
LEMMA LimitsStep ==
    ASSUME TypeOK, AtWork, Mirrored, Dated, Vetted, LastIsMine, UnitsKept, WithinLimits,
           [Next]_vars
    PROVE  UnitsKept' /\ WithinLimits'
<1>0. /\ mem.orders \in Seq(OrderRecord) /\ Len(mem.orders) \in Nat /\ mem.stock \in Nat
      /\ setup.budget \in Nat /\ setup.stock \in Nat /\ setup' = setup
      /\ \A i \in 1 .. Len(mem.orders) : mem.orders[i].quote \in Quotes
  BY MemoryFacts, SetupIsKept
<1>. DEFINE Months(i) == {j \in 1 .. i : mem.orders[j].month = mem.orders[i].month}
            Within(i) == mem.orders[i].month = mem.made[mem.orders[i].quote] =>
                             Cardinality(Months(i)) <= setup.budget
<1>1. CASE /\ Len(mem'.orders) = Len(mem.orders)
           /\ \A i \in 1 .. Len(mem.orders) :
                 /\ mem'.orders[i].quote = mem.orders[i].quote
                 /\ mem'.orders[i].month = mem.orders[i].month
           /\ \A q \in Quotes : Quoted(mem, q) => mem'.made[q] = mem.made[q]
           /\ ~setup.plugin => mem'.stock = mem.stock
  <2>1. \A i \in 1 .. Len(mem.orders) : Within(i)
    BY DEF WithinLimits
  <2>2. \A i \in 1 .. Len(mem.orders) : Months(i)' = Months(i)
    BY <1>0, <1>1
  <2>3. \A i \in 1 .. Len(mem.orders) :
           mem'.made[mem'.orders[i].quote] = mem.made[mem.orders[i].quote]
    BY <1>0, <1>1 DEF Dated
  <2>4. \A i \in 1 .. Len(mem'.orders) : Within(i)'
    BY <1>0, <1>1, <2>1, <2>2, <2>3
  <2>5. ~setup.plugin => Len(mem'.orders) <= setup.stock
    BY <1>1 DEF WithinLimits
  <2>. HIDE DEF Within
  <2>6. UnitsKept'
    BY <1>0, <1>1 DEF UnitsKept
  <2>. USE DEF Within
  <2>. QED
    BY <1>0, <2>4, <2>5, <2>6 DEF WithinLimits
<1>2. CASE Prepares
  BY <1>1, <1>2, PreparingEffect
<1>3. ASSUME NEW t \in Threads, NEW c \in Challenges, CreatePaymentChallenge(t, c)
      PROVE  UnitsKept' /\ WithinLimits'
  BY <1>1, <1>3, ChallengingEffect
<1>4. ASSUME NEW t \in Threads, RecordOrder(t)
      PROVE  UnitsKept' /\ WithinLimits'
  <2>. DEFINE o == NewOrder(call[t])
              n == Len(mem.orders)
  <2>1. /\ mem'.orders = Append(mem.orders, o) /\ mem'.made = mem.made
        /\ mem'.stock = mem.stock - 1 /\ call[t].at = "created"
        /\ o.quote = call[t].quote
    BY <1>4, RecordingEffect DEF NewOrder
  <2>2. Allowed(mem, o.quote) /\ mem.stock >= 1
    BY <2>1 DEF Vetted, VettedCall
  <2>. HIDE DEF o
  <2>3. /\ Len(mem'.orders) = n + 1 /\ mem'.orders[n + 1] = o
        /\ \A i \in 1 .. n : mem'.orders[i] = mem.orders[i]
    BY <1>0, <2>1
  <2>4. ASSUME NEW i \in 1 .. n
        PROVE  Within(i)'
    <3>1. Within(i)
      BY DEF WithinLimits
    <3>2. \A j \in 1 .. i : j \in 1 .. n /\ mem'.orders[j] = mem.orders[j]
      BY <1>0, <2>3
    <3>3. mem'.orders[i] = mem.orders[i]
      BY <2>3
    <3>4. Months(i)' = Months(i)
      BY <3>2, <3>3
    <3>. QED
      BY <1>0, <2>1, <3>1, <3>3, <3>4
  <2>5. ASSUME o.month = mem.made[o.quote]
        PROVE  Cardinality({j \in 1 .. n + 1 : mem'.orders[j].month = o.month})
                   <= setup.budget
    <3>1. Cardinality({j \in 1 .. n : mem.orders[j].month = o.month}) + 1 <= setup.budget
      BY <2>2, <2>5 DEF Allowed, Spent
    <3>. DEFINE before == {j \in 1 .. n : mem.orders[j].month = o.month}
    <3>2. {j \in 1 .. n + 1 : mem'.orders[j].month = o.month} = before \cup {n + 1}
      BY <1>0, <2>3
    <3>3. n \in Nat /\ before \in SUBSET (1 .. n)
      BY <1>0
    <3>. HIDE DEF before, n
    <3>4. /\ Cardinality(before) \in Nat
          /\ Cardinality(before \cup {n + 1}) = Cardinality(before) + 1
      BY <3>3, OneMoreCounted
    <3>. QED
      BY <1>0, <3>1, <3>2, <3>4 DEF before
  <2>6. \A i \in 1 .. n + 1 : i = n + 1 => Within(i)'
    <3>1. n + 1 \in 1 .. n + 1 /\ mem'.orders[n + 1] = o
      BY <1>0, <2>3
    <3>2. \A i \in 1 .. n + 1 : i = n + 1 =>
             Months(i)' = {j \in 1 .. n + 1 : mem'.orders[j].month = o.month}
      BY <3>1
    <3>. HIDE DEF Months
    <3>. QED
      BY <1>0, <2>1, <2>5, <3>1, <3>2
  <2>. HIDE DEF Within
  <2>7. \A i \in 1 .. Len(mem'.orders) : Within(i)'
    BY <1>0, <2>3, <2>4, <2>6
  <2>8. UnitsKept' /\ (~setup.plugin => Len(mem'.orders) <= setup.stock)
    BY <1>0, <2>1, <2>2, <2>3 DEF UnitsKept
  <2>. USE DEF Within
  <2>. QED
    BY <1>0, <2>7, <2>8 DEF WithinLimits
<1>5. ASSUME NEW t \in Threads, Close(t)
      PROVE  UnitsKept' /\ WithinLimits'
  BY <1>1, <1>5, ClosingEffect DEF SamePurchase
<1>6. CASE Crash
  BY <1>1, <1>6, CrashEffect DEF SamePurchase
<1>7. CASE Quiet
  BY <1>1, <1>7 DEF Quiet
<1>. QED
  BY <1>2, <1>3, <1>4, <1>5, <1>6, <1>7, StepKinds

\* Who has stored an order finds it last.
LEMMA LastIsMineStep ==
    ASSUME TypeOK, AtWork, Mirrored, Vetted, LastIsMine, [Next]_vars
    PROVE  LastIsMine'
<1>0. /\ mem.orders \in Seq(OrderRecord) /\ Len(mem.orders) \in Nat
      /\ call \in [Threads -> Call]
  BY MemoryFacts DEF TypeOK
<1>1. CASE Prepares
  BY <1>1, PreparingEffect DEF LastIsMine
<1>2. ASSUME NEW t \in Threads, NEW c \in Challenges, CreatePaymentChallenge(t, c)
      PROVE  LastIsMine'
  <2>1. call' = [call EXCEPT ![t] = Idle] /\ mem'.orders = mem.orders
    BY <1>2, ChallengingEffect DEF Done
  <2>2. \A u \in Threads : call'[u].at = "recorded" => call'[u] = call[u]
    BY <1>0, <2>1 DEF Idle
  <2>. QED
    BY <2>1, <2>2 DEF LastIsMine
<1>3. ASSUME NEW t \in Threads, RecordOrder(t)
      PROVE  LastIsMine'
  <2>. DEFINE o == NewOrder(call[t])
  <2>1. /\ mem'.orders = Append(mem.orders, o) /\ call[t].at = "created"
        /\ call' = [call EXCEPT ![t].at = "recorded"]
        /\ o.key = call[t].key /\ o.by = call[t].by /\ o.event = "open"
    BY <1>3, RecordingEffect DEF NewOrder
  <2>. HIDE DEF o
  <2>2. Len(mem'.orders) = Len(mem.orders) + 1 /\ mem'.orders[Len(mem.orders) + 1] = o
    BY <1>0, <2>1
  <2>3. \A u \in Threads : call'[u].at = "recorded" => u = t
    BY <1>0, <2>1, NoneIsNobody DEF AtWork, Inside
  <2>4. call'[t].key = call[t].key /\ call'[t].by = call[t].by
    BY <1>0, <2>1 DEF Call
  <2>. QED
    BY <1>0, <2>1, <2>2, <2>3, <2>4 DEF LastIsMine
<1>4. ASSUME NEW t \in Threads, Close(t)
      PROVE  LastIsMine'
  <2>1. \A u \in Threads : call'[u].at # "recorded"
    BY <1>0, <1>4, ClosingEffect DEF Unlock, Done, Idle, AtWork, Inside
  <2>. QED
    BY <2>1 DEF LastIsMine
<1>5. CASE Crash
  BY <1>5, CrashEffect DEF LastIsMine, Idle
<1>6. CASE Quiet
  BY <1>6, QuietEffect DEF Quiet, LastIsMine
<1>. QED
  BY <1>1, <1>2, <1>3, <1>4, <1>5, <1>6, StepKinds

(***************************************************************************)
(* Answers                                                                 *)
(***************************************************************************)

\* Whoever is told of an order finds it: the three steps that answer, and those
\* that answer nobody.
LEMMA AnsweredStep ==
    ASSUME TypeOK, AtWork, Mirrored, Vetted, LastIsMine, AnsweredIsDurable,
           Mirrored', [Next]_vars
    PROVE  AnsweredIsDurable'
<1>. DEFINE Synced(o) == o.task # "open" /\ o.event # "open"
            Found(r) ==
              /\ \E i \in 1 .. Len(mem.orders) : mem.orders[i].key = r.key
              /\ r.with = "order" =>
                    \E i \in 1 .. Len(mem.orders) :
                       mem.orders[i].key = r.key /\ Synced(mem.orders[i])
<1>0. /\ mem.orders \in Seq(OrderRecord) /\ Len(mem.orders) \in Nat
      /\ call \in [Threads -> Call]
  BY MemoryFacts DEF TypeOK
<1>1. \A r \in told : Found(r)
  BY DEF AnsweredIsDurable, Mirrored, SamePurchase
<1>2. SUFFICES \A r \in told' : Found(r)'
  BY DEF AnsweredIsDurable, Mirrored, SamePurchase
<1>3. ASSUME /\ Len(mem'.orders) >= Len(mem.orders) /\ Len(mem'.orders) \in Nat
             /\ \A i \in 1 .. Len(mem.orders) :
                   /\ mem'.orders[i].key = mem.orders[i].key
                   /\ Synced(mem.orders[i]) => Synced(mem'.orders[i])
      PROVE  \A r : Found(r) => Found(r)'
  BY <1>0, <1>3
<1>4. CASE Prepares
  <2>1. mem'.orders = mem.orders /\ told' = told
    BY <1>4, PreparingEffect
  <2>. QED
    BY <1>1, <2>1
<1>5. ASSUME NEW t \in Threads, NEW c \in Challenges, CreatePaymentChallenge(t, c)
      PROVE  \A r \in told' : Found(r)'
  <2>1. mem'.orders = mem.orders /\ told' = told
    BY <1>5, ChallengingEffect
  <2>. QED
    BY <1>1, <2>1
<1>6. ASSUME NEW t \in Threads, RecordOrder(t)
      PROVE  \A r \in told' : Found(r)'
  <2>. DEFINE o == NewOrder(call[t])
  <2>1. mem'.orders = Append(mem.orders, o) /\ told' = told
    BY <1>6, RecordingEffect
  <2>. HIDE DEF o
  <2>2. /\ Len(mem'.orders) = Len(mem.orders) + 1
        /\ \A i \in 1 .. Len(mem.orders) : mem'.orders[i] = mem.orders[i]
    BY <1>0, <2>1
  <2>. HIDE DEF Found
  <2>. QED
    BY <1>0, <1>1, <1>3, <2>1, <2>2
<1>7. ASSUME NEW t \in Threads, FinishCheckout(t)
      PROVE  \A r \in told' : Found(r)'
  <2>. DEFINE n == Len(mem.orders)
  <2>1. /\ Len(mem'.orders) = n
        /\ \A i \in 1 .. n : mem'.orders[i].key = mem.orders[i].key
        /\ \A i \in 1 .. n - 1 : mem'.orders[i] = mem.orders[i]
        /\ Synced(mem'.orders[n])
        /\ told' = told \cup {Answer(call[t].key, "order")} /\ call[t].at = "recorded"
    BY <1>7, FinishingEffect DEF SamePurchase
  <2>2. n \in 1 .. n /\ mem.orders[n].key = call[t].key
    BY <1>0, <2>1 DEF LastIsMine
  <2>3. \A i \in 1 .. n : Synced(mem.orders[i]) => Synced(mem'.orders[i])
    <3>1. \A i \in 1 .. n : i \in 1 .. n - 1 \/ i = n
      BY <1>0
    <3>. QED
      BY <2>1, <3>1
  <2>4. \A r \in told : Found(r)'
    <3>. HIDE DEF Found, Synced
    <3>. QED
      BY <1>0, <1>1, <1>3, <2>1, <2>3
  <2>5. \A r \in told' : r \in told \/ r.key = call[t].key
    BY <2>1 DEF Answer
  <2>6. \A r : r.key = call[t].key => Found(r)'
    BY <2>1, <2>2
  <2>. QED
    BY <2>4, <2>5, <2>6
<1>8. ASSUME NEW t \in Threads, CheckoutBreaks(t)
      PROVE  \A r \in told' : Found(r)'
  <2>. DEFINE n == Len(mem.orders)
  <2>1. /\ Len(mem'.orders) = n
        /\ \A i \in 1 .. n : /\ mem'.orders[i].key = mem.orders[i].key
                             /\ mem'.orders[i].event = mem.orders[i].event
        /\ \A i \in 1 .. n - 1 : mem'.orders[i] = mem.orders[i]
        /\ told' = told \cup {Answer(call[t].key, "error")} /\ call[t].at = "recorded"
    BY <1>8, BreakingEffect DEF SamePurchase
  <2>2. n \in 1 .. n /\ mem.orders[n].key = call[t].key /\ mem.orders[n].event = "open"
    BY <1>0, <2>1 DEF LastIsMine
  <2>3. \A i \in 1 .. n : Synced(mem.orders[i]) => Synced(mem'.orders[i])
    <3>1. \A i \in 1 .. n : i \in 1 .. n - 1 \/ i = n
      BY <1>0
    <3>. QED
      BY <2>1, <2>2, <3>1
  <2>4. \A r \in told : Found(r)'
    <3>. HIDE DEF Found, Synced
    <3>. QED
      BY <1>0, <1>1, <1>3, <2>1, <2>3
  <2>5. \A r \in told' : r \in told \/ (r.key = call[t].key /\ r.with = "error")
    BY <2>1 DEF Answer
  <2>6. \A r : r.key = call[t].key /\ r.with = "error" => Found(r)'
    BY <2>1, <2>2
  <2>. QED
    BY <2>4, <2>5, <2>6
<1>9. CASE Crash
  <2>1. /\ mem' = disk /\ told' = told /\ Len(disk.orders) = Len(mem.orders)
        /\ \A i \in 1 .. Len(mem.orders) :
              /\ disk.orders[i].key = mem.orders[i].key
              /\ Synced(mem.orders[i]) => Synced(disk.orders[i])
    BY <1>9 DEF Crash, Mirrored, SamePurchase
  <2>. HIDE DEF Found, Synced
  <2>. QED
    BY <1>0, <1>1, <1>3, <2>1
<1>10. ASSUME NEW t \in Threads, NEW k \in Keys, Replay(t, k)
      PROVE  \A r \in told' : Found(r)'
  <2>1. /\ mem' = mem /\ told' = told \cup {Answer(k, "replay")} /\ Placed(mem, k)
    BY <1>10 DEF Replay
  <2>2. \A r \in told' : r \in told \/ (r.key = k /\ r.with = "replay")
    BY <2>1 DEF Answer
  <2>3. \A r : r.key = k /\ r.with = "replay" => Found(r)'
    BY <2>1 DEF Placed
  <2>. QED
    BY <1>1, <2>1, <2>2, <2>3
<1>11. CASE Quiet /\ told' = told
  <2>1. mem' = mem /\ told' = told
    BY <1>11 DEF Quiet
  <2>. QED
    BY <1>1, <2>1
<1>12. \/ told' = told \/ \E t \in Threads : FinishCheckout(t) \/ CheckoutBreaks(t)
       \/ \E t \in Threads, k \in Keys : Replay(t, k)
  BY DEF Next, vars, CreateQuote, CreateRemoteQuote, CreateApproval, DecideApproval,
         ExpireStaleApprovals, CheckoutX402, Checkout, CreatePaymentChallenge,
         BeginPayment, RefusePayment, MerchantCreatesOrder, MerchantReplaysOrder,
         MerchantRefuses, MerchantUnavailable, RecordOrder, MonthPasses,
         QuoteExpires, ApprovalExpires, ChallengeExpires, Crash
<1>. QED
  BY <1>4, <1>5, <1>6, <1>7, <1>8, <1>9, <1>10, <1>11, <1>12, StepKinds DEF Close

(***************************************************************************)
(* Payments                                                                *)
(***************************************************************************)

\* While the lock is free, no thread is in the locked call.
LEMMA NobodyInside ==
    ASSUME AtWork, lock = None
    PROVE  \A t \in Threads : call[t].at \notin Inside
BY DEF AtWork

\* Nobody else is inside beside the owner of the lock.
LEMMA OneInside ==
    ASSUME AtWork, NEW t \in Threads, call[t].at \in Inside
    PROVE  \A u \in Threads : call[u].at \in Inside => u = t
BY DEF AtWork

\* A payment that begins redeems a challenge that paid for nothing yet but orders
\* whose requests broke.
LEMMA BeginningIsVetted ==
    ASSUME TypeOK, AtWork, PaidOnce, NEW t \in Threads, BeginPayment(t)
    PROVE  VettedCall(call[t])
<1>. DEFINE r == call[t]
            c == mem.challenge[r.by]
<1>1. /\ lock = None /\ r.at = "pay"
      /\ Redeems(mem, r) /\ Ready(mem, r.quote, r.approval)
      /\ Allowed(mem, r.quote) /\ mem.stock >= 1
  BY DEF BeginPayment
<1>2. Covers(r.approval, r.quote, Destination(mem, r.quote))
  BY <1>1 DEF Ready, Covers
<1>3. ASSUME setup.keyInBody, r.by # X402
      PROVE  /\ c.state = "open" /\ c.key = r.key
             /\ \A i \in 1 .. Len(mem.orders) :
                   mem.orders[i].by = r.by => Broke(mem.orders[i])
  <2>1. c.state = "open" /\ c.key = r.key
    BY <1>1, <1>3 DEF Redeems
  <2>2. SUFFICES ASSUME NEW i \in 1 .. Len(mem.orders), mem.orders[i].by = r.by
                 PROVE  Broke(mem.orders[i])
    BY <2>1
  <2>3. c.key = mem.orders[i].key /\ Unspendable(mem.orders[i])
    BY <1>3, <2>2 DEF PaidOnce
  <2>4. \A u \in Threads : call[u].at # "recorded"
    BY <1>1, NobodyInside DEF Inside
  <2>. QED
    BY <1>1, <2>1, <2>2, <2>3, <2>4 DEF Unspendable
<1>. QED
  BY <1>1, <1>2, <1>3 DEF VettedCall

\* What a thread inside saw stays so.
LEMMA VettedStep ==
    ASSUME TypeOK, AtWork, Mirrored, Vetted, LastIsMine, PaidOnce, [Next]_vars
    PROVE  Vetted'
<1>0. call \in [Threads -> Call] /\ setup' = setup
  BY SetupIsKept DEF TypeOK
<1>1. CASE \A u \in Threads : call'[u].at \notin {"merchant", "created"}
  BY <1>1 DEF Vetted
<1>2. CASE Prepares
  BY <1>1, <1>2, PreparingEffect, NobodyInside DEF Inside
<1>3. ASSUME NEW t \in Threads, NEW c \in Challenges, CreatePaymentChallenge(t, c)
      PROVE  Vetted'
  <2>1. call' = [call EXCEPT ![t] = Idle] /\ lock = None
    BY <1>3, ChallengingEffect DEF Done
  <2>. QED
    BY <1>0, <1>1, <2>1, NobodyInside DEF Inside, Idle
<1>4. ASSUME NEW t \in Threads, RecordOrder(t)
      PROVE  Vetted'
  <2>1. call' = [call EXCEPT ![t].at = "recorded"] /\ call[t].at = "created"
    BY <1>4, RecordingEffect
  <2>2. call[t] \in Call
    BY <1>0
  <2>. QED
    BY <1>0, <1>1, <2>1, <2>2, OneInside DEF Inside, Call
<1>5. ASSUME NEW t \in Threads, Close(t)
      PROVE  Vetted'
  <2>1. call' = [call EXCEPT ![t] = Idle] /\ call[t].at = "recorded"
    BY <1>5, ClosingEffect DEF Unlock, Done
  <2>. QED
    BY <1>0, <1>1, <2>1, OneInside DEF Inside, Idle
<1>6. CASE Crash
  BY <1>1, <1>6, CrashEffect DEF Idle
<1>7. CASE Quiet
  <2>1. mem' = mem /\ told \subseteq told'
    BY <1>7, ToldStays DEF Quiet
  <2>2. \A r : VettedCall(r) => VettedCall(r)'
    BY <1>0, <2>1 DEF VettedCall, Allowed, Spent, Covers, Destination, Rails, Broke
  <2>3. SUFFICES ASSUME NEW u \in Threads, call'[u].at \in {"merchant", "created"},
                        call'[u] # call[u]
                 PROVE  VettedCall(call'[u])
    BY <2>1, <2>2 DEF Vetted
  <2>4. ASSUME NEW r, NEW w, VettedCall(r), w.quote = r.quote, w.approval = r.approval,
               w.key = r.key, w.by = r.by
        PROVE  VettedCall(w)
    BY <2>4 DEF VettedCall
  <2>5. ASSUME NEW t \in Threads,
               BeginPayment(t) \/ MerchantCreatesOrder(t) \/ MerchantReplaysOrder(t)
        PROVE  VettedCall(call'[u])
    <3>1. u = t /\ VettedCall(call[t])
      BY <1>0, <2>3, <2>5, BeginningIsVetted
         DEF Vetted, BeginPayment, MerchantCreatesOrder, MerchantReplaysOrder
    <3>2. /\ call'[t].quote = call[t].quote /\ call'[t].approval = call[t].approval
          /\ call'[t].key = call[t].key /\ call'[t].by = call[t].by
      BY <1>0, <2>5 DEF BeginPayment, MerchantCreatesOrder, MerchantReplaysOrder, Call
    <3>. QED
      BY <2>4, <3>1, <3>2
  <2>6. ASSUME NEW t \in Threads,
               RefusePayment(t) \/ MerchantRefuses(t) \/ MerchantUnavailable(t)
        PROVE  FALSE
    BY <1>0, <2>3, <2>6
       DEF RefusePayment, MerchantRefuses, MerchantUnavailable, Unlock, Done, Idle
  <2>7. ASSUME NEW t \in Threads, Enter(t)
        PROVE  VettedCall(call'[u])
    <3>1. PICK q \in Quotes, a \in Approvals, k \in Keys :
             \/ CheckoutX402(t, q, a, k)
             \/ \E c \in Challenges \cup {None} : Checkout(t, q, a, k, c)
      BY <2>7 DEF Enter
    <3>2. ~ \E c \in Challenges \cup {None} : Checkout(t, q, a, k, c)
      BY <1>0, <2>3 DEF Checkout
    <3>3. /\ Allowed(mem, q) /\ mem.stock >= 1
          /\ Covers(a, q, Destination(mem, q))
      BY <3>1, <3>2 DEF CheckoutX402, Enters, Ready, Covers
    <3>4. /\ call'[u].quote = q /\ call'[u].approval = a /\ call'[u].key = k
          /\ call'[u].by = X402
      BY <1>0, <2>3, <3>1, <3>2 DEF CheckoutX402
    <3>. QED
      BY <3>3, <3>4 DEF VettedCall
  <2>. QED
    BY <1>7, <2>3, <2>5, <2>6, <2>7 DEF Quiet
<1>. QED
  BY <1>2, <1>3, <1>4, <1>5, <1>6, <1>7, StepKinds

\* A thread that comes to pay has a key that no order has: one that has an
\* order is answered with it.
LEMMA NewPayers ==
    ASSUME TypeOK, Quiet, NEW u \in Threads, call'[u].at = "pay", call'[u] # call[u]
    PROVE  \A i \in 1 .. Len(mem.orders) : mem.orders[i].key # call'[u].key
<1>0. call \in [Threads -> Call]
  BY DEF TypeOK
<1>1. ASSUME NEW t \in Threads, Enter(t)
      PROVE  ~Placed(mem, call'[u].key)
  <2>1. PICK q \in Quotes, a \in Approvals, k \in Keys :
           \/ CheckoutX402(t, q, a, k)
           \/ \E c \in Challenges \cup {None} : Checkout(t, q, a, k, c)
    BY <1>1 DEF Enter
  <2>2. ~Placed(mem, k)
    BY <2>1 DEF CheckoutX402, Checkout, Enters
  <2>3. call'[u].key = k
    BY <1>0, <2>1 DEF CheckoutX402, Checkout
  <2>. QED
    BY <2>2, <2>3
<1>2. ASSUME NEW t \in Threads,
             \/ BeginPayment(t) \/ MerchantCreatesOrder(t) \/ MerchantReplaysOrder(t)
             \/ RefusePayment(t) \/ MerchantRefuses(t) \/ MerchantUnavailable(t)
      PROVE  FALSE
  BY <1>0, <1>2 DEF BeginPayment, MerchantCreatesOrder, MerchantReplaysOrder, RefusePayment,
                    MerchantRefuses, MerchantUnavailable, Unlock, Done, Idle, Call
<1>. QED
  BY <1>1, <1>2 DEF Quiet, Placed

\* What PaidOnce says of one order.
PaidFor(i) ==
    /\ mem.challenge[mem.orders[i].by].state # "none"
    /\ mem.challenge[mem.orders[i].by].key = mem.orders[i].key
    /\ Unspendable(mem.orders[i])
    /\ \A j \in 1 .. Len(mem.orders) :
          i < j /\ mem.orders[j].by = mem.orders[i].by => Broke(mem.orders[i])

\* One challenge goes on paying for one order, but for requests that break.
LEMMA PaidOnceStep ==
    ASSUME TypeOK, AtWork, Mirrored, Vetted, LastIsMine, PaidOnce, [Next]_vars
    PROVE  PaidOnce'
<1>0. /\ mem.orders \in Seq(OrderRecord) /\ Len(mem.orders) \in Nat
      /\ call \in [Threads -> Call] /\ setup' = setup
      /\ \A i \in 1 .. Len(mem.orders) : mem.orders[i].by \in Challenges \cup {X402}
  BY MemoryFacts, SetupIsKept DEF TypeOK
<1>. SUFFICES ASSUME setup.keyInBody, NEW i \in 1 .. Len(mem'.orders),
                     mem'.orders[i].by # X402
              PROVE  PaidFor(i)'
  BY <1>0 DEF PaidOnce, PaidFor
<1>1. \A j \in 1 .. Len(mem.orders) : mem.orders[j].by # X402 => PaidFor(j)
  BY DEF PaidOnce, PaidFor
<1>2. CASE /\ Len(mem'.orders) = Len(mem.orders) /\ mem'.challenge = mem.challenge
           /\ \A j \in 1 .. Len(mem.orders) :
                 /\ mem'.orders[j].key = mem.orders[j].key
                 /\ mem'.orders[j].by = mem.orders[j].by
                 /\ mem'.orders[j].event = mem.orders[j].event
           /\ \A u \in Threads : call'[u].at = "pay" =>
                 call'[u] = call[u] \/ call'[u].key # mem.orders[i].key
           /\ \A u \in Threads : call[u].at = "recorded" =>
                 call'[u] = call[u] \/ (\A w \in Threads : call'[w].at # "pay")
  <2>1. PaidFor(i) /\ i \in 1 .. Len(mem.orders)
    BY <1>1, <1>2
  <2>2. \A j \in 1 .. Len(mem.orders) : Broke(mem.orders[j]) => Broke(mem.orders[j])'
    BY <1>2, ToldStays DEF Broke
  <2>3. Unspendable(mem.orders[i])'
    BY <1>2, <2>1, <2>2 DEF PaidFor, Unspendable
  <2>. QED
    BY <1>2, <2>1, <2>2, <2>3 DEF PaidFor
<1>3. CASE Prepares
  BY <1>2, <1>3, PreparingEffect
<1>4. ASSUME NEW t \in Threads, NEW c \in Challenges, CreatePaymentChallenge(t, c)
      PROVE  PaidFor(i)'
  <2>1. /\ mem'.orders = mem.orders /\ mem.challenge[c].state = "none" /\ told' = told
        /\ call' = [call EXCEPT ![t] = Idle] /\ call[t].at = "challenge"
        /\ \A d \in Challenges \ {c} : mem'.challenge[d] = mem.challenge[d]
    BY <1>4, ChallengingEffect DEF Done
  <2>2. PaidFor(i) /\ mem.orders[i].by \in Challenges
    BY <1>0, <1>1, <2>1
  <2>3. mem'.challenge[mem.orders[i].by] = mem.challenge[mem.orders[i].by]
    BY <2>1, <2>2 DEF PaidFor
  <2>4. \A u \in Threads : /\ call'[u].at = "pay" => call'[u] = call[u]
                           /\ call[u].at = "recorded" => call'[u] = call[u]
    BY <1>0, <2>1 DEF Idle
  <2>5. Unspendable(mem.orders[i])'
    BY <2>1, <2>2, <2>3, <2>4 DEF PaidFor, Unspendable, Broke
  <2>. QED
    BY <2>1, <2>2, <2>3, <2>5 DEF PaidFor, Broke
<1>5. ASSUME NEW t \in Threads, RecordOrder(t)
      PROVE  PaidFor(i)'
  <2>. DEFINE o == NewOrder(call[t])
              n == Len(mem.orders)
  <2>1. /\ mem'.orders = Append(mem.orders, o) /\ mem'.challenge = mem.challenge
        /\ call[t].at = "created" /\ call' = [call EXCEPT ![t].at = "recorded"]
        /\ o.key = call[t].key /\ o.by = call[t].by /\ told' = told
    BY <1>5, RecordingEffect DEF NewOrder
  <2>. HIDE DEF o
  <2>2. /\ Len(mem'.orders) = n + 1 /\ mem'.orders[n + 1] = o
        /\ \A j \in 1 .. n : mem'.orders[j] = mem.orders[j]
    BY <1>0, <2>1
  <2>3. /\ call'[t].at = "recorded" /\ call'[t].by = call[t].by
        /\ \A u \in Threads : u # t => call'[u] = call[u]
    BY <1>0, <2>1 DEF Call
  <2>4. o.by # X402 =>
           /\ mem.challenge[o.by].state = "open" /\ mem.challenge[o.by].key = o.key
           /\ \A j \in 1 .. n : mem.orders[j].by = o.by => Broke(mem.orders[j])
    BY <2>1 DEF Vetted, VettedCall
  <2>5. CASE i = n + 1
    <3>1. Unspendable(mem.orders[i])'
      BY <2>1, <2>2, <2>3, <2>5 DEF Unspendable
    <3>2. \A j \in 1 .. n + 1 : ~(i < j)
      BY <1>0, <2>5
    <3>. QED
      BY <1>0, <2>1, <2>2, <2>4, <2>5, <3>1, <3>2 DEF PaidFor
  <2>6. CASE i \in 1 .. n
    <3>1. PaidFor(i) /\ mem'.orders[i] = mem.orders[i] /\ mem.orders[i].by # X402
      BY <1>1, <2>2, <2>6
    <3>2. Broke(mem.orders[i]) => Broke(mem.orders[i])'
      BY <2>1, <3>1 DEF Broke
    <3>3. Unspendable(mem.orders[i])'
      BY <2>1, <2>3, <3>1, <3>2 DEF PaidFor, Unspendable
    <3>4. \A j \in 1 .. n + 1 :
             i < j /\ mem'.orders[j].by = mem'.orders[i].by => Broke(mem.orders[i])
      <4>1. \A j \in 1 .. n :
               i < j /\ mem'.orders[j].by = mem'.orders[i].by => Broke(mem.orders[i])
        BY <2>2, <3>1 DEF PaidFor
      <4>2. mem'.orders[n + 1].by = mem'.orders[i].by => Broke(mem.orders[i])
        BY <2>2, <2>4, <2>6, <3>1
      <4>3. \A j \in 1 .. n + 1 : j \in 1 .. n \/ j = n + 1
        BY <1>0
      <4>. QED
        BY <4>1, <4>2, <4>3
    <3>. QED
      BY <2>1, <2>2, <3>1, <3>2, <3>3, <3>4 DEF PaidFor
  <2>. QED
    BY <1>0, <2>2, <2>5, <2>6
<1>6. ASSUME NEW t \in Threads, FinishCheckout(t)
      PROVE  PaidFor(i)'
  <2>. DEFINE n == Len(mem.orders)
              c == mem.orders[i].by
  <2>1. /\ Len(mem'.orders) = n /\ call' = [call EXCEPT ![t] = Idle]
        /\ call[t].at = "recorded" /\ told \subseteq told'
        /\ \A j \in 1 .. n : SamePurchase(mem'.orders[j], mem.orders[j])
        /\ \A j \in 1 .. n - 1 : mem'.orders[j] = mem.orders[j]
        /\ \A d \in Challenges :
              /\ mem'.challenge[d].key = mem.challenge[d].key
              /\ IF d = call[t].by /\ d # X402
                 THEN mem'.challenge[d].state = "used"
                 ELSE mem'.challenge[d].state = mem.challenge[d].state
    BY <1>6, FinishingEffect, ToldStays DEF Unlock, Done
  <2>2. /\ i \in 1 .. n /\ c # X402 /\ c \in Challenges /\ PaidFor(i)
        /\ mem'.orders[i].by = c /\ mem'.orders[i].key = mem.orders[i].key
    BY <1>0, <1>1, <2>1 DEF SamePurchase
  <2>3. \A u \in Threads : /\ call'[u].at = "pay" => call'[u] = call[u]
                           /\ call[u].at = "recorded" => u = t
    BY <1>0, <2>1, OneInside DEF Idle, Inside
  <2>4. i # n /\ Broke(mem.orders[i]) => Broke(mem.orders[i])'
    BY <1>0, <2>1, <2>2 DEF Broke
  <2>5. i = n => call[t].by = c
    BY <2>1 DEF LastIsMine
  <2>6. Unspendable(mem.orders[i])'
    <3>1. CASE call[t].by = c
      BY <2>1, <2>2, <3>1 DEF Unspendable
    <3>2. CASE call[t].by # c
      BY <2>1, <2>2, <2>3, <2>4, <2>5, <3>2 DEF Unspendable, PaidFor
    <3>. QED
      BY <3>1, <3>2
  <2>7. /\ mem'.challenge[c].state # "none" /\ mem'.challenge[c].key = mem.orders[i].key
    BY <2>1, <2>2 DEF PaidFor
  <2>8. ASSUME NEW j \in 1 .. n, i < j, mem'.orders[j].by = c
        PROVE  Broke(mem.orders[i])'
    <3>1. Broke(mem.orders[i])
      BY <2>1, <2>2, <2>8 DEF SamePurchase, PaidFor
    <3>. QED
      BY <1>0, <2>2, <2>4, <2>8, <3>1
  <2>. QED
    BY <2>1, <2>2, <2>6, <2>7, <2>8 DEF PaidFor
<1>7. ASSUME NEW t \in Threads, CheckoutBreaks(t)
      PROVE  PaidFor(i)'
  <2>. DEFINE n == Len(mem.orders)
  <2>1. /\ Len(mem'.orders) = n /\ call' = [call EXCEPT ![t] = Idle]
        /\ call[t].at = "recorded" /\ mem'.challenge = mem.challenge
        /\ told' = told \cup {Answer(call[t].key, "error")}
        /\ \A j \in 1 .. n : /\ SamePurchase(mem'.orders[j], mem.orders[j])
                             /\ mem'.orders[j].event = mem.orders[j].event
    BY <1>7, BreakingEffect DEF Unlock, Done
  <2>2. /\ i \in 1 .. n /\ mem.orders[i].by # X402 /\ PaidFor(i)
        /\ mem'.orders[i].by = mem.orders[i].by /\ mem'.orders[i].key = mem.orders[i].key
    BY <1>0, <1>1, <2>1 DEF SamePurchase
  <2>3. \A u \in Threads : /\ call'[u].at = "pay" => call'[u] = call[u]
                           /\ call[u].at = "recorded" => u = t
    BY <1>0, <2>1, OneInside DEF Idle, Inside
  <2>4. Broke(mem.orders[i]) => Broke(mem.orders[i])'
    BY <2>1, <2>2 DEF Broke
  <2>5. n \in 1 .. n /\ mem.orders[n].by = call[t].by /\ mem.orders[n].key = call[t].key
        /\ mem.orders[n].event = "open"
    BY <1>0, <2>1 DEF LastIsMine
  <2>6. call[t].by = mem.orders[i].by => Broke(mem.orders[i])'
    <3>1. CASE i = n
      BY <2>1, <2>2, <2>5, <3>1 DEF Broke
    <3>2. CASE i # n
      BY <1>0, <2>2, <2>4, <2>5, <3>2 DEF PaidFor
    <3>. QED
      BY <3>1, <3>2
  <2>7. Unspendable(mem.orders[i])'
    BY <2>1, <2>2, <2>3, <2>4, <2>6 DEF Unspendable, PaidFor
  <2>. QED
    BY <2>1, <2>2, <2>4, <2>7 DEF PaidFor, SamePurchase
<1>8. CASE Crash
  BY <1>2, <1>8, CrashEffect DEF Idle, SamePurchase
<1>9. CASE Quiet
  BY <1>2, <1>9, QuietEffect, NewPayers
<1>. QED
  BY <1>3, <1>4, <1>5, <1>6, <1>7, <1>8, <1>9, StepKinds DEF Close

(***************************************************************************)
(* The theorems                                                            *)
(***************************************************************************)

\* The service starts well.
LEMMA InitEstablishes ==
    ASSUME Init
    PROVE  IInv
<1>1. /\ setup \in Setups /\ setup.crashes \in Nat /\ setup.stock \in Nat
      /\ setup.budget \in Nat /\ 1 \in 1 .. setup.months
  BY SetupFacts DEF Init
<1>2. EmptyState \in ServiceState
  <2>1. NoApproval \in ApprovalRecord /\ NoChallenge \in ChallengeRecord
    BY DEF NoApproval, NoChallenge, ApprovalRecord, ChallengeRecord, RailOrNone
  <2>2. <<>> \in Seq(OrderRecord) /\ None \in RailOrNone
    BY DEF RailOrNone
  <2>. QED
    BY <1>1, <2>1, <2>2 DEF EmptyState, ServiceState
<1>3. TypeOK
  BY <1>1, <1>2 DEF Init, TypeOK, Idle, Call
<1>4. AtWork /\ Mirrored /\ Vetted /\ LastIsMine
  BY DEF Init, AtWork, Mirrored, Vetted, LastIsMine, Idle, Inside, EmptyState
<1>5. /\ mem.orders = <<>> /\ disk.orders = <<>> /\ mem.stock = setup.stock /\ told = {}
      /\ month = 1 /\ \A q \in Quotes : mem.made[q] = 0
  BY DEF Init, EmptyState
<1>6. Covered /\ Dated /\ PaidOnce /\ AnsweredIsDurable
  BY <1>5 DEF Covered, Dated, PaidOnce, AnsweredIsDurable, Init, Idle, Inside
<1>7. UnitsKept /\ WithinLimits
  BY <1>1, <1>5 DEF UnitsKept, WithinLimits
<1>. QED
  BY <1>3, <1>4, <1>6, <1>7 DEF IInv

\* And goes on well.
LEMMA StepPreserves ==
    ASSUME IInv, [Next]_vars
    PROVE  IInv'
<1>. USE DEF IInv
<1>1. TypeOK' /\ AtWork' /\ Mirrored'
  BY TypeStep, AtWorkStep, MirroredStep
<1>2. Vetted' /\ LastIsMine' /\ Dated'
  BY VettedStep, LastIsMineStep, DatedStep
<1>3. Covered' /\ UnitsKept' /\ WithinLimits'
  BY CoveredStep, LimitsStep
<1>4. PaidOnce' /\ AnsweredIsDurable'
  BY <1>1, PaidOnceStep, AnsweredStep
<1>. QED
  BY <1>1, <1>2, <1>3, <1>4

\* The inductive invariant holds in every reachable state.
LEMMA Invariance == Spec => []IInv
<1>1. Init => IInv
  BY InitEstablishes
<1>2. IInv /\ [Next]_vars => IInv'
  BY StepPreserves
<1>. QED
  BY <1>1, <1>2, PTL DEF Spec

\* Whatever requests, expiries and crashes do, the memory and the state file
\* are well-formed; in particular the stock never goes below zero.
THEOREM GatewayTypes == Spec => []TypeOK
<1>1. IInv => TypeOK
  BY DEF IInv
<1>. QED
  BY <1>1, Invariance, PTL

\* However many approved quotes are paid at once, and whatever older quotes are
\* paid in between, the orders of a month that were quoted in it stay within its
\* budget and, at a plain store, all orders within the stock (create_order_locked
\* evaluates the policy again and keeps the lock until the order is stored).
THEOREM LimitsHold == Spec => []WithinLimits
<1>1. IInv => WithinLimits
  BY DEF IInv
<1>. QED
  BY <1>1, Invariance, PTL

\* A challenge that carries its idempotency key in the body pays for one order,
\* in spite of a crash between the order and the mark that it is used; only after
\* a request that broke with its order stored does it pay for that key again.  And
\* an x402 order is paid on what its approval bound.
THEOREM PaymentsHold == Spec => []PaymentsAreTheOrders
<1>1. IInv => PaymentsAreTheOrders
  <2>. SUFFICES ASSUME IInv
                PROVE  PaymentsAreTheOrders
    OBVIOUS
  <2>1. PaidOnce /\ Covered
    BY DEF IInv
  <2>2. ChallengePaysOnce
    BY <2>1 DEF PaidOnce, ChallengePaysOnce
  <2>3. X402PaidAsApproved
    BY <2>1 DEF Covered, Covers, X402PaidAsApproved
  <2>. QED
    BY <2>2, <2>3 DEF PaymentsAreTheOrders
<1>. QED
  BY <1>1, Invariance, PTL

\* A buyer that was answered with an order finds it after any number of crashes,
\* and one that was answered with its new order its task and its event as well.
THEOREM AnswersHold == Spec => []AnsweredIsDurable
<1>1. IInv => AnsweredIsDurable
  BY DEF IInv
<1>. QED
  BY <1>1, Invariance, PTL

(***************************************************************************)
(* The gateway implements Purchases                                        *)
(***************************************************************************)

\* The purchase that an order stands for, and those of a sequence of orders.
PurchaseOf(o) == [approval |-> o.approval, quote |-> o.quote, month |-> o.month]

BoughtWith(orders) == [i \in 1 .. Len(orders) |-> PurchaseOf(orders[i])]

LEMMA OneMoreBought ==
    ASSUME NEW orders \in Seq(OrderRecord), NEW o
    PROVE  /\ Len(BoughtWith(orders)) = Len(orders)
           /\ BoughtWith(Append(orders, o)) = Append(BoughtWith(orders), PurchaseOf(o))
<1>. DEFINE n == Len(orders)
            b == BoughtWith(orders)
            c == BoughtWith(Append(orders, o))
            x == PurchaseOf(o)
<1>1. n \in Nat /\ Len(Append(orders, o)) = n + 1
  OBVIOUS
<1>. DEFINE S == {PurchaseOf(orders[i]) : i \in 1 .. n} \cup {x}
<1>2. b \in Seq(S) /\ Len(b) = n /\ x \in S
  BY <1>1 DEF BoughtWith
<1>3. /\ c \in Seq(S) /\ Len(c) = n + 1
      /\ \A i \in 1 .. n : c[i] = b[i]
      /\ c[n + 1] = x
  BY <1>1 DEF BoughtWith
<1>4. /\ Append(b, x) \in Seq(S) /\ Len(Append(b, x)) = n + 1
      /\ \A i \in 1 .. n : Append(b, x)[i] = b[i]
      /\ Append(b, x)[n + 1] = x
  <2>. HIDE DEF b, x, S
  <2>. QED
    BY <1>2, AppendProperties
<1>5. \A i \in 1 .. n + 1 : c[i] = Append(b, x)[i]
  <2>. HIDE DEF b, c, x, S
  <2>1. \A i \in 1 .. n + 1 : i \in 1 .. n \/ i = n + 1
    BY <1>1
  <2>. QED
    BY <1>3, <1>4, <2>1
<1>6. c = Append(b, x)
  <2>. HIDE DEF b, c, x, S
  <2>. QED
    BY <1>1, <1>3, <1>4, <1>5, SeqEqual
<1>. QED
  BY <1>2, <1>6

\* Orders that are the same purchases read the same.
LEMMA SameReading ==
    ASSUME NEW a, NEW b, Len(a) = Len(b),
           \A i \in 1 .. Len(a) : SamePurchase(a[i], b[i])
    PROVE  BoughtWith(a) = BoughtWith(b)
BY DEF BoughtWith, PurchaseOf, SamePurchase

\* What the household reads off the file.
LEMMA Reading ==
    /\ Household!vars =
         <<setup.budget, month, disk.made, [a \in Approvals |-> disk.approval[a].state],
           [a \in Approvals |-> disk.approval[a].quote], BoughtWith(disk.orders)>>
    /\ Household!vars' =
         <<setup'.budget, month', disk'.made, [a \in Approvals |-> disk'.approval[a].state],
           [a \in Approvals |-> disk'.approval[a].quote], BoughtWith(disk'.orders)>>
BY DEF Household!vars, BoughtWith, PurchaseOf

\* Purchases counts as Gateway does.
LEMMA SameCount == \A S : Household!Cardinality(S) = Cardinality(S)
BY DEF Household!Cardinality, Cardinality

\* Steps that show nothing to the household.
LEMMA Unseen ==
    ASSUME setup' = setup, month' = month, disk'.made = disk.made,
           disk'.approval = disk.approval,
           BoughtWith(disk'.orders) = BoughtWith(disk.orders)
    PROVE  UNCHANGED Household!vars
BY Reading

\* An approval is asked for, decided or expires.
LEMMA PreparingImplements ==
    ASSUME IInv, IInv', setup' = setup, Prepares
    PROVE  [Household!Next]_(Household!vars)
<1>. USE DEF Saved
<1>0. /\ mem \in ServiceState /\ mem.approval \in [Approvals -> ApprovalRecord]
      /\ mem.made \in [Quotes -> Nat]
      /\ disk.approval = mem.approval /\ disk.made = mem.made
      /\ disk'.made = mem'.made /\ month' = month
      /\ BoughtWith(disk'.orders) = BoughtWith(disk.orders)
  <2>1. /\ Mirrored /\ Mirrored' /\ mem'.orders = mem.orders /\ month' = month
        /\ mem \in ServiceState
    BY PreparingEffect DEF IInv, TypeOK
  <2>2. /\ Len(disk'.orders) = Len(disk.orders)
        /\ \A i \in 1 .. Len(disk'.orders) : SamePurchase(disk'.orders[i], disk.orders[i])
    BY <2>1 DEF Mirrored, SamePurchase
  <2>. QED
    BY <2>1, <2>2, SameReading DEF Mirrored, ServiceState
<1>1. ASSUME disk'.approval = disk.approval, disk'.made = disk.made
      PROVE  UNCHANGED Household!vars
  BY <1>0, <1>1, Unseen
<1>2. ASSUME NEW q \in Quotes, NEW rail \in AskedRails \cup {None},
             CreateQuote(q, rail) \/ CreateRemoteQuote(q, rail)
      PROVE  [Household!Next]_(Household!vars)
  <2>1. /\ disk'.approval = disk.approval /\ disk.made[q] = 0
        /\ disk'.made = [disk.made EXCEPT ![q] = month]
    BY <1>0, <1>2 DEF CreateQuote, CreateRemoteQuote, Quoted, ServiceState
  <2>2. Household!Quote(q)
    BY <1>0, <2>1 DEF Household!Quote, BoughtWith, PurchaseOf
  <2>. QED
    BY <2>2 DEF Household!Next
<1>3. ASSUME NEW a \in Approvals, NEW q \in Quotes, NEW rail \in AskedRails \cup {None},
             CreateApproval(a, q, rail)
      PROVE  [Household!Next]_(Household!vars)
  <2>. DEFINE s == WithRail(mem, q, rail)
              e == [s EXCEPT !.stamp[q] = a]
              r == [state |-> "pending", quote |-> q, rail |-> Destination(s, q)]
  <2>1. /\ \/ disk' = disk
           \/ disk' = e
           \/ disk' = [e EXCEPT !.approval[a] = r]
        /\ mem.approval[a].state = "none"
    BY <1>3 DEF CreateApproval
  <2>2. DOMAIN e = DOMAIN mem /\ e.approval = mem.approval /\ e.made = mem.made
    BY <1>0 DEF WithRail, ServiceState
  <2>3. CASE disk' = disk \/ disk' = e
    BY <1>0, <1>1, <2>2, <2>3
  <2>4. CASE disk' = [e EXCEPT !.approval[a] = r]
    <3>1. disk'.approval = [mem.approval EXCEPT ![a] = r] /\ disk'.made = disk.made
      BY <1>0, <2>2, <2>4 DEF ServiceState
    <3>2. /\ [x \in Approvals |-> disk'.approval[x].state] =
               [[x \in Approvals |-> disk.approval[x].state] EXCEPT ![a] = "pending"]
          /\ [x \in Approvals |-> disk'.approval[x].quote] =
               [[x \in Approvals |-> disk.approval[x].quote] EXCEPT ![a] = q]
          /\ [x \in Approvals |-> disk.approval[x].state][a] = "none"
      <4>1. \A x \in Approvals :
               disk'.approval[x] = IF x = a THEN r ELSE disk.approval[x]
        BY <1>0, <3>1
      <4>2. r.state = "pending" /\ r.quote = q
        OBVIOUS
      <4>. HIDE DEF r, e, s
      <4>. QED
        BY <1>0, <2>1, <4>1, <4>2
    <3>3. Household!Ask(a, q)
      BY <1>0, <3>1, <3>2 DEF Household!Ask, BoughtWith, PurchaseOf
    <3>. QED
      BY <3>3 DEF Household!Next
  <2>. QED
    BY <2>1, <2>3, <2>4
<1>4. ASSUME NEW a \in Approvals, NEW d \in {"approved", "rejected"}, DecideApproval(a, d)
      PROVE  [Household!Next]_(Household!vars)
  <2>1. PICK e \in {"approved", "rejected", "expired"} :
           mem' = [mem EXCEPT !.approval[a].state = e] /\ disk' = mem'
    BY <1>4 DEF DecideApproval
  <2>2. disk'.approval = [mem.approval EXCEPT ![a].state = e] /\ disk'.made = disk.made
    BY <1>0, <2>1 DEF ServiceState
  <2>3. mem.approval[a].state = "pending" /\ mem.approval[a] \in ApprovalRecord
    BY <1>0, <1>4 DEF DecideApproval
  <2>4. /\ [x \in Approvals |-> disk'.approval[x].state] =
             [[x \in Approvals |-> disk.approval[x].state] EXCEPT ![a] = e]
        /\ [x \in Approvals |-> disk'.approval[x].quote] =
             [x \in Approvals |-> disk.approval[x].quote]
        /\ [x \in Approvals |-> disk.approval[x].state][a] = "pending"
    <3>. DEFINE r == [mem.approval[a] EXCEPT !.state = e]
    <3>1. r.state = e /\ r.quote = disk.approval[a].quote
      BY <1>0, <2>3 DEF ApprovalRecord
    <3>2. \A x \in Approvals :
             disk'.approval[x] = IF x = a THEN r ELSE disk.approval[x]
      BY <1>0, <2>2
    <3>. HIDE DEF r
    <3>. QED
      BY <1>0, <2>3, <3>1, <3>2
  <2>5. Household!Decide(a, e)
    BY <1>0, <2>2, <2>4 DEF Household!Decide, BoughtWith, PurchaseOf
  <2>. QED
    BY <2>5 DEF Household!Next
<1>5. CASE ExpireStaleApprovals
  <2>0. PICK stale \in SUBSET Approvals :
           stale = {a \in Approvals : mem.approval[a].state = "pending" /\ a \in overdue}
    OBVIOUS
  <2>1. /\ disk'.approval = [a \in Approvals |->
                                IF a \in stale
                                THEN [mem.approval[a] EXCEPT !.state = "expired"]
                                ELSE mem.approval[a]]
        /\ disk'.made = disk.made
    BY <1>0, <1>5, <2>0 DEF ExpireStaleApprovals, ServiceState
  <2>2. \A a \in Approvals : mem.approval[a] \in ApprovalRecord
    BY <1>0
  <2>3. \A a \in Approvals :
           /\ disk'.approval[a].state = IF a \in stale THEN "expired" ELSE disk.approval[a].state
           /\ disk'.approval[a].quote = disk.approval[a].quote
    BY <1>0, <2>1, <2>2 DEF ApprovalRecord
  <2>4. Household!Expire(stale)
    BY <1>0, <2>0, <2>1, <2>3 DEF Household!Expire, BoughtWith, PurchaseOf
  <2>. QED
    BY <2>4 DEF Household!Next
<1>. QED
  BY <1>2, <1>3, <1>4, <1>5 DEF Prepares

\* The orders of a month are the purchases of it.
LEMMA MonthsRead ==
    ASSUME NEW orders \in Seq(OrderRecord), NEW m
    PROVE  {i \in 1 .. Len(BoughtWith(orders)) : BoughtWith(orders)[i].month = m} =
               {i \in 1 .. Len(orders) : orders[i].month = m}
<1>1. Len(BoughtWith(orders)) = Len(orders)
  BY OneMoreBought
<1>2. \A i \in 1 .. Len(orders) : BoughtWith(orders)[i].month = orders[i].month
  BY DEF BoughtWith, PurchaseOf
<1>. QED
  BY <1>1, <1>2

\* A stored order is a purchase; nothing else adds or takes one.
LEMMA StepImplements ==
    ASSUME IInv, IInv', [Next]_vars
    PROVE  [Household!Next]_(Household!vars)
<1>. USE DEF IInv
<1>0. /\ disk.approval = mem.approval /\ disk'.approval = mem'.approval
      /\ disk.made = mem.made /\ disk'.made = mem'.made
      /\ BoughtWith(disk.orders) = BoughtWith(mem.orders)
      /\ BoughtWith(disk'.orders) = BoughtWith(mem'.orders)
      /\ setup' = setup /\ mem.orders \in Seq(OrderRecord)
  BY SetupIsKept, MemoryFacts, SameReading DEF Mirrored, SamePurchase
<1>1. CASE Prepares
  BY <1>0, <1>1, PreparingImplements
<1>2. CASE /\ mem'.approval = mem.approval /\ mem'.made = mem.made /\ month' = month
           /\ BoughtWith(mem'.orders) = BoughtWith(mem.orders)
  BY <1>0, <1>2, Unseen
<1>3. ASSUME NEW t \in Threads, NEW c \in Challenges, CreatePaymentChallenge(t, c)
      PROVE  [Household!Next]_(Household!vars)
  BY <1>2, <1>3, ChallengingEffect
<1>4. ASSUME NEW t \in Threads, RecordOrder(t)
      PROVE  [Household!Next]_(Household!vars)
  <2>. DEFINE r == call[t]
              o == NewOrder(r)
              bought == BoughtWith(mem.orders)
  <2>1. /\ r.at = "created" /\ mem'.approval = mem.approval /\ mem'.made = mem.made
        /\ month' = month /\ mem'.orders = Append(mem.orders, o)
        /\ o.approval = r.approval /\ o.quote = r.quote /\ o.month = r.month
    BY <1>4, RecordingEffect DEF NewOrder
  <2>2. VettedCall(r) /\ r.approval \in Approvals /\ r.quote \in Quotes
    BY <2>1 DEF Vetted, AtWork
  <2>3. /\ mem.approval[r.approval].state = "approved"
        /\ mem.approval[r.approval].quote = r.quote
        /\ Spent(mem, mem.made[r.quote]) + 1 <= setup.budget
    BY <2>2 DEF VettedCall, Covers, Allowed
  <2>4. r.month \in mem.made[r.quote] .. month
    <3>1. call[t] \in Call /\ mem \in ServiceState /\ month \in Nat
      BY SetupFacts DEF TypeOK
    <3>2. /\ mem.made[r.quote] \in Nat /\ r.month \in Nat
      BY <2>2, <3>1 DEF ServiceState, Call
    <3>3. mem.made[r.quote] <= r.month /\ r.month <= month
      BY <2>1 DEF Dated, Inside
    <3>. QED
      BY <3>1, <3>2, <3>3
  <2>. HIDE DEF o
  <2>5. BoughtWith(mem'.orders) = Append(bought, PurchaseOf(o))
    BY <1>0, <2>1, OneMoreBought
  <2>6. Cardinality({i \in 1 .. Len(bought) : bought[i].month = mem.made[r.quote]})
            < setup.budget
    <3>1. Spent(mem, mem.made[r.quote]) \in Nat
      <4>1. IsFiniteSet(1 .. Len(mem.orders))
        <5>1. 1 \in Int /\ Len(mem.orders) \in Int
          BY MemoryFacts
        <5>. QED
          BY <5>1, FS_Interval
      <4>2. IsFiniteSet({i \in 1 .. Len(mem.orders) :
                            mem.orders[i].month = mem.made[r.quote]})
        BY <4>1, FS_Subset
      <4>. QED
        BY <4>2, FS_CardinalityType DEF Spent
    <3>2. Spent(mem, mem.made[r.quote]) < setup.budget
      BY <2>3, <3>1, MemoryFacts
    <3>. QED
      BY <1>0, <3>2, MonthsRead DEF Spent
  <2>7. PICK a \in Approvals, q \in Quotes, m \in mem.made[r.quote] .. month :
           a = r.approval /\ q = r.quote /\ m = r.month
    BY <2>2, <2>4
  <2>8. Household!Buy(a, q)
    <3>1. /\ [x \in Approvals |-> disk.approval[x].state][a] = "approved"
          /\ [x \in Approvals |-> disk.approval[x].quote][a] = q
      BY <1>0, <2>3, <2>7
    <3>2. /\ BoughtWith(disk'.orders) =
               Append(bought, [approval |-> a, quote |-> q, month |-> m])
          /\ disk'.approval = disk.approval /\ disk'.made = disk.made
          /\ setup' = setup /\ month' = month
      BY <1>0, <2>1, <2>5, <2>7 DEF PurchaseOf
    <3>3. m \in disk.made[q] .. month
      BY <1>0, <2>7
    <3>4. Cardinality({i \in 1 .. Len(BoughtWith(disk.orders)) :
                          BoughtWith(disk.orders)[i].month = disk.made[q]}) < setup.budget
      BY <1>0, <2>6, <2>7
    <3>5. \E n \in disk.made[q] .. month :
             BoughtWith(disk'.orders) =
               Append(BoughtWith(disk.orders), [approval |-> a, quote |-> q, month |-> n])
      BY <1>0, <3>2, <3>3
    <3>6. /\ BoughtWith(disk.orders) =
               [i \in 1 .. Len(disk.orders) |->
                  [approval |-> disk.orders[i].approval, quote |-> disk.orders[i].quote,
                   month |-> disk.orders[i].month]]
          /\ BoughtWith(disk'.orders) =
               [i \in 1 .. Len(disk'.orders) |->
                  [approval |-> disk'.orders[i].approval, quote |-> disk'.orders[i].quote,
                   month |-> disk'.orders[i].month]]
      BY DEF BoughtWith, PurchaseOf
    <3>. QED
      BY <3>1, <3>2, <3>4, <3>5, <3>6, SameCount DEF Household!Buy
  <2>. QED
    BY <2>8 DEF Household!Next
<1>5. ASSUME NEW t \in Threads, Close(t)
      PROVE  [Household!Next]_(Household!vars)
  <2>1. /\ mem'.approval = mem.approval /\ mem'.made = mem.made /\ month' = month
        /\ Len(mem'.orders) = Len(mem.orders)
        /\ \A i \in 1 .. Len(mem'.orders) : SamePurchase(mem'.orders[i], mem.orders[i])
    BY <1>5, ClosingEffect
  <2>. QED
    BY <1>2, <2>1, SameReading
<1>6. CASE Crash
  <2>1. /\ mem'.approval = mem.approval /\ mem'.made = mem.made /\ month' = month
        /\ Len(mem'.orders) = Len(mem.orders)
        /\ \A i \in 1 .. Len(mem'.orders) : SamePurchase(mem'.orders[i], mem.orders[i])
    BY <1>6, CrashEffect
  <2>. QED
    BY <1>2, <2>1, SameReading
<1>7. CASE MonthPasses
  <2>1. Household!NextMonth
    BY <1>7 DEF MonthPasses, Household!NextMonth
  <2>. QED
    BY <2>1 DEF Household!Next
<1>8. CASE Quiet /\ ~MonthPasses
  <2>1. month' = month
    BY <1>8
       DEF Next, vars, CreateQuote, CreateRemoteQuote, CreateApproval, DecideApproval,
           ExpireStaleApprovals, Replay, CheckoutX402, Checkout, CreatePaymentChallenge,
           BeginPayment, RefusePayment, MerchantCreatesOrder, MerchantReplaysOrder,
           MerchantRefuses, MerchantUnavailable, RecordOrder, FinishCheckout,
           CheckoutBreaks, QuoteExpires, ApprovalExpires, ChallengeExpires, Crash
  <2>. QED
    BY <1>2, <1>8, <2>1 DEF Quiet
<1>. QED
  BY <1>1, <1>3, <1>4, <1>5, <1>6, <1>7, <1>8, StepKinds

\* Threads, the lock, failures, crashes and restarts never show the household an
\* order without a final approval of its quote, or one that the budget of its
\* quote's month did not pay for, and never take a decision or an order back: the
\* state file implements Purchases.
THEOREM GatewayImplementsPurchases == Spec => ImplementsPurchases
<1>1. Init => Household!Init
  <2>. SUFFICES ASSUME Init
                PROVE  Household!Init
    OBVIOUS
  <2>1. /\ setup \in Setups
        /\ disk.approval = [a \in Approvals |-> NoApproval] /\ disk.orders = <<>>
        /\ disk.made = [q \in Quotes |-> 0] /\ month = 1
    BY DEF Init, EmptyState
  <2>2. /\ setup.budget \in {s.budget : s \in Setups}
        /\ [a \in Approvals |-> disk.approval[a].state] = [a \in Approvals |-> "none"]
        /\ [a \in Approvals |-> disk.approval[a].quote] = [a \in Approvals |-> None]
    BY <2>1 DEF NoApproval
  <2>3. [i \in 1 .. Len(disk.orders) |-> [approval |-> disk.orders[i].approval,
                                         quote |-> disk.orders[i].quote,
                                         month |-> disk.orders[i].month]] = <<>>
    BY <2>1
  <2>. QED
    BY <2>1, <2>2, <2>3 DEF Household!Init
<1>2. IInv /\ IInv' /\ [Next]_vars => [Household!Next]_(Household!vars)
  BY StepImplements
<1>. QED
  BY <1>1, <1>2, Invariance, PTL DEF Spec, ImplementsPurchases, Household!Spec

(***************************************************************************)
(* Quote tournaments                                                       *)
(***************************************************************************)
LEMMA LeastNumber ==
    ASSUME NEW N \in SUBSET Nat, N # {}
    PROVE  \E m \in N : \A k \in N : m <= k
<1>1. PICK m \in N : \A k \in N : <<k, m>> \notin OpToRel(<, Nat)
  BY WFMin, NatLessThanWellFounded, Zenon
<1>2. \A k \in N : ~(k < m)
  BY <1>1, Zenon DEF OpToRel
<1>. QED
  BY <1>2

\* f[i] is what the first i sequences of g are joined.
Joins(f, g, n) == f = [i \in 1 .. n |-> IF i = 1 THEN g[i] ELSE f[i - 1] \o g[i]]

LEMMA FlattenJoins ==
    ASSUME NEW g, Len(g) # 0
    PROVE  FlattenSeq(g) = (CHOOSE f : Joins(f, g, Len(g)))[Len(g)]
BY DEF FlattenSeq, Joins

LEMMA JoinsExist ==
    ASSUME NEW g, NEW n \in Nat
    PROVE  \E f : Joins(f, g, n)
<1>. DEFINE Bad == {m \in Nat : ~\E f : Joins(f, g, m)}
<1>. SUFFICES ASSUME Bad # {} PROVE FALSE
  OBVIOUS
<1>1. PICK m \in Bad : \A i \in Bad : m <= i
  BY LeastNumber
<1>2. CASE m = 0
  <2>1. \A i \in 1 .. 0 : FALSE
    OBVIOUS
  <2>2. Joins([i \in 1 .. 0 |-> <<>>], g, 0)
    BY <2>1 DEF Joins
  <2>. QED
    BY <1>2, <2>2
<1>3. CASE m # 0
  <2>1. m - 1 \in Nat /\ m - 1 \notin Bad
    BY <1>1, <1>3
  <2>2. PICK f : Joins(f, g, m - 1)
    BY <2>1
  <2>. DEFINE At(k, i) == IF i = 1 THEN g[i] ELSE k[i - 1] \o g[i]
              h == [i \in 1 .. m |-> At(f, i)]
  <2>3. \A i \in 1 .. m - 1 : f[i] = At(f, i)
    BY <2>2 DEF Joins
  <2>. HIDE DEF At
  <2>4. \A i \in 1 .. m - 1 : h[i] = f[i]
    BY <2>1, <2>3
  <2>5. \A i \in 1 .. m : i # 1 => h[i - 1] = f[i - 1]
    <3>1. m \in Nat /\ \A i \in 1 .. m : i # 1 => i - 1 \in 1 .. m - 1
      BY <1>1
    <3>. HIDE DEF h
    <3>. QED
      BY <2>4, <3>1
  <2>6. \A i \in 1 .. m : At(f, i) = At(h, i)
    BY <2>5 DEF At
  <2>7. h = [i \in 1 .. m |-> At(h, i)]
    BY <2>6
  <2>8. Joins(h, g, m)
    BY <2>7 DEF Joins, At
  <2>. QED
    BY <2>8
<1>. QED
  BY <1>2, <1>3

\* Sequences of things of one kind are joined to a sequence of such things.
LEMMA JoinedSequences ==
    ASSUME NEW E, NEW g \in Seq(Seq(E))
    PROVE  FlattenSeq(g) \in Seq(E)
<1>. DEFINE n == Len(g)
            f == CHOOSE x : Joins(x, g, n)
            Bad == {k \in 1 .. n : f[k] \notin Seq(E)}
<1>1. n \in Nat /\ \A k \in 1 .. n : g[k] \in Seq(E)
  OBVIOUS
<1>2. CASE n = 0
  <2>1. g = <<>> /\ FlattenSeq(g) = g
    BY <1>2, EmptySeq DEF FlattenSeq
  <2>2. <<>> \in Seq(E)
    BY EmptySeq
  <2>. QED
    BY <2>1, <2>2, Zenon
<1>3. CASE n # 0
  <2>1. Joins(f, g, n)
    BY <1>1, JoinsExist
  <2>2. FlattenSeq(g) = f[n]
    BY <1>3, FlattenJoins
  <2>. HIDE DEF f, n
  <2>3. \A k \in 1 .. n : f[k] = IF k = 1 THEN g[k] ELSE f[k - 1] \o g[k]
    BY <2>1 DEF Joins
  <2>4. Bad = {}
    <3>. SUFFICES ASSUME Bad # {} PROVE FALSE
      OBVIOUS
    <3>1. PICK k \in Bad : \A i \in Bad : k <= i
      <4>1. Bad \in SUBSET Nat
        BY <1>1
      <4>. HIDE DEF Bad
      <4>. QED
        BY <4>1, LeastNumber
    <3>2. k \in 1 .. n /\ g[k] \in Seq(E) /\ f[k] \notin Seq(E)
      BY <1>1, <3>1
    <3>3. k # 1 /\ f[k] = f[k - 1] \o g[k]
      BY <2>3, <3>2
    <3>4. k - 1 \in 1 .. n /\ ~(k <= k - 1)
      BY <1>1, <3>2, <3>3
    <3>5. f[k - 1] \in Seq(E)
      BY <3>1, <3>4
    <3>. QED
      BY <3>2, <3>3, <3>5, ConcatProperties
  <2>. QED
    BY <1>1, <1>3, <2>2, <2>4 DEF n
<1>. QED
  BY <1>2, <1>3

\* What is drawn in turns is of the queues.
LEMMA TurnsAreQueued ==
    ASSUME NEW E, NEW ms, NEW queue, Len(ms) \in Nat,
           \A i \in 1 .. Len(ms) : \A r \in DOMAIN queue[ms[i]] : queue[ms[i]][r] \in E
    PROVE  InTurns(ms, queue) \in Seq(E)
<1>. DEFINE Turn(r, i) == IF r \in DOMAIN queue[ms[i]] THEN <<queue[ms[i]][r]>> ELSE <<>>
            turns(r) == [i \in 1 .. Len(ms) |-> Turn(r, i)]
            both == [r \in 1 .. PerMerchant |-> FlattenSeq(turns(r))]
<1>1. ASSUME NEW r \in 1 .. PerMerchant
      PROVE  FlattenSeq(turns(r)) \in Seq(E)
  <2>1. \A i \in 1 .. Len(ms) : Turn(r, i) \in Seq(E)
    OBVIOUS
  <2>. HIDE DEF Turn
  <2>2. turns(r) \in Seq(Seq(E))
    BY <2>1
  <2>. QED
    BY <2>2, JoinedSequences
<1>2. both \in Seq(Seq(E))
  <2>. HIDE DEF turns
  <2>. QED
    BY <1>1 DEF PerMerchant
<1>3. FlattenSeq(both) \in Seq(E)
  BY <1>2, JoinedSequences
<1>. QED
  BY <1>3 DEF InTurns

\* The lists of a finite set are no longer than they may be.
LEMMA ListsAreShort ==
    ASSUME NEW S, IsFiniteSet(S), NEW n \in Nat, NEW s \in Lists(S, n)
    PROVE  /\ s \in Seq(S) /\ IsFiniteSet(ToSet(s)) /\ Cardinality(ToSet(s)) <= n
           /\ \A i \in 1 .. Len(s) : s[i] \in ToSet(s) /\ s[i] \in S
<1>. DEFINE k == Smaller(Cardinality(S), n)
<1>1. k \in Nat /\ k <= n
  BY FS_CardinalityType DEF Smaller
<1>2. s \in [1 .. k -> S]
  BY DEF Lists
<1>. HIDE DEF k
<1>3. s \in Seq(S) /\ Len(s) = k /\ DOMAIN s = 1 .. k
  BY <1>1, <1>2
<1>4. ToSet(s) = {s[i] : i \in 1 .. k}
  BY <1>3 DEF ToSet
<1>5. s \in Surjection(1 .. k, ToSet(s))
  BY <1>2, <1>4 DEF Surjection
<1>6. IsFiniteSet(1 .. k) /\ Cardinality(1 .. k) = k
  <2>1. 1 \in Int /\ k \in Int
    BY <1>1
  <2>2. IsFiniteSet(1 .. k) /\ Cardinality(1 .. k) = IF 1 > k THEN 0 ELSE k - 1 + 1
    BY <2>1, FS_Interval
  <2>. QED
    BY <1>1, <2>2
<1>7. IsFiniteSet(ToSet(s)) /\ Cardinality(ToSet(s)) <= k
  BY <1>5, <1>6, FS_Surjection
<1>8. Cardinality(ToSet(s)) \in Nat
  BY <1>7, FS_CardinalityType
<1>. QED
  BY <1>1, <1>2, <1>3, <1>4, <1>7, <1>8

(***************************************************************************)
(* The inductive invariant of a tournament                                 *)
(***************************************************************************)
RunFields == {"at", "catalog", "entries", "drawn", "next", "offers", "failed", "shown",
              "others", "winner"}

\* Merchants come from the market, or are named by a woo store.
MarketFits ==
    /\ market \in Markets
    /\ verified \subseteq Merchants /\ adapters \subseteq Merchants
    /\ DOMAIN run = RunFields
    /\ run.next \in Nat \ {0}
    /\ \A c \in run.catalog : c[1] \in Merchants \cup {market.claims}

\* Products are drawn from the catalogue, of few merchants.
DrawnFits ==
    /\ run.drawn \in Seq(run.catalog)
    /\ \E few : /\ IsFiniteSet(few) /\ Cardinality(few) <= market.limit
                /\ \A i \in 1 .. Len(run.drawn) : run.drawn[i][1] \in few

OffersFit ==
    /\ IsFiniteSet(run.offers)
    /\ \A o \in run.offers :
          /\ o.merchant = o.asked[1] /\ o.asked \in run.catalog /\ Trusted(o.merchant)
          /\ o.offer \in Terms

\* Nothing is offered before quotes are asked for, or shown before the ranking.
StagesFit ==
    /\ run.at \in {"idle", "searched"} => run.drawn = <<>> /\ run.offers = {}
    /\ run.at # "done" => run.shown = {} /\ run.winner = {}

TournamentInv == MarketFits /\ DrawnFits /\ OffersFit /\ StagesFit /\ WinnerIsBest

LEMMA TournamentStarts == TournamentInit => TournamentInv
<1>. SUFFICES ASSUME TournamentInit PROVE TournamentInv
  OBVIOUS
<1>1. market \in Markets /\ market.limit \in Nat
  BY MarketsAreMarkets DEF TournamentInit
<1>2. MarketFits
  BY <1>1 DEF TournamentInit, MarketFits, Waiting, RunFields, OfKind
<1>3. DrawnFits
  <2>1. run.drawn = <<>> /\ run.catalog = {}
    BY DEF TournamentInit, Waiting
  <2>2. <<>> \in Seq({}) /\ Len(<<>>) = 0
    BY EmptySeq
  <2>3. IsFiniteSet({}) /\ Cardinality({}) <= market.limit
    BY <1>1, FS_EmptySet
  <2>4. \A i \in 1 .. Len(run.drawn) : run.drawn[i][1] \in {}
    BY <2>1, <2>2
  <2>. QED
    BY <2>1, <2>2, <2>3, <2>4 DEF DrawnFits
<1>4. OffersFit /\ StagesFit /\ WinnerIsBest
  BY FS_EmptySet DEF TournamentInit, Waiting, OffersFit, StagesFit, WinnerIsBest
<1>. QED
  BY <1>2, <1>3, <1>4 DEF TournamentInv

\* What is compared follows from the market and the offers.
LEMMA SameOffers ==
    ASSUME market' = market, run'.offers = run.offers
    PROVE  Comparable' = Comparable
BY DEF Comparable, Selected, Currencies

\* The registry and the adapters change under a run.
LEMMA RegistryMoves ==
    ASSUME TournamentInv, market' = market, run' = run,
           verified' \subseteq Merchants, adapters' \subseteq Merchants
    PROVE  TournamentInv'
<1>1. MarketFits' /\ DrawnFits' /\ StagesFit'
  BY DEF TournamentInv, MarketFits, DrawnFits, StagesFit, Merchants
<1>2. OffersFit'
  BY DEF TournamentInv, OffersFit, Trusted, Merchants
<1>3. WinnerIsBest'
  BY SameOffers DEF TournamentInv, WinnerIsBest
<1>. QED
  BY <1>1, <1>2, <1>3 DEF TournamentInv

\* The catalogue is of the market's merchants, or of the one a store names.
LEMMA CatalogMerchants ==
    ASSUME adapters \subseteq Merchants
    PROVE  \A c \in FullCatalog : c[1] \in Merchants \cup {market.claims}
<1>1. \A m \in Merchants : \A c \in Catalog(m) : c[1] \in Merchants \cup {market.claims}
  BY DEF Catalog, DemoCatalog, WooCatalog, RegistryCatalog
<1>. QED
  BY <1>1 DEF FullCatalog

LEMMA MarketIsFinite ==
    ASSUME MarketFits
    PROVE  /\ market.limit \in Nat /\ market.size \in Nat \ {0}
           /\ IsFiniteSet({c[1] : c \in run.catalog})
<1>1. /\ market.limit \in Nat /\ market.size \in Nat \ {0}
      /\ IsFiniteSet(Merchants)
  BY MarketsAreMarkets DEF MarketFits, Merchants
<1>2. IsFiniteSet(Merchants \cup {market.claims})
  BY <1>1, FS_AddElement
<1>3. {c[1] : c \in run.catalog} \in SUBSET (Merchants \cup {market.claims})
  BY DEF MarketFits
<1>. QED
  BY <1>1, <1>2, <1>3, FS_Subset

LEMMA SearchKeeps ==
    ASSUME TournamentInv, Search \/ SearchFails
    PROVE  TournamentInv'
<1>1. /\ market' = market /\ verified' = verified /\ adapters' = adapters
      /\ run.at = "idle" /\ DOMAIN run' = DOMAIN run
      /\ run'.at \in {"searched", "failed"}
      /\ run'.catalog \in {run.catalog, FullCatalog}
      /\ run'.entries = run.entries /\ run'.drawn = run.drawn /\ run'.next = run.next
      /\ run'.offers = run.offers /\ run'.shown = run.shown /\ run'.winner = run.winner
  BY DEF Search, SearchFails, TournamentInv, MarketFits, RunFields
<1>2. /\ run.drawn = <<>> /\ run.offers = {} /\ run.shown = {} /\ run.winner = {}
  BY <1>1 DEF TournamentInv, StagesFit
<1>3. MarketFits'
  BY <1>1, CatalogMerchants DEF TournamentInv, MarketFits, Merchants
<1>4. DrawnFits'
  <2>1. run'.drawn \in Seq(run'.catalog)
    BY <1>1, <1>2, EmptySeq
  <2>. QED
    BY <1>1, <2>1 DEF TournamentInv, DrawnFits
<1>5. OffersFit' /\ StagesFit' /\ WinnerIsBest'
  BY <1>1, <1>2, FS_EmptySet DEF OffersFit, StagesFit, WinnerIsBest
<1>. QED
  BY <1>3, <1>4, <1>5 DEF TournamentInv

LEMMA ReadDocumentKeeps ==
    ASSUME TournamentInv, ReadDocument
    PROVE  TournamentInv'
<1>. DEFINE sellers == {c[1] : c \in run.catalog}
<1>1. PICK ms \in Lists(sellers, market.limit) :
         \E queue \in [ToSet(ms) -> UNION {Lists(OfMerchant(m), PerMerchant) : m \in ToSet(ms)}] :
            /\ \A m \in ToSet(ms) : queue[m] \in Lists(OfMerchant(m), PerMerchant)
            /\ run' = [run EXCEPT !.at = "quoting",
                                  !.entries = [m \in Merchants |-> EntryOf(m)],
                                  !.drawn = InTurns(ms, queue)]
  BY DEF ReadDocument
<1>2. PICK queue :
         /\ \A m \in ToSet(ms) : queue[m] \in Lists(OfMerchant(m), PerMerchant)
         /\ run' = [run EXCEPT !.at = "quoting",
                               !.entries = [m \in Merchants |-> EntryOf(m)],
                               !.drawn = InTurns(ms, queue)]
  BY <1>1
<1>3. /\ market' = market /\ verified' = verified /\ adapters' = adapters
      /\ run.at = "searched"
  BY DEF ReadDocument
<1>4. /\ DOMAIN run' = DOMAIN run /\ run'.at = "quoting"
      /\ run'.catalog = run.catalog /\ run'.drawn = InTurns(ms, queue)
      /\ run'.next = run.next /\ run'.offers = run.offers
      /\ run'.shown = run.shown /\ run'.winner = run.winner
  BY <1>2 DEF TournamentInv, MarketFits, RunFields
<1>5. run.offers = {} /\ run.shown = {} /\ run.winner = {}
  BY <1>3 DEF TournamentInv, StagesFit
<1>6. market.limit \in Nat /\ IsFiniteSet(sellers)
  BY MarketIsFinite DEF TournamentInv
<1>7. /\ ms \in Seq(sellers) /\ IsFiniteSet(ToSet(ms))
      /\ Cardinality(ToSet(ms)) <= market.limit
      /\ \A i \in 1 .. Len(ms) : ms[i] \in ToSet(ms)
  <2>. HIDE DEF sellers
  <2>. QED
    BY <1>1, <1>6, ListsAreShort
<1>8. DrawnFits'
  <2>. DEFINE E == {c \in run.catalog : c[1] \in ToSet(ms)}
  <2>1. ASSUME NEW i \in 1 .. Len(ms), NEW r \in DOMAIN queue[ms[i]]
        PROVE  queue[ms[i]][r] \in E
    <3>1. ms[i] \in ToSet(ms)
      BY <1>7
    <3>2. queue[ms[i]] \in Lists(OfMerchant(ms[i]), PerMerchant)
      BY <1>2, <3>1
    <3>3. queue[ms[i]][r] \in OfMerchant(ms[i])
      BY <3>2 DEF Lists
    <3>. QED
      BY <3>1, <3>3 DEF OfMerchant
  <2>2. Len(ms) \in Nat
    BY <1>7, LenProperties
  <2>3. run'.drawn \in Seq(E)
    <3>. HIDE DEF E
    <3>. QED
      BY <1>4, <2>1, <2>2, TurnsAreQueued
  <2>4. /\ run'.drawn \in Seq(run.catalog)
        /\ \A i \in 1 .. Len(run'.drawn) : run'.drawn[i][1] \in ToSet(ms)
    <3>1. \A i \in 1 .. Len(run'.drawn) : run'.drawn[i] \in E
      BY <2>3, ElementOfSeq
    <3>2. run'.drawn \in Seq(run.catalog)
      BY <2>3
    <3>. QED
      BY <3>1, <3>2
  <2>. QED
    BY <1>3, <1>4, <1>7, <2>4 DEF DrawnFits
<1>9. MarketFits'
  BY <1>3, <1>4 DEF TournamentInv, MarketFits, Merchants
<1>10. OffersFit' /\ StagesFit' /\ WinnerIsBest'
  BY <1>4, <1>5, FS_EmptySet DEF OffersFit, StagesFit, WinnerIsBest
<1>. QED
  BY <1>8, <1>9, <1>10 DEF TournamentInv

\* A product is refused: only the turn passes.
LEMMA RefusalKeeps ==
    ASSUME TournamentInv, Asking, run' = Refused,
           market' = market, verified' = verified, adapters' = adapters
    PROVE  TournamentInv'
<1>1. /\ DOMAIN run' = DOMAIN run /\ run'.at = run.at /\ run'.next = run.next + 1
      /\ run'.catalog = run.catalog /\ run'.drawn = run.drawn
      /\ run'.entries = run.entries /\ run'.offers = run.offers
      /\ run'.shown = run.shown /\ run'.winner = run.winner
  BY DEF Refused, TournamentInv, MarketFits, RunFields
<1>2. run.at = "quoting"
  BY DEF Asking
<1>3. MarketFits' /\ DrawnFits' /\ StagesFit'
  BY <1>1 DEF TournamentInv, MarketFits, DrawnFits, StagesFit, Merchants
<1>4. OffersFit'
  BY <1>1 DEF TournamentInv, OffersFit, Trusted, Merchants
<1>5. WinnerIsBest'
  BY <1>1, <1>2 DEF WinnerIsBest
<1>. QED
  BY <1>3, <1>4, <1>5 DEF TournamentInv

LEMMA RejectProductKeeps ==
    ASSUME TournamentInv, RejectProduct
    PROVE  TournamentInv'
BY RefusalKeeps DEF RejectProduct

LEMMA CollectQuoteKeeps ==
    ASSUME TournamentInv, NEW offer \in Terms, CollectQuote(offer)
    PROVE  TournamentInv'
<1>1. PICK c \in QuotesFor(Wanted[2]) :
         run' = IF AcceptsMerchant(c[1]) /\ PaymentReady(offer)
                THEN [run EXCEPT !.next = @ + 1,
                                 !.offers = @ \cup {[id |-> run.next, merchant |-> c[1],
                                                     product |-> c[2], asked |-> Wanted,
                                                     offer |-> offer]}]
                ELSE Refused
  BY DEF CollectQuote
<1>2. /\ market' = market /\ verified' = verified /\ adapters' = adapters
      /\ Asking /\ Trusted(Wanted[1])
  BY DEF CollectQuote
<1>3. CASE ~(AcceptsMerchant(c[1]) /\ PaymentReady(offer))
  BY <1>1, <1>2, <1>3, RefusalKeeps
<1>4. CASE AcceptsMerchant(c[1]) /\ PaymentReady(offer)
  <2>. DEFINE quoted == [id |-> run.next, merchant |-> c[1], product |-> c[2],
                         asked |-> Wanted, offer |-> offer]
  <2>1. /\ DOMAIN run' = DOMAIN run /\ run'.at = run.at /\ run'.next = run.next + 1
        /\ run'.catalog = run.catalog /\ run'.drawn = run.drawn
        /\ run'.entries = run.entries /\ run'.offers = run.offers \cup {quoted}
        /\ run'.shown = run.shown /\ run'.winner = run.winner
    BY <1>1, <1>4 DEF TournamentInv, MarketFits, RunFields
  <2>2. /\ quoted.merchant = Wanted[1] /\ quoted.asked = Wanted /\ quoted.offer = offer
    BY <1>4 DEF AcceptsMerchant
  <2>. HIDE DEF quoted
  <2>3. Wanted \in run.catalog
    <3>1. /\ run.drawn \in Seq(run.catalog) /\ run.next \in Nat \ {0}
          /\ run.next <= Len(run.drawn)
      BY <1>2 DEF Asking, TournamentInv, DrawnFits, MarketFits
    <3>2. run.next \in 1 .. Len(run.drawn)
      BY <3>1, LenProperties
    <3>. QED
      BY <3>1, <3>2, ElementOfSeq DEF Wanted
  <2>4. \A m : Trusted(m) => Trusted(m)'
    BY <1>2, <2>1 DEF Trusted, Merchants
  <2>5. OffersFit'
    <3>1. IsFiniteSet(run'.offers)
      BY <2>1, FS_AddElement DEF TournamentInv, OffersFit
    <3>. QED
      BY <1>2, <2>1, <2>2, <2>3, <2>4, <3>1 DEF TournamentInv, OffersFit
  <2>6. MarketFits' /\ DrawnFits'
    BY <1>2, <2>1 DEF TournamentInv, MarketFits, DrawnFits, Merchants
  <2>7. StagesFit' /\ WinnerIsBest'
    BY <1>2, <2>1 DEF Asking, TournamentInv, StagesFit, WinnerIsBest
  <2>. QED
    BY <2>5, <2>6, <2>7 DEF TournamentInv
<1>. QED
  BY <1>3, <1>4

LEMMA DeadlineKeeps ==
    ASSUME TournamentInv, Deadline
    PROVE  TournamentInv'
<1>. DEFINE n == run.next - 1
<1>1. /\ market' = market /\ verified' = verified /\ adapters' = adapters
      /\ run.at = "quoting" /\ run.next <= Len(run.drawn)
  BY DEF Deadline, Asking
<1>2. /\ DOMAIN run' = DOMAIN run /\ run'.at = run.at /\ run'.next = run.next
      /\ run'.catalog = run.catalog /\ run'.drawn = SubSeq(run.drawn, 1, n)
      /\ run'.entries = run.entries /\ run'.offers = run.offers
      /\ run'.shown = run.shown /\ run'.winner = run.winner
  BY DEF Deadline, TournamentInv, MarketFits, RunFields
<1>3. /\ run.drawn \in Seq(run.catalog) /\ n \in Nat /\ n < Len(run.drawn)
  BY <1>1, LenProperties DEF TournamentInv, MarketFits, DrawnFits
<1>. HIDE DEF n
<1>4. /\ run'.drawn \in Seq(run.catalog) /\ Len(run'.drawn) = n
      /\ \A i \in 1 .. n : i \in 1 .. Len(run.drawn) /\ run'.drawn[i] = run.drawn[i]
  <2>. DEFINE T == run.catalog
              d == run.drawn
  <2>1. d \in Seq(T) /\ run'.drawn = SubSeq(d, 1, n)
    BY <1>2, <1>3
  <2>. HIDE DEF d, T
  <2>2. Len(d) \in Nat /\ 1 \in 1 .. Len(d) + 1 /\ n \in 1 - 1 .. Len(d)
    BY <1>3, <2>1, LenProperties DEF d
  <2>3. /\ SubSeq(d, 1, n) \in Seq(T) /\ Len(SubSeq(d, 1, n)) = n - 1 + 1
        /\ \A i \in 1 .. n - 1 + 1 : SubSeq(d, 1, n)[i] = d[1 + i - 1]
    BY <2>1, <2>2, SubSeqProperties
  <2>. QED
    BY <1>3, <2>1, <2>2, <2>3 DEF d, T
<1>5. DrawnFits'
  BY <1>1, <1>2, <1>4 DEF TournamentInv, DrawnFits
<1>6. MarketFits' /\ StagesFit' /\ WinnerIsBest'
  BY <1>1, <1>2 DEF TournamentInv, MarketFits, StagesFit, WinnerIsBest, Merchants
<1>7. OffersFit'
  BY <1>1, <1>2 DEF TournamentInv, OffersFit, Trusted, Merchants
<1>. QED
  BY <1>5, <1>6, <1>7 DEF TournamentInv

\* What is cut off is beaten by nothing that is shown, and what is not denied
\* is beaten by the first of them only.
LEMMA RankKeeps ==
    ASSUME TournamentInv, Rank
    PROVE  TournamentInv'
<1>1. PICK shown \in SUBSET Comparable :
         /\ Cardinality(shown) = Smaller(Cardinality(Comparable), market.size)
         /\ \A a \in shown, b \in Comparable \ shown : ~Beats(b.offer, a.offer)
         /\ IF shown = {} THEN run' = [run EXCEPT !.at = "done", !.others = run.offers]
            ELSE \E first \in shown :
                   /\ \A b \in shown : ~Beats(b.offer, first.offer)
                   /\ run' = [run EXCEPT !.at = "done", !.shown = shown,
                                         !.others = run.offers \ Comparable,
                                         !.winner = IF first.offer.denied THEN {}
                                                    ELSE {first}]
  BY DEF Rank
<1>2. /\ market' = market /\ verified' = verified /\ adapters' = adapters
      /\ run.at = "quoting"
  BY DEF Rank
<1>3. /\ DOMAIN run' = DOMAIN run /\ run'.at = "done" /\ run'.next = run.next
      /\ run'.catalog = run.catalog /\ run'.drawn = run.drawn
      /\ run'.entries = run.entries /\ run'.offers = run.offers
  BY <1>1 DEF TournamentInv, MarketFits, RunFields
<1>4. MarketFits' /\ DrawnFits' /\ StagesFit'
  BY <1>2, <1>3 DEF TournamentInv, MarketFits, DrawnFits, StagesFit, Merchants
<1>5. OffersFit'
  BY <1>2, <1>3 DEF TournamentInv, OffersFit, Trusted, Merchants
<1>6. /\ run.shown = {} /\ run.winner = {} /\ Comparable' = Comparable
  BY <1>2, <1>3, SameOffers DEF TournamentInv, StagesFit
<1>7. /\ \A o \in Comparable : o.offer \in Terms
      /\ IsFiniteSet(Comparable)
  <2>1. Comparable \in SUBSET run.offers
    BY DEF Comparable
  <2>. QED
    BY <2>1, FS_Subset DEF TournamentInv, OffersFit
<1>8. \A o \in Comparable : o.offer.total \in Int /\ o.offer.denied \in BOOLEAN
  BY <1>7, TermsHaveTotals
<1>9. CASE shown = {}
  <2>1. Comparable = {}
    <3>1. /\ Cardinality(shown) = 0 /\ Cardinality(Comparable) \in Nat
          /\ market.size \in Nat \ {0}
      BY <1>7, <1>9, FS_EmptySet, FS_CardinalityType, MarketIsFinite DEF TournamentInv
    <3>2. Cardinality(Comparable) = 0
      BY <1>1, <3>1 DEF Smaller
    <3>. QED
      BY <1>7, <3>2, FS_EmptySet
  <2>2. run'.winner = {}
    BY <1>1, <1>6, <1>9 DEF TournamentInv, MarketFits, RunFields
  <2>. QED
    BY <1>4, <1>5, <1>6, <2>1, <2>2 DEF TournamentInv, WinnerIsBest
<1>10. CASE shown # {}
  <2>1. PICK first \in shown :
           /\ \A b \in shown : ~Beats(b.offer, first.offer)
           /\ run' = [run EXCEPT !.at = "done", !.shown = shown,
                                 !.others = run.offers \ Comparable,
                                 !.winner = IF first.offer.denied THEN {} ELSE {first}]
    BY <1>1, <1>10
  <2>2. /\ run'.shown = shown
        /\ run'.winner = IF first.offer.denied THEN {} ELSE {first}
    BY <2>1 DEF TournamentInv, MarketFits, RunFields
  <2>3. \A b \in Comparable : ~Beats(b.offer, first.offer)
    BY <1>1, <2>1
  <2>4. first \in Comparable
    BY <2>1
  <2>5. \A b \in Comparable : ~b.offer.denied =>
           ~first.offer.denied /\ first.offer.total <= b.offer.total
    BY <1>8, <2>3, <2>4 DEF Beats
  <2>6. WinnerIsBest'
    BY <1>6, <2>1, <2>2, <2>4, <2>5 DEF WinnerIsBest
  <2>. QED
    BY <1>4, <1>5, <2>6 DEF TournamentInv
<1>. QED
  BY <1>9, <1>10

LEMMA TournamentStep == TournamentInv /\ [TournamentNext]_tournamentVars => TournamentInv'
<1>. SUFFICES ASSUME TournamentInv, [TournamentNext]_tournamentVars
              PROVE  TournamentInv'
  OBVIOUS
<1>1. verified \subseteq Merchants /\ adapters \subseteq Merchants
  BY DEF TournamentInv, MarketFits
<1>2. ASSUME NEW m \in Merchants, RecordChanges(m)
      PROVE  TournamentInv'
  <2>1. market' = market /\ run' = run /\ adapters' = adapters /\ verified' \subseteq Merchants
    BY <1>1, <1>2 DEF RecordChanges
  <2>. QED
    BY <1>1, <2>1, RegistryMoves
<1>3. CASE RefreshAdapters
  <2>1. market' = market /\ run' = run /\ verified' = verified /\ adapters' \subseteq Merchants
    BY <1>1, <1>3 DEF RefreshAdapters, Static, OfKind
  <2>. QED
    BY <1>1, <2>1, RegistryMoves
<1>4. CASE UNCHANGED tournamentVars
  BY <1>1, <1>4, RegistryMoves DEF tournamentVars
<1>. QED
  BY <1>2, <1>3, <1>4, SearchKeeps, ReadDocumentKeeps, RejectProductKeeps,
     CollectQuoteKeeps, DeadlineKeeps, RankKeeps DEF TournamentNext

\* In every market, however often the registry changes and the adapters are
\* built again during a request, an offer is of a merchant drawn within the
\* limit and checked in the document read, and no allowed offer in the
\* currency compared beats the winner.
THEOREM TournamentsAreFair == TournamentSpec => []TournamentIsFair
<1>1. TournamentInv => TournamentIsFair
  <2>. SUFFICES ASSUME TournamentInv PROVE OffersAreChecked
    BY DEF TournamentInv, TournamentIsFair
  <2>. DEFINE contacted == {run.drawn[i][1] : i \in DOMAIN run.drawn}
  <2>1. PICK few : /\ IsFiniteSet(few) /\ Cardinality(few) <= market.limit
                   /\ \A i \in 1 .. Len(run.drawn) : run.drawn[i][1] \in few
    BY DEF TournamentInv, DrawnFits
  <2>2. DOMAIN run.drawn = 1 .. Len(run.drawn)
    BY LenProperties DEF TournamentInv, DrawnFits
  <2>3. contacted \in SUBSET few
    BY <2>1, <2>2
  <2>4. /\ IsFiniteSet(contacted) /\ Cardinality(contacted) <= Cardinality(few)
        /\ Cardinality(contacted) \in Nat /\ Cardinality(few) \in Nat
    <3>. HIDE DEF contacted
    <3>. QED
      BY <2>1, <2>3, FS_Subset, FS_CardinalityType
  <2>5. market.limit \in Nat
    BY MarketIsFinite DEF TournamentInv
  <2>6. Cardinality(contacted) <= market.limit
    <3>. HIDE DEF contacted
    <3>. QED
      BY <2>1, <2>4, <2>5
  <2>. QED
    BY <2>6 DEF TournamentInv, OffersFit, OffersAreChecked
<1>. QED
  BY <1>1, TournamentStarts, TournamentStep, PTL DEF TournamentSpec
=============================================================================
