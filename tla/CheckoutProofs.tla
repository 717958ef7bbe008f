---------------------------- MODULE CheckoutProofs ----------------------------
(***************************************************************************)
(* Theorems about Checkout, for every set of processes, quotes, keys and   *)
(* references, and any stock.  Part one needs no lock: types, and that a   *)
(* payment buys one order, whatever crashes and whichever connections are  *)
(* lost.  Part two, from QuoteHeld on, is what the locks are for; it takes *)
(* that no process outlives its connection and no sweep pauses halfway.    *)
(***************************************************************************)
EXTENDS Checkout, FiniteSetTheorems, TLAPS

USE CheckoutConstants, NoneIsNoRequest

(***************************************************************************)
(* The order record                                                        *)
(***************************************************************************)

\* Replacing one field of an order by a value of its type gives an order.
LEMMA FieldUpdates ==
    ASSUME NEW o \in Order
    PROVE  /\ \A s \in OrderStatus : [o EXCEPT !.status = s] \in Order
           /\ \A s \in CheckoutState : [o EXCEPT !.state = s] \in Order
           /\ \A r \in Requests : [o EXCEPT !.bound = r] \in Order
           /\ \A n \in 0 .. MaxAttempts : [o EXCEPT !.attempts = n] \in Order
           /\ \A b \in BOOLEAN : /\ [o EXCEPT !.saved = b] \in Order
                               /\ [o EXCEPT !.attempted = b] \in Order
                               /\ [o EXCEPT !.verified = b] \in Order
                               /\ [o EXCEPT !.intent = b] \in Order
                               /\ [o EXCEPT !.refunded = b] \in Order
<1>1. \A s \in OrderStatus : [o EXCEPT !.status = s] \in Order
  BY DEF Order
<1>2. \A s \in CheckoutState : [o EXCEPT !.state = s] \in Order
  BY DEF Order
<1>3. \A r \in Requests : [o EXCEPT !.bound = r] \in Order
  BY DEF Order
<1>4. \A n \in 0 .. MaxAttempts : [o EXCEPT !.attempts = n] \in Order
  BY DEF Order
<1>5. \A b \in BOOLEAN : /\ [o EXCEPT !.saved = b] \in Order
                        /\ [o EXCEPT !.attempted = b] \in Order
  BY DEF Order
<1>6. \A b \in BOOLEAN : /\ [o EXCEPT !.verified = b] \in Order
                        /\ [o EXCEPT !.intent = b] \in Order
  BY DEF Order
<1>7. \A b \in BOOLEAN : [o EXCEPT !.refunded = b] \in Order
  BY DEF Order
<1>. QED
  BY <1>1, <1>2, <1>3, <1>4, <1>5, <1>6, <1>7

\* Every write of Checkout_Store leaves a well-formed order.
LEMMA StoreWritesOrders ==
    ASSUME NEW o \in Order
    PROVE  /\ Draft(o) \in Order /\ Release(o) \in Order
           /\ \A r \in Requests : Begin(o, r) \in Order
           /\ \A b \in BOOLEAN : Failure(o, b) \in Order
           /\ MarkVerifying(o) \in Order /\ Verified(o) \in Order
           /\ Promote(o) \in Order /\ Complete(o) \in Order
           /\ Compensate(o) \in Order /\ Compensated(o) \in Order
<1>3. Draft(o) \in Order
  BY FieldUpdates DEF Draft, OrderStatus, CheckoutState
<1>4. \A r \in Requests : Begin(o, r) \in Order
  BY <1>3, FieldUpdates DEF Begin, OrderStatus, CheckoutState
<1>5. MarkVerifying(o) \in Order /\ Verified(o) \in Order
  BY FieldUpdates DEF MarkVerifying, Verified, CheckoutState
<1>6. \A b \in BOOLEAN : Failure(o, b) \in Order
  <2>1. \A b \in BOOLEAN : FailureState(o, b) \in CheckoutState
    BY DEF FailureState, CheckoutState
  <2>. QED
    BY <2>1, FieldUpdates DEF Failure
<1>7. Promote(o) \in Order /\ Release(o) \in Order
  BY FieldUpdates DEF Promote, Release, OrderStatus
<1>8. Complete(o) \in Order /\ Compensated(o) \in Order
  BY FieldUpdates DEF Complete, Compensated, OrderStatus, CheckoutState
<1>9. Compensate(o) \in Order
  <2>1. [o EXCEPT !.state = "compensating"] \in Order
    BY FieldUpdates DEF CheckoutState
  <2>2. o.attempts \in 0 .. MaxAttempts /\ 0 \in 0 .. MaxAttempts
    BY DEF Order, MaxAttempts
  <2>. QED
    BY <2>1, <2>2, FieldUpdates DEF Compensate
<1>. QED
  BY <1>3, <1>4, <1>5, <1>6, <1>7, <1>8, <1>9

(***************************************************************************)
(* The parts of the type invariant that several actions share              *)
(***************************************************************************)
Running == OrderSteps \cup RecoverySteps

ControlOK ==
    /\ pc \in [Procs -> Steps]
    /\ req \in [Procs -> Requests \cup {None}]
    /\ \A p \in Procs : pc[p] # "idle" => req[p] \in Requests

OrdersOK == order \in [Quotes -> Order]

LocksOK == lock \in [LockNames -> Procs \cup {None}]

\* What the types say of a process that is at work.
LEMMA AtWork ==
    ASSUME TypeOK, NEW p \in Procs, pc[p] # "idle"
    PROVE  /\ req[p] \in Requests
           /\ QuoteOf[req[p]] \in Quotes
           /\ order[QuoteOf[req[p]]] \in Order
BY DEF TypeOK

\* A process at work is at a step of create_order or of the recovery.
LEMMA RunningSteps == Running \subseteq Steps /\ "idle" \in Steps \ Running
BY DEF Steps, Running, OrderSteps, RecoverySteps

\* A process moves from step to step without changing its request.
LEMMA Moves ==
    ASSUME ControlOK, NEW p \in Procs, NEW from \in Running, NEW to \in Running,
           Go(p, from, to), req' = req
    PROVE  ControlOK'
BY RunningSteps DEF ControlOK, Go

\* A process comes to its end.
LEMMA Stops ==
    ASSUME TypeOK, NEW p \in Procs, Finish(p)
    PROVE  /\ ControlOK'
           /\ route' \in [Procs -> {"order", "retry", "compensate"}]
           /\ tried' \in [Procs -> BOOLEAN]
           /\ paid' \in [Procs -> BOOLEAN]
<1>1. ControlOK'
  BY RunningSteps DEF ControlOK, Finish, TypeOK
<1>. QED
  BY <1>1 DEF Finish, TypeOK

\* Orders keep their types in a step that writes none ...
LEMMA Keeps ==
    ASSUME TypeOK, order' = order
    PROVE  OrdersOK'
BY DEF TypeOK, OrdersOK

\* ... and in a step that saves a well-formed one.
LEMMA Saves ==
    ASSUME TypeOK, NEW q \in Quotes, NEW o \in Order, Save(q, o)
    PROVE  OrdersOK'
BY DEF Save, TypeOK, OrdersOK

\* Taking and releasing locks, one or all of them, keeps their types.
LEMMA Locks ==
    ASSUME TypeOK, NEW p \in Procs
    PROVE  /\ \A n : Acquired(n, p) \in [LockNames -> Procs \cup {None}]
           /\ \A n : Released(n, p) \in [LockNames -> Procs \cup {None}]
           /\ ReleasedAll(p) \in [LockNames -> Procs \cup {None}]
BY DEF Acquired, Released, ReleasedAll, TypeOK

\* A step of one process keeps the types.
LEMMA StepTypes ==
    ASSUME TypeOK, NEW p \in Procs, Step(p) \/ Crash(p) \/ LoseConnection(p)
    PROVE  TypeOK'
<1>1. CASE Lookup(p)
  <2>1. ControlOK'
    BY <1>1, Moves, Stops
    DEF Lookup, TypeOK, ControlOK, Running, OrderSteps, RecoverySteps, task
  <2>2. LocksOK'
    BY <1>1, Locks DEF Lookup, TypeOK, LocksOK
  <2>. QED
    BY <1>1, <2>1, <2>2, Stops
    DEF Lookup, TypeOK, ControlOK, LocksOK, shop, rail, task, view
<1>2. CASE LockCheckout(p)
  <2>1. ControlOK'
    BY <1>2, Moves, Stops
    DEF LockCheckout, TypeOK, ControlOK, Running, OrderSteps, RecoverySteps, task
  <2>2. LocksOK'
    BY <1>2, Locks DEF LockCheckout, TypeOK, LocksOK
  <2>. QED
    BY <1>2, <2>1, <2>2, Stops
    DEF LockCheckout, TypeOK, ControlOK, LocksOK, shop, rail, task, view
<1>3. CASE LoadQuote(p)
  <2>1. ControlOK'
    BY <1>3, Moves
    DEF LoadQuote, TypeOK, ControlOK, Running, OrderSteps, RecoverySteps, task
  <2>2. OrdersOK'
    BY <1>3, AtWork, Keeps, Saves, StoreWritesOrders
    DEF LoadQuote, ReleaseReservation, Go, shop
  <2>3. LocksOK'
    BY <1>3, Locks DEF LoadQuote, TypeOK, LocksOK
  <2>. QED
    BY <1>3, <2>1, <2>2, <2>3
    DEF LoadQuote, ReleaseReservation, TypeOK, ControlOK, OrdersOK, LocksOK, shop,
        rail, task, view
<1>4. CASE BeginCheckout(p)
  <2>1. ControlOK'
    BY <1>4, Moves
    DEF BeginCheckout, TypeOK, ControlOK, Running, OrderSteps, RecoverySteps, task
  <2>2. OrdersOK'
    BY <1>4, AtWork, Keeps, Saves, StoreWritesOrders DEF BeginCheckout, Go
  <2>3. /\ Draft(order[QuoteOf[req[p]]]).attempted \in BOOLEAN
        /\ Draft(order[QuoteOf[req[p]]]).verified \in BOOLEAN
    <3>1. Draft(order[QuoteOf[req[p]]]) \in Order
      BY <1>4, AtWork, StoreWritesOrders DEF BeginCheckout
    <3>. QED
      BY <3>1 DEF Order
  <2>. QED
    BY <1>4, <2>1, <2>2, <2>3
    DEF BeginCheckout, TypeOK, ControlOK, OrdersOK, shop, rail, task, view
<1>5. CASE ValidateItems(p)
  <2>1. ControlOK'
    BY <1>5, Moves
    DEF ValidateItems, TypeOK, ControlOK, Running, OrderSteps, RecoverySteps, task
  <2>. QED
    BY <1>5, <2>1 DEF ValidateItems, TypeOK, ControlOK, shop, rail, task, view
<1>6. CASE HoldBeforePayment(p)
  <2>1. ControlOK'
    BY <1>6, Moves
    DEF HoldBeforePayment, ConfirmHold, TypeOK, ControlOK, Running, OrderSteps,
        RecoverySteps, task
  <2>. QED
    BY <1>6, <2>1, AtWork
    DEF HoldBeforePayment, ConfirmHold, HeldFor, Go, TypeOK, ControlOK, shop,
        rail, task, view
<1>7. CASE AttemptPayment(p)
  <2>1. ControlOK'
    BY <1>7, Moves
    DEF AttemptPayment, TypeOK, ControlOK, Running, OrderSteps, RecoverySteps,
        task
  <2>2. OrdersOK'
    BY <1>7, AtWork, Keeps, Saves, StoreWritesOrders DEF AttemptPayment, Go
  <2>. QED
    BY <1>7, <2>1, <2>2
    DEF AttemptPayment, TypeOK, ControlOK, OrdersOK, shop, rail, task, view
<1>8. CASE Checkpoint(p)
  <2>1. ControlOK'
    BY <1>8, Moves
    DEF Checkpoint, TypeOK, ControlOK, Running, OrderSteps, RecoverySteps, task
  <2>2. OrdersOK'
    BY <1>8, AtWork, Keeps, Saves, StoreWritesOrders DEF Checkpoint, Go
  <2>. QED
    BY <1>8, <2>1, <2>2
    DEF Checkpoint, TypeOK, ControlOK, OrdersOK, shop, rail, task, view
<1>9. CASE HoldAfterPayment(p)
  <2>1. ControlOK'
    BY <1>9, Moves
    DEF HoldAfterPayment, ConfirmHold, TypeOK, ControlOK, Running, OrderSteps,
        RecoverySteps, task
  <2>. QED
    BY <1>9, <2>1, AtWork
    DEF HoldAfterPayment, ConfirmHold, HeldFor, Go, TypeOK, ControlOK, shop, rail,
        task, view
<1>10. CASE StartPromotion(p)
  <2>1. ControlOK'
    BY <1>10, Moves
    DEF StartPromotion, TypeOK, ControlOK, Running, OrderSteps, RecoverySteps,
        task
  <2>. QED
    BY <1>10, <2>1 DEF StartPromotion, TypeOK, ControlOK, shop, rail, task, view
<1>11. CASE WritePromotion(p)
  <2>1. ControlOK'
    BY <1>11, Moves
    DEF WritePromotion, TypeOK, ControlOK, Running, OrderSteps, RecoverySteps,
        task
  <2>2. OrdersOK'
    BY <1>11, AtWork, Keeps, Saves, StoreWritesOrders DEF WritePromotion, Go
  <2>. QED
    BY <1>11, <2>1, <2>2
    DEF WritePromotion, TypeOK, ControlOK, OrdersOK, shop, rail, task, view
<1>12. CASE MarkComplete(p)
  <2>1. ControlOK'
    BY <1>12, Moves
    DEF MarkComplete, TypeOK, ControlOK, Running, OrderSteps, RecoverySteps, task
  <2>2. OrdersOK'
    BY <1>12, AtWork, Keeps, Saves, StoreWritesOrders DEF MarkComplete, Go
  <2>. QED
    BY <1>12, <2>1, <2>2
    DEF MarkComplete, TypeOK, ControlOK, OrdersOK, shop, rail, task, view
<1>13. CASE CheckOwnership(p)
  <2>1. ControlOK'
    BY <1>13, Moves
    DEF CheckOwnership, TypeOK, ControlOK, Running, OrderSteps, RecoverySteps,
        task
  <2>. QED
    BY <1>13, <2>1 DEF CheckOwnership, TypeOK, ControlOK, shop, rail, task, view
<1>14. CASE Commit(p)
  <2>1. ControlOK'
    BY <1>14, Moves
    DEF Commit, TypeOK, ControlOK, Running, OrderSteps, RecoverySteps, task
  <2>2. OrdersOK'
    BY <1>14, AtWork, Keeps, Saves, StoreWritesOrders DEF Commit, Go
  <2>. QED
    BY <1>14, <2>1, <2>2
    DEF Commit, TypeOK, ControlOK, OrdersOK, shop, rail, task, view
<1>15. CASE Cleanup(p)
  <2>1. ControlOK'
    BY <1>15, Moves
    DEF Cleanup, TypeOK, ControlOK, Running, OrderSteps, RecoverySteps, task
  <2>. QED
    BY <1>15, <2>1 DEF Cleanup, TypeOK, ControlOK, shop, rail, task, view
<1>16. CASE RecordIncomplete(p)
  <2>1. ControlOK'
    BY <1>16, Moves
    DEF RecordIncomplete, TypeOK, ControlOK, Running, OrderSteps, RecoverySteps,
        task
  <2>2. OrdersOK'
    <3>1. pc[p] # "idle" /\ order[QuoteOf[req[p]]].verified \in BOOLEAN
      BY <1>16, AtWork DEF RecordIncomplete, Go, Order
    <3>. QED
      BY <1>16, <3>1, AtWork, Keeps, Saves, StoreWritesOrders
      DEF RecordIncomplete, RecordFailure
  <2>. QED
    BY <1>16, <2>1, <2>2
    DEF RecordIncomplete, TypeOK, ControlOK, OrdersOK, shop, rail, task, view
<1>17. CASE UnlockQuote(p)
  <2>1. ControlOK'
    BY <1>17, Moves
    DEF UnlockQuote, TypeOK, ControlOK, Running, OrderSteps, RecoverySteps, task
  <2>2. LocksOK'
    BY <1>17, Locks DEF UnlockQuote, TypeOK, LocksOK
  <2>. QED
    BY <1>17, <2>1, <2>2
    DEF UnlockQuote, TypeOK, ControlOK, LocksOK, shop, rail, task, view
<1>18. CASE UnlockCheckout(p)
  <2>1. ControlOK'
    BY <1>18, Stops
    DEF UnlockCheckout, TypeOK, ControlOK, Running, OrderSteps, RecoverySteps,
        task
  <2>2. LocksOK'
    BY <1>18, Locks DEF UnlockCheckout, TypeOK, LocksOK
  <2>. QED
    BY <1>18, <2>1, <2>2, Stops
    DEF UnlockCheckout, TypeOK, ControlOK, LocksOK, shop, rail, task, view
<1>19. CASE VerifierAccepts(p)
  <2>1. ControlOK'
    BY <1>19, Moves
    DEF VerifierAccepts, Calling, Replied, TypeOK, ControlOK, Running, OrderSteps,
        RecoverySteps, task
  <2>. QED
    BY <1>19, <2>1, AtWork
    DEF VerifierAccepts, Calling, Settled, TypeOK, ControlOK, shop, rail, task,
        view
<1>20. CASE VerifierFails(p)
  <2>1. ControlOK'
    BY <1>20, Moves
    DEF VerifierFails, Calling, NotVerified, TypeOK, ControlOK, Running,
        OrderSteps, RecoverySteps, task
  <2>2. OrdersOK'
    BY <1>20, AtWork, Keeps, Saves, StoreWritesOrders
    DEF VerifierFails, RecordFailure, Go, Calling
  <2>. QED
    BY <1>20, <2>1, <2>2, AtWork
    DEF VerifierFails, Calling, TypeOK, ControlOK, OrdersOK, shop, rail, task,
        view
<1>21. CASE CheckReplay(p)
  <2>1. ControlOK'
    BY <1>21, Moves
    DEF CheckReplay, TypeOK, ControlOK, Running, OrderSteps, RecoverySteps, task
  <2>2. OrdersOK'
    BY <1>21, AtWork, Keeps, Saves, StoreWritesOrders
    DEF CheckReplay, RecordFailure, Go
  <2>. QED
    BY <1>21, <2>1, <2>2
    DEF CheckReplay, TypeOK, ControlOK, OrdersOK, shop, rail, task, view
<1>22. CASE LockForRecovery(p)
  <2>1. ControlOK'
    BY <1>22, Moves, Stops
    DEF LockForRecovery, LeaveRecovery, TypeOK, ControlOK, Running, OrderSteps,
        RecoverySteps, task
  <2>2. LocksOK'
    BY <1>22, Locks DEF LockForRecovery, LeaveRecovery, TypeOK, LocksOK
  <2>. QED
    BY <1>22, <2>1, <2>2, Stops
    DEF LockForRecovery, LeaveRecovery, TypeOK, ControlOK, LocksOK, shop, rail,
        task, view
<1>23. CASE LoadRecovery(p)
  <2>1. ControlOK'
    BY <1>23, Moves
    DEF LoadRecovery, TypeOK, ControlOK, Running, OrderSteps, RecoverySteps, task
  <2>. QED
    BY <1>23, <2>1 DEF LoadRecovery, TypeOK, ControlOK, shop, rail, task, view
<1>24. CASE CheckpointRecovery(p)
  <2>1. ControlOK'
    BY <1>24, Moves
    DEF CheckpointRecovery, TypeOK, ControlOK, Running, OrderSteps, RecoverySteps,
        task
  <2>2. OrdersOK'
    BY <1>24, AtWork, Keeps, Saves, StoreWritesOrders DEF CheckpointRecovery, Go
  <2>. QED
    BY <1>24, <2>1, <2>2
    DEF CheckpointRecovery, TypeOK, ControlOK, OrdersOK, shop, rail, task, view
<1>25. CASE StopCheckout(p)
  <2>1. ControlOK'
    BY <1>25, Moves
    DEF StopCheckout, TypeOK, ControlOK, Running, OrderSteps, RecoverySteps, task
  <2>2. OrdersOK'
    BY <1>25, AtWork, Keeps, Saves, StoreWritesOrders DEF StopCheckout, Go
  <2>. QED
    BY <1>25, <2>1, <2>2
    DEF StopCheckout, TypeOK, ControlOK, OrdersOK, shop, rail, task, view
<1>26. CASE LockRefund(p)
  <2>1. ControlOK'
    BY <1>26, Moves
    DEF LockRefund, TypeOK, ControlOK, Running, OrderSteps, RecoverySteps, task
  <2>2. LocksOK'
    BY <1>26, Locks DEF LockRefund, TypeOK, LocksOK
  <2>. QED
    BY <1>26, <2>1, <2>2
    DEF LockRefund, TypeOK, ControlOK, LocksOK, shop, rail, task, view
<1>27. CASE SaveRefundIntent(p)
  <2>1. ControlOK'
    BY <1>27, Moves
    DEF SaveRefundIntent, TypeOK, ControlOK, Running, OrderSteps, RecoverySteps,
        task
  <2>2. OrdersOK'
    BY <1>27, AtWork, Keeps, Saves, FieldUpdates DEF SaveRefundIntent, Go
  <2>. QED
    BY <1>27, <2>1, <2>2
    DEF SaveRefundIntent, TypeOK, ControlOK, OrdersOK, shop, rail, task, view
<1>28. CASE RequestRefund(p)
  <2>1. ControlOK'
    BY <1>28, Moves
    DEF RequestRefund, TypeOK, ControlOK, Running, OrderSteps, RecoverySteps, task
  <2>2. OrdersOK'
    BY <1>28, AtWork, Keeps, Saves, FieldUpdates DEF RequestRefund, Go
  <2>3. LocksOK'
    BY <1>28, Locks DEF RequestRefund, TypeOK, LocksOK
  <2>4. railRefund' \in [Quotes -> {"none", "pending", "succeeded", "failed"}]
    BY <1>28, AtWork DEF RequestRefund, RailOutcomes, TypeOK
  <2>. QED
    BY <1>28, <2>1, <2>2, <2>3, <2>4
    DEF RequestRefund, TypeOK, ControlOK, OrdersOK, LocksOK, shop, rail, task,
        view
<1>29. CASE RefundUnreachable(p)
  <2>1. ControlOK'
    BY <1>29, Moves
    DEF RefundUnreachable, TypeOK, ControlOK, Running, OrderSteps, RecoverySteps,
        task
  <2>2. LocksOK'
    BY <1>29, Locks DEF RefundUnreachable, TypeOK, LocksOK
  <2>. QED
    BY <1>29, <2>1, <2>2
    DEF RefundUnreachable, TypeOK, ControlOK, LocksOK, shop, rail, task, view
<1>30. CASE RecordRefund(p)
  <2>1. ControlOK'
    BY <1>30, Moves
    DEF RecordRefund, TypeOK, ControlOK, Running, OrderSteps, RecoverySteps, task
  <2>2. OrdersOK'
    BY <1>30, AtWork, Keeps, Saves, FieldUpdates DEF RecordRefund, Go
  <2>3. LocksOK'
    BY <1>30, Locks DEF RecordRefund, TypeOK, LocksOK
  <2>. QED
    BY <1>30, <2>1, <2>2, <2>3
    DEF RecordRefund, TypeOK, ControlOK, OrdersOK, LocksOK, shop, rail, task, view
<1>31. CASE FinishCompensation(p)
  <2>1. ControlOK'
    BY <1>31, Moves
    DEF FinishCompensation, TypeOK, ControlOK, Running, OrderSteps, RecoverySteps,
        task
  <2>2. OrdersOK'
    BY <1>31, AtWork, Keeps, Saves, StoreWritesOrders DEF FinishCompensation, Go
  <2>. QED
    BY <1>31, <2>1, <2>2
    DEF FinishCompensation, TypeOK, ControlOK, OrdersOK, shop, rail, task, view
<1>32. CASE QuitRecovery(p)
  <2>1. ControlOK'
    BY <1>32, Stops
    DEF QuitRecovery, LeaveRecovery, TypeOK, ControlOK, Running, OrderSteps,
        RecoverySteps, task
  <2>2. LocksOK'
    BY <1>32, Locks DEF QuitRecovery, LeaveRecovery, TypeOK, LocksOK
  <2>. QED
    BY <1>32, <2>1, <2>2, Stops
    DEF QuitRecovery, LeaveRecovery, TypeOK, ControlOK, LocksOK, shop, rail, task,
        view
<1>33. CASE ResumeCheckout(p)
  <2>1. ControlOK'
    BY <1>33, Moves
    DEF ResumeCheckout, TypeOK, ControlOK, Running, OrderSteps, RecoverySteps,
        task
  <2>2. LocksOK'
    BY <1>33, Locks DEF ResumeCheckout, TypeOK, LocksOK
  <2>. QED
    BY <1>33, <2>1, <2>2
    DEF ResumeCheckout, TypeOK, ControlOK, LocksOK, shop, rail, task, view
<1>34. CASE Crash(p)
  <2>1. ControlOK'
    BY <1>34, Stops
    DEF Crash, TypeOK, ControlOK, Running, OrderSteps, RecoverySteps, task
  <2>2. LocksOK'
    BY <1>34, Locks DEF Crash, TypeOK, LocksOK
  <2>. QED
    BY <1>34, <2>1, <2>2, Stops
    DEF Crash, TypeOK, ControlOK, LocksOK, shop, rail, task, view
<1>35. CASE LoseConnection(p)
  BY <1>35, Locks DEF LoseConnection, TypeOK, shop, rail, task, view
<1>. QED
  BY <1>1, <1>2, <1>3, <1>4, <1>5, <1>6, <1>7, <1>8, <1>9, <1>10, <1>11, <1>12,
     <1>13, <1>14, <1>15, <1>16, <1>17, <1>18, <1>19, <1>20, <1>21, <1>22, <1>23,
     <1>24, <1>25, <1>26, <1>27, <1>28, <1>29, <1>30, <1>31, <1>32, <1>33, <1>34,
     <1>35
  DEF Step, CreateOrder, Verify, Recover

(***************************************************************************)
(* Why only a settled payment is fulfilled.  PaymentBuysOneOrder is not    *)
(* inductive: it also takes that an order bound to a request stays bound   *)
(* to it, that a stored verification is one the verifier made, and that a  *)
(* process past begin() works on the order bound to its own request.       *)
(* No part of it speaks of the connection locks: it survives their loss.   *)
(***************************************************************************)
PastBegin == OrderSteps \ {"lookup", "lock", "load", "begin", "unlockq", "unlock"}
BoundSteps == PastBegin \cup RecoverySteps
Answered == {"answer", "checkpoint", "ranswer", "rcheckpoint"}
Promoting == {"rehold", "owned", "promote", "mark", "recheck", "commit"}

OrderFits(q, o) ==
    /\ Started(o) => QuoteOf[o.bound] = q
    /\ o.state \notin {"none", "reserved"} => Started(o)
    /\ o.verified => Started(o) /\ claim[RefOf[o.bound]] = q
    /\ o.status = "processing" => o.verified

OrdersFit == \A q \in Quotes : OrderFits(q, order[q])

ProcessFits(p) ==
    LET o == order[QuoteOf[req[p]]] IN
    /\ pc[p] \in BoundSteps => o.bound = req[p]
    /\ pc[p] \in Answered => claim[RefOf[req[p]]] = QuoteOf[req[p]]
    /\ pc[p] \in PastBegin /\ paid[p] => o.verified
    /\ pc[p] \in Promoting => o.verified

PaymentInv == TypeOK /\ OrdersFit /\ \A p \in Procs : ProcessFits(p)

\* An order keeps its request and its verification, a reference its quote.
Lasts ==
    /\ \A q \in Quotes : /\ Started(order[q]) => order'[q].bound = order[q].bound
                         /\ order[q].verified => order'[q].verified
    /\ \A x \in Refs : claim[x] # None => claim'[x] = claim[x]

\* A write that neither binds, verifies nor promotes.
Quiet(o, w) ==
    /\ w.bound = o.bound
    /\ w.verified = o.verified
    /\ w.status = "processing" => o.status = "processing"
    /\ w.state \notin {"none", "reserved"} => Started(o) \/ w.state = o.state

\* The writes of Checkout_Store other than begin(), verified() and the
\* promotion are quiet.
LEMMA QuietWrites ==
    ASSUME NEW o \in Order
    PROVE  /\ Quiet(o, Draft(o)) /\ Quiet(o, Release(o))
           /\ \A b \in BOOLEAN : Quiet(o, Failure(o, b))
           /\ Started(o) => /\ Quiet(o, MarkVerifying(o))
                            /\ Quiet(o, Complete(o))
                            /\ Quiet(o, Compensate(o))
                            /\ Quiet(o, Compensated(o))
<1>1. Quiet(o, Draft(o))
  BY DEF Quiet, Draft, Order
<1>2. Quiet(o, Release(o))
  BY DEF Quiet, Release, Order
<1>3. \A b \in BOOLEAN : Quiet(o, Failure(o, b))
  BY DEF Quiet, Failure, Order
<1>4. Started(o) => Quiet(o, MarkVerifying(o))
  BY DEF Quiet, MarkVerifying, Order
<1>5. Started(o) => Quiet(o, Complete(o))
  BY DEF Quiet, Complete, Order
<1>6. Started(o) => Quiet(o, Compensate(o))
  BY DEF Quiet, Compensate, Order
<1>7. Started(o) => Quiet(o, Compensated(o))
  BY DEF Quiet, Compensated, Order
<1>. QED
  BY <1>1, <1>2, <1>3, <1>4, <1>5, <1>6, <1>7

\* A quiet write keeps every order in line with the claims.
LEMMA QuietSave ==
    ASSUME TypeOK, OrdersFit, NEW q \in Quotes, NEW o, Quiet(order[q], o),
           Save(q, o), claim' = claim
    PROVE  Lasts /\ OrdersFit'
<1>. DEFINE w == order[q]
<1>1. /\ OrderFits(q, w) /\ o.bound = w.bound /\ o.verified = w.verified
      /\ Started(o) <=> Started(w)
  BY DEF OrdersFit, Quiet, Started
<1>2. /\ order'[q] = o
      /\ \A other \in Quotes : other # q => order'[other] = order[other]
  BY DEF Save, TypeOK
<1>3. Lasts
  BY <1>1, <1>2 DEF Lasts
<1>4. OrderFits(q, o)
  BY <1>1 DEF OrderFits, Quiet
<1>5. OrdersFit'
  BY <1>2, <1>4 DEF OrdersFit, OrderFits
<1>. QED
  BY <1>3, <1>5

\* A write that binds, verifies or promotes, rightly.
LEMMA SoundSave ==
    ASSUME TypeOK, OrdersFit, NEW q \in Quotes, NEW o, Save(q, o), claim' = claim,
           Started(order[q]) => o.bound = order[q].bound,
           order[q].verified => o.verified,
           OrderFits(q, o)
    PROVE  Lasts /\ OrdersFit'
<1>1. /\ order'[q] = o
      /\ \A other \in Quotes : other # q => order'[other] = order[other]
  BY DEF Save, TypeOK
<1>2. Lasts
  BY <1>1 DEF Lasts
<1>3. OrdersFit'
  BY <1>1 DEF OrdersFit, OrderFits
<1>. QED
  BY <1>2, <1>3

\* So does a step that neither writes an order nor settles a payment.
LEMMA NoSave ==
    ASSUME OrdersFit, order' = order, claim' = claim
    PROVE  Lasts /\ OrdersFit'
BY DEF Lasts, OrdersFit, OrderFits

\* What a process knows of its own order while it is past begin().
LEMMA Bound ==
    ASSUME PaymentInv, NEW p \in Procs, pc[p] \in BoundSteps
    PROVE  /\ req[p] \in Requests /\ QuoteOf[req[p]] \in Quotes
           /\ RefOf[req[p]] \in Refs
           /\ order[QuoteOf[req[p]]] \in Order
           /\ order[QuoteOf[req[p]]].bound = req[p]
           /\ Started(order[QuoteOf[req[p]]])
<1>1. pc[p] # "idle"
  BY DEF BoundSteps, PastBegin, OrderSteps, RecoverySteps
<1>. QED
  BY <1>1, AtWork DEF PaymentInv, ProcessFits, Started

\* The payment checkpoint, saved by a process that has its answer.
LEMMA VerifiedSave ==
    ASSUME PaymentInv, NEW p \in Procs, pc[p] \in BoundSteps, pc[p] \in Answered,
           Save(QuoteOf[req[p]], Verified(order[QuoteOf[req[p]]])), claim' = claim
    PROVE  Lasts /\ OrdersFit'
<1>. DEFINE q == QuoteOf[req[p]]
            o == Verified(order[q])
<1>1. /\ o.bound = order[q].bound /\ o.verified /\ o.status = order[q].status
  BY Bound DEF Verified, Order
<1>2. /\ OrderFits(q, order[q]) /\ claim[RefOf[order[q].bound]] = q
      /\ Started(order[q]) /\ order[q].bound = req[p]
  BY Bound DEF PaymentInv, OrdersFit, ProcessFits
<1>3. OrderFits(q, o)
  BY <1>1, <1>2 DEF OrderFits, Started
<1>. QED
  BY <1>1, <1>3, Bound, SoundSave DEF PaymentInv

\* The promotion, committed as one or write by write.
LEMMA PromotedSave ==
    ASSUME PaymentInv, NEW p \in Procs, pc[p] \in BoundSteps, pc[p] \in Promoting,
           NEW o \in {Promote(order[QuoteOf[req[p]]]),
                      Complete(Promote(order[QuoteOf[req[p]]]))},
           Save(QuoteOf[req[p]], o), claim' = claim
    PROVE  Lasts /\ OrdersFit'
<1>. DEFINE q == QuoteOf[req[p]]
<1>1. o.bound = order[q].bound /\ o.verified = order[q].verified
  BY Bound DEF Promote, Complete, Order
<1>2. OrderFits(q, order[q]) /\ Started(order[q]) /\ order[q].verified
  BY Bound DEF PaymentInv, OrdersFit, ProcessFits
<1>3. OrderFits(q, o)
  BY <1>1, <1>2 DEF OrderFits, Started
<1>. QED
  BY <1>1, <1>3, Bound, SoundSave DEF PaymentInv

\* The verifier settles a reference once.
LEMMA SettleFits ==
    ASSUME PaymentInv, NEW r \in Requests, MaySettle(r), claim' = Settled(r),
           order' = order
    PROVE  Lasts /\ OrdersFit'
<1>1. \A x \in Refs : claim[x] # None => claim'[x] = claim[x]
  BY DEF MaySettle, Settled, PaymentInv, TypeOK
<1>2. \A q \in Quotes : Started(order[q]) => RefOf[order[q].bound] \in Refs
  BY DEF Started, PaymentInv, TypeOK, Order
<1>. QED
  BY <1>1, <1>2 DEF Lasts, OrdersFit, OrderFits, PaymentInv

\* A process that does not move still fits.
LEMMA OthersFit ==
    ASSUME PaymentInv, Lasts, NEW p \in Procs,
           pc'[p] = pc[p], req'[p] = req[p], paid'[p] = paid[p]
    PROVE  ProcessFits(p)'
<1>1. CASE pc[p] = "idle"
  BY <1>1
  DEF ProcessFits, BoundSteps, Answered, PastBegin, Promoting, OrderSteps,
      RecoverySteps
<1>2. CASE pc[p] # "idle"
  <2>1. req[p] \in Requests /\ QuoteOf[req[p]] \in Quotes /\ RefOf[req[p]] \in Refs
    BY <1>2, AtWork DEF PaymentInv
  <2>. QED
    BY <2>1 DEF PaymentInv, ProcessFits, Lasts, Started
<1>. QED
  BY <1>1, <1>2

\* A move to a step that asks for no more than the step before it.
LEMMA MoveFits ==
    ASSUME PaymentInv, Lasts, NEW p \in Procs, NEW from, NEW to,
           Go(p, from, to), req' = req, paid' = paid,
           to \in BoundSteps => from \in BoundSteps,
           to \in Answered => from \in Answered,
           to \in PastBegin => from \in PastBegin,
           to \in Promoting => from \in Promoting
    PROVE  \A other \in Procs : ProcessFits(other)'
<1>1. /\ pc[p] = from /\ pc'[p] = to
      /\ \A other \in Procs : other # p => pc'[other] = pc[other]
  BY DEF Go, PaymentInv, TypeOK
<1>2. ASSUME NEW other \in Procs, other # p
      PROVE  ProcessFits(other)'
  BY <1>1, <1>2, OthersFit
<1>3. ProcessFits(p)'
  <2>1. CASE to \notin BoundSteps
    <3>1. to \notin Answered \cup PastBegin \cup Promoting
      BY <2>1
      DEF BoundSteps, PastBegin, Answered, Promoting, OrderSteps, RecoverySteps
    <3>. QED
      BY <1>1, <2>1, <3>1 DEF ProcessFits
  <2>2. CASE to \in BoundSteps
    <3>1. pc[p] \in BoundSteps
      BY <1>1, <2>2
    <3>. QED
      BY <1>1, <3>1, Bound DEF PaymentInv, ProcessFits, Lasts
  <2>. QED
    BY <2>1, <2>2
<1>. QED
  BY <1>2, <1>3

\* A process that ends.
LEMMA FinishFits ==
    ASSUME PaymentInv, Lasts, NEW p \in Procs, Finish(p)
    PROVE  \A other \in Procs : ProcessFits(other)'
<1>1. /\ pc'[p] = "idle"
      /\ \A other \in Procs : other # p => /\ pc'[other] = pc[other]
                                          /\ req'[other] = req[other]
                                          /\ paid'[other] = paid[other]
  BY DEF Finish, PaymentInv, TypeOK
<1>2. ProcessFits(p)'
  BY <1>1
  DEF ProcessFits, BoundSteps, Answered, PastBegin, Promoting, OrderSteps,
      RecoverySteps
<1>. QED
  BY <1>1, <1>2, OthersFit

\* A step of one process keeps the invariant.
LEMMA PaymentStep ==
    ASSUME PaymentInv, NEW p \in Procs, Step(p) \/ Crash(p) \/ LoseConnection(p)
    PROVE  OrdersFit' /\ \A other \in Procs : ProcessFits(other)'
<1>1. CASE Lookup(p)
  <2>1. Lasts /\ OrdersFit'
    BY <1>1, NoSave DEF PaymentInv, Lookup, shop, rail
  <2>. QED
    BY <1>1, <2>1, MoveFits, FinishFits
    DEF Lookup, task, view, BoundSteps, PastBegin, Answered, Promoting,
        OrderSteps, RecoverySteps
<1>2. CASE LockCheckout(p)
  <2>1. Lasts /\ OrdersFit'
    BY <1>2, NoSave DEF PaymentInv, LockCheckout, shop, rail
  <2>. QED
    BY <1>2, <2>1, MoveFits, FinishFits
    DEF LockCheckout, task, view, BoundSteps, PastBegin, Answered, Promoting,
        OrderSteps, RecoverySteps
<1>3. CASE LockForRecovery(p)
  <2>1. Lasts /\ OrdersFit'
    BY <1>3, NoSave DEF PaymentInv, LockForRecovery, LeaveRecovery, shop, rail
  <2>. QED
    BY <1>3, <2>1, MoveFits, FinishFits
    DEF LockForRecovery, LeaveRecovery, task, view, BoundSteps, PastBegin,
        Answered, Promoting, OrderSteps, RecoverySteps
<1>4. CASE UnlockCheckout(p)
  <2>1. Lasts /\ OrdersFit'
    BY <1>4, NoSave DEF PaymentInv, UnlockCheckout, shop, rail
  <2>. QED
    BY <1>4, <2>1, FinishFits DEF UnlockCheckout
<1>5. CASE Crash(p)
  <2>1. Lasts /\ OrdersFit'
    BY <1>5, NoSave DEF PaymentInv, Crash, shop, rail
  <2>. QED
    BY <1>5, <2>1, FinishFits DEF Crash
<1>6. CASE QuitRecovery(p)
  <2>1. Lasts /\ OrdersFit'
    BY <1>6, NoSave DEF PaymentInv, QuitRecovery, LeaveRecovery, shop, rail
  <2>. QED
    BY <1>6, <2>1, FinishFits DEF QuitRecovery, LeaveRecovery
<1>7. CASE HoldBeforePayment(p)
  <2>1. Lasts /\ OrdersFit'
    BY <1>7, NoSave DEF PaymentInv, HoldBeforePayment, ConfirmHold, shop, rail
  <2>. QED
    BY <1>7, <2>1, MoveFits
    DEF HoldBeforePayment, ConfirmHold, task, view, BoundSteps, PastBegin,
        Answered, Promoting, OrderSteps, RecoverySteps
<1>8. CASE HoldAfterPayment(p)
  <2>1. Lasts /\ OrdersFit'
    BY <1>8, NoSave DEF PaymentInv, HoldAfterPayment, ConfirmHold, shop, rail
  <2>. QED
    BY <1>8, <2>1, MoveFits
    DEF HoldAfterPayment, ConfirmHold, task, view, BoundSteps, PastBegin,
        Answered, Promoting, OrderSteps, RecoverySteps
<1>9. CASE StartPromotion(p)
  <2>1. Lasts /\ OrdersFit'
    BY <1>9, NoSave DEF PaymentInv, StartPromotion, shop, rail
  <2>. QED
    BY <1>9, <2>1, MoveFits
    DEF StartPromotion, task, view, BoundSteps, PastBegin, Answered, Promoting,
        OrderSteps, RecoverySteps
<1>10. CASE CheckOwnership(p)
  <2>1. Lasts /\ OrdersFit'
    BY <1>10, NoSave DEF PaymentInv, CheckOwnership, shop, rail
  <2>. QED
    BY <1>10, <2>1, MoveFits
    DEF CheckOwnership, task, view, BoundSteps, PastBegin, Answered, Promoting,
        OrderSteps, RecoverySteps
<1>11. CASE Cleanup(p)
  <2>1. Lasts /\ OrdersFit'
    BY <1>11, NoSave DEF PaymentInv, Cleanup, shop, rail
  <2>. QED
    BY <1>11, <2>1, MoveFits
    DEF Cleanup, task, view, BoundSteps, PastBegin, Answered, Promoting,
        OrderSteps, RecoverySteps
<1>12. CASE UnlockQuote(p)
  <2>1. Lasts /\ OrdersFit'
    BY <1>12, NoSave DEF PaymentInv, UnlockQuote, shop, rail
  <2>. QED
    BY <1>12, <2>1, MoveFits
    DEF UnlockQuote, task, view, BoundSteps, PastBegin, Answered, Promoting,
        OrderSteps, RecoverySteps
<1>13. CASE LoadRecovery(p)
  <2>1. Lasts /\ OrdersFit'
    BY <1>13, NoSave DEF PaymentInv, LoadRecovery, shop, rail
  <2>. QED
    BY <1>13, <2>1, MoveFits
    DEF LoadRecovery, task, view, BoundSteps, PastBegin, Answered, Promoting,
        OrderSteps, RecoverySteps
<1>14. CASE LockRefund(p)
  <2>1. Lasts /\ OrdersFit'
    BY <1>14, NoSave DEF PaymentInv, LockRefund, shop, rail
  <2>. QED
    BY <1>14, <2>1, MoveFits
    DEF LockRefund, task, view, BoundSteps, PastBegin, Answered, Promoting,
        OrderSteps, RecoverySteps
<1>15. CASE RefundUnreachable(p)
  <2>1. Lasts /\ OrdersFit'
    BY <1>15, NoSave DEF PaymentInv, RefundUnreachable, shop, rail
  <2>. QED
    BY <1>15, <2>1, MoveFits
    DEF RefundUnreachable, task, view, BoundSteps, PastBegin, Answered, Promoting,
        OrderSteps, RecoverySteps
<1>16. CASE ResumeCheckout(p)
  <2>1. Lasts /\ OrdersFit'
    BY <1>16, NoSave DEF PaymentInv, ResumeCheckout, shop, rail
  <2>. QED
    BY <1>16, <2>1, MoveFits
    DEF ResumeCheckout, task, view, BoundSteps, PastBegin, Answered, Promoting,
        OrderSteps, RecoverySteps
<1>17. CASE LoadQuote(p)
  <2>1. pc[p] # "idle"
    BY <1>17 DEF LoadQuote
  <2>2. Lasts /\ OrdersFit'
    BY <1>17, <2>1, AtWork, QuietWrites, QuietSave, NoSave
    DEF PaymentInv, LoadQuote, ReleaseReservation, shop, rail
  <2>. QED
    BY <1>17, <2>2, MoveFits
    DEF LoadQuote, task, view, BoundSteps, PastBegin, Answered, Promoting,
        OrderSteps, RecoverySteps
<1>18. CASE AttemptPayment(p)
  <2>1. pc[p] \in BoundSteps
    BY <1>18
    DEF AttemptPayment, Go, BoundSteps, PastBegin, OrderSteps, RecoverySteps
  <2>2. Lasts /\ OrdersFit'
    BY <1>18, <2>1, Bound, QuietWrites, QuietSave, NoSave
    DEF PaymentInv, AttemptPayment, rail
  <2>. QED
    BY <1>18, <2>2, MoveFits
    DEF AttemptPayment, task, view, BoundSteps, PastBegin, Answered, Promoting,
        OrderSteps, RecoverySteps
<1>19. CASE MarkComplete(p)
  <2>1. pc[p] \in BoundSteps
    BY <1>19
    DEF MarkComplete, Go, BoundSteps, PastBegin, OrderSteps, RecoverySteps
  <2>2. Lasts /\ OrdersFit'
    BY <1>19, <2>1, Bound, QuietWrites, QuietSave, NoSave
    DEF PaymentInv, MarkComplete, rail
  <2>. QED
    BY <1>19, <2>2, MoveFits
    DEF MarkComplete, task, view, BoundSteps, PastBegin, Answered, Promoting,
        OrderSteps, RecoverySteps
<1>20. CASE RecordIncomplete(p)
  <2>1. pc[p] \in BoundSteps
    BY <1>20
    DEF RecordIncomplete, Go, BoundSteps, PastBegin, OrderSteps, RecoverySteps
  <2>2. Lasts /\ OrdersFit'
    BY <1>20, <2>1, Bound, QuietWrites, QuietSave, NoSave
    DEF PaymentInv, RecordIncomplete, RecordFailure, Order, rail
  <2>. QED
    BY <1>20, <2>2, MoveFits
    DEF RecordIncomplete, task, view, BoundSteps, PastBegin, Answered, Promoting,
        OrderSteps, RecoverySteps
<1>21. CASE VerifierFails(p)
  <2>1. pc[p] \in BoundSteps
    BY <1>21
    DEF VerifierFails, Calling, BoundSteps, PastBegin, OrderSteps, RecoverySteps
  <2>2. Lasts /\ OrdersFit'
    BY <1>21, <2>1, Bound, QuietWrites, QuietSave, NoSave
    DEF PaymentInv, VerifierFails, RecordFailure, rail
  <2>. QED
    BY <1>21, <2>2, MoveFits
    DEF VerifierFails, Calling, NotVerified, task, view, BoundSteps, PastBegin,
        Answered, Promoting, OrderSteps, RecoverySteps
<1>22. CASE CheckReplay(p)
  <2>1. pc[p] \in BoundSteps
    BY <1>22 DEF CheckReplay, Go, BoundSteps, PastBegin, OrderSteps, RecoverySteps
  <2>2. Lasts /\ OrdersFit'
    BY <1>22, <2>1, Bound, QuietWrites, QuietSave, NoSave
    DEF PaymentInv, CheckReplay, RecordFailure, rail
  <2>. QED
    BY <1>22, <2>2, MoveFits
    DEF CheckReplay, task, view, BoundSteps, PastBegin, Answered, Promoting,
        OrderSteps, RecoverySteps
<1>23. CASE StopCheckout(p)
  <2>1. pc[p] \in BoundSteps
    BY <1>23
    DEF StopCheckout, Go, BoundSteps, PastBegin, OrderSteps, RecoverySteps
  <2>2. Lasts /\ OrdersFit'
    BY <1>23, <2>1, Bound, QuietWrites, QuietSave
    DEF PaymentInv, StopCheckout, rail
  <2>. QED
    BY <1>23, <2>2, MoveFits
    DEF StopCheckout, task, view, BoundSteps, PastBegin, Answered, Promoting,
        OrderSteps, RecoverySteps
<1>24. CASE SaveRefundIntent(p)
  <2>1. pc[p] \in BoundSteps
    BY <1>24
    DEF SaveRefundIntent, Go, BoundSteps, PastBegin, OrderSteps, RecoverySteps
  <2>2. Lasts /\ OrdersFit'
    BY <1>24, <2>1, Bound, QuietSave
    DEF PaymentInv, SaveRefundIntent, Quiet, Order, rail
  <2>. QED
    BY <1>24, <2>2, MoveFits
    DEF SaveRefundIntent, task, view, BoundSteps, PastBegin, Answered, Promoting,
        OrderSteps, RecoverySteps
<1>25. CASE RequestRefund(p)
  <2>1. pc[p] \in BoundSteps
    BY <1>25
    DEF RequestRefund, Go, BoundSteps, PastBegin, OrderSteps, RecoverySteps
  <2>2. Lasts /\ OrdersFit'
    BY <1>25, <2>1, Bound, QuietSave
    DEF PaymentInv, RequestRefund, Quiet, Order, rail
  <2>. QED
    BY <1>25, <2>2, MoveFits
    DEF RequestRefund, task, view, BoundSteps, PastBegin, Answered, Promoting,
        OrderSteps, RecoverySteps
<1>26. CASE RecordRefund(p)
  <2>1. pc[p] \in BoundSteps
    BY <1>26
    DEF RecordRefund, Go, BoundSteps, PastBegin, OrderSteps, RecoverySteps
  <2>2. Lasts /\ OrdersFit'
    <3>. DEFINE q == QuoteOf[req[p]]
    <3>1. Quiet(order[q], [order[q] EXCEPT !.refunded = TRUE, !.intent = FALSE])
      BY <2>1, Bound DEF Quiet, Order
    <3>. QED
      BY <1>26, <2>1, <3>1, Bound, QuietSave, NoSave
      DEF PaymentInv, RecordRefund, rail
  <2>. QED
    BY <1>26, <2>2, MoveFits
    DEF RecordRefund, task, view, BoundSteps, PastBegin, Answered, Promoting,
        OrderSteps, RecoverySteps
<1>27. CASE FinishCompensation(p)
  <2>1. pc[p] \in BoundSteps
    BY <1>27
    DEF FinishCompensation, Go, BoundSteps, PastBegin, OrderSteps, RecoverySteps
  <2>2. Lasts /\ OrdersFit'
    BY <1>27, <2>1, Bound, QuietWrites, QuietSave
    DEF PaymentInv, FinishCompensation, rail
  <2>. QED
    BY <1>27, <2>2, MoveFits
    DEF FinishCompensation, task, view, BoundSteps, PastBegin, Answered,
        Promoting, OrderSteps, RecoverySteps
<1>28. CASE LoseConnection(p)
  <2>1. Lasts /\ OrdersFit'
    BY <1>28, NoSave DEF PaymentInv, LoseConnection, shop, rail
  <2>. QED
    BY <1>28, <2>1, OthersFit DEF LoseConnection, task, view
<1>29. CASE ValidateItems(p)
  <2>1. Lasts /\ OrdersFit'
    BY <1>29, NoSave DEF PaymentInv, ValidateItems, shop, rail
  <2>2. CASE paid[p] /\ Go(p, "stock", "checkpoint")
    <3>1. pc[p] = "stock" /\ pc'[p] = "checkpoint"
      BY <2>2 DEF Go, PaymentInv, TypeOK
    <3>2. /\ "stock" \in BoundSteps /\ "stock" \in PastBegin
          /\ "checkpoint" \notin Promoting
      BY DEF BoundSteps, PastBegin, Answered, Promoting, OrderSteps, RecoverySteps
    <3>3. /\ order[QuoteOf[req[p]]].bound = req[p]
          /\ order[QuoteOf[req[p]]].verified
          /\ claim[RefOf[req[p]]] = QuoteOf[req[p]]
      BY <2>2, <3>1, <3>2, Bound DEF PaymentInv, ProcessFits, OrdersFit, OrderFits
    <3>4. order' = order /\ claim' = claim /\ req' = req /\ paid' = paid
      BY <1>29 DEF ValidateItems, shop, rail, task, view
    <3>5. ProcessFits(p)'
      BY <3>1, <3>2, <3>3, <3>4 DEF ProcessFits
    <3>6. \A other \in Procs : other # p => pc'[other] = pc[other]
      BY <2>2 DEF Go, PaymentInv, TypeOK
    <3>. QED
      BY <2>1, <3>4, <3>5, <3>6, OthersFit
  <2>3. CASE ~(paid[p] /\ Go(p, "stock", "checkpoint"))
    BY <1>29, <2>1, <2>3, MoveFits
    DEF ValidateItems, task, view, BoundSteps, PastBegin, Answered, Promoting,
        OrderSteps, RecoverySteps
  <2>. QED
    BY <2>1, <2>2, <2>3
<1>30. CASE BeginCheckout(p)
  <2>. DEFINE r == req[p]
              q == QuoteOf[r]
              o == Draft(order[q])
  <2>1. pc[p] = "begin" /\ r \in Requests /\ q \in Quotes /\ order[q] \in Order
    BY <1>30, AtWork DEF BeginCheckout, Go, PaymentInv
  <2>2. /\ o \in Order /\ o.bound = order[q].bound /\ o.verified = order[q].verified
        /\ o.status = "processing" => order[q].status = "processing"
    BY <2>1, StoreWritesOrders, QuietWrites DEF Quiet
  <2>3. OrderFits(q, order[q])
    BY <2>1 DEF PaymentInv, OrdersFit
  <2>4. CASE BoundElsewhere(o, r) \/ Stopped(o)
    <3>1. Lasts /\ OrdersFit'
      BY <1>30, <2>1, <2>4, QuietWrites, QuietSave
      DEF PaymentInv, BeginCheckout, rail
    <3>. QED
      BY <1>30, <2>4, <3>1, MoveFits
      DEF BeginCheckout, task, view, BoundSteps, PastBegin, Answered, Promoting,
          OrderSteps, RecoverySteps
  <2>5. CASE ~(BoundElsewhere(o, r) \/ Stopped(o))
    <3>. DEFINE w == Begin(o, r)
    <3>1. /\ w.bound = r /\ w.verified = o.verified
          /\ w.status = "processing" => o.status = "processing"
      <4>1. CASE Started(o)
        BY <2>1, <2>2, <2>5, <4>1 DEF Begin, Started, BoundElsewhere
      <4>2. CASE ~Started(o)
        <5>1. Quiet(o, Draft(o))
          BY <2>2, QuietWrites
        <5>2. Draft(o) \in Order
          BY <2>1, <2>2, StoreWritesOrders
        <5>. QED
          BY <4>2, <5>1, <5>2 DEF Begin, Order, Quiet
      <4>. QED
        BY <4>1, <4>2
    <3>2. OrderFits(q, w)
      BY <2>1, <2>2, <2>3, <2>5, <3>1 DEF OrderFits, Started, BoundElsewhere
    <3>3. Lasts /\ OrdersFit'
      <4>1. Save(q, w) /\ claim' = claim
        BY <1>30, <2>5 DEF BeginCheckout, rail
      <4>2. Started(order[q]) => w.bound = order[q].bound
        BY <2>2, <2>5, <3>1 DEF Started, BoundElsewhere
      <4>. QED
        BY <2>1, <2>2, <3>1, <3>2, <4>1, <4>2, SoundSave DEF PaymentInv
    <3>4. /\ pc'[p] = "stock" /\ order'[q] = w
          /\ req' = req /\ paid'[p] = w.verified
          /\ \A other \in Procs : other # p => /\ pc'[other] = pc[other]
                                              /\ paid'[other] = paid[other]
      BY <1>30, <2>1, <2>5, <3>1
      DEF BeginCheckout, Go, Save, task, PaymentInv, TypeOK
    <3>5. "stock" \notin Answered \cup Promoting
      BY DEF Answered, Promoting
    <3>6. ProcessFits(p)'
      BY <3>1, <3>4, <3>5 DEF ProcessFits
    <3>. QED
      BY <3>3, <3>4, <3>6, OthersFit
  <2>. QED
    BY <2>4, <2>5
<1>31. CASE Checkpoint(p)
  <2>. DEFINE q == QuoteOf[req[p]]
  <2>1. pc[p] = "checkpoint" /\ pc[p] \in BoundSteps /\ pc[p] \in Answered
    BY <1>31
    DEF Checkpoint, Go, BoundSteps, PastBegin, Answered, Promoting, OrderSteps,
        RecoverySteps
  <2>2. Lasts /\ OrdersFit'
    BY <1>31, <2>1, Bound, VerifiedSave DEF Checkpoint, rail
  <2>3. order'[q].bound = req[p] /\ order'[q].verified
    BY <1>31, <2>1, Bound
    DEF Checkpoint, Save, Verified, Order, PaymentInv, TypeOK
  <2>4. /\ pc'[p] = "rehold" /\ req' = req
        /\ \A other \in Procs : other # p => /\ pc'[other] = pc[other]
                                            /\ paid'[other] = paid[other]
    BY <1>31 DEF Checkpoint, Go, task, PaymentInv, TypeOK
  <2>5. ProcessFits(p)'
    BY <2>3, <2>4 DEF ProcessFits, Answered
  <2>. QED
    BY <2>2, <2>4, <2>5, OthersFit
<1>32. CASE CheckpointRecovery(p)
  <2>1. pc[p] \in BoundSteps /\ pc[p] \in Answered
    BY <1>32
    DEF CheckpointRecovery, Go, BoundSteps, PastBegin, Answered, Promoting,
        OrderSteps, RecoverySteps
  <2>2. Lasts /\ OrdersFit'
    BY <1>32, <2>1, Bound, VerifiedSave, NoSave
    DEF CheckpointRecovery, PaymentInv, rail
  <2>. QED
    BY <1>32, <2>2, MoveFits
    DEF CheckpointRecovery, task, view, BoundSteps, PastBegin, Answered,
        Promoting, OrderSteps, RecoverySteps
<1>33. CASE WritePromotion(p)
  <2>1. pc[p] \in BoundSteps /\ pc[p] \in Promoting
    BY <1>33
    DEF WritePromotion, Go, BoundSteps, PastBegin, Answered, Promoting,
        OrderSteps, RecoverySteps
  <2>2. Lasts /\ OrdersFit'
    BY <1>33, <2>1, Bound, PromotedSave, NoSave
    DEF WritePromotion, PaymentInv, rail
  <2>. QED
    BY <1>33, <2>2, MoveFits
    DEF WritePromotion, task, view, BoundSteps, PastBegin, Answered, Promoting,
        OrderSteps, RecoverySteps
<1>34. CASE Commit(p)
  <2>1. pc[p] \in BoundSteps /\ pc[p] \in Promoting
    BY <1>34
    DEF Commit, Go, BoundSteps, PastBegin, Answered, Promoting, OrderSteps,
        RecoverySteps
  <2>2. Lasts /\ OrdersFit'
    BY <1>34, <2>1, Bound, PromotedSave, NoSave DEF Commit, PaymentInv, rail
  <2>. QED
    BY <1>34, <2>2, MoveFits
    DEF Commit, task, view, BoundSteps, PastBegin, Answered, Promoting,
        OrderSteps, RecoverySteps
<1>35. CASE VerifierAccepts(p)
  <2>1. pc[p] \in {"wait", "rwait"} /\ pc[p] \in BoundSteps
    BY <1>35
    DEF VerifierAccepts, Calling, BoundSteps, PastBegin, Answered, Promoting,
        OrderSteps, RecoverySteps
  <2>2. Lasts /\ OrdersFit'
    BY <1>35, <2>1, Bound, SettleFits DEF VerifierAccepts, PaymentInv, shop
  <2>3. claim'[RefOf[req[p]]] = QuoteOf[req[p]]
    BY <1>35, <2>1, Bound DEF VerifierAccepts, Settled, PaymentInv, TypeOK
  <2>4. /\ pc'[p] \in {"answer", "ranswer"}
        /\ order' = order /\ req' = req /\ paid' = paid
        /\ pc[p] = "rwait" => pc'[p] = "ranswer"
        /\ \A other \in Procs : other # p => pc'[other] = pc[other]
    BY <1>35, <2>1
    DEF VerifierAccepts, Go, Replied, shop, task, view, PaymentInv, TypeOK
  <2>5. ProcessFits(p)'
    <3>1. order[QuoteOf[req[p]]].bound = req[p]
      BY <2>1, Bound
    <3>2. pc[p] = "wait" => pc[p] \in PastBegin
      BY DEF PastBegin, OrderSteps
    <3>3. paid[p] /\ pc[p] = "wait" => order[QuoteOf[req[p]]].verified
      BY <3>2 DEF PaymentInv, ProcessFits
    <3>4. "ranswer" \notin PastBegin \cup Promoting /\ "answer" \notin Promoting
      BY DEF PastBegin, Promoting, OrderSteps
    <3>. QED
      BY <2>1, <2>3, <2>4, <3>1, <3>3, <3>4 DEF ProcessFits
  <2>. QED
    BY <2>2, <2>4, <2>5, OthersFit
<1>. QED
  BY <1>1, <1>2, <1>3, <1>4, <1>5, <1>6, <1>7, <1>8, <1>9, <1>10, <1>11, <1>12,
     <1>13, <1>14, <1>15, <1>16, <1>17, <1>18, <1>19, <1>20, <1>21, <1>22, <1>23,
     <1>24, <1>25, <1>26, <1>27, <1>28, <1>29, <1>30, <1>31, <1>32, <1>33, <1>34,
     <1>35
  DEF Step, CreateOrder, Verify, Recover

\* A new errand keeps the invariant.
LEMMA ArrivalStep ==
    ASSUME PaymentInv, NEW p \in Procs, Arrival(p)
    PROVE  TypeOK' /\ OrdersFit' /\ \A other \in Procs : ProcessFits(other)'
<1>1. ASSUME NEW r \in Requests, SubmitOrder(p, r)
      PROVE  TypeOK' /\ OrdersFit' /\ \A other \in Procs : ProcessFits(other)'
  <2>1. TypeOK'
    BY <1>1
    DEF SubmitOrder, Begins, PaymentInv, TypeOK, Steps, OrderSteps, shop, rail,
        view
  <2>2. Lasts /\ OrdersFit'
    BY <1>1, NoSave DEF SubmitOrder, PaymentInv, shop, rail
  <2>3. /\ pc'[p] = "lookup"
        /\ \A other \in Procs : other # p => /\ pc'[other] = pc[other]
                                            /\ req'[other] = req[other]
                                            /\ paid'[other] = paid[other]
    BY <1>1 DEF SubmitOrder, Begins, view, PaymentInv, TypeOK
  <2>4. ProcessFits(p)'
    BY <2>3
    DEF ProcessFits, BoundSteps, PastBegin, Answered, Promoting, OrderSteps,
        RecoverySteps
  <2>. QED
    BY <2>1, <2>2, <2>3, <2>4, OthersFit
<1>2. ASSUME NEW q \in Quotes, NEW action \in {"retry", "compensate"},
             ManagerRecovers(p, q, action)
      PROVE  TypeOK' /\ OrdersFit' /\ \A other \in Procs : ProcessFits(other)'
  <2>1. order[q].bound \in Requests /\ QuoteOf[order[q].bound] = q
    BY <1>2
    DEF ManagerRecovers, Started, PaymentInv, TypeOK, Order, OrdersFit, OrderFits
  <2>2. TypeOK'
    BY <1>2, <2>1
    DEF ManagerRecovers, Begins, PaymentInv, TypeOK, Steps, RecoverySteps, shop,
        rail, view
  <2>3. Lasts /\ OrdersFit'
    BY <1>2, NoSave DEF ManagerRecovers, PaymentInv, shop, rail
  <2>4. /\ pc'[p] = "rlock" /\ req'[p] = order[q].bound /\ order' = order
        /\ \A other \in Procs : other # p => /\ pc'[other] = pc[other]
                                            /\ req'[other] = req[other]
                                            /\ paid'[other] = paid[other]
    BY <1>2 DEF ManagerRecovers, Begins, shop, view, PaymentInv, TypeOK
  <2>5. ProcessFits(p)'
    BY <2>1, <2>4 DEF ProcessFits, PastBegin, Answered, Promoting, OrderSteps
  <2>. QED
    BY <2>2, <2>3, <2>4, <2>5, OthersFit
<1>3. ASSUME NEW q \in Quotes, JobRecovers(p, q)
      PROVE  TypeOK' /\ OrdersFit' /\ \A other \in Procs : ProcessFits(other)'
  <2>. DEFINE w == [order[q] EXCEPT !.attempts = @ + 1]
  <2>1. order[q] \in Order /\ order[q].attempts + 1 \in 0 .. MaxAttempts
    BY <1>3 DEF JobRecovers, AttemptsLeft, PaymentInv, TypeOK, Order, MaxAttempts
  <2>2. order[q].bound \in Requests /\ QuoteOf[order[q].bound] = q
    BY <1>3, <2>1
    DEF JobRecovers, AutomaticStates, PaymentInv, OrdersFit, OrderFits, Started,
        Order
  <2>3. w \in Order /\ Quiet(order[q], w)
    <3>1. w \in Order
      BY <2>1, FieldUpdates
    <3>2. Quiet(order[q], w)
      BY <2>1 DEF Quiet, Order
    <3>. QED
      BY <3>1, <3>2
  <2>4. Save(q, w) /\ claim' = claim
    BY <1>3 DEF JobRecovers, rail
  <2>5. Lasts /\ OrdersFit'
    BY <2>3, <2>4, QuietSave DEF PaymentInv
  <2>6. TypeOK'
    <3>1. OrdersOK'
      BY <2>3, <2>4, Saves DEF PaymentInv
    <3>2. LocksOK'
      BY <1>3, Locks DEF JobRecovers, LocksOK, PaymentInv
    <3>. QED
      BY <1>3, <2>2, <3>1, <3>2
      DEF JobRecovers, Begins, PaymentInv, TypeOK, OrdersOK, LocksOK, Steps,
          RecoverySteps, rail, view
  <2>7. /\ pc'[p] = "rlock" /\ req'[p] = order[q].bound
        /\ order'[q].bound = order[q].bound
        /\ \A other \in Procs : other # p => /\ pc'[other] = pc[other]
                                            /\ req'[other] = req[other]
                                            /\ paid'[other] = paid[other]
    BY <1>3, <2>3, <2>4
    DEF JobRecovers, Begins, Save, Quiet, view, PaymentInv, TypeOK
  <2>8. ProcessFits(p)'
    BY <2>2, <2>7 DEF ProcessFits, PastBegin, Answered, Promoting, OrderSteps
  <2>. QED
    BY <2>5, <2>6, <2>7, <2>8, OthersFit
<1>. QED
  BY <1>1, <1>2, <1>3, CheckoutConstants DEF Arrival

\* The world around the processes keeps the types.
LEMMA EnvironmentTypes ==
    ASSUME TypeOK, Environment
    PROVE  TypeOK'
<1>1. ASSUME NEW q \in Quotes, IssueQuote(q) \/ Sweep(q) \/ SweepWrite(q)
      PROVE  TypeOK'
  <2>1. OrdersOK'
    <3>1. /\ order[q] \in Order
          /\ [order[q] EXCEPT !.status = "cancelled"] \in Order
      BY FieldUpdates DEF TypeOK, OrderStatus
    <3>2. Draft(order[q]) \in Order /\ Release(order[q]) \in Order
      BY <3>1, StoreWritesOrders
    <3>3. \E o \in Order : Save(q, o)
      BY <1>1, <3>1, <3>2 DEF IssueQuote, Sweep, SweepWrite, ReleaseReservation
    <3>. QED
      BY <3>3, Saves
  <2>. QED
    BY <1>1, <2>1
    DEF IssueQuote, Sweep, SweepWrite, ReleaseReservation, HeldFor, TypeOK,
        OrdersOK, rail, task, view
<1>2. ASSUME NEW q \in Quotes,
             QuoteAges(q) \/ HoldLapses(q) \/ SweepRead(q) \/ RailSettles(q)
      PROVE  TypeOK'
  BY <1>2
  DEF QuoteAges, HoldLapses, SweepRead, RailSettles, TypeOK, shop, rail, task,
      view
<1>3. ASSUME NEW r \in Requests, VerifierSettlesLate(r)
      PROVE  TypeOK'
  BY <1>3 DEF VerifierSettlesLate, Settled, TypeOK, shop, task, view
<1>. QED
  BY <1>1, <1>2, <1>3 DEF Environment

\* The world around the processes keeps the invariant.
LEMMA EnvironmentStep ==
    ASSUME PaymentInv, Environment
    PROVE  OrdersFit' /\ \A p \in Procs : ProcessFits(p)'
<1>1. ASSUME NEW q \in Quotes,
             \/ IssueQuote(q) \/ Sweep(q) \/ SweepWrite(q)
             \/ QuoteAges(q) \/ HoldLapses(q) \/ SweepRead(q) \/ RailSettles(q)
      PROVE  Lasts /\ OrdersFit'
  <2>1. /\ order[q] \in Order
        /\ Quiet(order[q], [order[q] EXCEPT !.status = "cancelled"])
    BY DEF PaymentInv, TypeOK, Quiet, Order
  <2>. QED
    BY <1>1, <2>1, QuietWrites, QuietSave, NoSave
    DEF IssueQuote, Sweep, SweepWrite, ReleaseReservation, QuoteAges, HoldLapses,
        SweepRead, RailSettles, PaymentInv, rail, shop
<1>2. ASSUME NEW r \in Requests, VerifierSettlesLate(r)
      PROVE  Lasts /\ OrdersFit'
  BY <1>2, SettleFits, NoSave DEF VerifierSettlesLate, PaymentInv, shop
<1>3. pc' = pc /\ req' = req /\ paid' = paid
  BY
  DEF Environment, IssueQuote, Sweep, SweepWrite, QuoteAges, HoldLapses,
      SweepRead, RailSettles, VerifierSettlesLate, task, view
<1>. QED
  BY <1>1, <1>2, <1>3, OthersFit DEF Environment

(***************************************************************************)
(* The theorems                                                            *)
(***************************************************************************)

\* PaymentInv holds initially and every step keeps it, Crash and
\* LoseConnection included.
LEMMA PaymentInductive ==
    /\ Init => PaymentInv
    /\ PaymentInv /\ [Next]_vars => PaymentInv'
<1>1. Init => TypeOK
  <2>1. NoOrder \in Order
    BY DEF NoOrder, Order, OrderStatus, CheckoutState, MaxAttempts
  <2>. QED
    BY <2>1 DEF Init, TypeOK, Steps
<1>2. Init => OrdersFit /\ \A p \in Procs : ProcessFits(p)
  BY
  DEF Init, NoOrder, Started, OrdersFit, OrderFits, ProcessFits, BoundSteps,
      PastBegin, Answered, Promoting, OrderSteps, RecoverySteps
<1>3. ASSUME PaymentInv, Next
      PROVE  PaymentInv'
  <2>1. CASE Environment
    BY <1>3, <2>1, EnvironmentTypes, EnvironmentStep DEF PaymentInv
  <2>2. ASSUME NEW p \in Procs, Arrival(p)
        PROVE  PaymentInv'
    BY <1>3, <2>2, ArrivalStep DEF PaymentInv
  <2>3. ASSUME NEW p \in Procs, Step(p) \/ Crash(p) \/ LoseConnection(p)
        PROVE  PaymentInv'
    BY <1>3, <2>3, StepTypes, PaymentStep DEF PaymentInv
  <2>. QED
    BY <1>3, <2>1, <2>2, <2>3 DEF Next
<1>4. ASSUME PaymentInv, UNCHANGED vars
      PROVE  PaymentInv'
  BY <1>4
  DEF vars, shop, rail, task, view, PaymentInv, TypeOK, OrdersFit, OrderFits,
      ProcessFits
<1>. QED
  BY <1>1, <1>2, <1>3, <1>4 DEF PaymentInv

\* The inductive invariant holds: types, orders in line with the claims of the
\* verifier, and processes whose step is justified by what they have seen.
THEOREM PaymentInvariant == Spec => []PaymentInv
BY PaymentInductive, PTL DEF Spec

\* Every variable keeps its type.
THEOREM TypeCorrect == Spec => []TypeOK
<1>1. PaymentInv => TypeOK
  BY DEF PaymentInv
<1>. QED
  BY <1>1, PaymentInvariant, PTL

\* No payment fulfils two orders, and no order is fulfilled without a payment
\* the verifier settled for its quote: for any number of concurrent checkouts,
\* crashes, lost connections and late answers.
THEOREM PaymentsBuyOneOrder == Spec => []PaymentBuysOneOrder
<1>1. PaymentInv => PaymentBuysOneOrder
  BY DEF PaymentInv, OrdersFit, OrderFits, PaymentBuysOneOrder
<1>. QED
  BY <1>1, PaymentInvariant, PTL

(***************************************************************************)
(* Why a checkout that has its locks is alone with its order.  As long as  *)
(* no process outlives its connection and the expiry sweep does not pause  *)
(* halfway, a process that got the lock of a quote keeps it until it is    *)
(* done with the order, so what it read under the lock is still true when  *)
(* it writes; and one that got the lock of a key knows of every order that *)
(* is bound to the key.                                                    *)
(***************************************************************************)
QuoteHeld == (OrderSteps \ {"lookup", "lock", "load", "unlock"})
                \cup (RecoverySteps \ {"rlock"})
KeyHeld == OrderSteps \ {"lookup", "lock"}

OpenSteps == {"stock", "hold", "attempt", "wait", "answer", "checkpoint", "rehold",
              "owned", "promote", "mark", "recheck", "commit",
              "rwait", "ranswer", "rcheckpoint"}
RefundSteps == {"refund", "intent", "refundwait", "record", "rdone"}
HoldSteps == {"owned", "promote", "mark", "recheck", "commit"}

HoldsLocks(p) ==
    /\ pc[p] \in QuoteHeld => Owned(QuoteLock(QuoteOf[req[p]]), p)
    /\ pc[p] \in KeyHeld => Owned(CheckoutLock(req[p]), p)

\* What is known, at a step, of an order o and its hold.
Knows(step, o, again, stands) ==
    /\ step = "begin" => ~CheckoutComplete(o)
    /\ step \in OpenSteps => ~CheckoutComplete(o) /\ ~Stopped(o)
    /\ step = "fail" => ~Stopped(o)
    /\ step = "rstop" => ~CheckoutComplete(o) /\ o.state # "compensated" /\ o.verified
    /\ step \in RefundSteps => o.state = "compensating"
    /\ step \in {"wait", "rwait"} => o.attempted
    /\ step \in PastBegin /\ again => o.attempted
    /\ HardHolds /\ step \in HoldSteps => stands

\* What the holder of the quote's lock knows of the order.
KnowsOrder(p) ==
    Knows(pc[p], order[QuoteOf[req[p]]], tried[p], QuoteOf[req[p]] \in held)

\* A promotion is in its transaction.
InTransaction(p) ==
    /\ pc[p] = "promote" => tx[p] = "open"
    /\ pc[p] = "mark" => tx[p] = "promoted"
    /\ pc[p] \in {"recheck", "commit"} => tx[p] = "marked"

\* What the holder of the key's lock knows of the orders bound to the key.
KnowsKey(p) ==
    pc[p] \in {"load", "begin"} =>
        \A q \in Quotes :
            Started(order[q]) /\ KeyOf[order[q].bound] = KeyOf[req[p]] =>
                order[q].bound = req[p]

Closed == {"completed", "compensated"}

OrderKept(o) ==
    /\ o.state = "completed" <=> o.status = "processing"
    /\ Stopped(o) => o.verified
    /\ Started(o) => /\ o.status # "absent" /\ o.state \notin {"none", "reserved"}
                     /\ o.saved \/ o.state \in Closed
    /\ o.attempted => Started(o) /\ o.state \in Closed \cup QueueStates

OrdersKept ==
    /\ \A q \in Quotes : OrderKept(order[q])
    /\ \A q \in Quotes : railRefund[q] # "none" => Stopped(order[q])

\* Money is only taken for an attempt the order has on record.
MoneyKept ==
    /\ \A x \in Refs :
          claim[x] # None => LET o == order[claim[x]]
                             IN  Started(o) /\ RefOf[o.bound] = x /\ o.attempted
    /\ \A r \in late : order[QuoteOf[r]].bound = r /\ order[QuoteOf[r]].attempted

\* A unit that is held or sold is a unit of the stock.
StockKept ==
    HardHolds => IsFiniteSet(Sold \cup held) /\ Cardinality(Sold \cup held) <= Stock

ProcsKept == \A p \in Procs : HoldsLocks(p) /\ KnowsOrder(p) /\ InTransaction(p) /\ KnowsKey(p)

Kept == sweeping = {} /\ ProcsKept /\ OrdersKept /\ MoneyKept /\ KeyBindsOneOrder /\ StockKept

\* Connections are not lost under a live process, the sweep does not pause.
Undisturbed == MaxLosses = 0 /\ ~SlowSweep

LockInv == PaymentInv /\ Kept

(***************************************************************************)
(* Steps and locks                                                         *)
(***************************************************************************)
LEMMA StepSets ==
    /\ OpenSteps \cup RefundSteps \cup HoldSteps \cup PastBegin \subseteq QuoteHeld
    /\ OpenSteps \cup RefundSteps \cup HoldSteps \cup PastBegin \subseteq BoundSteps
    /\ {"begin", "fail", "rstop"} \subseteq QuoteHeld
    /\ {"fail", "rstop"} \subseteq BoundSteps
    /\ {"wait", "rwait"} \subseteq OpenSteps
    /\ "idle" \notin QuoteHeld \cup KeyHeld
    /\ {"load", "begin"} \subseteq KeyHeld
    /\ "begin" \notin BoundSteps
BY DEF OpenSteps, RefundSteps, HoldSteps, PastBegin, QuoteHeld, KeyHeld, BoundSteps,
       OrderSteps, RecoverySteps

LEMMA LockNamesDiffer ==
    /\ \A q \in Quotes : /\ QuoteLock(q) \in LockNames /\ JobLock(q) \in LockNames
                         /\ RefundLock(q) \in LockNames
    /\ \A r \in Requests : CheckoutLock(r) \in LockNames
    /\ \A q1, q2 \in Quotes : QuoteLock(q1) # RefundLock(q2) /\ QuoteLock(q1) # JobLock(q2)
    /\ \A q \in Quotes, r \in Requests : /\ QuoteLock(q) # CheckoutLock(r)
                                         /\ JobLock(q) # CheckoutLock(r)
                                         /\ RefundLock(q) # CheckoutLock(r)
    /\ \A r1, r2 \in Requests : KeyOf[r1] = KeyOf[r2] => CheckoutLock(r1) = CheckoutLock(r2)
<1>1. \A q \in Quotes : /\ QuoteLock(q) \in LockNames /\ JobLock(q) \in LockNames
                        /\ RefundLock(q) \in LockNames
  BY DEF LockNames, QuoteLock, JobLock, RefundLock
<1>2. \A r \in Requests : CheckoutLock(r) \in LockNames
  BY CheckoutConstants DEF LockNames, CheckoutLock
<1>3. \A q1, q2 \in Quotes : QuoteLock(q1) # RefundLock(q2) /\ QuoteLock(q1) # JobLock(q2)
  BY DEF QuoteLock, RefundLock, JobLock
<1>4. \A q \in Quotes, r \in Requests : /\ QuoteLock(q) # CheckoutLock(r)
                                        /\ JobLock(q) # CheckoutLock(r)
                                        /\ RefundLock(q) # CheckoutLock(r)
  BY DEF QuoteLock, RefundLock, JobLock, CheckoutLock
<1>5. \A r1, r2 \in Requests : KeyOf[r1] = KeyOf[r2] => CheckoutLock(r1) = CheckoutLock(r2)
  BY DEF CheckoutLock
<1>. QED
  BY <1>1, <1>2, <1>3, <1>4, <1>5

\* A process takes locks that are free and gives back its own.
LockStep(p) ==
    \A n \in LockNames : \/ lock'[n] = lock[n]
                         \/ lock[n] = None /\ lock'[n] = p
                         \/ lock[n] = p /\ lock'[n] = None

LEMMA LockMoves ==
    ASSUME TypeOK, NEW p \in Procs
    PROVE  /\ lock' = lock => LockStep(p)
           /\ \A n \in LockNames : Free(n) /\ lock' = Acquired(n, p) => LockStep(p)
           /\ \A n \in LockNames : lock' = Released(n, p) => LockStep(p)
           /\ \A n, m \in LockNames :
                 lock' = [k \in LockNames |->
                             IF k \in {n, m} THEN Released(k, p)[k] ELSE lock[k]]
                    => LockStep(p)
           /\ lock' = ReleasedAll(p) => LockStep(p)
BY DEF LockStep, TypeOK, Free, Acquired, Released, ReleasedAll

\* What other processes are at does not change.
OthersStand(p) ==
    \A other \in Procs :
        other # p => /\ pc'[other] = pc[other] /\ req'[other] = req[other]
                     /\ tx'[other] = tx[other] /\ tried'[other] = tried[other]

LEMMA SomeProcess == ASSUME NEW p \in Procs PROVE p # None
BY CheckoutConstants

\* A process keeps its locks while it stays at steps that hold them.
LEMMA StandsByItsLocks ==
    ASSUME TypeOK, NEW p \in Procs, NEW other \in Procs, other # p, LockStep(p),
           OthersStand(p), HoldsLocks(other)
    PROVE  HoldsLocks(other)'
<1>1. CASE pc[other] = "idle"
  BY <1>1, StepSets DEF OthersStand, HoldsLocks
<1>2. CASE pc[other] # "idle"
  <2>1. /\ QuoteLock(QuoteOf[req[other]]) \in LockNames
        /\ CheckoutLock(req[other]) \in LockNames
        /\ other # None
    BY <1>2, AtWork, LockNamesDiffer, SomeProcess
  <2>2. /\ pc'[other] = pc[other] /\ req'[other] = req[other]
    BY DEF OthersStand
  <2>3. /\ Owned(QuoteLock(QuoteOf[req[other]]), other) =>
              lock'[QuoteLock(QuoteOf[req[other]])] = other
        /\ Owned(CheckoutLock(req[other]), other) => lock'[CheckoutLock(req[other])] = other
    BY <2>1 DEF Owned, LockStep
  <2>. QED
    BY <2>2, <2>3 DEF HoldsLocks, Owned, QuoteLock, CheckoutLock
<1>. QED
  BY <1>1, <1>2

(***************************************************************************)
(* Orders                                                                  *)
(***************************************************************************)

\* A write that a process at work on the order need not notice.
Calm(o, w) ==
    /\ w.bound = o.bound /\ w.attempted = o.attempted /\ w.verified = o.verified
    /\ \/ w.state = o.state
       \/ o.status = "absent" /\ w.state = "reserved"

LEMMA NothingKnown ==
    ASSUME NEW step, step \notin QuoteHeld, NEW o, NEW again, NEW stands
    PROVE  Knows(step, o, again, stands)
BY StepSets DEF Knows

LEMMA CalmlyKnown ==
    ASSUME NEW step, NEW o, NEW w, NEW again, NEW stands, NEW stands2,
           Knows(step, o, again, stands), Calm(o, w), OrderKept(o),
           step \in BoundSteps => Started(o),
           HardHolds /\ step \in HoldSteps /\ stands => stands2
    PROVE  Knows(step, w, again, stands2)
<1>1. step \in BoundSteps => w.state = o.state
  BY DEF Calm, OrderKept
<1>2. step = "begin" => ~CheckoutComplete(w)
  BY DEF Calm, Knows, CheckoutComplete
<1>3. CASE step \in BoundSteps
  BY <1>1, <1>3, StepSets DEF Knows, Calm, CheckoutComplete, Stopped
<1>4. CASE step \notin BoundSteps
  BY <1>2, <1>4, StepSets DEF Knows
<1>. QED
  BY <1>3, <1>4

\* What a process knows stays true when others write what it does not hold.
LEMMA StandsByItsOrder ==
    ASSUME LockInv, NEW other \in Procs,
           pc'[other] = pc[other], req'[other] = req[other],
           tx'[other] = tx[other], tried'[other] = tried[other],
           pc[other] \in QuoteHeld =>
              /\ Calm(order[QuoteOf[req[other]]], order'[QuoteOf[req[other]]])
              /\ HardHolds /\ pc[other] \in HoldSteps /\ QuoteOf[req[other]] \in held
                    => QuoteOf[req[other]] \in held'
    PROVE  KnowsOrder(other)' /\ InTransaction(other)'
<1>1. KnowsOrder(other) /\ InTransaction(other)
  BY DEF LockInv, Kept, ProcsKept
<1>2. InTransaction(other)'
  BY <1>1 DEF InTransaction
<1>3. CASE pc[other] \notin QuoteHeld
  BY <1>2, <1>3, NothingKnown DEF KnowsOrder
<1>4. CASE pc[other] \in QuoteHeld
  <2>. DEFINE q == QuoteOf[req[other]]
              o == order[q]
              w == order'[q]
              again == tried[other]
  <2>1. q \in Quotes
    BY <1>4, AtWork, StepSets DEF LockInv, PaymentInv
  <2>2. OrderKept(o)
    BY <2>1 DEF LockInv, Kept, OrdersKept
  <2>3. pc[other] \in BoundSteps => Started(o)
    BY Bound DEF LockInv
  <2>4. Knows(pc[other], o, again, q \in held)
    BY <1>1 DEF KnowsOrder
  <2>5. /\ Calm(o, w)
        /\ HardHolds /\ pc[other] \in HoldSteps /\ q \in held => q \in held'
    BY <1>4
  <2>6. Knows(pc[other], w, again, q \in held')
    <3>. HIDE DEF q, o, w, again
    <3>. QED
      BY <2>2, <2>3, <2>4, <2>5, CalmlyKnown
  <2>. QED
    BY <1>2, <2>6 DEF KnowsOrder
<1>. QED
  BY <1>3, <1>4

\* The writes of a process: to the order whose lock it has, or calm ones.
Writes(p) ==
    \A q \in Quotes : \/ lock[QuoteLock(q)] \in {None, p}
                      \/ Calm(order[q], order'[q]) /\ (q \in held => q \in held')

\* Only begin() binds an order, which is not bound yet, to its request.
Binds(p) ==
    \A q \in Quotes :
        \/ order'[q].bound = order[q].bound
        \/ /\ pc[p] = "begin" /\ q = QuoteOf[req[p]]
           /\ ~Started(order[q]) /\ order'[q].bound = req[p]

ProcKept(p) == HoldsLocks(p) /\ KnowsOrder(p) /\ InTransaction(p) /\ KnowsKey(p)

LEMMA OthersKept ==
    ASSUME LockInv, NEW p \in Procs, LockStep(p), OthersStand(p), Writes(p), Binds(p)
    PROVE  \A other \in Procs : other # p => ProcKept(other)'
<1>. SUFFICES ASSUME NEW other \in Procs, other # p
              PROVE  ProcKept(other)'
  OBVIOUS
<1>1. /\ pc'[other] = pc[other] /\ req'[other] = req[other]
      /\ tx'[other] = tx[other] /\ tried'[other] = tried[other]
  BY DEF OthersStand
<1>2. TypeOK /\ ProcKept(other) /\ ProcKept(p)
  BY DEF LockInv, PaymentInv, Kept, ProcsKept, ProcKept
<1>3. HoldsLocks(other)'
  BY <1>2, StandsByItsLocks DEF ProcKept
<1>4. KnowsOrder(other)' /\ InTransaction(other)'
  <2>1. ASSUME pc[other] \in QuoteHeld
        PROVE  LET q == QuoteOf[req[other]]
               IN  Calm(order[q], order'[q]) /\ (q \in held => q \in held')
    <3>1. QuoteOf[req[other]] \in Quotes
      BY <1>2, <2>1, AtWork, StepSets
    <3>2. lock[QuoteLock(QuoteOf[req[other]])] = other
      BY <1>2, <2>1 DEF ProcKept, HoldsLocks, Owned
    <3>. QED
      BY <3>1, <3>2, SomeProcess DEF Writes
  <2>. QED
    BY <1>1, <2>1, StandsByItsOrder
<1>5. KnowsKey(other)'
  <2>. SUFFICES ASSUME pc[other] \in {"load", "begin"}, NEW q \in Quotes,
                       Started(order'[q]), KeyOf[order'[q].bound] = KeyOf[req[other]]
                PROVE  order'[q].bound = req[other]
    BY <1>1 DEF KnowsKey, Started
  <2>1. req[other] \in Requests /\ Owned(CheckoutLock(req[other]), other)
    BY <1>2, AtWork, StepSets DEF HoldsLocks, ProcKept
  <2>2. CASE order'[q].bound = order[q].bound
    BY <1>2, <2>2 DEF KnowsKey, Started, ProcKept
  <2>3. CASE pc[p] = "begin" /\ order'[q].bound = req[p]
    <3>1. req[p] \in Requests /\ Owned(CheckoutLock(req[p]), p)
      BY <1>2, <2>3, AtWork, StepSets DEF HoldsLocks, ProcKept
    <3>. QED
      BY <2>1, <2>3, <3>1, LockNamesDiffer DEF Owned
  <2>. QED
    BY <2>2, <2>3 DEF Binds
<1>. QED
  BY <1>3, <1>4, <1>5 DEF ProcKept

\* No key comes to be bound to a second order.
LEMMA KeysKept ==
    ASSUME LockInv, NEW p \in Procs, Binds(p)
    PROVE  KeyBindsOneOrder'
<1>. DEFINE B(q) == order[q].bound
            C(q) == order'[q].bound
<1>1. \A q1, q2 \in Quotes :
          B(q1) # None /\ B(q2) # None /\ q1 # q2 => KeyOf[B(q1)] # KeyOf[B(q2)]
  BY DEF LockInv, Kept, KeyBindsOneOrder, Started
<1>2. \A q \in Quotes : \/ C(q) = B(q)
                        \/ /\ pc[p] = "begin" /\ q = QuoteOf[req[p]]
                           /\ B(q) = None /\ C(q) = req[p]
  BY DEF Binds, Started
<1>3. pc[p] = "begin" =>
        \A q \in Quotes : B(q) # None /\ KeyOf[B(q)] = KeyOf[req[p]] => q = QuoteOf[req[p]]
  BY DEF LockInv, Kept, ProcsKept, KnowsKey, Started, PaymentInv, OrdersFit, OrderFits
<1>4. \A q1, q2 \in Quotes :
          C(q1) # None /\ C(q2) # None /\ q1 # q2 => KeyOf[C(q1)] # KeyOf[C(q2)]
  <2>. HIDE DEF B, C
  <2>. QED
    BY <1>1, <1>2, <1>3
<1>. QED
  BY <1>4 DEF KeyBindsOneOrder, Started

(***************************************************************************)
(* Sound writes                                                            *)
(***************************************************************************)

\* A write that keeps what the order has on record.
Upholds(o, w) ==
    /\ OrderKept(w)
    /\ Started(o) => w.bound = o.bound
    /\ o.attempted => w.attempted
    /\ o.state \in Closed => w.state = o.state
    /\ Stopped(o) => Stopped(w)

\* In hard mode only an order with a unit is promoted.
Sound(q, w) ==
    /\ Upholds(order[q], w)
    /\ HardHolds /\ w.status = "processing" =>
          order[q].status = "processing" \/ q \in held

Orderly == \A q \in Quotes : Sound(q, order'[q])

\* The holds shrink, or grow by a unit that is available.
HoldsSound ==
    \/ held' \subseteq held
    \/ \E q \in Quotes : HardHolds /\ UnitAvailable(q) /\ held' = held \cup {q}

OnRecord(r) == order[QuoteOf[r]].bound = r /\ order[QuoteOf[r]].attempted

\* Payments are settled for attempts on record, and refunds asked for stopped
\* checkouts.
RailSound ==
    /\ \A q \in Quotes : railRefund'[q] # "none" => railRefund[q] # "none" \/ Stopped(order[q])
    /\ \A x \in Refs : \/ claim'[x] = claim[x]
                       \/ \E r \in Requests : /\ OnRecord(r) /\ x = RefOf[r]
                                              /\ claim'[x] = QuoteOf[r]
    /\ \A r \in late' : r \in late \/ OnRecord(r)

\* The orders after an orderly step.
LEMMA OrdersStayKept ==
    ASSUME LockInv, TypeOK', Orderly, RailSound
    PROVE  OrdersKept' /\ MoneyKept'
<1>1. \A q \in Quotes : OrderKept(order'[q])
  BY DEF Orderly, Sound, Upholds
<1>2. \A q \in Quotes : railRefund'[q] # "none" => Stopped(order'[q])
  BY DEF LockInv, Kept, OrdersKept, RailSound, Orderly, Sound, Upholds
<1>3. OrdersKept'
  BY <1>1, <1>2 DEF OrdersKept, OrderKept
<1>4. \A q \in Quotes : /\ Started(order[q]) => order'[q].bound = order[q].bound
                        /\ order[q].attempted => order'[q].attempted
  BY DEF Orderly, Sound, Upholds
<1>5. \A r \in Requests : OnRecord(r) => OnRecord(r)'
  BY <1>4, CheckoutConstants, NoneIsNoRequest DEF OnRecord, Started
<1>6. \A r \in late' : OnRecord(r)'
  BY <1>5 DEF LockInv, Kept, MoneyKept, RailSound, OnRecord, TypeOK
<1>7. ASSUME NEW x \in Refs, claim'[x] # None
      PROVE  LET o == order'[claim'[x]]
             IN  Started(o) /\ RefOf[o.bound] = x /\ o.attempted
  <2>1. CASE claim'[x] = claim[x]
    <3>1. /\ claim[x] \in Quotes
          /\ LET o == order[claim[x]]
             IN  Started(o) /\ RefOf[o.bound] = x /\ o.attempted
      BY <1>7, <2>1 DEF LockInv, Kept, MoneyKept, PaymentInv, TypeOK
    <3>. QED
      BY <2>1, <3>1, <1>4 DEF Started
  <2>2. CASE \E r \in Requests : OnRecord(r) /\ x = RefOf[r] /\ claim'[x] = QuoteOf[r]
    <3>1. PICK r \in Requests : OnRecord(r) /\ x = RefOf[r] /\ claim'[x] = QuoteOf[r]
      BY <2>2
    <3>2. order'[QuoteOf[r]].bound = r /\ order'[QuoteOf[r]].attempted
      BY <3>1, <1>5 DEF OnRecord
    <3>. QED
      BY <3>1, <3>2, NoneIsNoRequest DEF Started
  <2>. QED
    BY <2>1, <2>2 DEF RailSound
<1>8. MoneyKept'
  BY <1>6, <1>7 DEF MoneyKept, OnRecord, Started
<1>. QED
  BY <1>3, <1>8

\* The units after an orderly step.
LEMMA StockStaysKept ==
    ASSUME LockInv, Orderly, HoldsSound
    PROVE  StockKept'
<1>. SUFFICES ASSUME HardHolds
              PROVE  /\ IsFiniteSet(Sold' \cup held')
                     /\ Cardinality(Sold' \cup held') <= Stock
  BY DEF StockKept
<1>. DEFINE U == Sold \cup held
<1>1. IsFiniteSet(U) /\ Cardinality(U) \in Nat /\ Cardinality(U) <= Stock
  BY FS_CardinalityType DEF LockInv, Kept, StockKept
<1>2. Sold' \subseteq U
  BY DEF Sold, Orderly, Sound
<1>3. CASE held' \subseteq held
  <2>1. Sold' \cup held' \subseteq U
    BY <1>2, <1>3
  <2>2. /\ IsFiniteSet(Sold' \cup held')
        /\ Cardinality(Sold' \cup held') \in Nat
        /\ Cardinality(Sold' \cup held') <= Cardinality(U)
    <3>. HIDE DEF U
    <3>. QED
      BY <1>1, <2>1, FS_Subset, FS_CardinalityType
  <2>. QED
    BY <1>1, <2>2, CheckoutConstants
<1>4. CASE \E q \in Quotes : UnitAvailable(q) /\ held' = held \cup {q}
  <2>1. PICK q \in Quotes : UnitAvailable(q) /\ held' = held \cup {q}
    BY <1>4
  <2>. DEFINE A == Sold
              B == held \ {q}
              V == A \cup B
              W == Sold' \cup held'
  <2>2. A \subseteq U /\ B \subseteq U /\ W \subseteq V \cup {q}
    BY <1>2, <2>1
  <2>3. Cardinality(A) + Cardinality(B) < Stock
    BY <2>1 DEF UnitAvailable
  <2>. HIDE DEF A, B, U, W
  <2>4. /\ IsFiniteSet(A) /\ Cardinality(A) \in Nat
        /\ IsFiniteSet(B) /\ Cardinality(B) \in Nat
    BY <1>1, <2>2, FS_Subset, FS_CardinalityType
  <2>5. /\ IsFiniteSet(V)
        /\ Cardinality(V) = Cardinality(A) + Cardinality(B) - Cardinality(A \cap B)
    BY <2>4, FS_Union
  <2>6. Cardinality(A \cap B) \in Nat /\ Cardinality(V) \in Nat
    BY <2>4, <2>5, FS_Intersection, FS_CardinalityType
  <2>. HIDE DEF V
  <2>7. /\ IsFiniteSet(V \cup {q}) /\ Cardinality(V \cup {q}) \in Nat
        /\ Cardinality(V \cup {q}) <= Cardinality(V) + 1
    <3>1. /\ IsFiniteSet(V \cup {q})
          /\ Cardinality(V \cup {q}) =
                IF q \in V THEN Cardinality(V) ELSE Cardinality(V) + 1
      BY <2>5, FS_AddElement
    <3>. QED
      BY <2>6, <3>1
  <2>8. /\ IsFiniteSet(W) /\ Cardinality(W) \in Nat
        /\ Cardinality(W) <= Cardinality(V \cup {q})
    BY <2>2, <2>7, FS_Subset, FS_CardinalityType
  <2>9. Cardinality(W) <= Stock
    BY <2>3, <2>4, <2>5, <2>6, <2>7, <2>8, CheckoutConstants
  <2>. QED
    BY <2>8, <2>9 DEF W
<1>. QED
  BY <1>3, <1>4 DEF HoldsSound

(***************************************************************************)
(* Steps of a process                                                      *)
(***************************************************************************)
Effects == Orderly /\ HoldsSound /\ RailSound /\ sweeping' = sweeping

StepKept(p) ==
    /\ LockStep(p) /\ OthersStand(p) /\ ProcKept(p)'
    /\ Writes(p) /\ Binds(p) /\ Effects

LEMMA ProcessKeeps ==
    ASSUME LockInv, TypeOK', NEW p \in Procs, StepKept(p)
    PROVE  Kept'
<1>1. ProcsKept'
  <2>1. \A other \in Procs : ProcKept(other)'
    BY OthersKept DEF StepKept
  <2>. QED
    BY <2>1 DEF ProcsKept, ProcKept
<1>2. OrdersKept' /\ MoneyKept' /\ StockKept'
  BY OrdersStayKept, StockStaysKept DEF StepKept, Effects
<1>3. KeyBindsOneOrder'
  BY KeysKept DEF StepKept
<1>4. sweeping' = {}
  BY DEF StepKept, Effects, LockInv, Kept
<1>. QED
  BY <1>1, <1>2, <1>3, <1>4 DEF Kept

\* Nothing happens to an order.
LEMMA Unwritten ==
    ASSUME LockInv, order' = order
    PROVE  /\ Orderly
           /\ \A p \in Procs : Binds(p) /\ (held \subseteq held' => Writes(p))
<1>1. \A q \in Quotes : OrderKept(order[q])
  BY DEF LockInv, Kept, OrdersKept
<1>2. Orderly
  BY <1>1 DEF Orderly, Sound, Upholds
<1>3. \A p \in Procs : Binds(p) /\ (held \subseteq held' => Writes(p))
  BY DEF Binds, Writes, Calm
<1>. QED
  BY <1>2, <1>3

\* Nothing happens on the payment side.
LEMMA RailStands == ASSUME rail' = rail PROVE RailSound
BY DEF rail, RailSound

\* A process writes the order it has the lock of.
LEMMA Written ==
    ASSUME LockInv, NEW p \in Procs, pc[p] # "idle",
           Owned(QuoteLock(QuoteOf[req[p]]), p) \/ Free(QuoteLock(QuoteOf[req[p]])),
           NEW w, Save(QuoteOf[req[p]], w), Sound(QuoteOf[req[p]], w),
           \/ w.bound = order[QuoteOf[req[p]]].bound
           \/ /\ pc[p] = "begin" /\ w.bound = req[p]
              /\ ~Started(order[QuoteOf[req[p]]]),
           held' \in {held, held \ {QuoteOf[req[p]]}}
    PROVE  Orderly /\ Writes(p) /\ Binds(p) /\ HoldsSound
<1>. DEFINE q == QuoteOf[req[p]]
<1>1. q \in Quotes
  BY AtWork DEF LockInv, PaymentInv
<1>2. /\ order'[q] = w
      /\ \A other \in Quotes : other # q => order'[other] = order[other]
  BY <1>1 DEF Save, LockInv, PaymentInv, TypeOK
<1>3. \A other \in Quotes : other # q => /\ Sound(other, order'[other])
                                         /\ Calm(order[other], order'[other])
  BY <1>2 DEF LockInv, Kept, OrdersKept, Sound, Upholds, Calm
<1>4. Orderly
  BY <1>2, <1>3 DEF Orderly
<1>5. Writes(p)
  BY <1>2, <1>3 DEF Writes, Owned, Free
<1>6. Binds(p)
  BY <1>2 DEF Binds
<1>. QED
  BY <1>4, <1>5, <1>6 DEF HoldsSound

(***************************************************************************)
(* The writes of Checkout_Store, made when they may be, are sound          *)
(***************************************************************************)
Open(o) == Started(o) /\ ~CheckoutComplete(o) /\ ~Stopped(o)

LEMMA OrderFacts ==
    ASSUME LockInv, NEW q \in Quotes
    PROVE  /\ order[q] \in Order /\ OrderKept(order[q])
           /\ order[q].state \notin {"none", "reserved"} => Started(order[q])
           /\ order[q].verified => Started(order[q])
           /\ order[q].status = "processing" => order[q].verified
           /\ Started(order[q]) => QuoteOf[order[q].bound] = q
BY DEF LockInv, PaymentInv, TypeOK, OrdersFit, OrderFits, Kept, OrdersKept

LEMMA SoundDrafts ==
    ASSUME LockInv, NEW q \in Quotes
    PROVE  /\ Sound(q, Draft(order[q])) /\ Calm(order[q], Draft(order[q]))
           /\ Sound(q, Release(order[q])) /\ Calm(order[q], Release(order[q]))
           /\ \A n : /\ Sound(q, [order[q] EXCEPT !.attempts = n])
                     /\ Calm(order[q], [order[q] EXCEPT !.attempts = n])
<1>. DEFINE o == order[q]
            d == Draft(o)
            l == Release(o)
<1>1. d = o \/ /\ o.status = "absent" /\ ~Started(o) /\ ~o.verified
               /\ d.status = "checkout-draft" /\ d.state = "reserved"
               /\ d.bound = o.bound /\ d.saved = o.saved
               /\ d.attempted = o.attempted /\ d.verified = o.verified
  BY OrderFacts DEF Draft, Order, OrderKept
<1>2. l = o \/ /\ o.state = "reserved" /\ ~Started(o)
               /\ l.status = "cancelled" /\ l.state = "reserved"
               /\ l.bound = o.bound /\ l.saved = o.saved
               /\ l.attempted = o.attempted /\ l.verified = o.verified
  BY OrderFacts DEF Release, Order, OrderKept
<1>3. OrderKept(o) /\ (o.state \notin {"none", "reserved"} => Started(o))
  BY OrderFacts
<1>4. \A n : LET w == [o EXCEPT !.attempts = n]
             IN  /\ w.status = o.status /\ w.state = o.state
                 /\ w.bound = o.bound /\ w.saved = o.saved
                 /\ w.attempted = o.attempted /\ w.verified = o.verified
  BY OrderFacts DEF Order
<1>5. Sound(q, d) /\ Calm(o, d)
  <2>. HIDE DEF d
  <2>. QED
    BY <1>1, <1>3 DEF Sound, Upholds, OrderKept, Stopped, Started, Closed, Calm
<1>6. Sound(q, l) /\ Calm(o, l)
  <2>. HIDE DEF l
  <2>. QED
    BY <1>2, <1>3 DEF Sound, Upholds, OrderKept, Stopped, Started, Closed, Calm
<1>7. ASSUME NEW n
      PROVE  Sound(q, [o EXCEPT !.attempts = n]) /\ Calm(o, [o EXCEPT !.attempts = n])
  <2>. DEFINE w == [o EXCEPT !.attempts = n]
  <2>1. /\ w.status = o.status /\ w.state = o.state
        /\ w.bound = o.bound /\ w.saved = o.saved
        /\ w.attempted = o.attempted /\ w.verified = o.verified
    BY <1>4
  <2>2. Sound(q, w) /\ Calm(o, w)
    <3>. HIDE DEF w
    <3>. QED
      BY <1>3, <2>1 DEF Sound, Upholds, OrderKept, Stopped, Started, Closed, Calm
  <2>. QED
    BY <2>2
<1>. QED
  BY <1>5, <1>6, <1>7

\* begin() on the draft, for the request it is bound to or for its first one.
LEMMA SoundBegin ==
    ASSUME LockInv, NEW q \in Quotes, NEW r \in Requests,
           ~BoundElsewhere(Draft(order[q]), r), ~Stopped(Draft(order[q])),
           ~CheckoutComplete(order[q])
    PROVE  LET o == order[q]
               w == Begin(Draft(o), r)
           IN  /\ Sound(q, w) /\ Open(w)
               /\ w.attempted = Draft(o).attempted
               /\ \/ w.bound = o.bound
                  \/ ~Started(o) /\ w.bound = r
<1>. DEFINE o == order[q]
            d == Draft(o)
            w == Begin(d, r)
<1>1. CASE Started(o)
  <2>1. o.status # "absent" /\ OrderKept(o)
    BY <1>1, OrderFacts DEF OrderKept
  <2>2. d = o /\ w = o
    BY <1>1, <2>1 DEF Draft, Begin
  <2>. QED
    BY <1>1, <2>1, <2>2 DEF Sound, Upholds, Open
<1>2. CASE ~Started(o)
  <2>1. /\ OrderKept(o) /\ ~o.attempted /\ ~o.verified /\ ~o.state \in Closed
        /\ o \in Order
    BY <1>2, OrderFacts DEF OrderKept, Closed
  <2>2. /\ d.bound = o.bound /\ d.attempted = o.attempted /\ d.verified = o.verified
        /\ d \in Order /\ ~Started(d) /\ Draft(d) = d
    BY <1>2, <2>1, StoreWritesOrders DEF Draft, Order, Started
  <2>. HIDE DEF d
  <2>3. /\ w.bound = r /\ w.saved /\ w.state = "intent_saved" /\ w.status = "pending"
        /\ w.attempted = d.attempted /\ w.verified = d.verified
    BY <2>2 DEF Begin, Order
  <2>. HIDE DEF w
  <2>4. Sound(q, w) /\ Open(w)
    BY <1>2, <2>1, <2>2, <2>3, NoneIsNoRequest
    DEF Sound, Upholds, OrderKept, Stopped, Started, Closed, Open, CheckoutComplete
  <2>. QED
    BY <1>2, <2>2, <2>3, <2>4 DEF d, w
<1>. QED
  BY <1>1, <1>2

\* The writes on the way to the promotion, while the checkout is open.
LEMMA SoundProgress ==
    ASSUME LockInv, NEW q \in Quotes, Open(order[q]),
           NEW w \in {MarkVerifying(order[q]), Verified(order[q]),
                      Failure(order[q], TRUE), Failure(order[q], FALSE)}
    PROVE  Sound(q, w) /\ Open(w) /\ w.bound = order[q].bound
<1>. DEFINE o == order[q]
<1>1. /\ OrderKept(o) /\ o.status # "processing" /\ ~o.state \in Closed /\ o.saved
      /\ o.attempted \in BOOLEAN /\ o.verified \in BOOLEAN
  BY OrderFacts DEF Open, OrderKept, CheckoutComplete, Stopped, Closed, Order
<1>2. /\ w.bound = o.bound /\ w.status = o.status /\ w.saved = o.saved
      /\ o.attempted => w.attempted
      /\ w.state \in QueueStates \cup {"checkout_rejected"}
      /\ w.attempted => w.state \in QueueStates
  <2>1. CASE w = MarkVerifying(o)
    BY <2>1, OrderFacts DEF MarkVerifying, Order, QueueStates, AutomaticStates
  <2>2. CASE w = Verified(o)
    BY <2>2, OrderFacts DEF Verified, Order, QueueStates, AutomaticStates
  <2>3. CASE w \in {Failure(o, TRUE), Failure(o, FALSE)}
    <3>1. PICK b \in BOOLEAN : w = [o EXCEPT !.state = FailureState(o, b)]
      BY <2>3 DEF Failure, Open
    <3>2. /\ FailureState(o, b) \in QueueStates \cup {"checkout_rejected"}
          /\ o.attempted => FailureState(o, b) \in QueueStates
      BY DEF FailureState, QueueStates, AutomaticStates
    <3>. QED
      BY <3>1, <3>2, OrderFacts DEF Order
  <2>. QED
    BY <2>1, <2>2, <2>3
<1>3. w.state \notin {"completed", "compensating", "compensated", "none", "reserved"}
  <2>1. CASE w = MarkVerifying(o)
    BY <2>1, OrderFacts DEF MarkVerifying, Order
  <2>2. CASE w = Verified(o)
    BY <2>2, OrderFacts DEF Verified, Order
  <2>3. CASE w \in {Failure(o, TRUE), Failure(o, FALSE)}
    BY <2>3, OrderFacts DEF Failure, FailureState, Open, Order
  <2>. QED
    BY <2>1, <2>2, <2>3
<1>4. Started(w) /\ Open(w)
  BY <1>2, <1>3 DEF Open, Started, CheckoutComplete, Stopped
<1>5. OrderKept(w)
  <2>1. o.status # "absent"
    BY <1>1 DEF OrderKept, Open
  <2>. QED
    BY <1>1, <1>2, <1>3, <1>4, <2>1 DEF OrderKept, Stopped, Closed
<1>. QED
  BY <1>1, <1>2, <1>3, <1>4, <1>5 DEF Sound, Upholds, Open

\* The promotion, with a unit in hard mode.
LEMMA SoundPromotion ==
    ASSUME LockInv, NEW q \in Quotes, Open(order[q]), HardHolds => q \in held
    PROVE  LET w == Complete(Promote(order[q]))
           IN  Sound(q, w) /\ ~Stopped(w) /\ w.bound = order[q].bound
                 /\ w.attempted = order[q].attempted
<1>. DEFINE o == order[q]
            w == Complete(Promote(o))
<1>1. /\ w.bound = o.bound /\ w.status = "processing" /\ w.state = "completed"
      /\ w.attempted = o.attempted /\ w.verified = o.verified
  BY OrderFacts DEF Complete, Promote, Order
<1>2. OrderKept(o) /\ ~o.state \in Closed
  BY OrderFacts DEF Open, CheckoutComplete, Stopped, Closed
<1>3. OrderKept(w) /\ ~Stopped(w)
  BY <1>1, <1>2 DEF OrderKept, Stopped, Closed, Open, Started
<1>. QED
  BY <1>1, <1>2, <1>3 DEF Sound, Upholds, Open

\* The writes of a compensation.
LEMMA SoundCompensation ==
    ASSUME LockInv, NEW q \in Quotes, Started(order[q])
    PROVE  /\ ~CheckoutComplete(order[q]) /\ order[q].state # "compensated"
                /\ order[q].verified =>
                  LET w == Compensate(order[q])
                  IN  /\ Sound(q, w) /\ w.bound = order[q].bound
                      /\ w.state = "compensating"
           /\ order[q].state = "compensating" =>
                 \A w \in {[order[q] EXCEPT !.intent = TRUE],
                           [order[q] EXCEPT !.intent = FALSE],
                           [order[q] EXCEPT !.refunded = TRUE, !.intent = FALSE]} :
                    Sound(q, w) /\ w.bound = order[q].bound /\ w.state = "compensating"
           /\ order[q].state = "compensating" =>
                  LET w == Compensated(order[q])
                  IN  Sound(q, w) /\ w.bound = order[q].bound
<1>. DEFINE o == order[q]
<1>0. OrderKept(o) /\ o \in Order /\ (o.status = "processing" <=> CheckoutComplete(o))
  BY OrderFacts DEF OrderKept, CheckoutComplete
<1>1. ASSUME ~CheckoutComplete(o), o.state # "compensated", o.verified
      PROVE  LET w == Compensate(o)
             IN  Sound(q, w) /\ w.bound = o.bound /\ w.state = "compensating"
  <2>. DEFINE w == Compensate(o)
  <2>1. /\ w.bound = o.bound /\ w.status = o.status /\ w.saved = o.saved
        /\ w.state = "compensating" /\ w.attempted = o.attempted
        /\ w.verified = o.verified
    BY <1>0 DEF Compensate, Order
  <2>2. OrderKept(w) /\ Stopped(w) /\ ~o.state \in Closed
    BY <1>0, <1>1, <2>1
    DEF OrderKept, Stopped, Started, Closed, QueueStates, AutomaticStates, CheckoutComplete
  <2>. QED
    BY <1>0, <1>1, <2>1, <2>2 DEF Sound, Upholds
<1>2. ASSUME o.state = "compensating",
             NEW w \in {[o EXCEPT !.intent = TRUE], [o EXCEPT !.intent = FALSE],
                        [o EXCEPT !.refunded = TRUE, !.intent = FALSE]}
      PROVE  Sound(q, w) /\ w.bound = o.bound /\ w.state = "compensating"
  <2>1. /\ w.bound = o.bound /\ w.status = o.status /\ w.saved = o.saved
        /\ w.state = o.state /\ w.attempted = o.attempted /\ w.verified = o.verified
    BY <1>0 DEF Order
  <2>2. OrderKept(w) /\ Stopped(w) /\ ~o.state \in Closed
    BY <1>0, <1>2, <2>1 DEF OrderKept, Stopped, Started, Closed
  <2>. QED
    BY <1>0, <1>2, <2>1, <2>2 DEF Sound, Upholds
<1>3. ASSUME o.state = "compensating"
      PROVE  LET w == Compensated(o) IN Sound(q, w) /\ w.bound = o.bound
  <2>. DEFINE w == Compensated(o)
  <2>1. /\ w.bound = o.bound /\ w.status = "cancelled" /\ w.state = "compensated"
        /\ w.attempted = o.attempted /\ w.verified = o.verified
    BY <1>0 DEF Compensated, Order
  <2>2. OrderKept(w) /\ Stopped(w) /\ ~o.state \in Closed
    BY <1>0, <1>3, <2>1 DEF OrderKept, Stopped, Started, Closed
  <2>. QED
    BY <1>0, <1>3, <2>1, <2>2 DEF Sound, Upholds
<1>. QED
  BY <1>1, <1>2, <1>3

(***************************************************************************)
(* Moves of a process                                                      *)
(***************************************************************************)

\* A move to a step that asks for no lock the process may lack.
MayMove(from, to) ==
    /\ from \in Running /\ to \in Running
    /\ to \in QuoteHeld => from \in QuoteHeld
    /\ to \in KeyHeld => from \in KeyHeld
    /\ to \notin {"load", "begin"}

LEMMA OrderMoves ==
    /\ MayMove("lookup", "lock") /\ MayMove("begin", "stock") /\ MayMove("begin", "unlockq")
    /\ \A to \in {"fail", "checkpoint", "hold"} : MayMove("stock", to)
    /\ \A to \in {"fail", "attempt"} : MayMove("hold", to)
    /\ \A to \in {"fail", "wait"} : MayMove("attempt", to)
    /\ \A to \in {"fail", "answer"} : MayMove("wait", to)
    /\ \A to \in {"fail", "checkpoint"} : MayMove("answer", to)
    /\ MayMove("checkpoint", "rehold")
    /\ \A to \in {"fail", "owned"} : MayMove("rehold", to)
    /\ \A to \in {"fail", "promote"} : MayMove("owned", to)
    /\ \A to \in {"fail", "mark"} : MayMove("promote", to)
    /\ MayMove("mark", "recheck")
    /\ \A to \in {"fail", "commit"} : MayMove("recheck", to)
    /\ \A to \in {"fail", "cleanup"} : MayMove("commit", to)
    /\ MayMove("cleanup", "unlockq") /\ MayMove("fail", "unlockq")
    /\ MayMove("unlockq", "unlock")
BY DEF MayMove, Running, QuoteHeld, KeyHeld, OrderSteps, RecoverySteps

LEMMA RecoveryMoves ==
    /\ \A to \in {"rquit", "rstop", "rgo", "rwait"} : MayMove("rload", to)
    /\ \A to \in {"rquit", "ranswer"} : MayMove("rwait", to)
    /\ \A to \in {"rquit", "rcheckpoint"} : MayMove("ranswer", to)
    /\ \A to \in {"rquit", "rstop", "rgo"} : MayMove("rcheckpoint", to)
    /\ MayMove("rstop", "refund")
    /\ \A to \in {"rdone", "intent", "rquit"} : MayMove("refund", to)
    /\ MayMove("intent", "refundwait")
    /\ \A to \in {"record", "rquit"} : MayMove("refundwait", to)
    /\ \A to \in {"rdone", "rquit"} : MayMove("record", to)
    /\ MayMove("rdone", "rquit") /\ MayMove("rgo", "lookup")
BY DEF MayMove, Running, QuoteHeld, KeyHeld, OrderSteps, RecoverySteps

\* The parts of KnowsOrder that a step can ask for.
LEMMA StepKnows ==
    ASSUME NEW o, NEW again, NEW stands
    PROVE  /\ \A step \in {"lookup", "lock", "load", "unlockq", "unlock", "rlock",
                           "rload", "rquit", "rgo"} : Knows(step, o, again, stands)
           /\ \A step \in {"stock", "hold", "attempt", "answer", "checkpoint", "rehold"} :
                 ~CheckoutComplete(o) /\ ~Stopped(o) /\ (again => o.attempted)
                    => Knows(step, o, again, stands)
           /\ \A step \in {"ranswer", "rcheckpoint"} :
                 ~CheckoutComplete(o) /\ ~Stopped(o) => Knows(step, o, again, stands)
           /\ ~CheckoutComplete(o) /\ ~Stopped(o) /\ o.attempted =>
                 Knows("wait", o, again, stands) /\ Knows("rwait", o, again, stands)
           /\ \A step \in HoldSteps :
                 ~CheckoutComplete(o) /\ ~Stopped(o) /\ (again => o.attempted)
                    /\ (HardHolds => stands) => Knows(step, o, again, stands)
           /\ ~Stopped(o) /\ (again => o.attempted) => Knows("fail", o, again, stands)
           /\ (again => o.attempted) => Knows("cleanup", o, again, stands)
           /\ ~CheckoutComplete(o) /\ o.state # "compensated" /\ o.verified
                 => Knows("rstop", o, again, stands)
           /\ \A step \in RefundSteps :
                 o.state = "compensating" => Knows(step, o, again, stands)
<1>1. \A step \in {"lookup", "lock", "load", "unlockq", "unlock", "rlock", "rload",
                   "rquit", "rgo"} : Knows(step, o, again, stands)
  BY DEF Knows, OpenSteps, RefundSteps, HoldSteps, PastBegin, OrderSteps
<1>2. \A step \in {"stock", "hold", "attempt", "answer", "checkpoint", "rehold"} :
          ~CheckoutComplete(o) /\ ~Stopped(o) /\ (again => o.attempted)
             => Knows(step, o, again, stands)
  BY DEF Knows, OpenSteps, RefundSteps, HoldSteps
<1>3. \A step \in {"ranswer", "rcheckpoint"} :
          ~CheckoutComplete(o) /\ ~Stopped(o) => Knows(step, o, again, stands)
  BY DEF Knows, OpenSteps, RefundSteps, HoldSteps, PastBegin, OrderSteps
<1>4. ~CheckoutComplete(o) /\ ~Stopped(o) /\ o.attempted =>
          Knows("wait", o, again, stands) /\ Knows("rwait", o, again, stands)
  BY DEF Knows, OpenSteps, RefundSteps, HoldSteps
<1>5. \A step \in HoldSteps :
          ~CheckoutComplete(o) /\ ~Stopped(o) /\ (again => o.attempted)
             /\ (HardHolds => stands) => Knows(step, o, again, stands)
  BY DEF Knows, OpenSteps, RefundSteps, HoldSteps
<1>6. ~Stopped(o) /\ (again => o.attempted) => Knows("fail", o, again, stands)
  BY DEF Knows, OpenSteps, RefundSteps, HoldSteps
<1>7. (again => o.attempted) => Knows("cleanup", o, again, stands)
  BY DEF Knows, OpenSteps, RefundSteps, HoldSteps
<1>8. ~CheckoutComplete(o) /\ o.state # "compensated" /\ o.verified
          => Knows("rstop", o, again, stands)
  BY DEF Knows, OpenSteps, RefundSteps, HoldSteps, PastBegin, OrderSteps
<1>9. \A step \in RefundSteps :
          o.state = "compensating" => Knows(step, o, again, stands)
  BY DEF Knows, OpenSteps, RefundSteps, HoldSteps, PastBegin, OrderSteps
<1>. QED
  BY <1>1, <1>2, <1>3, <1>4, <1>5, <1>6, <1>7, <1>8, <1>9

\* What a process knows at its step.
LEMMA Known ==
    ASSUME LockInv, NEW p \in Procs, pc[p] \in QuoteHeld
    PROVE  LET q == QuoteOf[req[p]]
               o == order[q]
           IN  /\ req[p] \in Requests /\ q \in Quotes /\ o \in Order
               /\ Owned(QuoteLock(q), p)
               /\ Knows(pc[p], o, tried[p], q \in held)
               /\ pc[p] \in BoundSteps => Started(o) /\ o.bound = req[p]
               /\ pc[p] \in OpenSteps => Open(o)
               /\ pc[p] \in PastBegin /\ tried[p] => o.attempted
               /\ pc[p] \in RefundSteps => o.state = "compensating" /\ Stopped(o)
<1>1. pc[p] # "idle"
  BY StepSets
<1>2. req[p] \in Requests /\ QuoteOf[req[p]] \in Quotes /\ order[QuoteOf[req[p]]] \in Order
  BY <1>1, AtWork DEF LockInv, PaymentInv
<1>3. /\ Owned(QuoteLock(QuoteOf[req[p]]), p)
      /\ Knows(pc[p], order[QuoteOf[req[p]]], tried[p], QuoteOf[req[p]] \in held)
  BY DEF LockInv, Kept, ProcsKept, HoldsLocks, KnowsOrder
<1>4. pc[p] \in BoundSteps => /\ Started(order[QuoteOf[req[p]]])
                              /\ order[QuoteOf[req[p]]].bound = req[p]
  BY Bound DEF LockInv
<1>. QED
  BY <1>2, <1>3, <1>4, StepSets DEF Knows, Open, Stopped

\* A process moves on, with the locks the next step asks for.
LEMMA Moved ==
    ASSUME LockInv, NEW p \in Procs, NEW from, NEW to, Go(p, from, to), MayMove(from, to),
           task' = task, LockStep(p),
           to \in QuoteHeld =>
              lock'[QuoteLock(QuoteOf[req[p]])] = lock[QuoteLock(QuoteOf[req[p]])],
           to \in KeyHeld => lock'[CheckoutLock(req[p])] = lock[CheckoutLock(req[p])],
           \A other \in Procs :
              other # p => tx'[other] = tx[other] /\ tried'[other] = tried[other],
           Knows(to, order'[QuoteOf[req[p]]], tried'[p], QuoteOf[req[p]] \in held'),
           to = "promote" => tx'[p] = "open",
           to = "mark" => tx'[p] = "promoted",
           to \in {"recheck", "commit"} => tx'[p] = "marked"
    PROVE  OthersStand(p) /\ ProcKept(p)'
<1>1. /\ pc[p] = from /\ pc'[p] = to /\ req' = req
      /\ \A other \in Procs : other # p => pc'[other] = pc[other]
  BY DEF Go, task, LockInv, PaymentInv, TypeOK
<1>2. HoldsLocks(p)
  BY DEF LockInv, Kept, ProcsKept
<1>3. HoldsLocks(p)'
  BY <1>1, <1>2 DEF HoldsLocks, MayMove, Owned, QuoteLock, CheckoutLock
<1>4. KnowsOrder(p)'
  BY <1>1 DEF KnowsOrder
<1>5. InTransaction(p)' /\ KnowsKey(p)'
  BY <1>1 DEF InTransaction, KnowsKey, MayMove
<1>6. OthersStand(p)
  BY <1>1 DEF OthersStand
<1>. QED
  BY <1>3, <1>4, <1>5, <1>6 DEF ProcKept

\* ... and comes to its end.
LEMMA Ended ==
    ASSUME LockInv, NEW p \in Procs, Finish(p),
           \A other \in Procs : other # p => tx'[other] = tx[other]
    PROVE  OthersStand(p) /\ ProcKept(p)'
<1>1. /\ pc'[p] = "idle"
      /\ \A other \in Procs :
            other # p => /\ pc'[other] = pc[other] /\ req'[other] = req[other]
                         /\ tried'[other] = tried[other]
  BY DEF Finish, LockInv, PaymentInv, TypeOK
<1>2. HoldsLocks(p)' /\ KnowsOrder(p)'
  BY <1>1, StepSets, NothingKnown DEF HoldsLocks, KnowsOrder
<1>3. InTransaction(p)' /\ KnowsKey(p)'
  BY <1>1 DEF InTransaction, KnowsKey
<1>. QED
  BY <1>1, <1>2, <1>3 DEF OthersStand, ProcKept

\* A step that writes no order,
LEMMA QuietStep ==
    ASSUME LockInv, NEW p \in Procs, LockStep(p), OthersStand(p), ProcKept(p)',
           order' = order, held' = held, sweeping' = sweeping, RailSound
    PROVE  StepKept(p)
BY Unwritten DEF StepKept, Effects, HoldsSound

\* and one that writes the order the process has the lock of.
LEMMA WriteStep ==
    ASSUME LockInv, NEW p \in Procs, LockStep(p), OthersStand(p), ProcKept(p)',
           pc[p] \in QuoteHeld,
           NEW w, Save(QuoteOf[req[p]], w), Sound(QuoteOf[req[p]], w),
           w.bound = order[QuoteOf[req[p]]].bound,
           held' \in {held, held \ {QuoteOf[req[p]]}},
           sweeping' = sweeping, RailSound
    PROVE  StepKept(p)
<1>1. pc[p] # "idle" /\ Owned(QuoteLock(QuoteOf[req[p]]), p)
  BY Known, StepSets
<1>. QED
  BY <1>1, Written DEF StepKept, Effects

\* A process keeps the locks of its order and its key.
KeepsLocks(p) ==
    /\ LockStep(p)
    /\ lock'[QuoteLock(QuoteOf[req[p]])] = lock[QuoteLock(QuoteOf[req[p]])]
    /\ lock'[CheckoutLock(req[p])] = lock[CheckoutLock(req[p])]

LEMMA LocksKept ==
    ASSUME LockInv, NEW p \in Procs, pc[p] # "idle"
    PROVE  /\ lock' = lock => KeepsLocks(p)
           /\ LET n == RefundLock(QuoteOf[req[p]])
              IN  /\ Free(n) /\ lock' = Acquired(n, p) => KeepsLocks(p)
                  /\ lock' = Released(n, p) => KeepsLocks(p)
<1>. DEFINE n == RefundLock(QuoteOf[req[p]])
            k == QuoteLock(QuoteOf[req[p]])
            c == CheckoutLock(req[p])
<1>1. /\ n \in LockNames /\ k \in LockNames /\ c \in LockNames /\ n # k /\ n # c
      /\ TypeOK
  BY AtWork, LockNamesDiffer DEF LockInv, PaymentInv
<1>2. lock' = lock => KeepsLocks(p)
  BY <1>1, LockMoves DEF KeepsLocks
<1>3. Free(n) /\ lock' = Acquired(n, p) => KeepsLocks(p)
  <2>1. lock' = Acquired(n, p) => lock'[k] = lock[k] /\ lock'[c] = lock[c]
    BY <1>1 DEF Acquired, TypeOK
  <2>. QED
    BY <1>1, <2>1, LockMoves DEF KeepsLocks
<1>4. lock' = Released(n, p) => KeepsLocks(p)
  <2>1. lock' = Released(n, p) => lock'[k] = lock[k] /\ lock'[c] = lock[c]
    BY <1>1 DEF Released, TypeOK
  <2>. QED
    BY <1>1, <2>1, LockMoves DEF KeepsLocks
<1>. QED
  BY <1>2, <1>3, <1>4

LEMMA QuietMove ==
    ASSUME LockInv, NEW p \in Procs, NEW from, NEW to, Go(p, from, to), MayMove(from, to),
           order' = order, held' = held, sweeping' = sweeping, RailSound,
           task' = task, view' = view, KeepsLocks(p),
           \A other \in Procs : other # p => tx'[other] = tx[other],
           Knows(to, order[QuoteOf[req[p]]], tried[p], QuoteOf[req[p]] \in held),
           to = "promote" => tx'[p] = "open",
           to = "mark" => tx'[p] = "promoted",
           to \in {"recheck", "commit"} => tx'[p] = "marked"
    PROVE  StepKept(p)
<1>1. tried' = tried
  BY DEF view
<1>2. OthersStand(p) /\ ProcKept(p)'
  BY <1>1, Moved DEF KeepsLocks
<1>. QED
  BY <1>2, QuietStep DEF KeepsLocks

LEMMA WriteMove ==
    ASSUME LockInv, NEW p \in Procs, NEW from, NEW to, Go(p, from, to), MayMove(from, to),
           from \in QuoteHeld, to \notin {"promote", "mark", "recheck", "commit"},
           NEW w, Save(QuoteOf[req[p]], w), Sound(QuoteOf[req[p]], w),
           w.bound = order[QuoteOf[req[p]]].bound,
           held' \in {held, held \ {QuoteOf[req[p]]}}, sweeping' = sweeping, RailSound,
           task' = task, KeepsLocks(p),
           \A other \in Procs :
              other # p => tx'[other] = tx[other] /\ tried'[other] = tried[other],
           Knows(to, w, tried'[p], QuoteOf[req[p]] \in held')
    PROVE  StepKept(p)
<1>1. pc[p] = from
  BY DEF Go
<1>2. order'[QuoteOf[req[p]]] = w
  BY <1>1, Known DEF Save, LockInv, PaymentInv, TypeOK
<1>3. OthersStand(p) /\ ProcKept(p)'
  BY <1>2, Moved DEF KeepsLocks
<1>. QED
  BY <1>1, <1>3, WriteStep DEF KeepsLocks

(***************************************************************************)
(* create_order up to the payment                                          *)
(***************************************************************************)
LEMMA LookupKept ==
    ASSUME LockInv, NEW p \in Procs, Lookup(p)
    PROVE  StepKept(p)
<1>1. pc[p] = "lookup" /\ pc[p] # "idle"
  BY DEF Lookup
<1>2. CASE MayCheckout(req[p])
  <2>1. /\ Go(p, "lookup", "lock") /\ lock' = lock /\ task' = task /\ view' = view
        /\ order' = order /\ held' = held /\ sweeping' = sweeping /\ tx' = tx
        /\ rail' = rail
    BY <1>2 DEF Lookup, shop
  <2>2. MayMove("lookup", "lock") /\ KeepsLocks(p) /\ RailSound
    BY <1>1, <2>1, OrderMoves, LocksKept, RailStands
  <2>3. Knows("lock", order[QuoteOf[req[p]]], tried[p], QuoteOf[req[p]] \in held)
    BY StepKnows
  <2>. QED
    BY <2>1, <2>2, <2>3, QuietMove
<1>3. CASE ~MayCheckout(req[p])
  <2>1. Finish(p) /\ lock' = Released(JobLock(QuoteOf[req[p]]), p)
    BY <1>3 DEF Lookup
  <2>2. LockStep(p)
    BY <1>1, <2>1, AtWork, LockNamesDiffer, LockMoves DEF LockInv, PaymentInv
  <2>. QED
    BY <2>1, <2>2, Ended, QuietStep, RailStands DEF Lookup, shop
<1>. QED
  BY <1>2, <1>3

\* With the lock of the key comes the knowledge of its orders.
LEMMA LockCheckoutKept ==
    ASSUME LockInv, NEW p \in Procs, LockCheckout(p)
    PROVE  StepKept(p)
<1>1. /\ pc[p] = "lock" /\ pc[p] # "idle" /\ TypeOK
      /\ req[p] \in Requests /\ QuoteOf[req[p]] \in Quotes
  BY AtWork DEF LockCheckout, LockInv, PaymentInv
<1>2. CASE ~Free(CheckoutLock(req[p]))
  <2>1. Finish(p) /\ lock' = Released(JobLock(QuoteOf[req[p]]), p)
    BY <1>2 DEF LockCheckout
  <2>2. LockStep(p)
    BY <1>1, <2>1, LockNamesDiffer, LockMoves
  <2>. QED
    BY <2>1, <2>2, Ended, QuietStep, RailStands DEF LockCheckout, shop
<1>3. CASE Free(CheckoutLock(req[p]))
  <2>. DEFINE to == IF MayCheckout(req[p]) THEN "load" ELSE "unlock"
  <2>1. /\ lock' = Acquired(CheckoutLock(req[p]), p) /\ Go(p, "lock", to)
        /\ task' = task /\ view' = view
    BY <1>3 DEF LockCheckout
  <2>2. LockStep(p) /\ Owned(CheckoutLock(req[p]), p)'
    <3>1. CheckoutLock(req[p]) \in LockNames
      BY <1>1, LockNamesDiffer
    <3>2. lock'[CheckoutLock(req[p])] = p /\ req' = req
      BY <1>1, <2>1, <3>1 DEF Acquired, TypeOK, task
    <3>. QED
      BY <1>1, <1>3, <2>1, <3>1, <3>2, LockMoves DEF Owned, CheckoutLock
  <2>3. /\ pc'[p] = to /\ req' = req /\ tried' = tried /\ tx' = tx
        /\ \A other \in Procs : other # p => pc'[other] = pc[other]
    BY <1>1, <2>1 DEF Go, task, view, LockCheckout, TypeOK
  <2>4. to \notin QuoteHeld /\ to \notin {"promote", "mark", "recheck", "commit", "begin"}
    BY DEF QuoteHeld, OrderSteps, RecoverySteps
  <2>5. HoldsLocks(p)' /\ KnowsOrder(p)' /\ InTransaction(p)'
    BY <2>2, <2>3, <2>4, NothingKnown DEF HoldsLocks, KnowsOrder, InTransaction
  <2>6. KnowsKey(p)'
    <3>1. CASE to = "unlock"
      BY <2>3, <3>1 DEF KnowsKey
    <3>2. CASE to = "load"
      <4>1. MayCheckout(req[p]) /\ order' = order
        BY <3>2 DEF LockCheckout, shop
      <4>. QED
        BY <2>3, <4>1 DEF MayCheckout, KnowsKey
    <3>. QED
      BY <3>1, <3>2
  <2>7. OthersStand(p)
    BY <2>3 DEF OthersStand
  <2>. QED
    BY <2>2, <2>5, <2>6, <2>7, QuietStep, RailStands DEF LockCheckout, shop, ProcKept
<1>. QED
  BY <1>2, <1>3

\* With the lock of the quote comes the order as it is.
LEMMA LoadQuoteKept ==
    ASSUME LockInv, NEW p \in Procs, LoadQuote(p)
    PROVE  StepKept(p)
<1>. DEFINE q == QuoteOf[req[p]]
            o == order[q]
<1>1. /\ pc[p] = "load" /\ pc[p] # "idle" /\ TypeOK
      /\ req[p] \in Requests /\ q \in Quotes /\ o \in Order
  BY AtWork DEF LoadQuote, LockInv, PaymentInv
<1>2. /\ Owned(CheckoutLock(req[p]), p) /\ KnowsKey(p)
      /\ CheckoutLock(req[p]) \in LockNames /\ QuoteLock(q) \in LockNames
      /\ QuoteLock(q) # CheckoutLock(req[p])
  BY <1>1, StepSets, LockNamesDiffer DEF LockInv, Kept, ProcsKept, HoldsLocks
<1>3. /\ task' = task /\ view' = view /\ tx' = tx /\ rail' = rail /\ sweeping' = sweeping
  BY DEF LoadQuote, shop
<1>4. CASE ~Free(QuoteLock(q))
  <2>1. Go(p, "load", "unlock") /\ lock' = lock /\ shop' = shop
    BY <1>4 DEF LoadQuote
  <2>2. MayMove("load", "unlock")
    BY DEF MayMove, Running, QuoteHeld, KeyHeld, OrderSteps, RecoverySteps
  <2>. QED
    BY <1>1, <1>3, <2>1, <2>2, QuietMove, StepKnows, LocksKept, RailStands DEF shop
<1>5. CASE Free(QuoteLock(q))
  <2>1. PICK to \in {"begin", "unlockq"} :
            /\ Go(p, "load", to)
            /\ to = "begin" => ~(Started(o) /\ CheckoutComplete(o))
    BY <1>5 DEF LoadQuote
  <2>2. lock' = Acquired(QuoteLock(q), p)
    BY <1>5 DEF LoadQuote
  <2>3. /\ LockStep(p) /\ lock'[QuoteLock(q)] = p
        /\ lock'[CheckoutLock(req[p])] = lock[CheckoutLock(req[p])]
    BY <1>1, <1>2, <1>5, <2>2, LockMoves DEF Acquired, TypeOK
  <2>4. /\ pc'[p] = to /\ req' = req /\ tried' = tried
        /\ \A other \in Procs : other # p => pc'[other] = pc[other]
    BY <1>1, <1>3, <2>1 DEF Go, task, view, TypeOK
  <2>5. \/ order' = order /\ held' = held
        \/ Save(q, Release(o)) /\ held' \in {held, held \ {q}}
    BY <1>5 DEF LoadQuote, ReleaseReservation, shop
  <2>6. \A k \in Quotes : order'[k].bound = order[k].bound /\ order'[k].state = order[k].state
    BY <1>1, <2>5, OrderFacts DEF Save, Release, Order, TypeOK
  <2>7. HoldsLocks(p)'
    BY <1>2, <2>3, <2>4 DEF HoldsLocks, Owned, QuoteLock, CheckoutLock
  <2>8. KnowsOrder(p)'
    <3>1. CASE to = "unlockq"
      BY <2>4, <3>1, StepKnows DEF KnowsOrder
    <3>2. CASE to = "begin"
      <4>1. ~CheckoutComplete(o)
        BY <1>1, <2>1, <3>2, OrderFacts DEF CheckoutComplete
      <4>2. ~CheckoutComplete(order'[q])
        BY <1>1, <2>6, <4>1 DEF CheckoutComplete
      <4>3. Knows("begin", order'[q], tried'[p], q \in held')
        BY <4>2, StepSets DEF Knows, OpenSteps, RefundSteps, HoldSteps, PastBegin
      <4>. QED
        BY <2>4, <3>2, <4>3 DEF KnowsOrder
    <3>. QED
      BY <3>1, <3>2
  <2>9. KnowsKey(p)' /\ InTransaction(p)'
    BY <1>1, <1>2, <2>4, <2>6 DEF KnowsKey, InTransaction, Started
  <2>10. Orderly /\ Writes(p) /\ Binds(p) /\ HoldsSound
    <3>1. CASE order' = order /\ held' = held
      BY <3>1, Unwritten DEF HoldsSound
    <3>2. CASE Save(q, Release(o)) /\ held' \in {held, held \ {q}}
      <4>1. Sound(q, Release(o)) /\ Release(o).bound = o.bound
        BY <1>1, SoundDrafts DEF Calm
      <4>. QED
        BY <1>1, <1>5, <3>2, <4>1, Written
    <3>. QED
      BY <2>5, <3>1, <3>2
  <2>11. OthersStand(p)
    BY <1>3, <2>4 DEF OthersStand
  <2>. QED
    BY <1>3, <2>3, <2>7, <2>8, <2>9, <2>10, <2>11, RailStands
    DEF StepKept, Effects, ProcKept
<1>. QED
  BY <1>4, <1>5

LEMMA BeginCheckoutKept ==
    ASSUME LockInv, NEW p \in Procs, BeginCheckout(p)
    PROVE  StepKept(p)
<1>. DEFINE q == QuoteOf[req[p]]
            o == order[q]
            d == Draft(o)
            w == Begin(d, req[p])
<1>1. /\ pc[p] = "begin" /\ pc[p] # "idle" /\ pc[p] \in QuoteHeld /\ TypeOK
      /\ req[p] \in Requests /\ q \in Quotes /\ o \in Order
  BY AtWork, StepSets DEF BeginCheckout, LockInv, PaymentInv
<1>2. /\ Owned(QuoteLock(q), p) /\ ~CheckoutComplete(o)
  BY <1>1, Known DEF Knows
<1>3. /\ task' = task /\ tx' = tx /\ rail' = rail /\ sweeping' = sweeping
      /\ held' = held /\ lock' = lock /\ KeepsLocks(p) /\ RailSound
  BY <1>1, LocksKept, RailStands DEF BeginCheckout
<1>4. CASE BoundElsewhere(d, req[p]) \/ Stopped(d)
  <2>1. Go(p, "begin", "unlockq") /\ Save(q, d) /\ view' = view
    BY <1>4 DEF BeginCheckout
  <2>2. Sound(q, d) /\ d.bound = o.bound
    BY <1>1, SoundDrafts DEF Calm
  <2>3. Knows("unlockq", d, tried'[p], q \in held')
    BY StepKnows
  <2>4. MayMove("begin", "unlockq") /\ "begin" \in QuoteHeld /\ tried' = tried
    BY <2>1, OrderMoves, StepSets DEF view
  <2>. QED
    BY <1>3, <2>1, <2>2, <2>3, <2>4, WriteMove
<1>5. CASE ~BoundElsewhere(d, req[p]) /\ ~Stopped(d)
  <2>1. /\ Go(p, "begin", "stock") /\ Save(q, w)
        /\ tried' = [tried EXCEPT ![p] = d.attempted]
    BY <1>5 DEF BeginCheckout
  <2>2. /\ Sound(q, w) /\ Open(w) /\ w.attempted = d.attempted
        /\ \/ w.bound = o.bound
           \/ ~Started(o) /\ w.bound = req[p]
    BY <1>1, <1>2, <1>5, SoundBegin
  <2>. HIDE DEF w, d
  <2>3. order'[q] = w /\ tried'[p] = w.attempted
    BY <1>1, <2>1, <2>2 DEF Save, TypeOK
  <2>4. Knows("stock", w, tried'[p], q \in held')
    BY <2>2, <2>3, StepKnows DEF Open
  <2>5. /\ MayMove("begin", "stock")
        /\ \A other \in Procs : other # p => tried'[other] = tried[other]
    BY <1>1, <2>1, OrderMoves DEF TypeOK
  <2>6. OthersStand(p) /\ ProcKept(p)'
    BY <1>3, <2>1, <2>3, <2>4, <2>5, Moved DEF KeepsLocks
  <2>7. Orderly /\ Writes(p) /\ Binds(p) /\ HoldsSound
    BY <1>1, <1>2, <1>3, <2>1, <2>2, Written
  <2>. QED
    BY <1>3, <2>6, <2>7 DEF StepKept, Effects, KeepsLocks
<1>. QED
  BY <1>4, <1>5

LEMMA ValidateItemsKept ==
    ASSUME LockInv, NEW p \in Procs, ValidateItems(p)
    PROVE  StepKept(p)
<1>1. PICK to \in {"fail", "checkpoint", "hold"} : Go(p, "stock", to)
  BY DEF ValidateItems
<1>2. /\ pc[p] = "stock" /\ pc[p] # "idle" /\ pc[p] \in QuoteHeld /\ pc[p] \in OpenSteps
      /\ pc[p] \in PastBegin
  BY <1>1 DEF Go, QuoteHeld, OpenSteps, PastBegin, OrderSteps
<1>3. Knows(to, order[QuoteOf[req[p]]], tried[p], QuoteOf[req[p]] \in held)
  BY <1>2, Known, StepKnows DEF Open
<1>4. /\ order' = order /\ held' = held /\ sweeping' = sweeping /\ task' = task
      /\ view' = view /\ tx' = tx /\ KeepsLocks(p) /\ RailSound
  BY <1>2, LocksKept, RailStands DEF ValidateItems, shop
<1>5. MayMove("stock", to)
  BY OrderMoves
<1>. QED
  BY <1>1, <1>3, <1>4, <1>5, QuietMove

\* Before the payment and after it.
LEMMA ConfirmHoldKept ==
    ASSUME LockInv, NEW p \in Procs,
           NEW from, NEW to, <<from, to>> \in {<<"hold", "attempt">>, <<"rehold", "owned">>},
           ConfirmHold(p, from, to)
    PROVE  StepKept(p)
<1>. DEFINE q == QuoteOf[req[p]]
            next == IF Confirms(q) THEN to ELSE "fail"
<1>1. /\ pc[p] = from /\ Go(p, from, next) /\ order' = order /\ sweeping' = sweeping
      /\ rail' = rail /\ lock' = lock /\ task' = task /\ view' = view /\ tx' = tx
      /\ held' = IF Confirms(q) THEN HeldFor(q) ELSE held
  BY DEF ConfirmHold, Go
<1>2. /\ pc[p] # "idle" /\ pc[p] \in QuoteHeld /\ pc[p] \in OpenSteps /\ pc[p] \in PastBegin
  BY <1>1 DEF QuoteHeld, OpenSteps, PastBegin, OrderSteps
<1>3. q \in Quotes
  BY <1>2, Known
<1>4. HoldsSound /\ (held \subseteq held') /\ (HardHolds /\ next = to => q \in held')
  <2>1. CASE Confirms(q)
    <3>1. held' = IF HardHolds THEN held \cup {q} ELSE held
      BY <1>1, <2>1 DEF HeldFor
    <3>2. HardHolds => UnitAvailable(q)
      BY <2>1 DEF Confirms
    <3>. QED
      BY <1>3, <3>1, <3>2 DEF HoldsSound
  <2>2. CASE ~Confirms(q)
    BY <1>1, <2>2 DEF HoldsSound
  <2>. QED
    BY <2>1, <2>2
<1>5. MayMove(from, next) /\ KeepsLocks(p) /\ RailSound
  BY <1>1, <1>2, OrderMoves, LocksKept, RailStands
<1>6. Knows(next, order[q], tried[p], q \in held')
  <2>1. Open(order[q]) /\ (tried[p] => order[q].attempted)
    BY <1>2, Known
  <2>2. "owned" \in HoldSteps
    BY DEF HoldSteps
  <2>. QED
    BY <1>4, <2>1, <2>2, StepKnows DEF Open
<1>7. OthersStand(p) /\ ProcKept(p)'
  <2>1. tried' = tried /\ next \notin {"promote", "mark", "recheck", "commit"}
    BY <1>1 DEF view
  <2>. QED
    BY <1>1, <1>5, <1>6, <2>1, Moved DEF KeepsLocks
<1>. QED
  BY <1>1, <1>4, <1>5, <1>7, Unwritten DEF StepKept, Effects, KeepsLocks

LEMMA AttemptPaymentKept ==
    ASSUME LockInv, NEW p \in Procs, AttemptPayment(p)
    PROVE  StepKept(p)
<1>. DEFINE q == QuoteOf[req[p]]
<1>1. /\ pc[p] = "attempt" /\ pc[p] # "idle" /\ TypeOK
      /\ held' = held /\ sweeping' = sweeping /\ rail' = rail /\ lock' = lock
      /\ task' = task /\ paid' = paid /\ tx' = tx
  BY DEF AttemptPayment, Go, LockInv, PaymentInv
<1>2. /\ pc[p] \in QuoteHeld /\ pc[p] \in OpenSteps /\ pc[p] \in PastBegin
      /\ "attempt" \in QuoteHeld
  BY <1>1 DEF QuoteHeld, OpenSteps, PastBegin, OrderSteps
<1>3. q \in Quotes /\ Open(order[q]) /\ (tried[p] => order[q].attempted)
  BY <1>2, Known
<1>4. MayMove("attempt", "fail") /\ MayMove("attempt", "wait") /\ KeepsLocks(p) /\ RailSound
  BY <1>1, OrderMoves, LocksKept, RailStands
<1>5. CASE Go(p, "attempt", "fail") /\ order' = order /\ tried' = tried
  <2>1. Knows("fail", order[q], tried[p], q \in held)
    BY <1>3, StepKnows DEF Open
  <2>. QED
    BY <1>1, <1>4, <1>5, <2>1, QuietMove DEF view
<1>6. CASE /\ Go(p, "attempt", "wait") /\ tried' = [tried EXCEPT ![p] = TRUE]
           /\ IF tried[p] THEN order' = order ELSE Save(q, MarkVerifying(order[q]))
  <2>1. /\ \A other \in Procs : other # p => tried'[other] = tried[other]
        /\ tried'[p]
    BY <1>1, <1>6 DEF TypeOK
  <2>2. CASE tried[p]
    <3>1. Knows("wait", order'[q], tried'[p], q \in held')
      BY <1>3, <1>6, <2>2, StepKnows DEF Open
    <3>2. OthersStand(p) /\ ProcKept(p)'
      BY <1>1, <1>4, <1>6, <2>1, <3>1, Moved DEF KeepsLocks
    <3>. QED
      BY <1>1, <1>4, <1>6, <2>2, <3>2, QuietStep DEF KeepsLocks
  <2>3. CASE ~tried[p]
    <3>. DEFINE w == MarkVerifying(order[q])
    <3>1. Save(q, w) /\ w.attempted
      BY <1>3, <1>6, <2>3, OrderFacts DEF MarkVerifying, Order
    <3>2. Sound(q, w) /\ Open(w) /\ w.bound = order[q].bound
      BY <1>3, SoundProgress
    <3>. HIDE DEF w
    <3>3. Knows("wait", w, tried'[p], q \in held')
      BY <3>1, <3>2, StepKnows DEF Open
    <3>. QED
      BY <1>1, <1>2, <1>4, <1>6, <2>1, <3>1, <3>2, <3>3, WriteMove
  <2>. QED
    BY <2>2, <2>3
<1>. QED
  BY <1>5, <1>6 DEF AttemptPayment

(***************************************************************************)
(* The verifier                                                            *)
(***************************************************************************)

\* A payment is only asked for when its attempt is on record.
LEMMA CallsAreOnRecord ==
    ASSUME LockInv, NEW p \in Procs, Calling(p)
    PROVE  /\ req[p] \in Requests /\ OnRecord(req[p]) /\ Open(order[QuoteOf[req[p]]])
           /\ QuoteOf[req[p]] \in Quotes /\ pc[p] \in QuoteHeld /\ pc[p] # "idle"
<1>1. pc[p] \in OpenSteps /\ pc[p] \in QuoteHeld /\ pc[p] \in BoundSteps
  BY StepSets DEF Calling
<1>. QED
  BY <1>1, Known, StepSets DEF Calling, OnRecord, Knows

LEMMA VerifierAcceptsKept ==
    ASSUME LockInv, NEW p \in Procs, VerifierAccepts(p)
    PROVE  StepKept(p)
<1>1. /\ Calling(p) /\ claim' = Settled(req[p]) /\ Go(p, pc[p], Replied(p))
      /\ order' = order /\ held' = held /\ sweeping' = sweeping
      /\ late' = late /\ railRefund' = railRefund /\ lock' = lock
      /\ task' = task /\ view' = view /\ tx' = tx
  BY DEF VerifierAccepts, shop
<1>2. /\ req[p] \in Requests /\ OnRecord(req[p]) /\ Open(order[QuoteOf[req[p]]])
      /\ pc[p] # "idle" /\ TypeOK
  BY <1>1, CallsAreOnRecord DEF LockInv, PaymentInv
<1>3. RailSound
  BY <1>1, <1>2 DEF RailSound, Settled, TypeOK
<1>4. /\ MayMove(pc[p], Replied(p)) /\ KeepsLocks(p)
      /\ Replied(p) \notin {"promote", "mark", "recheck", "commit"}
  BY <1>1, <1>2, OrderMoves, RecoveryMoves, LocksKept DEF Calling, Replied
<1>5. Knows(Replied(p), order[QuoteOf[req[p]]], tried[p], QuoteOf[req[p]] \in held)
  BY <1>2, StepKnows DEF Replied, Open, OnRecord
<1>. QED
  BY <1>1, <1>3, <1>4, <1>5, QuietMove

LEMMA VerifierFailsKept ==
    ASSUME LockInv, NEW p \in Procs, VerifierFails(p)
    PROVE  StepKept(p)
<1>. DEFINE q == QuoteOf[req[p]]
<1>1. /\ Calling(p) /\ late' \in {late, late \cup {req[p]}} /\ Go(p, pc[p], NotVerified(p))
      /\ held' = held /\ sweeping' = sweeping
      /\ claim' = claim /\ railRefund' = railRefund /\ lock' = lock
      /\ task' = task /\ view' = view /\ tx' = tx
  BY DEF VerifierFails
<1>2. /\ req[p] \in Requests /\ OnRecord(req[p]) /\ Open(order[q]) /\ q \in Quotes
      /\ pc[p] # "idle" /\ pc[p] \in QuoteHeld
  BY <1>1, CallsAreOnRecord
<1>3. RailSound
  BY <1>1, <1>2 DEF RailSound
<1>4. /\ MayMove(pc[p], NotVerified(p)) /\ KeepsLocks(p)
      /\ NotVerified(p) \notin {"promote", "mark", "recheck", "commit"}
  BY <1>1, <1>2, OrderMoves, RecoveryMoves, LocksKept DEF Calling, NotVerified
<1>5. CASE pc[p] = "wait"
  <2>1. order' = order /\ NotVerified(p) = "fail"
    BY <1>5 DEF VerifierFails, NotVerified
  <2>2. Knows("fail", order[q], tried[p], q \in held)
    BY <1>2, StepKnows DEF Open, OnRecord
  <2>. QED
    BY <1>1, <1>3, <1>4, <2>1, <2>2, QuietMove
<1>6. CASE pc[p] = "rwait"
  <2>1. Save(q, Failure(order[q], FALSE)) /\ NotVerified(p) = "rquit" /\ tried' = tried
    BY <1>1, <1>6 DEF VerifierFails, NotVerified, RecordFailure, view
  <2>2. /\ Sound(q, Failure(order[q], FALSE))
        /\ Failure(order[q], FALSE).bound = order[q].bound
    BY <1>2, SoundProgress
  <2>3. Knows("rquit", Failure(order[q], FALSE), tried'[p], q \in held')
    BY StepKnows
  <2>. QED
    BY <1>1, <1>2, <1>3, <1>4, <2>1, <2>2, <2>3, WriteMove
<1>. QED
  BY <1>1, <1>5, <1>6 DEF Calling

LEMMA CheckReplayKept ==
    ASSUME LockInv, NEW p \in Procs, CheckReplay(p)
    PROVE  StepKept(p)
<1>. DEFINE q == QuoteOf[req[p]]
<1>1. /\ held' = held /\ sweeping' = sweeping /\ rail' = rail /\ lock' = lock
      /\ task' = task /\ view' = view /\ tx' = tx /\ pc[p] \in {"answer", "ranswer"}
  BY DEF CheckReplay, Go
<1>2. /\ pc[p] # "idle" /\ pc[p] \in QuoteHeld /\ pc[p] \in OpenSteps
      /\ pc[p] = "answer" => pc[p] \in PastBegin
  BY <1>1 DEF QuoteHeld, OpenSteps, PastBegin, OrderSteps, RecoverySteps
<1>3. /\ q \in Quotes /\ Open(order[q])
      /\ pc[p] = "answer" /\ tried[p] => order[q].attempted
  BY <1>2, Known
<1>4. RailSound /\ KeepsLocks(p)
  BY <1>1, <1>2, RailStands, LocksKept
<1>5. \/ /\ order' = order
         /\ \/ \E to \in {"fail", "checkpoint"} : Go(p, "answer", to)
            \/ Go(p, "ranswer", "rcheckpoint")
      \/ Save(q, Failure(order[q], FALSE)) /\ Go(p, "ranswer", "rquit")
  BY DEF CheckReplay, RecordFailure
<1>6. ASSUME NEW to \in {"fail", "checkpoint"}, Go(p, "answer", to), order' = order
      PROVE  StepKept(p)
  <2>1. pc[p] = "answer" /\ MayMove("answer", to)
    BY <1>6, OrderMoves DEF Go
  <2>2. Knows(to, order[q], tried[p], q \in held)
    BY <1>3, <2>1, StepKnows DEF Open
  <2>. QED
    BY <1>1, <1>4, <1>6, <2>1, <2>2, QuietMove
<1>7. ASSUME Go(p, "ranswer", "rcheckpoint"), order' = order
      PROVE  StepKept(p)
  <2>1. MayMove("ranswer", "rcheckpoint")
    BY RecoveryMoves
  <2>2. Knows("rcheckpoint", order[q], tried[p], q \in held)
    BY <1>3, StepKnows DEF Open
  <2>. QED
    BY <1>1, <1>4, <1>7, <2>1, <2>2, QuietMove
<1>8. ASSUME Go(p, "ranswer", "rquit"), Save(q, Failure(order[q], FALSE))
      PROVE  StepKept(p)
  <2>1. MayMove("ranswer", "rquit") /\ tried' = tried /\ "ranswer" \in QuoteHeld
    BY <1>1, RecoveryMoves DEF view, QuoteHeld, RecoverySteps
  <2>2. /\ Sound(q, Failure(order[q], FALSE))
        /\ Failure(order[q], FALSE).bound = order[q].bound
    BY <1>3, SoundProgress
  <2>3. Knows("rquit", Failure(order[q], FALSE), tried'[p], q \in held')
    BY StepKnows
  <2>. QED
    BY <1>1, <1>4, <1>8, <2>1, <2>2, <2>3, WriteMove
<1>. QED
  BY <1>5, <1>6, <1>7, <1>8

(***************************************************************************)
(* create_order from the payment checkpoint to its end                     *)
(***************************************************************************)
LEMMA CheckpointKept ==
    ASSUME LockInv, NEW p \in Procs, Checkpoint(p)
    PROVE  StepKept(p)
<1>. DEFINE q == QuoteOf[req[p]]
            w == Verified(order[q])
<1>1. /\ Go(p, "checkpoint", "rehold") /\ pc[p] = "checkpoint" /\ Save(q, w)
      /\ held' = held /\ sweeping' = sweeping /\ rail' = rail /\ lock' = lock
      /\ task' = task /\ tried' = tried /\ tx' = tx
  BY DEF Checkpoint, Go
<1>2. /\ pc[p] # "idle" /\ pc[p] \in QuoteHeld /\ pc[p] \in OpenSteps /\ pc[p] \in PastBegin
      /\ "checkpoint" \in QuoteHeld
  BY <1>1 DEF QuoteHeld, OpenSteps, PastBegin, OrderSteps
<1>3. q \in Quotes /\ Open(order[q]) /\ (tried[p] => order[q].attempted)
  BY <1>2, Known
<1>4. MayMove("checkpoint", "rehold") /\ KeepsLocks(p) /\ RailSound
  BY <1>1, <1>2, OrderMoves, LocksKept, RailStands
<1>5. Sound(q, w) /\ Open(w) /\ w.bound = order[q].bound
  BY <1>3, SoundProgress
<1>6. w.attempted = order[q].attempted
  BY <1>3, OrderFacts DEF Verified, Order
<1>. HIDE DEF w
<1>7. Knows("rehold", w, tried'[p], q \in held')
  BY <1>1, <1>3, <1>5, <1>6, StepKnows DEF Open
<1>. QED
  BY <1>1, <1>2, <1>4, <1>5, <1>7, WriteMove

\* The steps of the promotion that only its transaction sees.
LEMMA PromotionStepsKept ==
    ASSUME LockInv, NEW p \in Procs,
           StartPromotion(p) \/ WritePromotion(p) \/ MarkComplete(p) \/ CheckOwnership(p)
    PROVE  StepKept(p)
<1>. DEFINE q == QuoteOf[req[p]]
<1>1. /\ pc[p] \in {"owned", "promote", "mark", "recheck"}
      /\ sweeping' = sweeping /\ rail' = rail /\ lock' = lock
      /\ task' = task /\ view' = view
  BY DEF StartPromotion, WritePromotion, MarkComplete, CheckOwnership, Go, shop
<1>2. /\ pc[p] # "idle" /\ pc[p] \in QuoteHeld /\ pc[p] \in OpenSteps /\ pc[p] \in PastBegin
      /\ pc[p] \in HoldSteps
  BY <1>1 DEF QuoteHeld, OpenSteps, PastBegin, OrderSteps, HoldSteps
<1>3. /\ q \in Quotes /\ Open(order[q]) /\ Owned(QuoteLock(q), p)
      /\ tried[p] => order[q].attempted
      /\ HardHolds => q \in held
  BY <1>2, Known DEF Knows
<1>4. InTransaction(p) /\ TypeOK
  BY DEF LockInv, PaymentInv, Kept, ProcsKept
<1>5. KeepsLocks(p) /\ RailSound
  BY <1>1, <1>2, LocksKept, RailStands
<1>6. \A to \in HoldSteps \cup {"fail"} : Knows(to, order[q], tried[p], q \in held)
  BY <1>3, StepKnows DEF Open
<1>7. PICK to \in {"fail", "promote", "mark", "recheck", "commit"} :
          /\ Go(p, pc[p], to) /\ MayMove(pc[p], to)
          /\ order' = order /\ held' = held
          /\ \A other \in Procs : other # p => tx'[other] = tx[other]
          /\ to = "promote" => tx'[p] = "open"
          /\ to = "mark" => tx'[p] = "promoted"
          /\ to \in {"recheck", "commit"} => tx'[p] = "marked"
  <2>1. CASE StartPromotion(p)
    BY <1>3, <1>4, <2>1, OrderMoves DEF StartPromotion, Go, shop, TypeOK
  <2>2. CASE WritePromotion(p)
    <3>1. pc[p] = "promote" /\ tx[p] = "open"
      BY <1>4, <2>2 DEF WritePromotion, Go, InTransaction
    <3>. QED
      BY <1>4, <2>2, <3>1, OrderMoves DEF WritePromotion, TypeOK
  <2>3. CASE MarkComplete(p)
    <3>1. pc[p] = "mark" /\ tx[p] = "promoted"
      BY <1>4, <2>3 DEF MarkComplete, Go, InTransaction
    <3>. QED
      BY <1>4, <2>3, <3>1, OrderMoves DEF MarkComplete, TypeOK
  <2>4. CASE CheckOwnership(p)
    <3>1. pc[p] = "recheck" /\ tx[p] = "marked"
      BY <1>4, <2>4 DEF CheckOwnership, Go, InTransaction
    <3>. QED
      BY <1>3, <2>4, <3>1, OrderMoves DEF CheckOwnership, shop
  <2>. QED
    BY <2>1, <2>2, <2>3, <2>4
<1>8. Knows(to, order[q], tried[p], q \in held)
  BY <1>6 DEF HoldSteps
<1>. QED
  BY <1>1, <1>5, <1>7, <1>8, QuietMove

LEMMA CommitKept ==
    ASSUME LockInv, NEW p \in Procs, Commit(p)
    PROVE  StepKept(p)
<1>. DEFINE q == QuoteOf[req[p]]
            w == Complete(Promote(order[q]))
<1>1. /\ pc[p] = "commit" /\ sweeping' = sweeping /\ rail' = rail /\ lock' = lock
      /\ task' = task /\ view' = view
  BY DEF Commit, Go
<1>2. /\ pc[p] # "idle" /\ pc[p] \in QuoteHeld /\ pc[p] \in OpenSteps /\ pc[p] \in PastBegin
      /\ pc[p] \in HoldSteps /\ "commit" \in QuoteHeld
  BY <1>1 DEF QuoteHeld, OpenSteps, PastBegin, OrderSteps, HoldSteps
<1>3. /\ q \in Quotes /\ Open(order[q])
      /\ tried[p] => order[q].attempted
      /\ HardHolds => q \in held
  BY <1>2, Known DEF Knows
<1>4. tx[p] = "marked" /\ \A other \in Procs : other # p => tx'[other] = tx[other]
  BY <1>1 DEF Commit, LockInv, PaymentInv, TypeOK, Kept, ProcsKept, InTransaction
<1>5. KeepsLocks(p) /\ RailSound
  BY <1>1, <1>2, LocksKept, RailStands
<1>6. ASSUME Go(p, "commit", "fail"), order' = order, held' = held
      PROVE  StepKept(p)
  <2>1. MayMove("commit", "fail") /\ Knows("fail", order[q], tried[p], q \in held)
    BY <1>3, OrderMoves, StepKnows DEF Open
  <2>. QED
    BY <1>1, <1>4, <1>5, <1>6, <2>1, QuietMove
<1>7. ASSUME NEW to \in {"cleanup", "fail"}, Go(p, "commit", to), Save(q, w),
             held' = held \ {q}
      PROVE  StepKept(p)
  <2>1. /\ Sound(q, w) /\ ~Stopped(w) /\ w.bound = order[q].bound
        /\ w.attempted = order[q].attempted
    BY <1>3, SoundPromotion
  <2>. HIDE DEF w
  <2>2. tried' = tried /\ MayMove("commit", to)
    BY <1>1, OrderMoves DEF view
  <2>3. Knows(to, w, tried'[p], q \in held')
    BY <1>3, <2>1, <2>2, StepKnows
  <2>. QED
    BY <1>1, <1>2, <1>4, <1>5, <1>7, <2>1, <2>2, <2>3, WriteMove
<1>. QED
  BY <1>4, <1>6, <1>7 DEF Commit

LEMMA CleanupKept ==
    ASSUME LockInv, NEW p \in Procs, Cleanup(p)
    PROVE  StepKept(p)
<1>1. /\ Go(p, "cleanup", "unlockq") /\ pc[p] # "idle" /\ order' = order /\ held' = held
      /\ sweeping' = sweeping /\ rail' = rail /\ lock' = lock /\ task' = task
      /\ view' = view /\ tx' = tx
  BY DEF Cleanup, Go
<1>2. MayMove("cleanup", "unlockq") /\ KeepsLocks(p) /\ RailSound
  BY <1>1, OrderMoves, LocksKept, RailStands
<1>3. Knows("unlockq", order[QuoteOf[req[p]]], tried[p], QuoteOf[req[p]] \in held)
  BY StepKnows
<1>. QED
  BY <1>1, <1>2, <1>3, QuietMove

LEMMA RecordIncompleteKept ==
    ASSUME LockInv, NEW p \in Procs, RecordIncomplete(p)
    PROVE  StepKept(p)
<1>. DEFINE q == QuoteOf[req[p]]
            o == order[q]
<1>1. /\ Go(p, "fail", "unlockq") /\ pc[p] = "fail" /\ held' = held
      /\ sweeping' = sweeping /\ rail' = rail /\ lock' = lock /\ task' = task
      /\ view' = view /\ tried' = tried
      /\ tx' = [tx EXCEPT ![p] = "closed"]
  BY DEF RecordIncomplete, Go, view
<1>2. /\ pc[p] # "idle" /\ "fail" \in QuoteHeld /\ MayMove("fail", "unlockq")
      /\ KeepsLocks(p) /\ RailSound
      /\ \A other \in Procs : other # p => tx'[other] = tx[other]
  BY <1>1, OrderMoves, LocksKept, RailStands, StepSets DEF LockInv, PaymentInv, TypeOK
<1>3. q \in Quotes /\ ~Stopped(o) /\ Started(o) /\ o \in Order
  BY <1>1, <1>2, Known, StepSets DEF Knows
<1>4. CASE CheckoutComplete(o)
  <2>1. order' = order /\ Knows("unlockq", o, tried[p], q \in held)
    BY <1>4, StepKnows DEF RecordIncomplete
  <2>. QED
    BY <1>1, <1>2, <2>1, QuietMove
<1>5. CASE ~CheckoutComplete(o)
  <2>. DEFINE w == Failure(o, o.verified)
  <2>1. Save(q, w)
    BY <1>5 DEF RecordIncomplete, RecordFailure
  <2>2. Sound(q, w) /\ w.bound = o.bound
    <3>1. o.verified \in BOOLEAN /\ Open(o)
      BY <1>3, <1>5 DEF Order, Open
    <3>2. w \in {Failure(o, TRUE), Failure(o, FALSE)}
      BY <3>1
    <3>. HIDE DEF w
    <3>. QED
      BY <1>3, <3>1, <3>2, SoundProgress
  <2>3. Knows("unlockq", w, tried'[p], q \in held')
    BY StepKnows
  <2>. HIDE DEF w
  <2>. QED
    BY <1>1, <1>2, <2>1, <2>2, <2>3, WriteMove
<1>. QED
  BY <1>4, <1>5

LEMMA UnlockQuoteKept ==
    ASSUME LockInv, NEW p \in Procs, UnlockQuote(p)
    PROVE  StepKept(p)
<1>. DEFINE n == QuoteLock(QuoteOf[req[p]])
<1>1. /\ Go(p, "unlockq", "unlock") /\ pc[p] # "idle" /\ order' = order /\ held' = held
      /\ sweeping' = sweeping /\ rail' = rail /\ lock' = Released(n, p) /\ task' = task
      /\ tried' = tried /\ tx' = tx
  BY DEF UnlockQuote, Go, shop, view
<1>2. /\ n \in LockNames /\ CheckoutLock(req[p]) \in LockNames /\ n # CheckoutLock(req[p])
      /\ TypeOK
  BY <1>1, AtWork, LockNamesDiffer DEF LockInv, PaymentInv
<1>3. LockStep(p) /\ lock'[CheckoutLock(req[p])] = lock[CheckoutLock(req[p])]
  BY <1>1, <1>2, LockMoves DEF Released, TypeOK
<1>4. MayMove("unlockq", "unlock") /\ "unlock" \notin QuoteHeld /\ RailSound
  BY <1>1, OrderMoves, RailStands DEF QuoteHeld, OrderSteps, RecoverySteps
<1>5. Knows("unlock", order'[QuoteOf[req[p]]], tried'[p], QuoteOf[req[p]] \in held')
  BY StepKnows
<1>6. OthersStand(p) /\ ProcKept(p)'
  BY <1>1, <1>3, <1>4, <1>5, Moved
<1>. QED
  BY <1>1, <1>3, <1>4, <1>6, QuietStep

LEMMA UnlockCheckoutKept ==
    ASSUME LockInv, NEW p \in Procs, UnlockCheckout(p)
    PROVE  StepKept(p)
<1>1. /\ Finish(p) /\ pc[p] # "idle" /\ order' = order /\ held' = held
      /\ sweeping' = sweeping /\ rail' = rail /\ tx' = tx /\ TypeOK
  BY DEF UnlockCheckout, shop, LockInv, PaymentInv
<1>2. LockStep(p)
  <2>1. /\ CheckoutLock(req[p]) \in LockNames /\ JobLock(QuoteOf[req[p]]) \in LockNames
    BY <1>1, AtWork, LockNamesDiffer
  <2>. QED
    BY <1>1, <2>1, LockMoves DEF UnlockCheckout
<1>. QED
  BY <1>1, <1>2, Ended, QuietStep, RailStands

(***************************************************************************)
(* run_checkout_recovery                                                   *)
(***************************************************************************)
LEMMA LeaveRecoveryKept ==
    ASSUME LockInv, NEW p \in Procs, pc[p] # "idle",
           LeaveRecovery(p, QuoteLock(QuoteOf[req[p]])),
           order' = order, held' = held, sweeping' = sweeping, rail' = rail, tx' = tx
    PROVE  StepKept(p)
<1>1. TypeOK /\ Finish(p)
  BY DEF LeaveRecovery, LockInv, PaymentInv
<1>2. LockStep(p)
  <2>1. /\ QuoteLock(QuoteOf[req[p]]) \in LockNames /\ JobLock(QuoteOf[req[p]]) \in LockNames
    BY <1>1, AtWork, LockNamesDiffer
  <2>. QED
    BY <1>1, <2>1, LockMoves DEF LeaveRecovery
<1>. QED
  BY <1>1, <1>2, Ended, QuietStep, RailStands

LEMMA LockForRecoveryKept ==
    ASSUME LockInv, NEW p \in Procs, LockForRecovery(p)
    PROVE  StepKept(p)
<1>. DEFINE n == QuoteLock(QuoteOf[req[p]])
<1>1. /\ pc[p] = "rlock" /\ pc[p] # "idle" /\ TypeOK /\ order' = order /\ held' = held
      /\ sweeping' = sweeping /\ rail' = rail /\ tx' = tx
  BY DEF LockForRecovery, shop, LockInv, PaymentInv
<1>2. CASE ~Free(n)
  BY <1>1, <1>2, LeaveRecoveryKept DEF LockForRecovery
<1>3. CASE Free(n)
  <2>1. /\ Go(p, "rlock", "rload") /\ lock' = Acquired(n, p) /\ task' = task /\ view' = view
    BY <1>3 DEF LockForRecovery
  <2>2. n \in LockNames
    BY <1>1, AtWork, LockNamesDiffer
  <2>3. LockStep(p) /\ lock'[n] = p
    BY <1>1, <1>3, <2>1, <2>2, LockMoves DEF Acquired, TypeOK
  <2>4. /\ pc'[p] = "rload" /\ req' = req /\ tried' = tried
        /\ \A other \in Procs : other # p => pc'[other] = pc[other]
    BY <1>1, <2>1 DEF Go, task, view, TypeOK
  <2>5. HoldsLocks(p)'
    BY <2>3, <2>4 DEF HoldsLocks, Owned, QuoteLock, KeyHeld, OrderSteps
  <2>6. KnowsOrder(p)' /\ InTransaction(p)' /\ KnowsKey(p)'
    BY <2>4, StepKnows DEF KnowsOrder, InTransaction, KnowsKey
  <2>7. OthersStand(p)
    BY <1>1, <2>4 DEF OthersStand
  <2>. QED
    BY <1>1, <2>3, <2>5, <2>6, <2>7, QuietStep, RailStands DEF ProcKept
<1>. QED
  BY <1>2, <1>3

LEMMA LoadRecoveryKept ==
    ASSUME LockInv, NEW p \in Procs, LoadRecovery(p)
    PROVE  StepKept(p)
<1>. DEFINE q == QuoteOf[req[p]]
            o == order[q]
<1>1. /\ pc[p] = "rload" /\ order' = order /\ held' = held
      /\ sweeping' = sweeping /\ rail' = rail /\ lock' = lock /\ task' = task
      /\ view' = view /\ tx' = tx
  BY DEF LoadRecovery, Go, shop
<1>2. pc[p] # "idle" /\ pc[p] \in QuoteHeld /\ pc[p] \in BoundSteps
  BY <1>1 DEF QuoteHeld, BoundSteps, RecoverySteps
<1>3. /\ q \in Quotes /\ OrderKept(o)
  BY <1>2, Known, OrderFacts
<1>4. PICK to \in {"rquit", "rstop", "rgo", "rwait"} :
          /\ Go(p, "rload", to)
          /\ to = "rstop" => o.verified /\ o.state \notin {"completed", "compensated"}
          /\ to = "rwait" => /\ ~o.verified /\ o.attempted
                             /\ o.state \notin {"completed", "compensated"}
  BY DEF LoadRecovery
<1>5. Knows(to, o, tried[p], q \in held)
  <2>1. CASE to \in {"rquit", "rgo"}
    BY <2>1, StepKnows
  <2>2. CASE to = "rstop"
    BY <1>4, <2>2, StepKnows DEF CheckoutComplete
  <2>3. CASE to = "rwait"
    <3>1. ~Stopped(o) /\ ~CheckoutComplete(o) /\ o.attempted
      BY <1>3, <1>4, <2>3 DEF OrderKept, CheckoutComplete
    <3>. QED
      BY <2>3, <3>1, StepKnows
  <2>. QED
    BY <1>4, <2>1, <2>2, <2>3
<1>6. MayMove("rload", to) /\ KeepsLocks(p) /\ RailSound
  BY <1>1, <1>2, RecoveryMoves, LocksKept, RailStands
<1>. QED
  BY <1>1, <1>4, <1>5, <1>6, QuietMove

LEMMA CheckpointRecoveryKept ==
    ASSUME LockInv, NEW p \in Procs, CheckpointRecovery(p)
    PROVE  StepKept(p)
<1>. DEFINE q == QuoteOf[req[p]]
            w == Verified(order[q])
<1>1. /\ pc[p] = "rcheckpoint" /\ held' = held
      /\ sweeping' = sweeping /\ rail' = rail /\ lock' = lock /\ task' = task
      /\ tried' = tried /\ tx' = tx
  BY DEF CheckpointRecovery, Go, view
<1>2. /\ pc[p] # "idle" /\ pc[p] \in QuoteHeld /\ pc[p] \in OpenSteps
      /\ "rcheckpoint" \in QuoteHeld
  BY <1>1 DEF QuoteHeld, OpenSteps, RecoverySteps
<1>3. q \in Quotes /\ Open(order[q]) /\ Owned(QuoteLock(q), p) /\ order[q] \in Order
  BY <1>2, Known
<1>4. PICK to \in {"rstop", "rgo"} : Go(p, "rcheckpoint", to)
  BY <1>3 DEF CheckpointRecovery
<1>5. Save(q, w) /\ w.verified
  BY <1>3 DEF CheckpointRecovery, Verified, Order
<1>6. Sound(q, w) /\ Open(w) /\ w.bound = order[q].bound
  BY <1>3, SoundProgress
<1>7. MayMove("rcheckpoint", to) /\ KeepsLocks(p) /\ RailSound
  BY <1>1, <1>2, RecoveryMoves, LocksKept, RailStands
<1>. HIDE DEF w
<1>8. Knows(to, w, tried'[p], q \in held')
  <2>1. w.state # "compensated"
    BY <1>6 DEF Open, Stopped
  <2>. QED
    BY <1>5, <1>6, <2>1, StepKnows DEF Open
<1>. QED
  BY <1>1, <1>2, <1>4, <1>5, <1>6, <1>7, <1>8, WriteMove

LEMMA StopCheckoutKept ==
    ASSUME LockInv, NEW p \in Procs, StopCheckout(p)
    PROVE  StepKept(p)
<1>. DEFINE q == QuoteOf[req[p]]
            w == Compensate(order[q])
<1>1. /\ pc[p] = "rstop" /\ Go(p, "rstop", "refund") /\ Save(q, w) /\ held' = held
      /\ sweeping' = sweeping /\ rail' = rail /\ lock' = lock /\ task' = task
      /\ tried' = tried /\ tx' = tx
  BY DEF StopCheckout, Go, view
<1>2. pc[p] # "idle" /\ "rstop" \in QuoteHeld /\ pc[p] \in BoundSteps
  BY <1>1, StepSets
<1>3. /\ q \in Quotes /\ Started(order[q]) /\ ~CheckoutComplete(order[q])
      /\ order[q].state # "compensated" /\ order[q].verified
  BY <1>1, <1>2, Known DEF Knows
<1>4. Sound(q, w) /\ w.bound = order[q].bound /\ w.state = "compensating"
  BY <1>3, SoundCompensation
<1>5. MayMove("rstop", "refund") /\ KeepsLocks(p) /\ RailSound
  BY <1>1, <1>2, RecoveryMoves, LocksKept, RailStands
<1>. HIDE DEF w
<1>6. Knows("refund", w, tried'[p], q \in held')
  BY <1>4, StepKnows DEF RefundSteps
<1>. QED
  BY <1>1, <1>2, <1>4, <1>5, <1>6, WriteMove

\* The steps of the refund, under the order's refund lock besides the quote's.
LEMMA RefundStepsKept ==
    ASSUME LockInv, NEW p \in Procs,
           \/ LockRefund(p) \/ SaveRefundIntent(p) \/ RequestRefund(p)
           \/ RefundUnreachable(p) \/ RecordRefund(p) \/ FinishCompensation(p)
    PROVE  StepKept(p)
<1>. DEFINE q == QuoteOf[req[p]]
            o == order[q]
<1>1. /\ pc[p] \in RefundSteps /\ sweeping' = sweeping /\ claim' = claim /\ late' = late
      /\ task' = task /\ view' = view /\ tx' = tx /\ tried' = tried
  BY
  DEF LockRefund, SaveRefundIntent, RequestRefund, RefundUnreachable, RecordRefund,
      FinishCompensation, Go, shop, rail, view, RefundSteps
<1>2. /\ pc[p] # "idle" /\ pc[p] \in QuoteHeld /\ pc[p] \in BoundSteps
  BY <1>1, StepSets
<1>3. /\ q \in Quotes /\ o.state = "compensating" /\ Stopped(o) /\ Started(o) /\ TypeOK
  BY <1>1, <1>2, Known DEF LockInv, PaymentInv
<1>4. RailSound
  <2>1. CASE RequestRefund(p)
    BY <1>1, <1>3, <2>1 DEF RequestRefund, RailSound, TypeOK
  <2>2. CASE ~RequestRefund(p)
    BY <1>1, <2>2, RailStands
    DEF LockRefund, SaveRefundIntent, RefundUnreachable, RecordRefund,
        FinishCompensation
  <2>. QED
    BY <2>1, <2>2
<1>5. KeepsLocks(p)
  BY <1>2, LocksKept
  DEF LockRefund, SaveRefundIntent, RequestRefund, RefundUnreachable, RecordRefund,
      FinishCompensation
<1>6. \A w : \A step \in RefundSteps :
          w.state = "compensating" => Knows(step, w, tried'[p], q \in held')
  BY StepKnows
<1>7. \A w : Knows("rquit", w, tried'[p], q \in held')
  BY StepKnows
<1>8. ASSUME NEW to \in RefundSteps \cup {"rquit"}, Go(p, pc[p], to), order' = order,
             held' = held, MayMove(pc[p], to)
      PROVE  StepKept(p)
  <2>1. Knows(to, o, tried[p], q \in held)
    BY <1>1, <1>3, <1>6, <1>7, <1>8
  <2>2. to \notin {"promote", "mark", "recheck", "commit"}
    BY DEF RefundSteps
  <2>. QED
    BY <1>1, <1>4, <1>5, <1>8, <2>1, <2>2, QuietMove
<1>9. ASSUME NEW to \in RefundSteps \cup {"rquit"}, Go(p, pc[p], to),
             NEW w, Save(q, w), Sound(q, w), w.bound = o.bound,
             to \in RefundSteps => w.state = "compensating",
             held' \in {held, held \ {q}}, MayMove(pc[p], to)
      PROVE  StepKept(p)
  <2>1. Knows(to, w, tried'[p], q \in held')
    BY <1>6, <1>7, <1>9
  <2>2. to \notin {"promote", "mark", "recheck", "commit"}
    BY DEF RefundSteps
  <2>. QED
    BY <1>1, <1>2, <1>4, <1>5, <1>9, <2>1, <2>2, WriteMove
<1>10. \A w \in {[o EXCEPT !.intent = TRUE], [o EXCEPT !.intent = FALSE],
                 [o EXCEPT !.refunded = TRUE, !.intent = FALSE]} :
          Sound(q, w) /\ w.bound = o.bound /\ w.state = "compensating"
  BY <1>3, SoundCompensation
<1>11. CASE LockRefund(p)
  <2>1. PICK to \in {"rdone", "intent", "rquit"} : Go(p, "refund", to)
    BY <1>11 DEF LockRefund
  <2>2. to \in RefundSteps \cup {"rquit"} /\ MayMove("refund", to) /\ pc[p] = "refund"
    BY <2>1, RecoveryMoves DEF RefundSteps, Go
  <2>. QED
    BY <1>8, <1>11, <2>1, <2>2 DEF LockRefund, shop
<1>12. CASE SaveRefundIntent(p)
  <2>1. /\ Go(p, "intent", "refundwait") /\ pc[p] = "intent" /\ held' = held
        /\ Save(q, [o EXCEPT !.intent = TRUE])
        /\ "refundwait" \in RefundSteps /\ MayMove("intent", "refundwait")
    BY <1>12, RecoveryMoves DEF SaveRefundIntent, Go, RefundSteps
  <2>. QED
    BY <1>9, <1>10, <2>1
<1>13. CASE RequestRefund(p)
  <2>1. PICK to \in {"record", "rquit"}, b \in BOOLEAN :
            Go(p, "refundwait", to) /\ Save(q, [o EXCEPT !.intent = b])
    BY <1>13 DEF RequestRefund
  <2>2. /\ to \in RefundSteps \cup {"rquit"} /\ MayMove("refundwait", to)
        /\ pc[p] = "refundwait" /\ held' = held
    BY <1>13, <2>1, RecoveryMoves DEF RequestRefund, RefundSteps, Go
  <2>3. [o EXCEPT !.intent = b] \in {[o EXCEPT !.intent = TRUE], [o EXCEPT !.intent = FALSE]}
    BY <2>1
  <2>. QED
    BY <1>9, <1>10, <2>1, <2>2, <2>3
<1>14. CASE RefundUnreachable(p)
  <2>1. /\ Go(p, "refundwait", "rquit") /\ pc[p] = "refundwait"
        /\ MayMove("refundwait", "rquit") /\ order' = order /\ held' = held
    BY <1>14, RecoveryMoves DEF RefundUnreachable, Go, shop
  <2>. QED
    BY <1>8, <2>1
<1>15. CASE RecordRefund(p)
  <2>1. PICK to \in {"rdone", "rquit"} :
            /\ Go(p, "record", to)
            /\ order' = order \/ Save(q, [o EXCEPT !.refunded = TRUE, !.intent = FALSE])
    BY <1>15 DEF RecordRefund
  <2>2. /\ to \in RefundSteps \cup {"rquit"} /\ MayMove("record", to)
        /\ pc[p] = "record" /\ held' = held
    BY <1>15, <2>1, RecoveryMoves DEF RecordRefund, RefundSteps, Go
  <2>. QED
    BY <1>8, <1>9, <1>10, <2>1, <2>2
<1>16. CASE FinishCompensation(p)
  <2>1. /\ Go(p, "rdone", "rquit") /\ pc[p] = "rdone" /\ Save(q, Compensated(o))
        /\ held' = held \ {q} /\ MayMove("rdone", "rquit")
    BY <1>16, RecoveryMoves DEF FinishCompensation, Go
  <2>2. Sound(q, Compensated(o)) /\ Compensated(o).bound = o.bound
    BY <1>3, SoundCompensation
  <2>3. "rquit" \notin RefundSteps
    BY DEF RefundSteps
  <2>. QED
    BY <1>9, <2>1, <2>2, <2>3
<1>. QED
  BY <1>11, <1>12, <1>13, <1>14, <1>15, <1>16

LEMMA QuitRecoveryKept ==
    ASSUME LockInv, NEW p \in Procs, QuitRecovery(p)
    PROVE  StepKept(p)
BY LeaveRecoveryKept DEF QuitRecovery, shop

LEMMA ResumeCheckoutKept ==
    ASSUME LockInv, NEW p \in Procs, ResumeCheckout(p)
    PROVE  StepKept(p)
<1>. DEFINE n == QuoteLock(QuoteOf[req[p]])
<1>1. /\ Go(p, "rgo", "lookup") /\ pc[p] # "idle" /\ order' = order /\ held' = held
      /\ sweeping' = sweeping /\ rail' = rail /\ lock' = Released(n, p) /\ task' = task
      /\ tried' = tried /\ tx' = tx
  BY DEF ResumeCheckout, Go, shop, view
<1>2. LockStep(p)
  BY <1>1, AtWork, LockNamesDiffer, LockMoves DEF LockInv, PaymentInv
<1>3. MayMove("rgo", "lookup") /\ "lookup" \notin QuoteHeld \cup KeyHeld /\ RailSound
  BY <1>1, RecoveryMoves, RailStands DEF QuoteHeld, KeyHeld, OrderSteps, RecoverySteps
<1>4. Knows("lookup", order'[QuoteOf[req[p]]], tried'[p], QuoteOf[req[p]] \in held')
  BY StepKnows
<1>5. OthersStand(p) /\ ProcKept(p)'
  BY <1>1, <1>2, <1>3, <1>4, Moved
<1>. QED
  BY <1>1, <1>2, <1>3, <1>5, QuietStep

LEMMA CrashKept ==
    ASSUME LockInv, NEW p \in Procs, Crash(p)
    PROVE  StepKept(p)
<1>1. /\ Finish(p) /\ pc[p] # "idle" /\ order' = order /\ held' = held
      /\ sweeping' = sweeping /\ claim' = claim /\ railRefund' = railRefund
      /\ lock' = ReleasedAll(p) /\ tx' = [tx EXCEPT ![p] = "closed"]
      /\ \/ late' = late
         \/ Calling(p) /\ late' = late \cup {req[p]}
      /\ TypeOK
  BY DEF Crash, shop, LockInv, PaymentInv
<1>2. LockStep(p) /\ \A other \in Procs : other # p => tx'[other] = tx[other]
  BY <1>1, LockMoves DEF TypeOK
<1>3. RailSound
  BY <1>1, CallsAreOnRecord DEF RailSound
<1>. QED
  BY <1>1, <1>2, <1>3, Ended, QuietStep

LEMMA ProcessStepKept ==
    ASSUME LockInv, NEW p \in Procs, Step(p) \/ Crash(p)
    PROVE  StepKept(p)
<1>1. CASE CreateOrder(p)
  <2>1. CASE Lookup(p) \/ LockCheckout(p) \/ LoadQuote(p) \/ BeginCheckout(p)
    BY <2>1, LookupKept, LockCheckoutKept, LoadQuoteKept, BeginCheckoutKept
  <2>2. CASE ValidateItems(p) \/ HoldBeforePayment(p) \/ AttemptPayment(p)
                \/ Checkpoint(p) \/ HoldAfterPayment(p)
    BY <2>2, ValidateItemsKept, ConfirmHoldKept, AttemptPaymentKept, CheckpointKept
    DEF HoldBeforePayment, HoldAfterPayment
  <2>3. CASE StartPromotion(p) \/ WritePromotion(p) \/ MarkComplete(p)
                \/ CheckOwnership(p) \/ Commit(p)
    BY <2>3, PromotionStepsKept, CommitKept
  <2>4. CASE Cleanup(p) \/ RecordIncomplete(p) \/ UnlockQuote(p) \/ UnlockCheckout(p)
    BY <2>4, CleanupKept, RecordIncompleteKept, UnlockQuoteKept, UnlockCheckoutKept
  <2>. QED
    BY <1>1, <2>1, <2>2, <2>3, <2>4 DEF CreateOrder
<1>2. CASE Verify(p)
  BY <1>2, VerifierAcceptsKept, VerifierFailsKept, CheckReplayKept DEF Verify
<1>3. CASE Recover(p)
  BY <1>3, LockForRecoveryKept, LoadRecoveryKept, CheckpointRecoveryKept,
     StopCheckoutKept, RefundStepsKept, QuitRecoveryKept, ResumeCheckoutKept
  DEF Recover
<1>. QED
  BY <1>1, <1>2, <1>3, CrashKept DEF Step

(***************************************************************************)
(* Arrivals and the world around the processes                             *)
(***************************************************************************)
LEMMA Begun ==
    ASSUME LockInv, NEW p \in Procs, NEW r, NEW errand, NEW step \in {"lookup", "rlock"},
           Begins(p, r, errand, step), view' = view, tx' = tx
    PROVE  OthersStand(p) /\ ProcKept(p)'
<1>1. /\ pc'[p] = step /\ tried' = tried
      /\ \A other \in Procs : other # p => pc'[other] = pc[other] /\ req'[other] = req[other]
  BY DEF Begins, view, LockInv, PaymentInv, TypeOK
<1>2. step \notin QuoteHeld \cup KeyHeld
  BY DEF QuoteHeld, KeyHeld, OrderSteps, RecoverySteps
<1>3. HoldsLocks(p)' /\ KnowsOrder(p)' /\ InTransaction(p)' /\ KnowsKey(p)'
  BY <1>1, <1>2, StepKnows DEF HoldsLocks, KnowsOrder, InTransaction, KnowsKey
<1>. QED
  BY <1>1, <1>3 DEF OthersStand, ProcKept

LEMMA ArrivalKept ==
    ASSUME LockInv, NEW p \in Procs, Arrival(p)
    PROVE  StepKept(p)
<1>1. ASSUME NEW r \in Requests, SubmitOrder(p, r)
      PROVE  StepKept(p)
  <2>1. OthersStand(p) /\ ProcKept(p)'
    BY <1>1, Begun DEF SubmitOrder
  <2>2. LockStep(p)
    BY <1>1, LockMoves DEF SubmitOrder, LockInv, PaymentInv
  <2>. QED
    BY <1>1, <2>1, <2>2, QuietStep, RailStands DEF SubmitOrder, shop
<1>2. ASSUME NEW q \in Quotes, NEW action, ManagerRecovers(p, q, action)
      PROVE  StepKept(p)
  <2>1. OthersStand(p) /\ ProcKept(p)'
    BY <1>2, Begun DEF ManagerRecovers
  <2>2. LockStep(p)
    BY <1>2, LockMoves DEF ManagerRecovers, LockInv, PaymentInv
  <2>. QED
    BY <1>2, <2>1, <2>2, QuietStep, RailStands DEF ManagerRecovers, shop
<1>3. ASSUME NEW q \in Quotes, JobRecovers(p, q)
      PROVE  StepKept(p)
  <2>. DEFINE w == [order[q] EXCEPT !.attempts = @ + 1]
  <2>1. OthersStand(p) /\ ProcKept(p)'
    BY <1>3, Begun DEF JobRecovers
  <2>2. LockStep(p)
    <3>1. JobLock(q) \in LockNames
      BY LockNamesDiffer
    <3>. QED
      BY <1>3, <3>1, LockMoves DEF JobRecovers, LockInv, PaymentInv
  <2>3. Save(q, w) /\ held' = held /\ sweeping' = sweeping /\ rail' = rail
    BY <1>3 DEF JobRecovers
  <2>4. Sound(q, w) /\ Calm(order[q], w)
    BY SoundDrafts
  <2>5. \A k \in Quotes : Sound(k, order'[k]) /\ Calm(order[k], order'[k])
    <3>. HIDE DEF w
    <3>1. order'[q] = w /\ \A k \in Quotes : k # q => order'[k] = order[k]
      BY <2>3 DEF Save, LockInv, PaymentInv, TypeOK
    <3>. QED
      BY <2>4, <3>1 DEF Sound, Upholds, Calm, LockInv, Kept, OrdersKept
  <2>6. Orderly /\ Writes(p) /\ Binds(p) /\ HoldsSound
    BY <2>3, <2>5 DEF Orderly, Writes, Binds, HoldsSound, Calm
  <2>. QED
    BY <2>1, <2>2, <2>3, <2>6, RailStands DEF StepKept, Effects
<1>. QED
  BY <1>1, <1>2, <1>3, CheckoutConstants DEF Arrival

\* A step of no process, which writes calmly.
LEMMA CalmStep ==
    ASSUME LockInv, TypeOK', Effects,
           lock' = lock, pc' = pc, req' = req, tried' = tried, tx' = tx,
           \A q \in Quotes : Calm(order[q], order'[q]),
           \A q \in held : \/ q \in held' \/ ~Started(order[q])
                           \/ \A p \in Procs : pc[p] \in HoldSteps => QuoteOf[req[p]] # q
    PROVE  Kept'
<1>1. ASSUME NEW p \in Procs
      PROVE  ProcKept(p)'
  <2>1. HoldsLocks(p) /\ KnowsKey(p) /\ TypeOK
    BY DEF LockInv, PaymentInv, Kept, ProcsKept
  <2>2. HoldsLocks(p)'
    BY <2>1 DEF HoldsLocks, Owned, QuoteLock, CheckoutLock
  <2>3. pc[p] \in QuoteHeld => QuoteOf[req[p]] \in Quotes
    BY Known
  <2>4. pc[p] \in HoldSteps => Started(order[QuoteOf[req[p]]])
    BY Known, StepSets
  <2>5. KnowsOrder(p)' /\ InTransaction(p)'
    BY <2>3, <2>4, StandsByItsOrder
  <2>6. KnowsKey(p)'
    BY <2>1 DEF KnowsKey, Started, Calm
  <2>. QED
    BY <2>2, <2>5, <2>6 DEF ProcKept
<1>2. ProcsKept'
  BY <1>1 DEF ProcsKept, ProcKept
<1>3. OrdersKept' /\ MoneyKept' /\ StockKept'
  BY OrdersStayKept, StockStaysKept DEF Effects
<1>4. KeyBindsOneOrder'
  BY DEF KeyBindsOneOrder, Started, Calm, LockInv, Kept
<1>. QED
  BY <1>2, <1>3, <1>4 DEF Kept, Effects, LockInv

LEMMA EnvironmentKeeps ==
    ASSUME LockInv, Undisturbed, TypeOK', Environment
    PROVE  Kept' /\ Orderly
<1>0. /\ lock' = lock /\ pc' = pc /\ req' = req /\ tried' = tried /\ tx' = tx
      /\ TypeOK /\ sweeping = {} /\ \A q \in Quotes : OrderKept(order[q])
  BY
  DEF Environment, IssueQuote, QuoteAges, HoldLapses, Sweep, SweepRead, SweepWrite,
      RailSettles, VerifierSettlesLate, task, view, LockInv, PaymentInv, Kept,
      OrdersKept
<1>1. ASSUME NEW q \in Quotes, IssueQuote(q) \/ Sweep(q)
      PROVE  Kept' /\ Orderly
  <2>1. PICK w \in {Draft(order[q]), Release(order[q])} : Save(q, w)
    BY <1>1 DEF IssueQuote, Sweep, ReleaseReservation
  <2>2. Sound(q, w) /\ Calm(order[q], w)
    BY SoundDrafts
  <2>3. order'[q] = w /\ \A k \in Quotes : k # q => order'[k] = order[k]
    BY <1>0, <2>1 DEF Save, TypeOK
  <2>4. \A k \in Quotes : Sound(k, order'[k]) /\ Calm(order[k], order'[k])
    BY <1>0, <2>2, <2>3 DEF Sound, Upholds, Calm
  <2>5. HoldsSound
    BY <1>1 DEF IssueQuote, Sweep, ReleaseReservation, HoldsSound, HeldFor
  <2>6. \A k \in held : k \in held' \/ ~Started(order[k])
    BY <1>0, <1>1 DEF IssueQuote, Sweep, ReleaseReservation, HeldFor, OrderKept
  <2>7. sweeping' = sweeping /\ RailSound
    BY <1>1, RailStands DEF IssueQuote, Sweep
  <2>. QED
    BY <1>0, <2>4, <2>5, <2>6, <2>7, CalmStep DEF Effects, Orderly
<1>2. ASSUME NEW q \in Quotes, QuoteAges(q) \/ HoldLapses(q) \/ RailSettles(q)
      PROVE  Kept' /\ Orderly
  <2>1. order' = order /\ sweeping' = sweeping /\ HoldsSound
    BY <1>2 DEF QuoteAges, HoldLapses, RailSettles, shop, HoldsSound
  <2>2. Orderly /\ \A k \in Quotes : Calm(order[k], order'[k])
    BY <2>1, Unwritten DEF Calm
  <2>3. RailSound
    BY <1>0, <1>2, RailStands DEF QuoteAges, HoldLapses, RailSettles, RailSound, TypeOK
  <2>4. \A k \in held : \/ k \in held'
                        \/ \A p \in Procs : pc[p] \in HoldSteps => QuoteOf[req[p]] # k
    BY <1>2 DEF QuoteAges, HoldLapses, RailSettles, shop, HoldSteps
  <2>. QED
    BY <1>0, <2>1, <2>2, <2>3, <2>4, CalmStep DEF Effects
<1>3. ASSUME NEW r \in Requests, VerifierSettlesLate(r)
      PROVE  Kept' /\ Orderly
  <2>1. order' = order /\ sweeping' = sweeping /\ held' = held /\ HoldsSound
    BY <1>3 DEF VerifierSettlesLate, shop, HoldsSound
  <2>2. Orderly /\ \A k \in Quotes : Calm(order[k], order'[k])
    BY <2>1, Unwritten DEF Calm
  <2>3. RailSound
    <3>1. OnRecord(r)
      BY <1>3 DEF VerifierSettlesLate, LockInv, Kept, MoneyKept, OnRecord
    <3>. QED
      BY <1>0, <1>3, <3>1 DEF VerifierSettlesLate, RailSound, Settled, TypeOK
  <2>. QED
    BY <1>0, <2>1, <2>2, <2>3, CalmStep DEF Effects
<1>4. ~\E q \in Quotes : SweepRead(q) \/ SweepWrite(q)
  BY <1>0 DEF SweepRead, SweepWrite, Undisturbed
<1>. QED
  BY <1>1, <1>2, <1>3, <1>4 DEF Environment

(***************************************************************************)
(* What holds while nothing outlives its locks                             *)
(***************************************************************************)
LEMMA LocksInductive ==
    ASSUME Undisturbed
    PROVE  /\ Init => LockInv
           /\ LockInv /\ Next => LockInv' /\ Orderly
           /\ LockInv /\ UNCHANGED vars => LockInv'
<1>1. ASSUME Init
      PROVE  LockInv
  <2>1. PaymentInv
    BY <1>1, PaymentInductive
  <2>2. ProcsKept
    BY <1>1, StepSets, NothingKnown
    DEF Init, ProcsKept, HoldsLocks, KnowsOrder, InTransaction, KnowsKey
  <2>3. OrdersKept /\ MoneyKept /\ KeyBindsOneOrder
    BY <1>1
    DEF Init, NoOrder, OrdersKept, OrderKept, MoneyKept, KeyBindsOneOrder, Started,
        Stopped
  <2>4. StockKept
    <3>1. Sold \cup held = {}
      BY <1>1 DEF Init, NoOrder, Sold
    <3>. QED
      BY <3>1, FS_EmptySet, CheckoutConstants DEF StockKept
  <2>. QED
    BY <1>1, <2>1, <2>2, <2>3, <2>4 DEF LockInv, Kept, Init
<1>2. ASSUME LockInv, Next
      PROVE  LockInv' /\ Orderly
  <2>1. PaymentInv' /\ TypeOK'
    <3>1. PaymentInv'
      BY <1>2, PaymentInductive DEF LockInv
    <3>. QED
      BY <3>1 DEF PaymentInv
  <2>2. CASE Environment
    BY <1>2, <2>1, <2>2, EnvironmentKeeps DEF LockInv
  <2>3. ASSUME NEW p \in Procs, Arrival(p) \/ Step(p) \/ Crash(p)
        PROVE  LockInv' /\ Orderly
    <3>1. StepKept(p)
      BY <1>2, <2>3, ArrivalKept, ProcessStepKept
    <3>. QED
      BY <1>2, <2>1, <3>1, ProcessKeeps DEF LockInv, StepKept, Effects
  <2>4. ASSUME NEW p \in Procs, LoseConnection(p)
        PROVE  FALSE
    BY <1>2, <2>4 DEF LoseConnection, Undisturbed, LockInv, PaymentInv, TypeOK
  <2>. QED
    BY <1>2, <2>2, <2>3, <2>4 DEF Next
<1>3. ASSUME LockInv, UNCHANGED vars
      PROVE  LockInv'
  <2>1. PaymentInv'
    BY <1>3, PaymentInductive DEF LockInv
  <2>2. /\ order' = order /\ held' = held /\ sweeping' = sweeping /\ claim' = claim
        /\ late' = late /\ railRefund' = railRefund /\ lock' = lock /\ pc' = pc
        /\ req' = req /\ tried' = tried /\ tx' = tx
    BY <1>3 DEF vars, shop, rail, task, view
  <2>3. ProcsKept'
    BY <1>3, <2>2
    DEF LockInv, Kept, ProcsKept, HoldsLocks, KnowsOrder, InTransaction, KnowsKey, Owned
  <2>4. OrdersKept' /\ MoneyKept' /\ KeyBindsOneOrder' /\ StockKept'
    BY <1>3, <2>2
    DEF LockInv, Kept, OrdersKept, MoneyKept, KeyBindsOneOrder, StockKept, Sold
  <2>. QED
    BY <1>3, <2>1, <2>2, <2>3, <2>4 DEF LockInv, Kept
<1>. QED
  BY <1>1, <1>2, <1>3

LEMMA LocksHold == ASSUME Undisturbed PROVE Spec => []LockInv
<1>1. (Init => LockInv) /\ (LockInv /\ [Next]_vars => LockInv')
  BY LocksInductive
<1>. QED
  BY <1>1, PTL DEF Spec

\* An idempotency key is bound to one order at most, however many requests
\* under it run at the same time, die and are tried again.
THEOREM KeysBindOneOrder == ASSUME Undisturbed PROVE Spec => []KeyBindsOneOrder
<1>1. LockInv => KeyBindsOneOrder
  BY DEF LockInv, Kept
<1>. QED
  BY <1>1, LocksHold, PTL

\* Whatever crashes or is answered late, a draft says completed only when its
\* promotion was committed.
THEOREM CompletedOrdersArePromoted == ASSUME Undisturbed PROVE Spec => []CompletedIsPromoted
<1>1. LockInv => CompletedIsPromoted
  BY DEF LockInv, Kept, OrdersKept, OrderKept, CompletedIsPromoted
<1>. QED
  BY <1>1, LocksHold, PTL

\* A payment the verifier has taken is never out of sight: its order is bound
\* to a paying request and closed, or open with all that a recovery needs.
THEOREM PaymentsAreRecoverable == ASSUME Undisturbed PROVE Spec => []PaidIsRecoverable
<1>1. ASSUME LockInv
      PROVE  PaidIsRecoverable
  <2>. SUFFICES ASSUME NEW x \in Refs, claim[x] # None
                PROVE  LET o == order[claim[x]] IN
                       /\ Started(o) /\ RefOf[o.bound] = x
                       /\ \/ o.state \in {"completed", "compensated"}
                          \/ o.state \in QueueStates /\ o.saved /\ o.attempted
    BY DEF PaidIsRecoverable
  <2>1. claim[x] \in Quotes
    BY <1>1 DEF LockInv, PaymentInv, TypeOK
  <2>2. OrderKept(order[claim[x]])
    BY <1>1, <2>1, OrderFacts
  <2>. QED
    BY <1>1, <2>2 DEF LockInv, Kept, MoneyKept, OrderKept, Closed
<1>. QED
  BY <1>1, LocksHold, PTL

\* A payment is never both given back and fulfilled: nothing is refunded before
\* the checkout is stopped, and a stopped checkout is not promoted.
THEOREM NeverFulfilledAndRefunded == ASSUME Undisturbed PROVE Spec => []FulfilledXorRefunded
<1>1. LockInv => FulfilledXorRefunded
  BY DEF LockInv, Kept, OrdersKept, OrderKept, FulfilledXorRefunded, Stopped
<1>. QED
  BY <1>1, LocksHold, PTL

\* In hard mode no more units are sold than there are.
THEOREM NothingIsOversold == ASSUME Undisturbed, HardHolds PROVE Spec => []NoOversell
<1>1. ASSUME LockInv
      PROVE  NoOversell
  <2>1. IsFiniteSet(Sold \cup held) /\ Cardinality(Sold \cup held) <= Stock
    BY <1>1 DEF LockInv, Kept, StockKept
  <2>2. Cardinality(Sold) <= Cardinality(Sold \cup held)
    BY <2>1, FS_Subset
  <2>3. Cardinality(Sold) \in Nat /\ Cardinality(Sold \cup held) \in Nat
    BY <2>1, FS_Subset, FS_CardinalityType
  <2>. QED
    BY <2>1, <2>2, <2>3, CheckoutConstants DEF NoOversell
<1>. QED
  BY <1>1, LocksHold, PTL

\* A step that is orderly undoes neither a completion nor a decision to refund.
LEMMA OrderlyIsFinal ==
    ASSUME Orderly, NEW q \in Quotes
    PROVE  /\ order[q].state = "completed" => order'[q].state = "completed"
           /\ Stopped(order[q]) => Stopped(order'[q])
           /\ order[q].state = "compensated" => order'[q].state = "compensated"
BY DEF Orderly, Sound, Upholds, Closed

\* A completed checkout stays completed.
THEOREM CompletionsAreFinal == ASSUME Undisturbed PROVE Spec => CompletionIsFinal
<1>. DEFINE A == \A q \in Quotes :
                    order[q].state = "completed" => order'[q].state = "completed"
<1>1. LockInv /\ Next => A
  BY LocksInductive, OrderlyIsFinal
<1>2. LockInv /\ [Next]_vars => [A]_vars
  BY <1>1
<1>3. Spec => [][A]_vars
  BY <1>2, LocksHold, PTL DEF Spec
<1>. QED
  BY <1>3 DEF CompletionIsFinal

\* A checkout that was stopped for a refund never gets back to fulfilment.
THEOREM CompensationsAreFinal == ASSUME Undisturbed PROVE Spec => CompensationIsFinal
<1>. DEFINE A == \A q \in Quotes :
                    Stopped(order[q]) =>
                       /\ Stopped(order'[q])
                       /\ order[q].state = "compensated" => order'[q].state = "compensated"
<1>1. LockInv /\ Next => A
  BY LocksInductive, OrderlyIsFinal
<1>2. LockInv /\ [Next]_vars => [A]_vars
  BY <1>1
<1>3. Spec => [][A]_vars
  BY <1>2, LocksHold, PTL DEF Spec
<1>. QED
  BY <1>3 DEF CompensationIsFinal
=============================================================================
