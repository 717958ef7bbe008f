---------------------------- MODULE HouseholdChat ----------------------------
(***************************************************************************)
(* The household assistant (household_os.py) as a client of the gateway:   *)
(* every chat message is a job on a thread of its own, and one slot of the *)
(* server remembers the approval that a reply decides.                     *)
(*                                                                         *)
(* The jobs are the threads of module Gateway that serve them; the         *)
(* household pays for an approval under a key that is made of it.  Answers *)
(* may be lost, and approvals may be decided elsewhere (phone, web).       *)
(***************************************************************************)
EXTENDS Gateway, EnergyOffers

CONSTANT Messages  \* what is said: what it asks for, and how it reads as a reply

ASSUME MessagesAreMessages ==
    Messages \subseteq [ask : {"buy", "buyAndWait", "energy", "other"},
                        reply : {"yes", "no", "none"}]

ASSUME KeysAreApprovals == Keys = Approvals

ASSUME JobsAreNeighbours == Threads \subseteq Neighbours

VARIABLES job,      \* chat_jobs
          pending   \* agentcart_pending_approval

chat == <<job, pending>>

home == <<vars, energy, chat>>

NoJob == [at |-> "none", ask |-> "other", reply |-> "none",
          quote |-> None, approval |-> None, by |-> None, result |-> "none"]

ChatInit ==
    /\ Init
    /\ EnergyInit
    /\ job = [j \in Threads |-> NoJob]
    /\ pending = None

Moves(j, at) == job' = [job EXCEPT ![j].at = at]

\* The job ends with an answer to the household.
Ends(j, result) == job' = [job EXCEPT ![j].at = "done", ![j].result = result]

\* update_chat_job(status="failed")
Fails(j) == Ends(j, "failed")

Gone(j) == job[j].at = "done"

(***************************************************************************)
(* Messages                                                                *)
(***************************************************************************)
CreateChatJob(j, m) ==
    /\ job[j].at = "none"
    /\ job' = [job EXCEPT ![j].at = "queued", ![j].ask = m.ask, ![j].reply = m.reply]
    /\ UNCHANGED <<vars, energy, pending>>

\* While an approval is remembered a message that reads as a reply is one,
\* whatever else it asks for.
RunChatJob(j) ==
    /\ job[j].at = "queued"
    /\ IF pending # None /\ job[j].reply # "none"
       THEN Moves(j, "decide")
       ELSE IF job[j].ask = "other" THEN Ends(j, "answered")
       ELSE Moves(j, IF job[j].ask = "energy" THEN "offer" ELSE "quote")
    /\ UNCHANGED <<vars, energy, pending>>

(***************************************************************************)
(* A purchase (agentcart_buy_requested_product)                            *)
(***************************************************************************)
Tournament(j, q) ==
    /\ job[j].at = "quote"
    /\ CreateQuote(q, None)
    /\ job' = [job EXCEPT ![j].at = "approve", ![j].quote = q]
    /\ UNCHANGED <<energy, pending>>

NoWinner(j) ==
    /\ job[j].at = "quote"
    /\ Ends(j, "no quote")
    /\ UNCHANGED <<vars, energy, pending>>

RequestApproval(j, a) ==
    /\ job[j].at = "approve"
    /\ CreateApproval(a, job[j].quote, None)
    /\ IF mem'.approval[a].state = "pending"
       THEN job' = [job EXCEPT ![j].at = "remember", ![j].approval = a]
       ELSE Fails(j)
    /\ UNCHANGED <<energy, pending>>

\* What was remembered before is replaced.
RememberApproval(j) ==
    /\ job[j].at = "remember"
    /\ pending' = [quote |-> job[j].quote, approval |-> job[j].approval]
    /\ IF job[j].ask = "buyAndWait" THEN Moves(j, "wait") ELSE Ends(j, "asked")
    /\ UNCHANGED <<vars, energy>>

PollApproval(j) ==
    LET state == mem.approval[job[j].approval].state IN
    /\ job[j].at = "wait"
    /\ \/ state = "approved" /\ Moves(j, "checkout")
       \/ state \in {"rejected", "expired"} /\ Moves(j, "stopped")
    /\ UNCHANGED <<vars, energy, pending>>

\* agentcart_approval_wait_seconds are over; the approval stays remembered.
WaitEnds(j) ==
    /\ job[j].at = "wait"
    /\ Ends(j, "asked")
    /\ UNCHANGED <<vars, energy, pending>>

(***************************************************************************)
(* A reply (agentcart_decide_pending_purchase)                             *)
(***************************************************************************)
\* The slot is read anew.
TakePending(j) ==
    /\ job[j].at = "decide"
    /\ IF pending = None THEN Ends(j, "nothing pending")
       ELSE job' = [job EXCEPT ![j].at = "deciding", ![j].quote = pending.quote,
                               ![j].approval = pending.approval]
    /\ UNCHANGED <<vars, energy, pending>>

Decision(j) == IF job[j].reply = "no" THEN "rejected" ELSE "approved"

\* A decided approval is answered as it is.  The household goes on by what it
\* said, not by what it is answered.
DecidePending(j) ==
    LET a == job[j].approval IN
    /\ job[j].at = "deciding"
    /\ \/ /\ DecideApproval(a, Decision(j))
          /\ IF a \in overdue THEN Fails(j)
             ELSE Moves(j, IF Decision(j) = "rejected" THEN "stopped" ELSE "checkout")
       \/ /\ lock = None /\ mem.approval[a].state # "pending"
          /\ Moves(j, IF Decision(j) = "rejected" THEN "stopped" ELSE "checkout")
          /\ UNCHANGED vars
       \/ DecideApproval(a, Decision(j)) /\ Fails(j)
    /\ UNCHANGED <<energy, pending>>

(***************************************************************************)
(* Checkout: a challenge, then the payment under the same key              *)
(***************************************************************************)
KeyOf(j) == job[j].approval

CheckoutRefused(j) ==
    /\ job[j].at \in {"checkout", "pay"}
    /\ lock = None /\ call[j] = Idle
    /\ ~Placed(mem, KeyOf(j))
    /\ ~Ready(mem, job[j].quote, job[j].approval)
    /\ Fails(j)
    /\ UNCHANGED <<vars, energy, pending>>

CheckoutReplayed(j) ==
    /\ job[j].at \in {"checkout", "pay"}
    /\ Replay(j, KeyOf(j))
    /\ Moves(j, "bought")
    /\ UNCHANGED <<energy, pending>>

RequestCheckout(j) ==
    /\ job[j].at = "checkout"
    /\ Checkout(j, job[j].quote, job[j].approval, KeyOf(j), None)
    /\ Moves(j, "asked")
    /\ UNCHANGED <<energy, pending>>

\* The answer of a job that has given up is nobody's.
Challenged(j, c) ==
    /\ CreatePaymentChallenge(j, c)
    /\ IF Gone(j) THEN UNCHANGED job
       ELSE job' = [job EXCEPT ![j].at = "pay", ![j].by = c]
    /\ UNCHANGED <<energy, pending>>

PayCheckout(j) ==
    /\ job[j].at = "pay"
    /\ Checkout(j, job[j].quote, job[j].approval, KeyOf(j), job[j].by)
    /\ Moves(j, "paying")
    /\ UNCHANGED <<energy, pending>>

\* What the gateway does for the payment.
PaymentProceeds(j) ==
    /\ \/ BeginPayment(j) \/ MerchantCreatesOrder(j) \/ RecordOrder(j)
    /\ UNCHANGED <<energy, chat>>

PaymentFails(j) ==
    /\ \/ RefusePayment(j) \/ MerchantRefuses(j) \/ MerchantUnavailable(j)
    /\ IF Gone(j) THEN UNCHANGED job ELSE Fails(j)
    /\ UNCHANGED <<energy, pending>>

\* The order is stored, and the job hears of an error.
PaymentBreaks(j) ==
    /\ CheckoutBreaks(j)
    /\ IF Gone(j) THEN UNCHANGED job ELSE Fails(j)
    /\ UNCHANGED <<energy, pending>>

Paid(j) ==
    /\ FinishCheckout(j)
    /\ IF Gone(j) THEN UNCHANGED job ELSE Moves(j, "bought")
    /\ UNCHANGED <<energy, pending>>

(***************************************************************************)
(* Ends                                                                    *)
(***************************************************************************)

\* clear_agentcart_approval forgets this approval, not another one.
Forgot(a) == IF pending # None /\ pending.approval = a THEN None ELSE pending

ClearApproval(j) ==
    /\ job[j].at \in {"bought", "stopped"}
    /\ pending' = Forgot(job[j].approval)
    /\ Ends(j, job[j].at)
    /\ UNCHANGED <<vars, energy>>

\* A call to the gateway fails or takes too long; a payment goes on without it.
\* What is remembered stays.
CallLost(j) ==
    /\ job[j].at \in {"quote", "approve", "deciding", "checkout", "asked", "pay",
                      "paying", "wait", "offer", "accept", "settling"}
    /\ Fails(j)
    /\ UNCHANGED <<vars, energy, pending>>

CallTimesOut(j) == job[j].at # "wait" /\ CallLost(j)

(***************************************************************************)
(* Energy (agentcart_offer_energy_demo): the offer is accepted at once     *)
(***************************************************************************)
OfferEnergy(j, o) ==
    /\ job[j].at = "offer" /\ lock = None
    /\ \E s \in Readings : CreateEnergyOffer(o, s)
    /\ job' = [job EXCEPT ![j].at = "accept", ![j].by = o]
    /\ UNCHANGED <<vars, pending>>

NotOfferable(j) ==
    /\ job[j].at = "offer"
    /\ \E s \in Readings : ~Offerable(s)
    /\ Ends(j, "not offerable")
    /\ UNCHANGED <<vars, energy, pending>>

AcceptEnergy(j) ==
    /\ job[j].at = "accept" /\ lock = None
    /\ BeginAccept(j, job[j].by)
    /\ Moves(j, "settling")
    /\ UNCHANGED <<vars, pending>>

AcceptRefused(j) ==
    /\ job[j].at = "accept" /\ lock = None
    /\ RefuseAccept(j, job[j].by)
    /\ Fails(j)
    /\ UNCHANGED <<vars, pending>>

EnergySettled(j) ==
    /\ lock = None
    /\ Settle(j)
    /\ IF Gone(j) THEN UNCHANGED job ELSE Ends(j, "traded")
    /\ UNCHANGED <<vars, pending>>

(***************************************************************************)
(* Others                                                                  *)
(***************************************************************************)
\* A neighbour that is no job accepts an offer it has seen.
NeighbourAccepts ==
    /\ lock = None
    /\ \E n \in Neighbours \ Threads :
          Settle(n) \/ \E o \in Offers : BeginAccept(n, o) \/ RefuseAccept(n, o)
    /\ UNCHANGED <<vars, chat>>

DecidedElsewhere(a, d) == DecideApproval(a, d) /\ UNCHANGED <<energy, chat>>

TimePasses ==
    /\ \/ ExpireStaleApprovals
       \/ \E a \in Approvals : ApprovalExpires(a)
       \/ \E q \in Quotes : QuoteExpires(q)
       \/ MonthPasses
    /\ UNCHANGED <<energy, chat>>

OfferTimePasses ==
    /\ \/ lock = None /\ ListEnergyOffers
       \/ \E o \in Offers : OfferExpires(o)
    /\ UNCHANGED <<vars, chat>>

\* The gateway ends and starts again; the jobs that waited for it fail.
GatewayCrash ==
    /\ Crash
    /\ EnergyCrash
    /\ job' = [j \in Threads |->
                 IF job[j].at \in {"asked", "paying", "settling"}
                 THEN [job[j] EXCEPT !.at = "done", !.result = "failed"] ELSE job[j]]
    /\ UNCHANGED pending

(***************************************************************************)
(* The jobs, and the system                                                *)
(***************************************************************************)
JobStep(j) ==
    \/ RunChatJob(j) \/ NoWinner(j)
    \/ \E q \in Quotes : Tournament(j, q)
    \/ \E a \in Approvals : RequestApproval(j, a)
    \/ RememberApproval(j) \/ PollApproval(j) \/ WaitEnds(j)
    \/ TakePending(j) \/ DecidePending(j)
    \/ CheckoutRefused(j) \/ CheckoutReplayed(j) \/ RequestCheckout(j) \/ PayCheckout(j)
    \/ \E c \in Challenges : Challenged(j, c)
    \/ PaymentProceeds(j) \/ PaymentFails(j) \/ PaymentBreaks(j) \/ Paid(j)
    \/ ClearApproval(j)
    \/ \E o \in Offers : OfferEnergy(j, o)
    \/ NotOfferable(j) \/ AcceptEnergy(j) \/ AcceptRefused(j) \/ EnergySettled(j)

ChatNext ==
    \/ \E j \in Threads : JobStep(j) \/ CallLost(j) \/ \E m \in Messages : CreateChatJob(j, m)
    \/ \E a \in Approvals, d \in {"approved", "rejected"} : DecidedElsewhere(a, d)
    \/ NeighbourAccepts \/ TimePasses \/ OfferTimePasses \/ GatewayCrash

\* A thread goes on, and every call of AgentCartClient has a time limit.
ChatFairness == \A j \in Threads : WF_home(JobStep(j)) /\ WF_home(CallTimesOut(j))

ChatSpec == ChatInit /\ [][ChatNext]_home /\ ChatFairness

(***************************************************************************)
(* Properties                                                              *)
(***************************************************************************)
\* What a household was told is so.  An order it was told of is in the gateway's
\* file, whichever of several jobs paid for it; and what it was told is stopped
\* is not bought afterwards by another job, a later reply or the phone, unless it
\* had been approved already, which the household is told as well
\* (agentcart_buy_requested_product, agentcart_decide_pending_purchase).
ToldTheTruth ==
    \A j \in Threads :
        /\ job[j].result = "bought" =>
              \E i \in 1 .. Len(disk.orders) : disk.orders[i].approval = job[j].approval
        /\ job[j].result = "stopped" /\ mem.approval[job[j].approval].state # "approved" =>
              \A i \in 1 .. Len(mem.orders) : mem.orders[i].approval # job[j].approval

\* Every message gets an answer, though the gateway holds its lock while it
\* waits for the merchant and a job waits for a decision nobody takes
\* (run_chat_job, agentcart_approval_wait_seconds).
JobsEnd == \A j \in Threads : job[j].at = "queued" ~> job[j].at = "done"

\* One approval buys one order.
ApprovalBuysOnce ==
    \A i, j \in 1 .. Len(mem.orders) :
        mem.orders[i].approval = mem.orders[j].approval => i = j
=============================================================================
