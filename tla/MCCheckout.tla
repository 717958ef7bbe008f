------------------------------ MODULE MCCheckout ------------------------------
(***************************************************************************)
(* Checkout on two quotes of one product.  Request r1 pays quote q1; r2 is *)
(* another request for q1 with its own key and payment; r3 presents r1's   *)
(* payment for q2; r4 reuses r1's key for q2 with a payment of its own;    *)
(* r5 is an independent checkout of q2.  A scene is chosen once: which     *)
(* requests are made and what else happens beside them and the crashes of  *)
(* processes: nothing, the recoveries of a manager, those of a manager and *)
(* the scheduler, and, with a manager's, an expiry sweep that pauses       *)
(* halfway or a lost connection.                                           *)
(***************************************************************************)
EXTENDS Checkout, TLC

CONSTANTS q1, q2, k1, k2, x1, x2, r1, r2, r3, r4, r5, p1, p2, Scenes

VARIABLE scene

MCKeyOf == [r \in Requests |-> IF r \in {r1, r4} THEN k1 ELSE k2]
MCQuoteOf == [r \in Requests |-> IF r \in {r1, r2} THEN q1 ELSE q2]
MCRefOf == [r \in Requests |-> IF r \in {r1, r3} THEN x1 ELSE x2]

Scene(asked, beside) == [asked |-> asked, beside |-> beside]

\* Two requests for one quote, one key for two quotes, and two independent
\* checkouts of the last unit.
Contention == {Scene({r1, r2}, "scheduler"), Scene({r1, r4}, "manager"),
               Scene({r1, r5}, "none")}

\* One payment for two quotes, a process that loses its locks, and a sweep
\* overtaken by the checkout of its quote.
SharedPayment == {Scene({r1, r3}, "none"), Scene({r1}, "connection"),
                  Scene({r1}, "sweep")}

Alone == {Scene({r1}, "scheduler")}
Disconnected == {Scene({r1}, "connection")}

MCInit == Init /\ scene \in Scenes

\* Checkout's Next, as far as the scene goes.
MCArrival(p) ==
    \/ \E r \in scene.asked : SubmitOrder(p, r)
    \/ scene.beside # "none" /\ \E q \in Recovered :
           \/ \E action \in {"retry", "compensate"} : ManagerRecovers(p, q, action)
           \/ scene.beside = "scheduler" /\ JobRecovers(p, q)

MCEnvironment ==
    \/ \E q \in {QuoteOf[r] : r \in scene.asked} :
           \/ IssueQuote(q) \/ QuoteAges(q) \/ HoldLapses(q) \/ Sweep(q)
           \/ scene.beside = "sweep" /\ SweepRead(q)
           \/ SweepWrite(q) \/ RailSettles(q)
    \/ \E r \in scene.asked : VerifierSettlesLate(r)

MCNext ==
    /\ \/ MCEnvironment
       \/ \E p \in Procs :
              \/ MCArrival(p) \/ Step(p) \/ Crash(p)
              \/ scene.beside = "connection" /\ LoseConnection(p)
    /\ UNCHANGED scene

MCSpec == MCInit /\ [][MCNext]_<<vars, scene>>

\* The fairness of FairSpec.
MCFairSpec ==
    /\ MCSpec
    /\ \A p \in Procs : WF_vars(Step(p))
    /\ \A q \in Recovered : SF_vars(\E p \in Procs : JobRecovers(p, q))

Symmetry == Permutations(Procs)
=============================================================================
