---------------------------- MODULE HouseholdProofs ----------------------------
(***************************************************************************)
(* Theorems about a household, its neighbours and the gateway they use,    *)
(* for every set of offers, neighbours, jobs and messages: an offer of     *)
(* energy is paid for once and is backed by what the sensors showed        *)
(* (EnergyOffers); what the assistant says of a purchase is so             *)
(* (HouseholdChat); and a household does nothing with the gateway that the *)
(* gateway's own specification does not allow (Gateway).                   *)
(***************************************************************************)
EXTENDS HouseholdChat, GatewayProofs, TLAPS

USE NoneIsNoOffer

(***************************************************************************)
(* The inductive invariant                                                 *)
(***************************************************************************)
States == {"none", "open", "accepting", "accepted", "expired"}

OfferRecord == [state : States, acceptance : Nat, settled : Nat,
                reading : Readings \cup {"none"}]

Proof == [offer : Offers \cup {"none"}, acceptance : Nat]

\* The file of the gateway is never behind its memory.
EnergyTypes ==
    /\ offer \in [Offers -> OfferRecord]
    /\ offerFile = offer
    /\ proving \in [Neighbours -> Proof]
    /\ proofs \in [Offers -> Nat]

\* An offer whose payment is being proven is held by its acceptance.
HeldWhileProven ==
    \A n \in Neighbours :
        LET o == proving[n].offer IN
        o # "none" => /\ offer[o].state = "accepting"
                      /\ offer[o].acceptance = proving[n].acceptance
                      /\ proving[n].acceptance > 0

\* No two neighbours have the same offer proven.
OneProver ==
    \A n, m \in Neighbours :
        proving[n].offer # "none" /\ proving[n].offer = proving[m].offer => n = m

\* What is proven is what is settled.
SettledAsProven ==
    \A o \in Offers :
        IF offer[o].state = "accepted"
        THEN /\ proofs[o] = 1
             /\ offer[o].settled = offer[o].acceptance /\ offer[o].acceptance > 0
        ELSE proofs[o] = 0 /\ offer[o].settled = 0

\* An offer keeps the reading it was made with.
Backed ==
    \A o \in Offers :
        offer[o].state # "none" => /\ offer[o].reading \in Readings
                                   /\ Offerable(offer[o].reading)

EInv == EnergyTypes /\ HeldWhileProven /\ OneProver /\ SettledAsProven /\ Backed

(***************************************************************************)
(* Readings                                                                *)
(***************************************************************************)
\* A sensor of what is produced, or of the battery, only takes from what can be
\* offered when it fails.
LEMMA FailuresTake ==
    ASSUME NEW s \in Readings, s.failed \subseteq {"solar", "export", "battery"},
           Offerable(s)
    PROVE  Offerable([s EXCEPT !.failed = {}])
<1>. DEFINE t == [s EXCEPT !.failed = {}]
<1>1. /\ s = [real |-> s.real, failed |-> s.failed]
      /\ s.real \in [{"solar", "output", "export", "import", "battery"} -> Int]
      /\ s.real["import"] >= 0 /\ s.real["output"] >= 0
      /\ MinExport \in Nat /\ MinExport > 0
  BY ReadingsAreReadings
<1>2. t.real = s.real /\ t.failed = {}
  BY <1>1
<1>. HIDE DEF t
<1>3. /\ Watts(s, "import") = Watts(t, "import") /\ Watts(s, "import") = s.real["import"]
      /\ Watts(s, "output") = Watts(t, "output") /\ Watts(s, "output") = s.real["output"]
  BY <1>2 DEF Watts
<1>4. ASSUME Exceeds(s, "export", "import")
      PROVE  Exceeds(t, "export", "import")
  <2>1. "export" \notin s.failed
    BY <1>1, <1>3, <1>4 DEF Exceeds, Watts
  <2>2. Watts(s, "export") = Watts(t, "export")
    BY <1>2, <2>1 DEF Watts
  <2>. QED
    BY <1>3, <1>4, <2>2 DEF Exceeds
<1>5. ASSUME Exceeds(s, "solar", "output")
      PROVE  Exceeds(t, "solar", "output")
  <2>1. "solar" \notin s.failed
    BY <1>1, <1>3, <1>5 DEF Exceeds, Watts
  <2>2. Watts(s, "solar") = Watts(t, "solar")
    BY <1>2, <2>1 DEF Watts
  <2>. QED
    BY <1>3, <1>5, <2>2 DEF Exceeds
<1>6. ASSUME Watts(s, "solar") >= MinExport
      PROVE  Watts(t, "solar") >= MinExport
  <2>1. "solar" \notin s.failed
    BY <1>1, <1>6 DEF Watts
  <2>. QED
    BY <1>2, <1>6, <2>1 DEF Watts
<1>7. ASSUME NEW level, BatteryAtLeast(s, level)
      PROVE  BatteryAtLeast(t, level)
  BY <1>2, <1>7 DEF BatteryAtLeast
<1>8. Offerable(t)
  BY <1>4, <1>5, <1>6, <1>7 DEF Offerable
<1>. QED
  BY <1>8 DEF t

\* The invariant is what the household wants to know.
LEMMA InvariantSuffices == ASSUME EInv PROVE EnergyIsSoldOnce
<1>1. OfferPaidOnce
  BY DEF EInv, EnergyTypes, SettledAsProven, OfferPaidOnce, OfferRecord, States
<1>2. OffersAreBacked
  BY FailuresTake DEF EInv, Backed, OffersAreBacked
<1>. QED
  BY <1>1, <1>2 DEF EnergyIsSoldOnce

(***************************************************************************)
(* Steps                                                                   *)
(***************************************************************************)
LEMMA EnergyStarts == ASSUME EnergyInit PROVE EInv
BY DEF EnergyInit, NoOffer, EInv, EnergyTypes, OfferRecord, States, Proof,
       HeldWhileProven, OneProver, SettledAsProven, Backed

LEMMA OffersStay ==
    ASSUME EInv, UNCHANGED <<offer, offerFile, proving, proofs>> PROVE EInv'
BY DEF EInv, EnergyTypes, HeldWhileProven, OneProver, SettledAsProven, Backed

LEMMA EnergyStays == ASSUME EInv, UNCHANGED energy PROVE EInv'
BY OffersStay DEF energy

LEMMA CreateKeeps ==
    ASSUME EInv, NEW o \in Offers, NEW s \in Readings, CreateEnergyOffer(o, s)
    PROVE  EInv'
<1>1. /\ offer[o].state = "none" /\ Offerable(s)
      /\ offer' = [offer EXCEPT ![o].state = "open", ![o].reading = s]
      /\ offerFile' = offer' /\ proving' = proving /\ proofs' = proofs
  BY DEF CreateEnergyOffer, OffersSaved
<1>2. /\ offer'[o] = [offer[o] EXCEPT !.state = "open", !.reading = s]
      /\ \A p \in Offers : p # o => offer'[p] = offer[p]
      /\ offer' \in [Offers -> OfferRecord]
      /\ offer'[o].state = "open" /\ offer'[o].reading = s
      /\ offer'[o].settled = offer[o].settled
  BY <1>1 DEF EInv, EnergyTypes, OfferRecord, States
<1>3. EnergyTypes'
  BY <1>1, <1>2 DEF EInv, EnergyTypes
<1>4. HeldWhileProven'
  BY <1>1, <1>2 DEF EInv, EnergyTypes, HeldWhileProven, Proof
<1>5. OneProver'
  BY <1>1 DEF EInv, OneProver
<1>6. SettledAsProven'
  BY <1>1, <1>2 DEF EInv, SettledAsProven
<1>7. Backed'
  BY <1>1, <1>2 DEF EInv, Backed
<1>. QED
  BY <1>3, <1>4, <1>5, <1>6, <1>7 DEF EInv

\* Offers that are shown as expired are none that is being proven or was sold.
LEMMA ExpiredOffers ==
    ASSUME EInv
    PROVE  /\ WithExpired(offer) \in [Offers -> OfferRecord]
           /\ \A o \in Offers :
                 \/ WithExpired(offer)[o] = offer[o]
                 \/ /\ offer[o].state = "open"
                    /\ WithExpired(offer)[o].state = "expired"
                    /\ WithExpired(offer)[o].settled = offer[o].settled
                    /\ WithExpired(offer)[o].reading = offer[o].reading
BY DEF EInv, EnergyTypes, WithExpired, OfferRecord, States

LEMMA ExpiringKeeps ==
    ASSUME EInv, OffersSaved(WithExpired(offer)), proving' = proving, proofs' = proofs
    PROVE  EInv'
<1>1. /\ offer' = WithExpired(offer) /\ offerFile' = offer'
      /\ offer' \in [Offers -> OfferRecord]
      /\ \A o \in Offers :
            \/ offer'[o] = offer[o]
            \/ /\ offer[o].state = "open" /\ offer'[o].state = "expired"
               /\ offer'[o].settled = offer[o].settled
               /\ offer'[o].reading = offer[o].reading
  BY ExpiredOffers DEF OffersSaved
<1>2. EnergyTypes'
  BY <1>1 DEF EInv, EnergyTypes
<1>3. HeldWhileProven'
  <2>. SUFFICES ASSUME NEW n \in Neighbours, proving[n].offer # "none"
                PROVE  /\ offer'[proving[n].offer].state = "accepting"
                       /\ offer'[proving[n].offer].acceptance = proving[n].acceptance
                       /\ proving[n].acceptance > 0
    BY DEF HeldWhileProven
  <2>1. proving[n].offer \in Offers
    BY DEF EInv, EnergyTypes, Proof
  <2>. QED
    BY <1>1, <2>1 DEF EInv, HeldWhileProven
<1>4. OneProver'
  BY DEF EInv, OneProver
<1>5. SettledAsProven'
  <2>. SUFFICES ASSUME NEW o \in Offers
                PROVE  IF offer'[o].state = "accepted"
                       THEN /\ proofs[o] = 1
                            /\ offer'[o].settled = offer'[o].acceptance
                            /\ offer'[o].acceptance > 0
                       ELSE proofs[o] = 0 /\ offer'[o].settled = 0
    BY DEF SettledAsProven
  <2>. QED
    BY <1>1 DEF EInv, SettledAsProven
<1>6. Backed'
  <2>. SUFFICES ASSUME NEW o \in Offers, offer'[o].state # "none"
                PROVE  offer'[o].reading \in Readings /\ Offerable(offer'[o].reading)
    BY DEF Backed
  <2>1. offer'[o].reading = offer[o].reading /\ offer[o].state # "none"
    BY <1>1
  <2>. QED
    BY <2>1 DEF EInv, Backed
<1>. QED
  BY <1>2, <1>3, <1>4, <1>5, <1>6 DEF EInv

LEMMA BeginAcceptKeeps ==
    ASSUME EInv, NEW n \in Neighbours, NEW o \in Offers, BeginAccept(n, o)
    PROVE  EInv'
<1>. DEFINE f == WithExpired(offer)
<1>1. /\ proving[n].offer = "none" /\ f[o].state = "open"
      /\ offer' = [f EXCEPT ![o].state = "accepting", ![o].acceptance = @ + 1]
      /\ offerFile' = offer'
      /\ proving' = [proving EXCEPT ![n] = [offer |-> o, acceptance |-> f[o].acceptance + 1]]
      /\ proofs' = proofs
  BY DEF BeginAccept, OffersSaved, Accepting
<1>2. /\ f \in [Offers -> OfferRecord]
      /\ \A p \in Offers :
            \/ f[p] = offer[p]
            \/ /\ offer[p].state = "open" /\ f[p].state = "expired"
               /\ f[p].settled = offer[p].settled /\ f[p].reading = offer[p].reading
  BY ExpiredOffers
<1>. HIDE DEF f
<1>3. f[o] = offer[o] /\ offer[o].state = "open" /\ offer[o].acceptance \in Nat
  BY <1>1, <1>2 DEF OfferRecord
<1>4. /\ offer' \in [Offers -> OfferRecord]
      /\ offer'[o].state = "accepting" /\ offer'[o].acceptance = offer[o].acceptance + 1
      /\ offer'[o].settled = offer[o].settled /\ offer'[o].reading = offer[o].reading
      /\ \A p \in Offers : p # o => offer'[p] = f[p]
  <2>. DEFINE r == [f[o] EXCEPT !.state = "accepting", !.acceptance = f[o].acceptance + 1]
  <2>1. f[o] \in OfferRecord /\ f[o].acceptance + 1 \in Nat
    BY <1>2, <1>3
  <2>2. r \in OfferRecord
    BY <2>1 DEF OfferRecord, States
  <2>3. offer' = [f EXCEPT ![o] = r]
    BY <1>1, <1>2 DEF OfferRecord
  <2>. QED
    BY <1>2, <1>3, <2>1, <2>2, <2>3 DEF OfferRecord
<1>5. /\ proving' \in [Neighbours -> Proof]
      /\ proving'[n].offer = o /\ proving'[n].acceptance = offer[o].acceptance + 1
      /\ \A k \in Neighbours : k # n => proving'[k] = proving[k]
  <2>1. [offer |-> o, acceptance |-> f[o].acceptance + 1] \in Proof
    BY <1>3 DEF Proof
  <2>. QED
    BY <1>1, <1>3, <2>1 DEF EInv, EnergyTypes
\* The offer was open, so no one had it proven.
<1>6. \A k \in Neighbours : proving[k].offer # o
  BY <1>3 DEF EInv, HeldWhileProven
<1>7. EnergyTypes'
  BY <1>1, <1>4, <1>5 DEF EInv, EnergyTypes
<1>8. HeldWhileProven'
  <2>. SUFFICES ASSUME NEW k \in Neighbours, proving'[k].offer # "none"
                PROVE  /\ offer'[proving'[k].offer].state = "accepting"
                       /\ offer'[proving'[k].offer].acceptance = proving'[k].acceptance
                       /\ proving'[k].acceptance > 0
    BY DEF HeldWhileProven
  <2>1. CASE k = n
    BY <1>3, <1>4, <1>5, <2>1
  <2>2. CASE k # n
    <3>1. /\ proving[k].offer # "none" /\ proving[k].offer \in Offers
          /\ proving[k].offer # o
          /\ offer[proving[k].offer].state = "accepting"
          /\ offer[proving[k].offer].acceptance = proving[k].acceptance
          /\ proving[k].acceptance > 0
      BY <1>5, <1>6, <2>2 DEF EInv, EnergyTypes, HeldWhileProven, Proof
    <3>2. offer'[proving[k].offer] = offer[proving[k].offer]
      BY <1>2, <1>4, <3>1
    <3>. QED
      BY <1>5, <2>2, <3>1, <3>2
  <2>. QED
    BY <2>1, <2>2
<1>9. OneProver'
  BY <1>5, <1>6 DEF EInv, OneProver
<1>10. SettledAsProven'
  <2>. SUFFICES ASSUME NEW p \in Offers
                PROVE  IF offer'[p].state = "accepted"
                       THEN /\ proofs[p] = 1
                            /\ offer'[p].settled = offer'[p].acceptance
                            /\ offer'[p].acceptance > 0
                       ELSE proofs[p] = 0 /\ offer'[p].settled = 0
    BY <1>1 DEF SettledAsProven
  <2>1. CASE p = o
    BY <1>3, <1>4, <2>1 DEF EInv, SettledAsProven
  <2>2. CASE p # o
    BY <1>2, <1>4, <2>2 DEF EInv, SettledAsProven
  <2>. QED
    BY <2>1, <2>2
<1>11. Backed'
  <2>. SUFFICES ASSUME NEW p \in Offers, offer'[p].state # "none"
                PROVE  offer'[p].reading \in Readings /\ Offerable(offer'[p].reading)
    BY DEF Backed
  <2>1. offer'[p].reading = offer[p].reading /\ offer[p].state # "none"
    BY <1>2, <1>3, <1>4
  <2>. QED
    BY <2>1 DEF EInv, Backed
<1>. QED
  BY <1>7, <1>8, <1>9, <1>10, <1>11 DEF EInv

LEMMA SettleKeeps ==
    ASSUME EInv, NEW n \in Neighbours, Settle(n)
    PROVE  EInv'
<1>. DEFINE o == proving[n].offer
<1>1. /\ o # "none" /\ o \in Offers /\ offer[o].state = "accepting"
      /\ offer[o].acceptance = proving[n].acceptance /\ proving[n].acceptance > 0
      /\ proving[n].acceptance \in Nat
      /\ proofs[o] = 0
  BY DEF Settle, EInv, EnergyTypes, Proof, HeldWhileProven, SettledAsProven
<1>2. /\ offer' = [offer EXCEPT ![o].state = "accepted", ![o].settled = proving[n].acceptance]
      /\ offerFile' = offer'
      /\ proofs' = [proofs EXCEPT ![o] = @ + 1]
      /\ proving' = [proving EXCEPT ![n] = [offer |-> "none", acceptance |-> 0]]
  BY DEF Settle, OffersSaved
<1>. HIDE DEF o
<1>3. /\ offer' \in [Offers -> OfferRecord]
      /\ offer'[o].state = "accepted" /\ offer'[o].settled = proving[n].acceptance
      /\ offer'[o].acceptance = offer[o].acceptance /\ offer'[o].reading = offer[o].reading
      /\ \A p \in Offers : p # o => offer'[p] = offer[p]
  <2>1. [offer[o] EXCEPT !.state = "accepted", !.settled = proving[n].acceptance] \in OfferRecord
    BY <1>1 DEF EInv, EnergyTypes, OfferRecord, States
  <2>2. offer' = [offer EXCEPT ![o] =
                    [offer[o] EXCEPT !.state = "accepted", !.settled = proving[n].acceptance]]
    BY <1>1, <1>2 DEF EInv, EnergyTypes, OfferRecord
  <2>. QED
    BY <1>1, <2>1, <2>2 DEF EInv, EnergyTypes, OfferRecord
<1>4. /\ proving' \in [Neighbours -> Proof] /\ proving'[n].offer = "none"
      /\ \A k \in Neighbours : k # n => proving'[k] = proving[k]
  BY <1>2 DEF EInv, EnergyTypes, Proof
<1>5. /\ proofs' \in [Offers -> Nat] /\ proofs'[o] = 1
      /\ \A p \in Offers : p # o => proofs'[p] = proofs[p]
  BY <1>1, <1>2 DEF EInv, EnergyTypes
<1>6. EnergyTypes'
  BY <1>2, <1>3, <1>4, <1>5 DEF EnergyTypes
<1>7. HeldWhileProven'
  <2>. SUFFICES ASSUME NEW k \in Neighbours, proving'[k].offer # "none"
                PROVE  /\ offer'[proving'[k].offer].state = "accepting"
                       /\ offer'[proving'[k].offer].acceptance = proving'[k].acceptance
                       /\ proving'[k].acceptance > 0
    BY DEF HeldWhileProven
  <2>1. k # n /\ proving'[k] = proving[k]
    BY <1>4
  <2>2. proving[k].offer \in Offers /\ proving[k].offer # o
    BY <1>1, <2>1 DEF EInv, EnergyTypes, Proof, OneProver, o
  <2>. QED
    BY <1>3, <2>1, <2>2 DEF EInv, HeldWhileProven
<1>8. OneProver'
  BY <1>4 DEF EInv, OneProver
<1>9. SettledAsProven'
  BY <1>1, <1>3, <1>5 DEF EInv, SettledAsProven
<1>10. Backed'
  <2>. SUFFICES ASSUME NEW p \in Offers, offer'[p].state # "none"
                PROVE  offer'[p].reading \in Readings /\ Offerable(offer'[p].reading)
    BY DEF Backed
  <2>1. offer'[p].reading = offer[p].reading /\ offer[p].state # "none"
    BY <1>1, <1>3
  <2>. QED
    BY <2>1 DEF EInv, Backed
<1>. QED
  BY <1>6, <1>7, <1>8, <1>9, <1>10 DEF EInv

\* What was under way is forgotten; the offers are what the file says.
LEMMA CrashKeeps == ASSUME EInv, EnergyCrash PROVE EInv'
<1>1. /\ offer' = offer /\ offerFile' = offerFile /\ proofs' = proofs
      /\ proving' = [n \in Neighbours |-> [offer |-> "none", acceptance |-> 0]]
  BY DEF EInv, EnergyTypes, EnergyCrash
<1>2. EnergyTypes'
  BY <1>1 DEF EInv, EnergyTypes, Proof
<1>3. HeldWhileProven' /\ OneProver'
  BY <1>1 DEF HeldWhileProven, OneProver
<1>4. SettledAsProven' /\ Backed'
  BY <1>1 DEF EInv, SettledAsProven, Backed
<1>. QED
  BY <1>2, <1>3, <1>4 DEF EInv

(***************************************************************************)
(* Jobs: what a job accepts is an offer                                    *)
(***************************************************************************)
Places == {"none", "queued", "quote", "approve", "remember", "wait", "decide", "deciding",
           "checkout", "asked", "pay", "paying", "offer", "accept", "settling",
           "bought", "stopped", "done"}

Results == Places \cup {"failed", "answered", "no quote", "nothing pending",
                        "not offerable", "traded"}

JobRecord == [at : Places, ask : {"buy", "buyAndWait", "energy", "other"},
              reply : {"yes", "no", "none"},
              quote : Quotes \cup {None}, approval : Approvals \cup {None},
              by : Challenges \cup Offers \cup {None}, result : Results]

Remembered == [quote : Quotes \cup {None}, approval : Approvals \cup {None}]

JobsAccept ==
    /\ job \in [Threads -> JobRecord]
    /\ pending # None => pending \in Remembered
    /\ \A j \in Threads : job[j].at = "accept" => job[j].by \in Offers

\* A record of a job whose fields are replaced is one.
LEMMA JobRecords ==
    ASSUME NEW r \in JobRecord, NEW at \in Places
    PROVE  /\ [r EXCEPT !.at = at] \in JobRecord
           /\ \A x \in Results : [r EXCEPT !.at = at, !.result = x] \in JobRecord
           /\ \A c \in Challenges \cup Offers : [r EXCEPT !.at = at, !.by = c] \in JobRecord
<1>1. [r EXCEPT !.at = at] \in JobRecord
  BY DEF JobRecord
<1>2. \A x \in Results : [r EXCEPT !.at = at, !.result = x] \in JobRecord
  BY DEF JobRecord
<1>3. \A c \in Challenges \cup Offers : [r EXCEPT !.at = at, !.by = c] \in JobRecord
  BY DEF JobRecord
<1>. QED
  BY <1>1, <1>2, <1>3

LEMMA JobsStay == ASSUME JobsAccept, UNCHANGED chat PROVE JobsAccept'
BY DEF JobsAccept, chat

\* A job becomes another one.
LEMMA JobChanges ==
    ASSUME JobsAccept, NEW j \in Threads, NEW r \in JobRecord,
           r.at = "accept" => r.by \in Offers,
           job' = [job EXCEPT ![j] = r],
           pending' # None => pending' \in Remembered
    PROVE  JobsAccept'
BY DEF JobsAccept

LEMMA JobMoves ==
    ASSUME JobsAccept, NEW j \in Threads, NEW at \in Places, at # "accept",
           Moves(j, at), pending' # None => pending' \in Remembered
    PROVE  JobsAccept'
<1>. DEFINE r == [job[j] EXCEPT !.at = at]
<1>0. job[j] \in JobRecord
  BY DEF JobsAccept
<1>1. r \in JobRecord /\ r.at = at
  BY <1>0 DEF JobRecord
<1>2. job' = [job EXCEPT ![j] = r]
  BY DEF Moves, JobsAccept
<1>. HIDE DEF r
<1>. QED
  BY <1>1, <1>2, JobChanges DEF Places, Results

LEMMA JobEnds ==
    ASSUME JobsAccept, NEW j \in Threads, NEW result \in Results,
           Ends(j, result), pending' # None => pending' \in Remembered
    PROVE  JobsAccept'
<1>. DEFINE r == [job[j] EXCEPT !.at = "done", !.result = result]
<1>0. job[j] \in JobRecord /\ "done" \in Places
  BY DEF JobsAccept, Places
<1>1. r \in JobRecord /\ r.at = "done"
  BY <1>0 DEF JobRecord
<1>2. job' = [job EXCEPT ![j] = r]
  BY DEF Ends, JobsAccept, JobRecord
<1>. HIDE DEF r
<1>. QED
  BY <1>1, <1>2, JobChanges DEF Places, Results

LEMMA JobFails ==
    ASSUME JobsAccept, NEW j \in Threads, Fails(j), pending' = pending
    PROVE  JobsAccept'
BY JobEnds DEF Fails, JobsAccept, Places, Results

(***************************************************************************)
(* What each kind of step does to the offers and to the jobs               *)
(***************************************************************************)
LEMMA MessagesComeIn ==
    ASSUME JobsAccept, NEW j \in Threads, NEW m \in Messages, CreateChatJob(j, m)
    PROVE  UNCHANGED energy /\ JobsAccept'
<1>. DEFINE r == [job[j] EXCEPT !.at = "queued", !.ask = m.ask, !.reply = m.reply]
<1>1. m.ask \in {"buy", "buyAndWait", "energy", "other"} /\ m.reply \in {"yes", "no", "none"}
  BY MessagesAreMessages
<1>2. r \in JobRecord /\ r.at = "queued"
  <2>1. job[j] \in JobRecord /\ "queued" \in Places
    BY DEF JobsAccept, Places
  <2>. QED
    BY <1>1, <2>1 DEF JobRecord
<1>3. job' = [job EXCEPT ![j] = r]
  BY DEF CreateChatJob, JobsAccept, JobRecord
<1>4. pending' = pending /\ UNCHANGED energy
  BY DEF CreateChatJob
<1>. HIDE DEF r
<1>5. JobsAccept'
  BY <1>2, <1>3, <1>4, JobChanges DEF JobsAccept, Places, Results
<1>. QED
  BY <1>4, <1>5

LEMMA PurchasesGoOn ==
    ASSUME JobsAccept, NEW j \in Threads,
           \/ RunChatJob(j) \/ NoWinner(j)
           \/ \E q \in Quotes : Tournament(j, q)
           \/ \E a \in Approvals : RequestApproval(j, a)
           \/ RememberApproval(j) \/ PollApproval(j) \/ WaitEnds(j)
           \/ TakePending(j) \/ DecidePending(j)
    PROVE  UNCHANGED energy /\ JobsAccept'
<1>1. CASE RunChatJob(j)
  BY <1>1, JobMoves, JobEnds DEF RunChatJob, JobsAccept, Places, Results
<1>2. CASE NoWinner(j)
  BY <1>2, JobEnds DEF NoWinner, JobsAccept, Places, Results
<1>3. CASE \E q \in Quotes : Tournament(j, q)
  <2>1. PICK q \in Quotes : Tournament(j, q)
    BY <1>3
  <2>. DEFINE r == [job[j] EXCEPT !.at = "approve", !.quote = q]
  <2>0. job[j] \in JobRecord /\ "approve" \in Places
    BY DEF JobsAccept, Places
  <2>2. r \in JobRecord /\ r.at = "approve"
    BY <2>0 DEF JobRecord
  <2>3. job' = [job EXCEPT ![j] = r] /\ pending' = pending /\ UNCHANGED energy
    BY <2>1 DEF Tournament, JobsAccept, JobRecord
  <2>. HIDE DEF r
  <2>. QED
    BY <2>2, <2>3, JobChanges DEF JobsAccept, Places, Results
<1>4. CASE \E a \in Approvals : RequestApproval(j, a)
  <2>1. PICK a \in Approvals : RequestApproval(j, a)
    BY <1>4
  <2>. DEFINE r == [job[j] EXCEPT !.at = "remember", !.approval = a]
  <2>0. job[j] \in JobRecord /\ "remember" \in Places
    BY DEF JobsAccept, Places
  <2>2. r \in JobRecord /\ r.at = "remember"
    BY <2>0 DEF JobRecord
  <2>3. /\ job' = [job EXCEPT ![j] = r] \/ Fails(j)
        /\ pending' = pending /\ UNCHANGED energy
    BY <2>1 DEF RequestApproval, JobsAccept, JobRecord
  <2>. HIDE DEF r
  <2>. QED
    BY <2>2, <2>3, JobChanges, JobFails DEF JobsAccept, Places, Results
<1>5. CASE RememberApproval(j)
  <2>1. /\ pending' = [quote |-> job[j].quote, approval |-> job[j].approval]
        /\ Moves(j, "wait") \/ Ends(j, "asked")
        /\ UNCHANGED energy
    BY <1>5 DEF RememberApproval
  <2>2. pending' \in Remembered
    BY <2>1 DEF JobsAccept, JobRecord, Places, Results, Remembered
  <2>. QED
    BY <2>1, <2>2, JobMoves, JobEnds DEF Places, Results
<1>6. CASE PollApproval(j)
  BY <1>6, JobMoves DEF PollApproval, JobsAccept, Places, Results
<1>7. CASE WaitEnds(j)
  BY <1>7, JobEnds DEF WaitEnds, JobsAccept, Places, Results
<1>8. CASE TakePending(j)
  <2>1. CASE pending = None
    BY <1>8, <2>1, JobEnds DEF TakePending, JobsAccept, Places, Results
  <2>2. CASE pending # None
    <3>. DEFINE r == [job[j] EXCEPT !.at = "deciding", !.quote = pending.quote,
                                    !.approval = pending.approval]
    <3>1. r \in JobRecord /\ r.at = "deciding"
      BY <2>2 DEF JobsAccept, JobRecord, Places, Results, Remembered
    <3>2. job' = [job EXCEPT ![j] = r] /\ pending' = pending /\ UNCHANGED energy
      BY <1>8, <2>2 DEF TakePending, JobsAccept, JobRecord
    <3>. HIDE DEF r
    <3>. QED
      BY <3>1, <3>2, JobChanges DEF JobsAccept, Places, Results
  <2>. QED
    BY <2>1, <2>2
<1>9. CASE DecidePending(j)
  <2>1. /\ Fails(j) \/ Moves(j, "stopped") \/ Moves(j, "checkout")
        /\ pending' = pending /\ UNCHANGED energy
    BY <1>9 DEF DecidePending
  <2>. QED
    BY <2>1, JobFails, JobMoves DEF JobsAccept, Places, Results
<1>. QED
  BY <1>1, <1>2, <1>3, <1>4, <1>5, <1>6, <1>7, <1>8, <1>9

LEMMA CheckoutsGoOn ==
    ASSUME JobsAccept, NEW j \in Threads,
           \/ CheckoutRefused(j) \/ CheckoutReplayed(j) \/ RequestCheckout(j) \/ PayCheckout(j)
           \/ \E c \in Challenges : Challenged(j, c)
           \/ PaymentProceeds(j) \/ PaymentFails(j) \/ PaymentBreaks(j) \/ Paid(j)
           \/ ClearApproval(j) \/ CallLost(j)
    PROVE  UNCHANGED energy /\ JobsAccept'
<1>1. CASE CheckoutRefused(j)
  BY <1>1, JobFails DEF CheckoutRefused
<1>2. CASE CheckoutReplayed(j)
  BY <1>2, JobMoves DEF CheckoutReplayed, JobsAccept, Places, Results
<1>3. CASE RequestCheckout(j)
  BY <1>3, JobMoves DEF RequestCheckout, JobsAccept, Places, Results
<1>4. CASE PayCheckout(j)
  BY <1>4, JobMoves DEF PayCheckout, JobsAccept, Places, Results
<1>5. CASE \E c \in Challenges : Challenged(j, c)
  <2>1. PICK c \in Challenges : Challenged(j, c)
    BY <1>5
  <2>. DEFINE r == [job[j] EXCEPT !.at = "pay", !.by = c]
  <2>2. r \in JobRecord /\ r.at = "pay"
    <3>1. job[j] \in JobRecord /\ "pay" \in Places
      BY DEF JobsAccept, Places, Results
    <3>2. r \in JobRecord
      BY <3>1, JobRecords
    <3>3. r.at = "pay"
      BY <3>1 DEF JobRecord
    <3>. QED
      BY <3>2, <3>3
  <2>3. /\ job' = job \/ job' = [job EXCEPT ![j] = r]
        /\ pending' = pending /\ UNCHANGED energy
    BY <2>1 DEF Challenged, JobsAccept, JobRecord
  <2>. HIDE DEF r
  <2>. QED
    BY <2>2, <2>3, JobChanges, JobsStay DEF JobsAccept, chat, Places, Results
<1>6. CASE PaymentProceeds(j)
  BY <1>6, JobsStay DEF PaymentProceeds
<1>7. CASE PaymentFails(j)
  BY <1>7, JobsStay, JobFails DEF PaymentFails, chat
<1>8. CASE Paid(j)
  BY <1>8, JobsStay, JobMoves DEF Paid, chat, JobsAccept, Places, Results
<1>9. CASE ClearApproval(j)
  <2>1. /\ pending' = pending \/ pending' = None
        /\ Ends(j, job[j].at) /\ UNCHANGED energy
    BY <1>9 DEF ClearApproval, Forgot
  <2>2. job[j].at \in Results
    BY DEF JobsAccept, JobRecord, Results
  <2>. QED
    BY <2>1, <2>2, JobEnds DEF JobsAccept, Places, Results
<1>10. CASE CallLost(j)
  BY <1>10, JobFails DEF CallLost
<1>11. CASE PaymentBreaks(j)
  BY <1>11, JobsStay, JobFails DEF PaymentBreaks, chat
<1>. QED
  BY <1>1, <1>2, <1>3, <1>4, <1>5, <1>6, <1>7, <1>8, <1>9, <1>10, <1>11

LEMMA EnergyJobsGoOn ==
    ASSUME EInv, JobsAccept, NEW j \in Threads,
           \/ \E o \in Offers : OfferEnergy(j, o)
           \/ NotOfferable(j) \/ AcceptEnergy(j) \/ AcceptRefused(j) \/ EnergySettled(j)
    PROVE  EInv' /\ JobsAccept'
<1>. j \in Neighbours
  BY JobsAreNeighbours
<1>1. CASE \E o \in Offers : OfferEnergy(j, o)
  <2>1. PICK o \in Offers, s \in Readings : OfferEnergy(j, o) /\ CreateEnergyOffer(o, s)
    BY <1>1 DEF OfferEnergy
  <2>. DEFINE r == [job[j] EXCEPT !.at = "accept", !.by = o]
  <2>2. r \in JobRecord /\ r.by = o
    <3>1. job[j] \in JobRecord /\ "accept" \in Places
      BY DEF JobsAccept, Places, Results
    <3>2. r \in JobRecord
      BY <3>1, JobRecords
    <3>3. r.by = o
      BY <3>1 DEF JobRecord
    <3>. QED
      BY <3>2, <3>3
  <2>3. job' = [job EXCEPT ![j] = r] /\ pending' = pending
    BY <2>1 DEF OfferEnergy, JobsAccept, JobRecord
  <2>. HIDE DEF r
  <2>4. JobsAccept'
    BY <2>2, <2>3, JobChanges DEF JobsAccept, Places, Results
  <2>. QED
    BY <2>1, <2>4, CreateKeeps
<1>2. CASE NotOfferable(j)
  BY <1>2, JobEnds, EnergyStays DEF NotOfferable, JobsAccept, Places, Results
<1>3. CASE AcceptEnergy(j)
  <2>1. job[j].by \in Offers /\ BeginAccept(j, job[j].by) /\ Moves(j, "settling")
        /\ pending' = pending
    BY <1>3 DEF AcceptEnergy, JobsAccept
  <2>. QED
    BY <2>1, BeginAcceptKeeps, JobMoves DEF JobsAccept, Places, Results
<1>4. CASE AcceptRefused(j)
  <2>1. /\ OffersSaved(WithExpired(offer)) /\ proving' = proving /\ proofs' = proofs
        /\ Fails(j) /\ pending' = pending
    BY <1>4 DEF AcceptRefused, RefuseAccept
  <2>. QED
    BY <2>1, ExpiringKeeps, JobFails
<1>5. CASE EnergySettled(j)
  <2>1. Settle(j) /\ (job' = job \/ Ends(j, "traded")) /\ pending' = pending
    BY <1>5 DEF EnergySettled
  <2>. QED
    BY <2>1, SettleKeeps, JobsStay, JobEnds DEF JobsAccept, chat, Places, Results
<1>. QED
  BY <1>1, <1>2, <1>3, <1>4, <1>5

LEMMA OthersGoOn ==
    ASSUME EInv, JobsAccept,
           \/ \E a \in Approvals, d \in {"approved", "rejected"} : DecidedElsewhere(a, d)
           \/ NeighbourAccepts \/ TimePasses \/ OfferTimePasses \/ GatewayCrash
    PROVE  EInv' /\ JobsAccept'
<1>1. CASE \E a \in Approvals, d \in {"approved", "rejected"} : DecidedElsewhere(a, d)
  <2>1. UNCHANGED <<energy, chat>>
    BY <1>1 DEF DecidedElsewhere
  <2>. QED
    BY <2>1, EnergyStays, JobsStay
<1>2. CASE NeighbourAccepts
  <2>1. JobsAccept'
    BY <1>2, JobsStay DEF NeighbourAccepts
  <2>2. PICK n \in Neighbours :
           Settle(n) \/ \E o \in Offers : BeginAccept(n, o) \/ RefuseAccept(n, o)
    BY <1>2 DEF NeighbourAccepts
  <2>3. ASSUME NEW o \in Offers, RefuseAccept(n, o)
        PROVE  EInv'
    BY <2>3, ExpiringKeeps DEF RefuseAccept
  <2>. QED
    BY <2>1, <2>2, <2>3, SettleKeeps, BeginAcceptKeeps
<1>3. CASE TimePasses
  BY <1>3, EnergyStays, JobsStay DEF TimePasses
<1>4. CASE OfferTimePasses
  <2>1. JobsAccept'
    BY <1>4, JobsStay DEF OfferTimePasses
  <2>2. CASE ListEnergyOffers
    BY <2>1, <2>2, ExpiringKeeps DEF ListEnergyOffers
  <2>3. CASE \E o \in Offers : OfferExpires(o)
    <3>1. UNCHANGED <<offer, offerFile, proving, proofs>>
      BY <2>3 DEF OfferExpires
    <3>. QED
      BY <2>1, <3>1, OffersStay
  <2>. QED
    BY <1>4, <2>1, <2>2, <2>3 DEF OfferTimePasses
<1>5. CASE GatewayCrash
  <2>1. EInv'
    BY <1>5, CrashKeeps DEF GatewayCrash
  <2>2. pending' = pending
    BY <1>5 DEF GatewayCrash
  <2>. DEFINE gone(j) == [job[j] EXCEPT !.at = "done", !.result = "failed"]
  <2>3. ASSUME NEW j \in Threads
        PROVE  gone(j) \in JobRecord /\ gone(j).at = "done"
    <3>1. job[j] \in JobRecord /\ "done" \in Places /\ "failed" \in Results
      BY DEF JobsAccept, Places, Results
    <3>2. gone(j) \in JobRecord
      BY <3>1, JobRecords
    <3>3. gone(j).at = "done"
      BY <3>1 DEF JobRecord
    <3>. QED
      BY <3>2, <3>3
  <2>4. job' = [j \in Threads |->
                  IF job[j].at \in {"asked", "paying", "settling"} THEN gone(j) ELSE job[j]]
    BY <1>5 DEF GatewayCrash
  <2>. HIDE DEF gone
  <2>5. JobsAccept'
    BY <2>2, <2>3, <2>4 DEF JobsAccept
  <2>. QED
    BY <2>1, <2>5
<1>. QED
  BY <1>1, <1>2, <1>3, <1>4, <1>5

(***************************************************************************)
(* Theorems                                                                *)
(***************************************************************************)
LEMMA ChatStarts == ASSUME ChatInit PROVE EInv /\ JobsAccept
<1>1. EInv
  BY EnergyStarts DEF ChatInit
<1>2. JobsAccept
  BY DEF ChatInit, NoJob, JobsAccept, JobRecord, Places, Results
<1>. QED
  BY <1>1, <1>2

LEMMA ChatGoesOn == ASSUME EInv, JobsAccept, [ChatNext]_home PROVE EInv' /\ JobsAccept'
<1>1. CASE UNCHANGED home
  BY <1>1, EnergyStays, JobsStay DEF home
<1>2. ASSUME NEW j \in Threads, JobStep(j) \/ CallLost(j) \/ \E m \in Messages : CreateChatJob(j, m)
      PROVE  EInv' /\ JobsAccept'
  BY <1>2, MessagesComeIn, PurchasesGoOn, CheckoutsGoOn, EnergyJobsGoOn, EnergyStays DEF JobStep
<1>. QED
  BY <1>1, <1>2, OthersGoOn DEF ChatNext

\* In every household, with any neighbours and readings, no offer of energy is
\* paid for twice or settled with another acceptance than its own, whatever the
\* jobs, listings and crashes do meanwhile (accept_energy_offer), and each was
\* backed by what the sensors showed (energy_surplus).
THEOREM EnergyHolds == ChatSpec => []EnergyIsSoldOnce
<1>1. ChatInit => EInv /\ JobsAccept
  BY ChatStarts
<1>2. EInv /\ JobsAccept /\ [ChatNext]_home => EInv' /\ JobsAccept'
  BY ChatGoesOn
<1>3. EInv => EnergyIsSoldOnce
  BY InvariantSuffices
<1>. QED
  BY <1>1, <1>2, <1>3, PTL DEF ChatSpec

(***************************************************************************)
(* Jobs as requests of the gateway                                         *)
(***************************************************************************)
\* Where a job knows its quote, and where it knows its approval too.
WithApproval == {"remember", "wait", "deciding", "checkout", "asked", "pay", "paying",
                 "bought", "stopped"}

Knows(r) ==
    /\ r.at \in WithApproval \cup {"approve"} => r.quote \in Quotes
    /\ r.at \in WithApproval => r.approval \in Approvals
    /\ r.at = "pay" => r.by \in Challenges
    /\ r.result # "none" => r.at = "done"

SlotKnows == pending # None => pending.quote \in Quotes /\ pending.approval \in Approvals

\* A request of a job is keyed with its approval, and it is the approval of its
\* job until that has given up.
Fits(c, r) ==
    c.at # "idle" => /\ c.key = c.approval
                     /\ r.at \in {"asked", "paying", "done"}
                     /\ r.at # "done" => c.approval = r.approval

OrdersAreKeyed ==
    \A i \in 1 .. Len(mem.orders) : mem.orders[i].key = mem.orders[i].approval

Ordered(s, a) == \E i \in 1 .. Len(s.orders) : s.orders[i].approval = a

ToldBought(r) == r.at = "bought" \/ r.result = "bought"

\* What a job was told is bought is in the gateway's memory.
MInv ==
    /\ \A j \in Threads : Knows(job[j])
    /\ SlotKnows
    /\ \A j \in Threads : Fits(call[j], job[j])
    /\ OrdersAreKeyed
    /\ \A j \in Threads : ToldBought(job[j]) => Ordered(mem, job[j].approval)

\* The orders in memory and in the file are the same purchases, and an order has
\* an approval that was given.
LEMMA TruthSuffices == ASSUME IInv, JobsAccept, MInv PROVE ToldTheTruth
<1>. SUFFICES ASSUME NEW j \in Threads
              PROVE  /\ job[j].result = "bought" =>
                           \E i \in 1 .. Len(disk.orders) :
                              disk.orders[i].approval = job[j].approval
                     /\ job[j].result = "stopped" /\ mem.approval[job[j].approval].state # "approved" =>
                           \A i \in 1 .. Len(mem.orders) :
                              mem.orders[i].approval # job[j].approval
  BY DEF ToldTheTruth
<1>1. /\ Len(disk.orders) = Len(mem.orders)
      /\ \A i \in 1 .. Len(mem.orders) : mem.orders[i].approval = disk.orders[i].approval
  BY DEF IInv, Mirrored, SamePurchase
<1>2. \A i \in 1 .. Len(mem.orders) : mem.approval[mem.orders[i].approval].state = "approved"
  BY DEF IInv, Covered, Covers
<1>. QED
  BY <1>1, <1>2 DEF MInv, ToldBought, Ordered

(***************************************************************************)
(* Orders are added, and never lose what they were bought for              *)
(***************************************************************************)
\* An order that is new is that of a request.
LEMMA OrdersGrow ==
    ASSUME IInv, [Next]_vars
    PROVE  /\ \A i \in 1 .. Len(mem.orders) :
                 /\ i \in 1 .. Len(mem'.orders)
                 /\ SamePurchase(mem'.orders[i], mem.orders[i])
           /\ \A i \in 1 .. Len(mem'.orders) :
                 \/ i \in 1 .. Len(mem.orders)
                 \/ \E t \in Threads :
                       /\ call[t].at = "created"
                       /\ mem'.orders[i].key = call[t].key
                       /\ mem'.orders[i].approval = call[t].approval
<1>. USE DEF IInv
<1>0. mem.orders \in Seq(OrderRecord) /\ Len(mem.orders) \in Nat
  BY MemoryFacts
<1>1. CASE mem'.orders = mem.orders
  BY <1>1 DEF SamePurchase
<1>2. ASSUME NEW t \in Threads, RecordOrder(t)
      PROVE  /\ \A i \in 1 .. Len(mem.orders) :
                   /\ i \in 1 .. Len(mem'.orders)
                   /\ SamePurchase(mem'.orders[i], mem.orders[i])
             /\ \A i \in 1 .. Len(mem'.orders) :
                   \/ i \in 1 .. Len(mem.orders)
                   \/ /\ call[t].at = "created"
                      /\ mem'.orders[i].key = call[t].key
                      /\ mem'.orders[i].approval = call[t].approval
  <2>. DEFINE o == NewOrder(call[t])
  <2>1. mem'.orders = Append(mem.orders, o) /\ call[t].at = "created"
    BY <1>2, RecordingEffect
  <2>2. o.key = call[t].key /\ o.approval = call[t].approval
    BY DEF NewOrder
  <2>. HIDE DEF o
  <2>3. /\ Len(mem'.orders) = Len(mem.orders) + 1 /\ mem'.orders[Len(mem.orders) + 1] = o
        /\ \A i \in 1 .. Len(mem.orders) : mem'.orders[i] = mem.orders[i]
    BY <1>0, <2>1
  <2>. QED
    BY <1>0, <2>1, <2>2, <2>3 DEF SamePurchase
<1>3. ASSUME NEW t \in Threads, Close(t)
      PROVE  /\ Len(mem'.orders) = Len(mem.orders)
             /\ \A i \in 1 .. Len(mem.orders) : SamePurchase(mem'.orders[i], mem.orders[i])
  BY <1>3, ClosingEffect
<1>4. CASE Prepares
  BY <1>1, <1>4, PreparingEffect
<1>5. CASE Quiet
  BY <1>1, <1>5, QuietEffect
<1>6. CASE Crash
  <2>1. /\ Len(mem'.orders) = Len(mem.orders)
        /\ \A i \in 1 .. Len(mem.orders) : SamePurchase(mem'.orders[i], mem.orders[i])
    BY <1>6, CrashEffect
  <2>. QED
    BY <1>0, <2>1
<1>7. ASSUME NEW t \in Threads, NEW c \in Challenges, CreatePaymentChallenge(t, c)
      PROVE  mem'.orders = mem.orders
  BY <1>7, ChallengingEffect
<1>. QED
  BY <1>1, <1>2, <1>3, <1>4, <1>5, <1>6, <1>7, StepKinds

LEMMA OrdersStay ==
    ASSUME IInv, MInv, [Next]_vars
    PROVE  OrdersAreKeyed' /\ \A a : Ordered(mem, a) => Ordered(mem', a)
<1>1. OrdersAreKeyed'
  <2>. SUFFICES ASSUME NEW i \in 1 .. Len(mem'.orders)
                PROVE  mem'.orders[i].key = mem'.orders[i].approval
    BY DEF OrdersAreKeyed
  <2>. QED
    BY OrdersGrow DEF MInv, OrdersAreKeyed, SamePurchase, Fits
<1>2. \A a : Ordered(mem, a) => Ordered(mem', a)
  BY OrdersGrow DEF Ordered, SamePurchase
<1>. QED
  BY <1>1, <1>2

(***************************************************************************)
(* A step of one job, or of none                                           *)
(***************************************************************************)
LEMMA OneJob ==
    ASSUME IInv, JobsAccept, MInv, [Next]_vars, NEW j \in Threads, NEW r,
           job' = [job EXCEPT ![j] = r], Knows(r), SlotKnows',
           \A t \in Threads \ {j} : call'[t] = call[t],
           Fits(call'[j], r),
           ToldBought(r) => Ordered(mem', r.approval)
    PROVE  MInv'
<1>1. job \in [Threads -> JobRecord]
  BY DEF JobsAccept
<1>2. /\ job'[j] = r /\ \A t \in Threads \ {j} : job'[t] = job[t]
  BY <1>1
<1>3. \A t \in Threads : Knows(job'[t])
  BY <1>2 DEF MInv
<1>4. \A t \in Threads : Fits(call'[t], job'[t])
  BY <1>2 DEF MInv
<1>5. \A t \in Threads : ToldBought(job'[t]) => Ordered(mem', job'[t].approval)
  BY <1>2, OrdersStay DEF MInv
<1>6. (\A t \in Threads : Knows(job[t]))'
  BY <1>3 DEF Knows
<1>7. (\A t \in Threads : Fits(call[t], job[t]))'
  BY <1>4 DEF Fits
<1>8. (\A t \in Threads : ToldBought(job[t]) => Ordered(mem, job[t].approval))'
  BY <1>5 DEF ToldBought, Ordered
<1>. QED
  BY <1>6, <1>7, <1>8, OrdersStay DEF MInv

LEMMA NoJobOf ==
    ASSUME IInv, MInv, [Next]_vars, UNCHANGED <<call, job, pending>>
    PROVE  MInv'
<1>1. (\A t \in Threads : Knows(job[t])) /\ SlotKnows'
  BY DEF MInv, SlotKnows
<1>2. (\A t \in Threads : Knows(job[t]))' /\ (\A t \in Threads : Fits(call[t], job[t]))'
  BY DEF MInv, Knows, Fits
<1>3. (\A t \in Threads : ToldBought(job[t]) => Ordered(mem, job[t].approval))'
  BY OrdersStay DEF MInv, ToldBought, Ordered
<1>. QED
  BY <1>1, <1>2, <1>3, OrdersStay DEF MInv

\* A job that goes on without the gateway, or while it has no request there.
LEMMA JobAlone ==
    ASSUME IInv, JobsAccept, MInv, [Next]_vars, UNCHANGED call, SlotKnows',
           NEW j \in Threads, NEW r, job' = [job EXCEPT ![j] = r], Knows(r),
           r.at = "done" \/ call[j].at = "idle",
           ToldBought(r) => Ordered(mem', r.approval)
    PROVE  MInv'
<1>1. Fits(call'[j], r)
  BY DEF MInv, Fits
<1>. QED
  BY <1>1, OneJob

\* A job ends with what is not a purchase, and gives up what it asked for.
LEMMA JobGivesUp ==
    ASSUME IInv, JobsAccept, MInv, [Next]_vars, UNCHANGED call, SlotKnows',
           NEW j \in Threads, NEW result, result # "bought", Ends(j, result)
    PROVE  MInv'
<1>. DEFINE r == [job[j] EXCEPT !.at = "done", !.result = result]
<1>1. job \in [Threads -> JobRecord]
  BY DEF JobsAccept
<1>2. job' = [job EXCEPT ![j] = r] /\ r.at = "done" /\ r.result = result
  BY <1>1 DEF Ends, JobRecord
<1>. HIDE DEF r
<1>3. Knows(r) /\ ~ToldBought(r)
  BY <1>2 DEF Knows, ToldBought, WithApproval
<1>. QED
  BY <1>2, <1>3, JobAlone

\* A job that has no request at the gateway goes to its next place, where it
\* knows no more than before.
LEMMA JobWalks ==
    ASSUME IInv, JobsAccept, MInv, [Next]_vars, UNCHANGED call, SlotKnows',
           NEW j \in Threads, NEW at, Moves(j, at),
           job[j].at # "done", call[j].at = "idle", at # "pay",
           at \in WithApproval => job[j].at \in WithApproval,
           at # "approve", at = "bought" => Ordered(mem', job[j].approval)
    PROVE  MInv'
<1>. DEFINE r == [job[j] EXCEPT !.at = at]
<1>1. job \in [Threads -> JobRecord]
  BY DEF JobsAccept
<1>2. /\ job' = [job EXCEPT ![j] = r] /\ r.at = at /\ r.quote = job[j].quote
      /\ r.approval = job[j].approval /\ r.result = job[j].result
  BY <1>1 DEF Moves, JobRecord
<1>3. job[j].result = "none"
  BY DEF MInv, Knows
<1>. HIDE DEF r
<1>4. Knows(r) /\ (ToldBought(r) => Ordered(mem', r.approval))
  BY <1>2, <1>3 DEF MInv, Knows, ToldBought
<1>. QED
  BY <1>2, <1>4, JobAlone

(***************************************************************************)
(* What a household does is what the gateway lets anybody do               *)
(***************************************************************************)
\* A step of a job is one of its thread in the gateway, or none.
LEMMA JobsAreRequests ==
    ASSUME MInv, NEW j \in Threads, JobStep(j)
    PROVE  [Next]_vars
<1>0. /\ job[j].at \in WithApproval \cup {"approve"} => job[j].quote \in Quotes
      /\ job[j].at \in WithApproval => /\ job[j].approval \in Approvals
                                       /\ KeyOf(j) \in Keys
      /\ job[j].at = "pay" => job[j].by \in Challenges
  BY KeysAreApprovals DEF MInv, Knows, KeyOf
<1>1. CASE \/ RunChatJob(j) \/ NoWinner(j) \/ RememberApproval(j) \/ PollApproval(j)
           \/ WaitEnds(j) \/ TakePending(j) \/ CheckoutRefused(j) \/ ClearApproval(j)
           \/ \E o \in Offers : OfferEnergy(j, o)
           \/ NotOfferable(j) \/ AcceptEnergy(j) \/ AcceptRefused(j) \/ EnergySettled(j)
  BY <1>1 DEF RunChatJob, NoWinner, RememberApproval, PollApproval, WaitEnds, TakePending,
              CheckoutRefused, ClearApproval, OfferEnergy, NotOfferable, AcceptEnergy,
              AcceptRefused, EnergySettled
<1>2. CASE \E q \in Quotes : Tournament(j, q)
  BY <1>2 DEF Tournament, Next
<1>3. CASE \E a \in Approvals : RequestApproval(j, a)
  BY <1>0, <1>3 DEF RequestApproval, Next
<1>4. CASE DecidePending(j)
  <2>1. Decision(j) \in {"approved", "rejected"} /\ job[j].approval \in Approvals
    BY <1>0, <1>4 DEF DecidePending, Decision, WithApproval
  <2>2. DecideApproval(job[j].approval, Decision(j)) \/ UNCHANGED vars
    BY <1>4 DEF DecidePending
  <2>. QED
    BY <2>1, <2>2 DEF Next
<1>5. CASE CheckoutReplayed(j)
  <2>1. Replay(j, KeyOf(j)) /\ KeyOf(j) \in Keys
    BY <1>0, <1>5 DEF CheckoutReplayed, WithApproval
  <2>. QED
    BY <2>1 DEF Next
<1>6. CASE RequestCheckout(j) \/ PayCheckout(j)
  <2>1. PICK c \in Challenges \cup {None} :
           Checkout(j, job[j].quote, job[j].approval, KeyOf(j), c)
    BY <1>0, <1>6 DEF RequestCheckout, PayCheckout
  <2>2. job[j].quote \in Quotes /\ job[j].approval \in Approvals /\ KeyOf(j) \in Keys
    BY <1>0, <1>6 DEF RequestCheckout, PayCheckout, WithApproval
  <2>. QED
    BY <2>1, <2>2 DEF Next
<1>7. CASE \E c \in Challenges : Challenged(j, c)
  BY <1>7 DEF Challenged, Next
<1>8. CASE PaymentProceeds(j) \/ PaymentFails(j) \/ PaymentBreaks(j) \/ Paid(j)
  BY <1>8 DEF PaymentProceeds, PaymentFails, PaymentBreaks, Paid, Next
<1>. QED
  BY <1>1, <1>2, <1>3, <1>4, <1>5, <1>6, <1>7, <1>8 DEF JobStep

LEMMA HouseholdIsABuyer == ASSUME MInv, [ChatNext]_home PROVE [Next]_vars
<1>1. CASE UNCHANGED home
  BY <1>1 DEF home
<1>2. ASSUME NEW j \in Threads, CallLost(j) \/ \E m \in Messages : CreateChatJob(j, m)
      PROVE  [Next]_vars
  BY <1>2 DEF CallLost, CreateChatJob
<1>3. ASSUME NEW a \in Approvals, NEW d \in {"approved", "rejected"}, DecidedElsewhere(a, d)
      PROVE  [Next]_vars
  BY <1>3 DEF DecidedElsewhere, Next
<1>4. CASE NeighbourAccepts \/ OfferTimePasses
  BY <1>4 DEF NeighbourAccepts, OfferTimePasses
<1>5. CASE TimePasses
  BY <1>5 DEF TimePasses, Next
<1>6. CASE GatewayCrash
  BY <1>6 DEF GatewayCrash, Next
<1>. QED
  BY <1>1, <1>2, <1>3, <1>4, <1>5, <1>6, JobsAreRequests DEF ChatNext

(***************************************************************************)
(* Every step leaves what the jobs know and were told true                 *)
(***************************************************************************)
\* A job at any of these places has no request at the gateway.
LEMMA NoRequest ==
    ASSUME MInv, NEW j \in Threads, job[j].at \notin {"asked", "paying", "done"}
    PROVE  call[j].at = "idle"
BY DEF MInv, Fits

LEMMA SlotStays == ASSUME MInv, pending' = pending PROVE SlotKnows'
BY DEF MInv, SlotKnows

LEMMA PurchasesKeep ==
    ASSUME IInv, JobsAccept, MInv, [Next]_vars, NEW j \in Threads,
           \/ RunChatJob(j) \/ NoWinner(j)
           \/ \E q \in Quotes : Tournament(j, q)
           \/ \E a \in Approvals : RequestApproval(j, a)
           \/ RememberApproval(j) \/ PollApproval(j) \/ WaitEnds(j)
           \/ TakePending(j)
    PROVE  MInv'
<1>. USE DEF WithApproval
<1>0. job \in [Threads -> JobRecord] /\ Knows(job[j])
  BY DEF JobsAccept, MInv
<1>1. CASE RunChatJob(j)
  <2>1. /\ UNCHANGED call /\ SlotKnows' /\ call[j].at = "idle" /\ job[j].at # "done"
        /\ \/ Ends(j, "answered")
           \/ \E at \in {"decide", "offer", "quote"} : Moves(j, at)
    BY <1>1, SlotStays, NoRequest DEF RunChatJob, vars
  <2>. QED
    BY <2>1, JobGivesUp, JobWalks
<1>2. CASE NoWinner(j)
  BY <1>2, SlotStays, JobGivesUp DEF NoWinner, vars
<1>3. CASE \E q \in Quotes : Tournament(j, q)
  <2>1. PICK q \in Quotes : Tournament(j, q)
    BY <1>3
  <2>. DEFINE r == [job[j] EXCEPT !.at = "approve", !.quote = q]
  <2>2. /\ job' = [job EXCEPT ![j] = r] /\ r.at = "approve" /\ r.quote = q
        /\ r.result = job[j].result
    BY <1>0, <2>1 DEF Tournament, JobRecord
  <2>3. /\ job[j].at = "quote" /\ UNCHANGED call /\ SlotKnows'
    BY <2>1, SlotStays DEF Tournament, CreateQuote
  <2>. HIDE DEF r
  <2>4. Knows(r) /\ ~ToldBought(r) /\ call[j].at = "idle"
    BY <1>0, <2>2, <2>3, NoRequest DEF Knows, ToldBought
  <2>. QED
    BY <2>2, <2>3, <2>4, JobAlone
<1>4. CASE \E a \in Approvals : RequestApproval(j, a)
  <2>1. PICK a \in Approvals : RequestApproval(j, a)
    BY <1>4
  <2>. DEFINE r == [job[j] EXCEPT !.at = "remember", !.approval = a]
  <2>2. /\ job[j].at = "approve" /\ UNCHANGED call /\ SlotKnows'
        /\ job' = [job EXCEPT ![j] = r] \/ Fails(j)
    BY <1>0, <2>1, SlotStays DEF RequestApproval, CreateApproval, JobRecord
  <2>3. /\ r.at = "remember" /\ r.quote = job[j].quote /\ r.approval = a
        /\ r.result = job[j].result
    BY <1>0 DEF JobRecord
  <2>. HIDE DEF r
  <2>4. Knows(r) /\ ~ToldBought(r) /\ call[j].at = "idle"
    BY <1>0, <2>2, <2>3, NoRequest DEF Knows, ToldBought
  <2>. QED
    BY <2>2, <2>4, JobAlone, JobGivesUp DEF Fails
<1>5. CASE RememberApproval(j)
  <2>1. /\ job[j].at = "remember" /\ UNCHANGED call /\ call[j].at = "idle"
        /\ pending' = [quote |-> job[j].quote, approval |-> job[j].approval]
        /\ Moves(j, "wait") \/ Ends(j, "asked")
    BY <1>5, NoRequest DEF RememberApproval, vars
  <2>2. SlotKnows'
    BY <1>0, <2>1 DEF Knows, SlotKnows
  <2>. QED
    BY <2>1, <2>2, JobWalks, JobGivesUp
<1>6. CASE PollApproval(j)
  <2>1. /\ job[j].at = "wait" /\ UNCHANGED call /\ call[j].at = "idle" /\ SlotKnows'
        /\ Moves(j, "checkout") \/ Moves(j, "stopped")
    BY <1>6, SlotStays, NoRequest DEF PollApproval, vars
  <2>. QED
    BY <2>1, JobWalks
<1>7. CASE WaitEnds(j)
  BY <1>7, SlotStays, JobGivesUp DEF WaitEnds, vars
<1>8. CASE TakePending(j)
  <2>1. job[j].at = "decide" /\ UNCHANGED call /\ call[j].at = "idle" /\ SlotKnows'
    BY <1>8, SlotStays, NoRequest DEF TakePending, vars
  <2>2. CASE pending = None
    BY <1>8, <2>1, <2>2, JobGivesUp DEF TakePending
  <2>3. CASE pending # None
    <3>. DEFINE r == [job[j] EXCEPT !.at = "deciding", !.quote = pending.quote,
                                    !.approval = pending.approval]
    <3>0. job' = [job EXCEPT ![j] = r]
      BY <1>0, <1>8, <2>3 DEF TakePending
    <3>1. /\ r.at = "deciding" /\ r.quote = pending.quote
          /\ r.approval = pending.approval /\ r.result = job[j].result
      BY <1>0 DEF JobRecord
    <3>. HIDE DEF r
    <3>2. Knows(r) /\ ~ToldBought(r)
      BY <1>0, <2>1, <2>3, <3>1 DEF Knows, ToldBought, MInv, SlotKnows
    <3>. QED
      BY <2>1, <3>0, <3>2, JobAlone
  <2>. QED
    BY <2>2, <2>3
<1>. QED
  BY <1>1, <1>2, <1>3, <1>4, <1>5, <1>6, <1>7, <1>8

\* The order that a key is answered with is that of the approval it is.
LEMMA ReplaysKeep ==
    ASSUME IInv, JobsAccept, MInv, [Next]_vars, NEW j \in Threads, CheckoutReplayed(j)
    PROVE  MInv'
<1>1. /\ job[j].at \in {"checkout", "pay"} /\ Placed(mem, KeyOf(j)) /\ Moves(j, "bought")
      /\ UNCHANGED <<call, mem>> /\ SlotKnows' /\ call[j].at = "idle"
  BY SlotStays, NoRequest DEF CheckoutReplayed, Replay
<1>2. Ordered(mem', job[j].approval)
  BY <1>1 DEF Placed, KeyOf, Ordered, MInv, OrdersAreKeyed
<1>. QED
  BY <1>1, <1>2, JobWalks DEF WithApproval

\* A job asks for a challenge, or pays.
LEMMA RequestsKeep ==
    ASSUME IInv, JobsAccept, MInv, [Next]_vars, NEW j \in Threads,
           RequestCheckout(j) \/ PayCheckout(j)
    PROVE  MInv'
<1>0. job \in [Threads -> JobRecord] /\ Knows(job[j]) /\ call \in [Threads -> Call]
  BY DEF JobsAccept, MInv, IInv, TypeOK
<1>1. PICK at, c :
         /\ at \in {"asked", "paying"}
         /\ job[j].at \in {"checkout", "pay"} /\ Moves(j, at)
         /\ Checkout(j, job[j].quote, job[j].approval, KeyOf(j), c) /\ SlotKnows'
  BY SlotStays DEF RequestCheckout, PayCheckout
<1>. DEFINE r == [job[j] EXCEPT !.at = at]
<1>2. /\ job' = [job EXCEPT ![j] = r] /\ r.at = at /\ r.quote = job[j].quote
      /\ r.approval = job[j].approval /\ r.result = job[j].result
  BY <1>0, <1>1 DEF Moves, JobRecord
<1>. HIDE DEF r
<1>3. /\ \A t \in Threads \ {j} : call'[t] = call[t]
      /\ call'[j].key = job[j].approval /\ call'[j].approval = job[j].approval
  BY <1>0, <1>1 DEF Checkout, KeyOf
<1>4. Knows(r) /\ ~ToldBought(r) /\ Fits(call'[j], r)
  BY <1>0, <1>1, <1>2, <1>3 DEF Knows, ToldBought, Fits, WithApproval
<1>. QED
  BY <1>1, <1>2, <1>3, <1>4, OneJob

\* The thread of a job whose request is over: the job fails, or has given up.
LEMMA AnswersKeep ==
    ASSUME IInv, JobsAccept, MInv, [Next]_vars, SlotKnows', NEW j \in Threads, Done(j),
           NEW r, job' = [job EXCEPT ![j] = r], Knows(r),
           ToldBought(r) => Ordered(mem', r.approval)
    PROVE  MInv'
<1>1. call \in [Threads -> Call]
  BY DEF IInv, TypeOK
<1>2. call'[j].at = "idle" /\ \A t \in Threads \ {j} : call'[t] = call[t]
  BY <1>1 DEF Done, Idle
<1>. QED
  BY <1>2, OneJob DEF Fits

\* Nobody waits for the answer.
LEMMA GoneKeep ==
    ASSUME IInv, JobsAccept, MInv, [Next]_vars, SlotKnows', NEW j \in Threads, Done(j),
           UNCHANGED job
    PROVE  MInv'
<1>1. job' = [job EXCEPT ![j] = job[j]] /\ Knows(job[j])
  BY DEF JobsAccept, MInv
<1>2. ToldBought(job[j]) => Ordered(mem', job[j].approval)
  BY OrdersStay DEF MInv
<1>. QED
  BY <1>1, <1>2, AnswersKeep

LEMMA ChallengesKeep ==
    ASSUME IInv, JobsAccept, MInv, [Next]_vars, NEW j \in Threads, NEW c \in Challenges,
           Challenged(j, c)
    PROVE  MInv'
<1>0. job \in [Threads -> JobRecord] /\ Knows(job[j])
  BY DEF JobsAccept, MInv
<1>1. SlotKnows' /\ Done(j) /\ call[j].at = "challenge"
  BY SlotStays DEF Challenged, CreatePaymentChallenge
<1>2. CASE Gone(j)
  BY <1>1, <1>2, GoneKeep DEF Challenged
<1>3. CASE ~Gone(j)
  <2>. DEFINE r == [job[j] EXCEPT !.at = "pay", !.by = c]
  <2>0. job' = [job EXCEPT ![j] = r]
    BY <1>0, <1>3 DEF Challenged
  <2>1. /\ r.at = "pay" /\ r.by = c /\ r.quote = job[j].quote
        /\ r.approval = job[j].approval /\ r.result = job[j].result
    BY <1>0 DEF JobRecord
  <2>2. job[j].at \in {"asked", "paying"}
    BY <1>1, <1>3 DEF MInv, Fits, Gone
  <2>. HIDE DEF r
  <2>3. Knows(r) /\ ~ToldBought(r)
    BY <1>0, <2>1, <2>2 DEF Knows, ToldBought, WithApproval
  <2>. QED
    BY <1>1, <2>0, <2>3, AnswersKeep
<1>. QED
  BY <1>2, <1>3

\* What goes on in the gateway is still the request of its job.
LEMMA ProceedsKeep ==
    ASSUME IInv, JobsAccept, MInv, [Next]_vars, NEW j \in Threads, PaymentProceeds(j)
    PROVE  MInv'
<1>0. call \in [Threads -> Call]
  BY DEF IInv, TypeOK
<1>1. job' = [job EXCEPT ![j] = job[j]] /\ Knows(job[j]) /\ SlotKnows'
  BY SlotStays DEF JobsAccept, MInv, PaymentProceeds, chat
<1>2. /\ call[j].at # "idle"
      /\ \/ call' = [call EXCEPT ![j].at = "merchant", ![j].month = month]
         \/ \E at \in {"created", "recorded"} : call' = [call EXCEPT ![j].at = at]
  BY DEF PaymentProceeds, BeginPayment, MerchantCreatesOrder, RecordOrder
<1>3. /\ call'[j].key = call[j].key /\ call'[j].approval = call[j].approval
      /\ \A t \in Threads \ {j} : call'[t] = call[t]
  BY <1>0, <1>2 DEF Call
<1>4. Fits(call'[j], job[j]) /\ (ToldBought(job[j]) => Ordered(mem', job[j].approval))
  BY <1>2, <1>3, OrdersStay DEF MInv, Fits
<1>. QED
  BY <1>1, <1>3, <1>4, OneJob

LEMMA FailuresKeep ==
    ASSUME IInv, JobsAccept, MInv, [Next]_vars, NEW j \in Threads,
           PaymentFails(j) \/ PaymentBreaks(j)
    PROVE  MInv'
<1>0. job \in [Threads -> JobRecord]
  BY DEF JobsAccept
<1>1. SlotKnows' /\ Done(j)
  BY SlotStays DEF PaymentFails, PaymentBreaks, RefusePayment, MerchantRefuses,
                   MerchantUnavailable, CheckoutBreaks, Unlock
<1>2. CASE Gone(j)
  BY <1>1, <1>2, GoneKeep DEF PaymentFails, PaymentBreaks
<1>3. CASE ~Gone(j)
  <2>. DEFINE r == [job[j] EXCEPT !.at = "done", !.result = "failed"]
  <2>0. job' = [job EXCEPT ![j] = r]
    BY <1>0, <1>3 DEF PaymentFails, PaymentBreaks, Fails, Ends
  <2>1. r.at = "done" /\ r.result = "failed"
    BY <1>0 DEF JobRecord
  <2>. HIDE DEF r
  <2>2. Knows(r) /\ ~ToldBought(r)
    BY <2>1 DEF Knows, ToldBought, WithApproval
  <2>. QED
    BY <1>1, <2>0, <2>2, AnswersKeep
<1>. QED
  BY <1>2, <1>3

\* A job that is told its purchase is through has its order: the last one.
LEMMA PaidKeeps ==
    ASSUME IInv, JobsAccept, MInv, [Next]_vars, NEW j \in Threads, Paid(j)
    PROVE  MInv'
<1>0. job \in [Threads -> JobRecord] /\ Knows(job[j])
  BY DEF JobsAccept, MInv
<1>1. SlotKnows' /\ Done(j) /\ call[j].at = "recorded"
  BY SlotStays DEF Paid, FinishCheckout, Unlock
<1>2. CASE Gone(j)
  BY <1>1, <1>2, GoneKeep DEF Paid
<1>3. CASE ~Gone(j)
  <2>. DEFINE r == [job[j] EXCEPT !.at = "bought"]
              n == Len(mem.orders)
  <2>1. /\ job' = [job EXCEPT ![j] = r] /\ r.at = "bought" /\ r.result = job[j].result
        /\ r.quote = job[j].quote /\ r.approval = job[j].approval
    BY <1>0, <1>3 DEF Paid, Moves, JobRecord
  <2>2. /\ job[j].at \in {"asked", "paying"}
        /\ call[j].key = call[j].approval /\ call[j].approval = job[j].approval
    BY <1>1, <1>3 DEF MInv, Fits, Gone
  <2>3. n \in 1 .. Len(mem.orders) /\ mem.orders[n].key = call[j].key
    BY <1>1, MemoryFacts DEF IInv, LastIsMine
  <2>. HIDE DEF r, n
  <2>4. Ordered(mem, r.approval)
    BY <2>1, <2>2, <2>3 DEF Ordered, MInv, OrdersAreKeyed
  <2>5. Knows(r) /\ Ordered(mem', r.approval)
    BY <1>0, <2>1, <2>2, <2>4, OrdersStay DEF Knows, WithApproval
  <2>. QED
    BY <1>1, <2>1, <2>5, AnswersKeep
<1>. QED
  BY <1>2, <1>3

\* A job that has bought says so, one that was stopped says that.
LEMMA ClearsKeep ==
    ASSUME IInv, JobsAccept, MInv, [Next]_vars, NEW j \in Threads, ClearApproval(j)
    PROVE  MInv'
<1>0. job \in [Threads -> JobRecord] /\ Knows(job[j])
  BY DEF JobsAccept, MInv
<1>1. /\ job[j].at \in {"bought", "stopped"} /\ UNCHANGED <<call, mem>>
      /\ pending' \in {pending, None} /\ Ends(j, job[j].at)
  BY DEF ClearApproval, Forgot, vars
<1>2. SlotKnows'
  BY <1>1 DEF MInv, SlotKnows
<1>3. CASE job[j].at = "stopped"
  BY <1>1, <1>2, <1>3, JobGivesUp
<1>4. CASE job[j].at = "bought"
  <2>. DEFINE r == [job[j] EXCEPT !.at = "done", !.result = "bought"]
  <2>1. /\ job' = [job EXCEPT ![j] = r] /\ r.at = "done" /\ r.result = "bought"
        /\ r.approval = job[j].approval
    BY <1>0, <1>1, <1>4 DEF Ends, JobRecord
  <2>. HIDE DEF r
  <2>2. Knows(r)
    BY <2>1 DEF Knows, WithApproval
  <2>3. Ordered(mem', r.approval)
    BY <1>1, <1>4, <2>1 DEF MInv, ToldBought, Ordered
  <2>. QED
    BY <1>1, <1>2, <2>1, <2>2, <2>3, JobAlone
<1>. QED
  BY <1>1, <1>3, <1>4

\* The household goes on by what it said.
LEMMA DecisionsKeep ==
    ASSUME IInv, JobsAccept, MInv, [Next]_vars, NEW j \in Threads, DecidePending(j)
    PROVE  MInv'
<1>1. /\ job[j].at = "deciding" /\ UNCHANGED call /\ call[j].at = "idle" /\ SlotKnows'
      /\ Ends(j, "failed") \/ Moves(j, "stopped") \/ Moves(j, "checkout")
  BY SlotStays, NoRequest DEF DecidePending, DecideApproval, vars, Fails
<1>. QED
  BY <1>1, JobGivesUp, JobWalks DEF WithApproval

LEMMA EnergyKeeps ==
    ASSUME IInv, JobsAccept, MInv, [Next]_vars, NEW j \in Threads,
           \/ \E o \in Offers : OfferEnergy(j, o)
           \/ NotOfferable(j) \/ AcceptEnergy(j) \/ AcceptRefused(j) \/ EnergySettled(j)
    PROVE  MInv'
<1>. USE DEF WithApproval
<1>0. job \in [Threads -> JobRecord] /\ Knows(job[j])
  BY DEF JobsAccept, MInv
<1>1. UNCHANGED call /\ SlotKnows' /\ UNCHANGED pending
  BY SlotStays DEF OfferEnergy, NotOfferable, AcceptEnergy, AcceptRefused, EnergySettled, vars
<1>2. CASE \E o \in Offers : OfferEnergy(j, o)
  <2>1. PICK o \in Offers : OfferEnergy(j, o)
    BY <1>2
  <2>. DEFINE r == [job[j] EXCEPT !.at = "accept", !.by = o]
  <2>2. /\ job[j].at = "offer" /\ job' = [job EXCEPT ![j] = r] /\ r.at = "accept"
        /\ r.result = job[j].result
    BY <1>0, <2>1 DEF OfferEnergy, JobRecord
  <2>. HIDE DEF r
  <2>3. Knows(r) /\ ~ToldBought(r) /\ call[j].at = "idle"
    BY <1>0, <2>2, NoRequest DEF Knows, ToldBought
  <2>. QED
    BY <1>1, <2>2, <2>3, JobAlone
<1>3. CASE NotOfferable(j)
  BY <1>1, <1>3, JobGivesUp DEF NotOfferable
<1>4. CASE AcceptEnergy(j)
  <2>1. job[j].at = "accept" /\ Moves(j, "settling") /\ call[j].at = "idle"
    BY <1>4, NoRequest DEF AcceptEnergy
  <2>. QED
    BY <1>1, <2>1, JobWalks
<1>5. CASE AcceptRefused(j)
  BY <1>1, <1>5, JobGivesUp DEF AcceptRefused, Fails
<1>6. CASE EnergySettled(j)
  BY <1>1, <1>6, JobGivesUp, NoJobOf DEF EnergySettled
<1>. QED
  BY <1>2, <1>3, <1>4, <1>5, <1>6

LEMMA OthersKeep ==
    ASSUME IInv, JobsAccept, MInv, [Next]_vars,
           \/ \E a \in Approvals, d \in {"approved", "rejected"} : DecidedElsewhere(a, d)
           \/ NeighbourAccepts \/ TimePasses \/ OfferTimePasses
    PROVE  MInv'
<1>1. UNCHANGED <<call, job, pending>>
  BY DEF DecidedElsewhere, DecideApproval, NeighbourAccepts, TimePasses, OfferTimePasses,
         ExpireStaleApprovals, ApprovalExpires, QuoteExpires, MonthPasses, vars, chat
<1>. QED
  BY <1>1, NoJobOf

\* The gateway forgets the requests, and the jobs that wait for them fail.
LEMMA CrashesKeep ==
    ASSUME IInv, JobsAccept, MInv, [Next]_vars, GatewayCrash
    PROVE  MInv'
<1>0. job \in [Threads -> JobRecord]
  BY DEF JobsAccept
<1>1. SlotKnows' /\ \A t \in Threads : call'[t] = Idle
  BY SlotStays DEF GatewayCrash, Crash
<1>2. ASSUME NEW j \in Threads
      PROVE  \/ job'[j] = job[j]
             \/ job'[j].at = "done" /\ job'[j].result = "failed"
  <2>. DEFINE r == [job[j] EXCEPT !.at = "done", !.result = "failed"]
  <2>1. r.at = "done" /\ r.result = "failed"
    BY <1>0 DEF JobRecord
  <2>2. job'[j] = job[j] \/ job'[j] = r
    BY <1>0 DEF GatewayCrash
  <2>. QED
    BY <2>1, <2>2
<1>3. (\A j \in Threads : Knows(job[j]))'
  BY <1>2 DEF MInv, Knows, WithApproval
<1>4. (\A j \in Threads : Fits(call[j], job[j]))'
  BY <1>1 DEF Fits, Idle
<1>5. (\A j \in Threads : ToldBought(job[j]) => Ordered(mem, job[j].approval))'
  BY <1>2, OrdersStay DEF MInv, ToldBought
<1>. QED
  BY <1>1, <1>3, <1>4, <1>5, OrdersStay DEF MInv

LEMMA ChatKeeps ==
    ASSUME IInv, JobsAccept, MInv, [Next]_vars, [ChatNext]_home
    PROVE  MInv'
<1>1. CASE UNCHANGED home
  BY <1>1, NoJobOf DEF home, vars, chat
<1>2. ASSUME NEW j \in Threads, CallLost(j)
      PROVE  MInv'
  BY <1>2, SlotStays, JobGivesUp DEF CallLost, Fails, vars
<1>3. ASSUME NEW j \in Threads, NEW m \in Messages, CreateChatJob(j, m)
      PROVE  MInv'
  <2>. DEFINE r == [job[j] EXCEPT !.at = "queued", !.ask = m.ask, !.reply = m.reply]
  <2>1. /\ job[j].at = "none" /\ job' = [job EXCEPT ![j] = r] /\ r.at = "queued"
        /\ r.result = job[j].result /\ UNCHANGED call /\ SlotKnows'
    BY <1>3, SlotStays DEF CreateChatJob, JobsAccept, JobRecord, vars
  <2>. HIDE DEF r
  <2>2. Knows(r) /\ ~ToldBought(r) /\ call[j].at = "idle"
    BY <2>1, NoRequest DEF MInv, Knows, ToldBought, WithApproval
  <2>. QED
    BY <2>1, <2>2, JobAlone
<1>4. ASSUME NEW j \in Threads, JobStep(j)
      PROVE  MInv'
  <2>1. CASE \/ RunChatJob(j) \/ NoWinner(j)
             \/ \E q \in Quotes : Tournament(j, q)
             \/ \E a \in Approvals : RequestApproval(j, a)
             \/ RememberApproval(j) \/ PollApproval(j) \/ WaitEnds(j)
             \/ TakePending(j)
    BY <2>1, PurchasesKeep
  <2>2. CASE DecidePending(j) \/ CheckoutReplayed(j) \/ RequestCheckout(j) \/ PayCheckout(j)
    BY <2>2, DecisionsKeep, ReplaysKeep, RequestsKeep
  <2>3. CASE \E c \in Challenges : Challenged(j, c)
    BY <2>3, ChallengesKeep
  <2>4. CASE \/ PaymentProceeds(j) \/ PaymentFails(j) \/ PaymentBreaks(j) \/ Paid(j)
             \/ ClearApproval(j)
    BY <2>4, ProceedsKeep, FailuresKeep, PaidKeeps, ClearsKeep
  <2>5. CASE \/ \E o \in Offers : OfferEnergy(j, o)
             \/ NotOfferable(j) \/ AcceptEnergy(j) \/ AcceptRefused(j) \/ EnergySettled(j)
    BY <2>5, EnergyKeeps
  <2>6. CASE CheckoutRefused(j)
    BY <2>6, SlotStays, JobGivesUp DEF CheckoutRefused, Fails, vars
  <2>. QED
    BY <1>4, <2>1, <2>2, <2>3, <2>4, <2>5, <2>6 DEF JobStep
<1>. QED
  BY <1>1, <1>2, <1>3, <1>4, OthersKeep, CrashesKeep DEF ChatNext

LEMMA MessagesStart == ASSUME ChatInit PROVE IInv /\ MInv
<1>1. IInv
  BY InitEstablishes DEF ChatInit
<1>2. call = [t \in Threads |-> Idle] /\ mem.orders = <<>>
  BY DEF ChatInit, Init, EmptyState
<1>3. MInv
  BY <1>2 DEF ChatInit, NoJob, Idle, MInv, Knows, SlotKnows, Fits, OrdersAreKeyed, ToldBought,
             WithApproval
<1>. QED
  BY <1>1, <1>3

\* Whatever is said to the assistant, by however many at once, whatever is lost
\* or decided on a phone and whenever the gateway crashes: who was told that it
\* is bought has an order in the gateway's file, and what was said to be stopped
\* is bought by nobody (agentcart_buy_requested_product,
\* agentcart_decide_pending_purchase, clear_agentcart_approval).
THEOREM HouseholdHolds == ChatSpec => []ToldTheTruth
<1>. DEFINE HInv == EInv /\ JobsAccept /\ IInv /\ MInv
<1>1. ChatInit => HInv
  BY ChatStarts, MessagesStart
<1>2. HInv /\ [ChatNext]_home => HInv'
  BY ChatGoesOn, HouseholdIsABuyer, StepPreserves, ChatKeeps
<1>3. HInv => ToldTheTruth
  BY TruthSuffices
<1>. QED
  BY <1>1, <1>2, <1>3, PTL DEF ChatSpec

\* A household is a buyer of the gateway like any other: whatever its assistant
\* does is a step of the gateway's own specification or none of it, so what holds
\* of every gateway holds of the one that the household uses (AgentCartClient).
THEOREM HouseholdBuys == ChatSpec => Spec
<1>. DEFINE HInv == EInv /\ JobsAccept /\ IInv /\ MInv
<1>1. ChatInit => HInv /\ Init
  BY ChatStarts, MessagesStart DEF ChatInit
<1>2. HInv /\ [ChatNext]_home => HInv'
  BY ChatGoesOn, HouseholdIsABuyer, StepPreserves, ChatKeeps
<1>3. HInv /\ [ChatNext]_home => [Next]_vars
  BY HouseholdIsABuyer
<1>. QED
  BY <1>1, <1>2, <1>3, PTL DEF ChatSpec, Spec
=============================================================================
