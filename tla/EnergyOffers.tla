----------------------------- MODULE EnergyOffers -----------------------------
(***************************************************************************)
(* Offers of surplus energy (create_energy_offer, accept_energy_offer of   *)
(* gateway/agentcart.py).  Accepting takes the lock of the service twice;  *)
(* in between the payment is proven.  A proof that fails is recorded like  *)
(* one that succeeds.                                                      *)
(***************************************************************************)
EXTENDS Integers

CONSTANTS Offers, Neighbours,
          Readings,               \* what Home Assistant may answer
          MinExport, MinBattery,  \* thresholds of an offer
          FullBattery             \* max(MinBattery, 90)

ASSUME NoneIsNoOffer == "none" \notin Offers

\* What is imported and what the household uses is shown as it is, never below 0.
ASSUME ReadingsAreReadings ==
    /\ MinExport \in Nat \ {0} /\ MinBattery \in Nat /\ FullBattery \in Nat
    /\ \A s \in Readings :
          /\ s = [real |-> s.real, failed |-> s.failed]
          /\ s.real \in [{"solar", "output", "export", "import", "battery"} -> Int]
          /\ s.real["import"] >= 0 /\ s.real["output"] >= 0

NoOffer == [state |-> "none", acceptance |-> 0, settled |-> 0, reading |-> "none"]

VARIABLES offer,     \* state["energy_offers"]
          offerFile, \* the same in the state file
          stale,     \* offers past valid_until
          proving,   \* the acceptance each neighbour is having proven
          proofs     \* payments proven for each offer

energy == <<offer, offerFile, stale, proving, proofs>>

EnergyInit ==
    /\ offer = [o \in Offers |-> NoOffer]
    /\ offerFile = offer
    /\ stale = {}
    /\ proving = [n \in Neighbours |-> [offer |-> "none", acceptance |-> 0]]
    /\ proofs = [o \in Offers |-> 0]

OffersSaved(f) == offer' = f /\ offerFile' = f

(***************************************************************************)
(* A reading is what each sensor would show and which of them fail.  A     *)
(* sensor that fails counts as zero watts, a battery that fails as unknown. *)
(***************************************************************************)
\* numeric_state
Watts(s, sensor) == IF sensor \in s.failed THEN 0 ELSE s.real[sensor]

\* Faulty variant: the level of a battery that fails is not asked for.
BatteryOrUnknown(s, level) == "battery" \in s.failed \/ s.real["battery"] >= level

BatteryAtLeast(s, level) == "battery" \notin s.failed /\ s.real["battery"] >= level

Exceeds(s, from, over) == Watts(s, from) >= Watts(s, over) + MinExport

\* energy_surplus: exported, left over by the household, or backed by a battery
\* that is full.
Offerable(s) ==
    /\ \/ Exceeds(s, "export", "import")
       \/ Exceeds(s, "solar", "output")
       \/ Watts(s, "solar") >= MinExport /\ BatteryAtLeast(s, FullBattery)
    /\ BatteryAtLeast(s, MinBattery)

\* The telemetry goes into the offer as it was read.
CreateEnergyOffer(o, s) ==
    /\ offer[o].state = "none"
    /\ Offerable(s)
    /\ OffersSaved([offer EXCEPT ![o].state = "open", ![o].reading = s])
    /\ UNCHANGED <<stale, proving, proofs>>

OfferExpires(o) ==
    /\ offer[o].state = "open"
    /\ stale' = stale \cup {o}
    /\ UNCHANGED <<offer, offerFile, proving, proofs>>

\* expire_energy_offers_locked
WithExpired(f) ==
    [o \in Offers |-> IF f[o].state = "open" /\ o \in stale
                      THEN [f[o] EXCEPT !.state = "expired"] ELSE f[o]]

ListEnergyOffers ==
    /\ WithExpired(offer) # offer
    /\ OffersSaved(WithExpired(offer))
    /\ UNCHANGED <<stale, proving, proofs>>

Accepting(f, o) ==
    [f EXCEPT ![o].state = "accepting", ![o].acceptance = @ + 1]

\* Faulty variant: an offer that is being accepted can be accepted.
BeginAcceptAgain(n, o) ==
    LET f == WithExpired(offer) IN
    /\ proving[n].offer = "none"
    /\ f[o].state \in {"open", "accepting"}
    /\ OffersSaved(Accepting(f, o))
    /\ proving' = [proving EXCEPT ![n] = [offer |-> o, acceptance |-> f[o].acceptance + 1]]
    /\ UNCHANGED <<stale, proofs>>

BeginAccept(n, o) ==
    LET f == WithExpired(offer) IN
    /\ proving[n].offer = "none"
    /\ f[o].state = "open"
    /\ OffersSaved(Accepting(f, o))
    /\ proving' = [proving EXCEPT ![n] = [offer |-> o, acceptance |-> f[o].acceptance + 1]]
    /\ UNCHANGED <<stale, proofs>>

RefuseAccept(n, o) ==
    LET f == WithExpired(offer) IN
    /\ proving[n].offer = "none"
    /\ f[o].state \notin {"none", "open"}
    /\ OffersSaved(f)
    /\ UNCHANGED <<stale, proving, proofs>>

\* The value proof, then the settlement.
Settle(n) ==
    LET p == proving[n] IN
    /\ p.offer # "none"
    /\ OffersSaved([offer EXCEPT ![p.offer].state = "accepted",
                                 ![p.offer].settled = p.acceptance])
    /\ proofs' = [proofs EXCEPT ![p.offer] = @ + 1]
    /\ proving' = [proving EXCEPT ![n] = [offer |-> "none", acceptance |-> 0]]
    /\ UNCHANGED stale

\* An acceptance whose proof was under way is not taken up again.
EnergyCrash ==
    /\ offer' = offerFile
    /\ proving' = [n \in Neighbours |-> [offer |-> "none", acceptance |-> 0]]
    /\ UNCHANGED <<offerFile, stale, proofs>>

(***************************************************************************)
(* Properties                                                              *)
(***************************************************************************)
\* An offer is paid for once and settled with the acceptance it was given,
\* although the payment is proven without the lock and neighbours, listings and
\* crashes come in between (accept_energy_offer).
OfferPaidOnce ==
    \A o \in Offers :
        /\ proofs[o] <= 1
        /\ offer[o].settled \in {0, offer[o].acceptance}
        /\ offer[o].state = "accepted" <=> offer[o].settled > 0

\* No failing sensor makes an offer that the household could not have made had
\* the sensor answered, unless it is one of those that show what is consumed
\* (energy_surplus takes both for zero then, in favour of the offer).
OffersAreBacked ==
    \A o \in Offers :
        LET s == offer[o].reading IN
        offer[o].state # "none" /\ s.failed \subseteq {"solar", "export", "battery"} =>
            Offerable([s EXCEPT !.failed = {}])

\* What is offered is there, and it is sold once (create_energy_offer and
\* accept_energy_offer).
EnergyIsSoldOnce == OfferPaidOnce /\ OffersAreBacked
=============================================================================
