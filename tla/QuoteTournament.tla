--------------------------- MODULE QuoteTournament ---------------------------
(***************************************************************************)
(* The quote tournament of the buyer gateway (gateway/agentcart.py and     *)
(* shopbridge_market.py): one request searches the catalogues of all       *)
(* merchant adapters, reads the registry document, draws the products it   *)
(* asks quotes for, and ranks the offers.                                  *)
(*                                                                         *)
(* The lock is held for the search only.  Between any two steps the        *)
(* registry may change and the adapters may be built again; new adapters   *)
(* know no product until someone searches them.                            *)
(***************************************************************************)
EXTENDS Naturals, FiniteSets, Sequences, SequencesExt

CONSTANTS Products,
          Terms,     \* what may be offered
          Nothing,   \* no merchant, no currency
          Markets

(***************************************************************************)
(* A market says: kind, what adapter each merchant has ("demo", "woo" or   *)
(* "registry"); order, the merchants as the adapters are looked through;   *)
(* lists, the products of each catalogue; claims, the merchant a woo store *)
(* says its products are of; unfit, products not for agents or not shipped *)
(* to the buyer; alias, products whose id reads as the household's         *)
(* favourite, and fallback, the demo product that stands for it; limit and *)
(* size, merchants to contact and candidates to show; currency, the one    *)
(* asked for, or Nothing; strict, only verified merchants; changes, how    *)
(* often the registry or the adapters change (a bound).                    *)
(* An offer has a total, a currency, the latest day of delivery, whether   *)
(* the policy denies it, and whether a rail to pay it on is ready.         *)
(***************************************************************************)
ASSUME MarketsAreMarkets ==
    \A m \in Markets :
        IsFiniteSet(DOMAIN m.kind) /\ m.limit \in Nat /\ m.size \in Nat \ {0}
ASSUME TermsHaveTotals ==
    \A t \in Terms : t.total \in Int /\ t.latest \in Int /\ t.denied \in BOOLEAN

VARIABLES market,    \* chosen once
          verified,  \* merchants of the registry whose record verifies
          rejected,  \* those whose record is listed and does not
          adapters,  \* merchants with an adapter
          known,     \* the products each adapter knows
          changes,   \* of the registry or the adapters so far
          run        \* the tournament

tournamentVars == <<market, verified, rejected, adapters, known, changes, run>>

Merchants == DOMAIN market.kind

OfKind(kind) == {m \in Merchants : market.kind[m] = kind}

Static == OfKind("demo") \cup OfKind("woo")

\* What an adapter knows before anyone has searched it.
Fresh == [m \in Merchants |->
            IF market.kind[m] = "demo" THEN market.lists[m] ELSE {}]

Waiting == [at |-> "idle", catalog |-> {}, entries |-> <<>>, drawn |-> <<>>, next |-> 1,
            offers |-> {}, failed |-> {}, shown |-> {}, others |-> {}, winner |-> {}]

TournamentInit ==
    /\ market \in Markets
    /\ verified = OfKind("registry")
    /\ rejected = {}
    /\ adapters = Merchants
    /\ known = Fresh
    /\ changes = 0
    /\ run = Waiting

(***************************************************************************)
(* Adapters                                                                *)
(***************************************************************************)
\* The local products of the demo shop.
DemoCatalog(m) == {<<m, p>> : p \in market.lists[m]}

\* A woo store names the merchant of its products itself.
WooCatalog(m) == {<<market.claims, p>> : p \in market.lists[m]}

\* A registry adapter remembers what its catalogue answered.
RegistryCatalog(m) == {<<m, p>> : p \in market.lists[m]}

Catalog(m) ==
    CASE market.kind[m] = "demo" -> DemoCatalog(m)
      [] market.kind[m] = "woo"  -> WooCatalog(m)
      [] OTHER                   -> RegistryCatalog(m)

FullCatalog == UNION {Catalog(m) : m \in adapters}

Searched == [m \in Merchants |->
               IF m \in adapters /\ market.kind[m] = "registry"
               THEN market.lists[m] ELSE known[m]]

Known(p) ==
    \E m \in adapters :
        p \in known[m] \/ (market.kind[m] = "woo" /\ p \in market.lists[m])

\* An id that no adapter knows and that reads as the favourite stands for the
\* first product a new search finds.
Substituted(p) == ~Known(p) /\ p \in market.alias

Resolved(p) ==
    IF Substituted(p) THEN {c[2] : c \in FullCatalog} \cup {market.fallback} ELSE {p}

\* The id as adapter_for_product looks for it.
Canonical(p) == IF p \in market.alias THEN market.fallback ELSE p

\* The first adapter that knows the id; ids of a woo store have its prefix.
Holds(m, p) ==
    /\ m \in adapters
    /\ p \in IF market.kind[m] = "woo" THEN market.lists[m] ELSE known[m]

Holders(p) ==
    {m \in adapters :
        \E i \in 1 .. Len(market.order) :
            /\ market.order[i] = m /\ Holds(m, p)
            /\ \A j \in 1 .. i - 1 : ~Holds(market.order[j], p)}

\* A remote store quotes whatever it has, a local one its own products only.
Quotable(m, p) == market.kind[m] = "demo" => p \in market.lists[m]

QuotesFor(p) ==
    {c \in adapters \X Products :
        c[2] \in Resolved(p) /\ c[1] \in Holders(Canonical(c[2])) /\ Quotable(c[1], c[2])}

(***************************************************************************)
(* The tournament                                                          *)
(***************************************************************************)
Search ==
    /\ run.at = "idle"
    /\ known' = Searched
    /\ run' = [run EXCEPT !.at = "searched", !.catalog = FullCatalog]
    /\ UNCHANGED <<market, verified, rejected, adapters, changes>>

\* One catalogue that cannot be read fails the whole search.
SearchFails ==
    /\ run.at = "idle"
    /\ adapters \cap OfKind("registry") # {}
    /\ run' = [run EXCEPT !.at = "failed"]
    /\ UNCHANGED <<market, verified, rejected, adapters, known, changes>>

\* generated_registry_entry: an adapter without a record counts as configured
\* here.
Generated(m) == IF m \in adapters THEN "local" ELSE "absent"

\* What the registry document says of a merchant.
EntryOf(m) ==
    CASE m \in verified -> "verified"
      [] m \in rejected -> "rejected"
      [] OTHER          -> Generated(m)

Smaller(m, n) == IF m < n THEN m ELSE n

Lists(S, n) ==
    {s \in [1 .. Smaller(Cardinality(S), n) -> S] :
        \A i, j \in DOMAIN s : s[i] = s[j] => i = j}

OfMerchant(m) == {c \in run.catalog : c[1] = m}

PerMerchant == 2

\* One product of each merchant, then the second of each.
InTurns(ms, queue) ==
    FlattenSeq([r \in 1 .. PerMerchant |->
        FlattenSeq([i \in 1 .. Len(ms) |->
            IF r \in DOMAIN queue[ms[i]] THEN <<queue[ms[i]][r]>> ELSE <<>>])])

\* The order is that of hashes with a random nonce.
ReadDocument ==
    /\ run.at = "searched"
    /\ \E ms \in Lists({c[1] : c \in run.catalog}, market.limit) :
       \E queue \in [ToSet(ms) -> UNION {Lists(OfMerchant(m), PerMerchant) : m \in ToSet(ms)}] :
          /\ \A m \in ToSet(ms) : queue[m] \in Lists(OfMerchant(m), PerMerchant)
          /\ run' = [run EXCEPT !.at = "quoting",
                                !.entries = [m \in Merchants |-> EntryOf(m)],
                                !.drawn = InTurns(ms, queue)]
    /\ UNCHANGED <<market, verified, rejected, adapters, known, changes>>

Trusted(m) ==
    market.strict =>
        m \in Merchants /\ run.entries[m] \in {"verified", "local"}

Wanted == run.drawn[run.next]

Asking == run.at = "quoting" /\ run.next <= Len(run.drawn)

Refused == [run EXCEPT !.next = @ + 1, !.failed = @ \cup {Wanted}]

\* Not for this buyer, not verified, or the merchant or its adapter refuses.
RejectProduct ==
    /\ Asking
    /\ run' = Refused
    /\ UNCHANGED <<market, verified, rejected, adapters, known, changes>>

\* Faulty variant: whoever quoted is taken for the merchant that was selected.
AcceptsAnyMerchant(m) == TRUE

\* The quote is of the merchant that was selected and checked.
AcceptsMerchant(m) == m = Wanted[1]

\* quote_payment_readiness: any protocol that is offered is available and needs
\* no setup; without protocols, the gateway's own provider is supported.
PaymentReady(offer) ==
    IF offer.protocols = {} THEN market.provider ELSE "usable" \in offer.protocols

\* A quote counts if it is the selected merchant's and a rail is ready.
CollectQuote(offer) ==
    /\ Asking
    /\ Wanted \notin market.unfit
    /\ Trusted(Wanted[1])
    /\ \E c \in QuotesFor(Wanted[2]) :
          run' = IF AcceptsMerchant(c[1]) /\ PaymentReady(offer)
                 THEN [run EXCEPT !.next = @ + 1,
                                  !.offers = @ \cup {[id |-> run.next, merchant |-> c[1],
                                                      product |-> c[2], asked |-> Wanted,
                                                      offer |-> offer]}]
                 ELSE Refused
    /\ known' = IF Substituted(Wanted[2]) THEN Searched ELSE known
    /\ UNCHANGED <<market, verified, rejected, adapters, changes>>

\* 45 seconds are over: the rest is not asked.
Deadline ==
    /\ Asking
    /\ run' = [run EXCEPT !.drawn = SubSeq(@, 1, run.next - 1)]
    /\ UNCHANGED <<market, verified, rejected, adapters, known, changes>>

(***************************************************************************)
(* Ranking                                                                 *)
(***************************************************************************)
Currencies == {o.offer.currency : o \in run.offers}

\* The currency to compare in, or Nothing where the buyer must choose one.
Selected ==
    IF market.currency # Nothing THEN market.currency
    ELSE IF Cardinality(Currencies) = 1 THEN CHOOSE c \in Currencies : TRUE ELSE Nothing

Comparable == {o \in run.offers : o.offer.currency = Selected}

\* a ranks before b; what the policy denies ranks last.
Beats(a, b) ==
    \/ ~a.denied /\ b.denied
    \/ /\ a.denied = b.denied
       /\ \/ a.total < b.total
          \/ a.total = b.total /\ a.latest < b.latest

\* Equal offers are in the order of a hash.
Rank ==
    /\ run.at = "quoting"
    /\ run.next > Len(run.drawn)
    /\ \E shown \in SUBSET Comparable :
          /\ Cardinality(shown) = Smaller(Cardinality(Comparable), market.size)
          /\ \A a \in shown, b \in Comparable \ shown : ~Beats(b.offer, a.offer)
          /\ IF shown = {} THEN run' = [run EXCEPT !.at = "done", !.others = run.offers]
             ELSE \E first \in shown :
                    /\ \A b \in shown : ~Beats(b.offer, first.offer)
                    /\ run' = [run EXCEPT !.at = "done", !.shown = shown,
                                          !.others = run.offers \ Comparable,
                                          !.winner = IF first.offer.denied THEN {}
                                                     ELSE {first}]
    /\ UNCHANGED <<market, verified, rejected, adapters, known, changes>>

(***************************************************************************)
(* The registry                                                            *)
(***************************************************************************)
\* A record verifies, does not, or is gone.
RecordChanges(m) ==
    /\ changes < market.changes
    /\ changes' = changes + 1
    /\ m \in OfKind("registry")
    /\ \/ verified' = verified \cup {m} /\ rejected' = rejected \ {m}
       \/ verified' = verified \ {m} /\ rejected' = rejected \cup {m}
       \/ verified' = verified \ {m} /\ rejected' = rejected \ {m}
    /\ UNCHANGED <<market, adapters, known, run>>

\* refresh_registry_adapters; any fetch of a manifest may fail.
RefreshAdapters ==
    /\ changes < market.changes
    /\ changes' = changes + 1
    /\ \E found \in SUBSET verified : adapters' = Static \cup found
    /\ known' = Fresh
    /\ UNCHANGED <<market, verified, rejected, run>>

TournamentNext ==
    \/ Search \/ SearchFails \/ ReadDocument
    \/ RejectProduct \/ Deadline \/ Rank
    \/ \E offer \in Terms : CollectQuote(offer)
    \/ \E m \in Merchants : RecordChanges(m)
    \/ RefreshAdapters

TournamentSpec == TournamentInit /\ [][TournamentNext]_tournamentVars

(***************************************************************************)
(* Properties                                                              *)
(***************************************************************************)
\* What the tournament shows is of the merchants it drew, within its limits,
\* each checked in the registry document it read - although adapters are
\* swapped between the search and the quotes, two adapters may know one product
\* id, and a store says itself whose its products are.
OffersAreChecked ==
    /\ Cardinality({run.drawn[i][1] : i \in DOMAIN run.drawn}) <= market.limit
    /\ \A o \in run.offers :
          o.merchant = o.asked[1] /\ o.asked \in run.catalog /\ Trusted(o.merchant)

\* The winner is an offer the policy allows, in the currency compared, that no
\* allowed offer in that currency beats, be it shown or cut off; there is no
\* winner only where there is no such offer.
WinnerIsBest ==
    run.at = "done" =>
        LET allowed == {o \in Comparable : ~o.offer.denied} IN
        /\ run.winner = {} => allowed = {}
        /\ run.winner \subseteq allowed \cap run.shown
        /\ \A w \in run.winner, o \in allowed : w.offer.total <= o.offer.total

\* A tournament recommends the best of the offers it may compare.
TournamentIsFair == OffersAreChecked /\ WinnerIsBest
=============================================================================
