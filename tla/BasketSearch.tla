----------------------------- MODULE BasketSearch -----------------------------
(***************************************************************************)
(* The basket search of the direct buyer skill (shopbridge-command.py,     *)
(* discover_basket_quotes): for every item of a shopping list a product of *)
(* one merchant, or a product of an alternative the buyer named, one quote *)
(* for the whole basket, and the cheapest full basket of those merchants.  *)
(*                                                                         *)
(* Every product is a request of its own, and any request may fail.        *)
(***************************************************************************)
EXTENDS Integers, Sequences, SequencesExt, FiniteSetsExt

CONSTANTS None,
          Shoppings  \* what is wanted, and what the merchants have

(***************************************************************************)
(* A shopping: the basket, the merchants in the order of the seed with     *)
(* their shelves, how many are to answer, the currency to compare in (or   *)
(* None), whether a partial basket may be quoted, whether requests fail.   *)
(***************************************************************************)
VARIABLES shopping,  \* chosen once
          hunt       \* the state of the search

basketVars == <<shopping, hunt>>

Nothing == [at |-> "next", todo |-> <<>>, merchant |-> None, item |-> 1, candidate |-> 1,
            failed |-> {}, matched |-> <<>>, missing |-> {}, offers |-> {}, winner |-> None]

BasketInit ==
    /\ shopping \in Shoppings
    /\ hunt = [Nothing EXCEPT !.todo = shopping.merchants]

(***************************************************************************)
(* Items and their alternatives                                            *)
(***************************************************************************)
Fields == {"exclude_terms", "required_tags", "exclude_tags", "exclude_allergens"}

Values(constraints, f) == IF f \in DOMAIN constraints THEN constraints[f] ELSE {}

\* An alternative adds terms and tags to the constraints of its item, but its
\* own excluded tags and allergens take the place of the item's.
MergedConstraints(parent, child) ==
    [f \in Fields |->
        IF f \in DOMAIN child /\ f \in {"exclude_tags", "exclude_allergens"}
        THEN child[f]
        ELSE Values(parent, f) \cup Values(child, f)]

\* What is looked for on behalf of an item, in this order.
Candidates(item) ==
    <<[wants |-> item.wants, constraints |-> MergedConstraints(item.constraints, <<>>),
       substitution |-> FALSE]>>
    \o [i \in DOMAIN item.alternatives |->
          [wants |-> item.alternatives[i].wants,
           constraints |-> MergedConstraints(item.constraints, item.alternatives[i].constraints),
           substitution |-> TRUE]]

\* Faulty variant: tags of a product are not looked at for excluded words.
MatchesByTitle(product, c) ==
    /\ c["exclude_terms"] \cap product.terms = {}
    /\ c["required_tags"] \subseteq product.tags

MatchesConstraints(product, c) ==
    LET labels == product.tags \cup product.allergens
    IN  /\ c["exclude_terms"] \cap (product.terms \cup labels) = {}
        /\ c["exclude_tags"] \cap labels = {}
        /\ c["exclude_allergens"] \cap product.allergens = {}
        /\ c["required_tags"] \subseteq labels

Suits(product, candidate) ==
    /\ candidate.wants \in product.answers
    /\ product.eligible /\ product.ships
    /\ MatchesConstraints(product, candidate.constraints)

\* The first product of the merchant's answer that suits.
Pick(shelf, candidate) ==
    LET suiting == SelectSeq(shelf, LAMBDA p : Suits(p, candidate))
    IN  IF suiting = <<>> THEN None ELSE Head(suiting)

(***************************************************************************)
(* Baskets                                                                 *)
(***************************************************************************)
SumOf(S, op(_)) == FoldSet(LAMBDA x, total : op(x) + total, 0, S)

\* Faulty variant: the last item of a product sets its quantity.
LastQuantities(matched) ==
    [p \in {m.product.id : m \in ToSet(matched)} |->
        LET last == Max({i \in DOMAIN matched : matched[i].product.id = p})
        IN  matched[last].quantity]

\* Items that are one product become one line.
QuoteItems(matched) ==
    [p \in {m.product.id : m \in ToSet(matched)} |->
        SumOf({i \in DOMAIN matched : matched[i].product.id = p},
              LAMBDA i : matched[i].quantity)]

Price(matched, p) == (CHOOSE m \in ToSet(matched) : m.product.id = p).product.price

Quoted(m, matched, missing) ==
    LET lines == QuoteItems(matched)
    IN  [merchant |-> m, lines |-> lines, matched |-> matched, full |-> missing = {},
         currency |-> shopping.currencies[m],
         total |-> SumOf(DOMAIN lines, LAMBDA p : lines[p] * Price(matched, p))]

(***************************************************************************)
(* The search                                                              *)
(***************************************************************************)
Answered ==
    {o.merchant : o \in {p \in hunt.offers :
        p.full /\ (shopping.currency = None \/ p.currency = shopping.currency)}}

EnoughAnswered == Cardinality(Answered) >= shopping.limit

Hunts(h) == hunt' = h /\ UNCHANGED shopping

OnwardTo(h) == [Nothing EXCEPT !.todo = h.todo, !.offers = h.offers]

\* The record of the merchant is resolved, and may not verify.
NextMerchant ==
    /\ hunt.at = "next" /\ ~EnoughAnswered /\ hunt.todo # <<>>
    /\ \E verified \in {TRUE, ~shopping.fails} :
          Hunts([OnwardTo(hunt) EXCEPT !.todo = Tail(hunt.todo),
                                       !.at = IF verified THEN "item" ELSE "next",
                                       !.merchant = Head(hunt.todo)])

Item == shopping.basket[hunt.item]

Candidate == Candidates(Item)[hunt.candidate]

NextItem(h) == [h EXCEPT !.item = @ + 1, !.candidate = 1]

\* The product of a candidate; a failed request is as good as none that suits,
\* and the next alternative is tried.
AskForCandidate ==
    /\ hunt.at = "item" /\ hunt.item <= Len(shopping.basket)
    /\ \E failed \in {FALSE, shopping.fails} :
          LET found == IF failed THEN None ELSE Pick(shopping.shelf[hunt.merchant], Candidate)
          IN  Hunts(IF found # None
                    THEN NextItem([hunt EXCEPT !.matched =
                             Append(@, [item |-> hunt.item, product |-> found,
                                        quantity |-> Item.quantity,
                                        substitution |-> Candidate.substitution])])
                    ELSE LET h == [hunt EXCEPT !.failed =
                                      IF failed THEN @ \cup {<<hunt.item, hunt.candidate>>} ELSE @]
                         IN  IF hunt.candidate < Len(Candidates(Item))
                             THEN [h EXCEPT !.candidate = @ + 1]
                             ELSE NextItem([h EXCEPT !.missing = @ \cup {hunt.item}]))

RequiredMissing == {i \in hunt.missing : shopping.basket[i].required}

Unquotable ==
    (RequiredMissing # {} /\ ~shopping.partial) \/ hunt.matched = <<>>

\* One quote for all that was found; it may fail, or not be fit to compare.
QuoteBasket ==
    /\ hunt.at = "item" /\ hunt.item > Len(shopping.basket)
    /\ \E failed \in {FALSE, shopping.fails} :
          Hunts([OnwardTo(hunt) EXCEPT
                    !.offers = IF Unquotable \/ failed THEN @
                               ELSE @ \cup {Quoted(hunt.merchant, hunt.matched, hunt.missing)}])

\* Faulty variant: a partial basket is as good as a full one.
ComparableByCurrency(offers) ==
    LET currencies == {o.currency : o \in offers}
        chosen == IF shopping.currency # None THEN {shopping.currency}
                  ELSE IF Cardinality(currencies) = 1 THEN currencies ELSE {}
    IN  {o \in offers : o.currency \in chosen}

\* Full baskets in the currency asked for, or the only one there is.
ComparableBaskets(offers) ==
    LET currencies == {o.currency : o \in offers}
        chosen == IF shopping.currency # None THEN {shopping.currency}
                  ELSE IF Cardinality(currencies) = 1 THEN currencies ELSE {}
    IN  {o \in offers : o.full /\ o.currency \in chosen}

\* Delivery dates and the tie key choose among the cheapest.
EndHunt ==
    /\ hunt.at = "next" /\ (EnoughAnswered \/ hunt.todo = <<>>)
    /\ LET compared == ComparableBaskets(hunt.offers)
           best == {o \in compared : \A p \in compared : o.total <= p.total}
       IN  \E w \in IF best = {} THEN {None} ELSE best :
              Hunts([hunt EXCEPT !.at = "done", !.winner = w])

BasketNext == NextMerchant \/ AskForCandidate \/ QuoteBasket \/ EndHunt

(***************************************************************************)
(* Properties                                                              *)
(***************************************************************************)
\* The constraints an item was given hold of what is bought for it, whatever is
\* excluded by the item and by none of its alternatives.
KeepsToConstraints(o) ==
    \A m \in ToSet(o.matched) :
        LET item == shopping.basket[m.item]
            given == MergedConstraints(item.constraints, <<>>)
            own(f) == \E a \in ToSet(item.alternatives) : f \in DOMAIN a.constraints
        IN  /\ m.product.eligible /\ m.product.ships
            /\ given["required_tags"] \subseteq m.product.tags \cup m.product.allergens
            /\ ~own("exclude_allergens") \/ ~m.substitution =>
                  given["exclude_allergens"] \cap m.product.allergens = {}
            /\ given["exclude_terms"] \cap
                  (m.product.terms \cup m.product.tags \cup m.product.allergens) = {}
            /\ \/ ~m.substitution /\ item.wants \in m.product.answers
               \/ m.substitution /\ \E a \in ToSet(item.alternatives) : a.wants \in m.product.answers

\* The winner of a basket search is one merchant's full basket and the cheapest
\* of those to be compared: as much of every product as the items ask for, each
\* item filled by its own product or an alternative the buyer named, and within
\* the constraints.  No merchant is left out while too few have answered, and one
\* that lacks a required item is quoted only if the buyer allows it.
BasketIsFilled ==
    /\ \A o \in hunt.offers :
          /\ KeepsToConstraints(o)
          /\ {m.item : m \in ToSet(o.matched)} \subseteq DOMAIN shopping.basket
          /\ shopping.partial
             \/ \A i \in DOMAIN shopping.basket :
                   shopping.basket[i].required => \E m \in ToSet(o.matched) : m.item = i
    /\ hunt.at = "done" =>
          /\ hunt.todo = <<>> \/ EnoughAnswered
          /\ hunt.winner # None =>
                LET w == hunt.winner IN
                /\ Len(w.matched) = Len(shopping.basket)
                /\ SumOf(DOMAIN w.lines, LAMBDA p : w.lines[p])
                      = SumOf(DOMAIN shopping.basket, LAMBDA i : shopping.basket[i].quantity)
                /\ \A o \in hunt.offers : o.full /\ o.currency = w.currency => w.total <= o.total
=============================================================================
