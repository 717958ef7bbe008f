------------------------------- MODULE MCSkill -------------------------------
(***************************************************************************)
(* DirectSkill over the scenes of one run: a purchase on each rail while   *)
(* the seller's records rotate and are revoked, a purchase without a       *)
(* registry, searches over records in any order of the seed, searches for  *)
(* a basket, and the import of the packet of a checkout.  A packet is the  *)
(* number of the checkout it comes from.                                   *)
(***************************************************************************)
EXTENDS DirectSkill

CONSTANTS m1, m2, m3, m4, e1, own1

VARIABLES shopping, hunt

Pays(tempo, x402) == [r \in Rails |-> IF r = "tempo-mpp" THEN tempo ELSE x402]

Item(total, parts, units) == [total |-> total, parts |-> parts, units |-> units]

Rec(m, issue, tempo, x402, entity, facets, snapshots, total, currency) ==
    [merchant |-> m, issue |-> issue, pay |-> Pays(tempo, x402), entity |-> entity,
     facets |-> facets, defects |-> {}, revocable |-> TRUE, snapshots |-> snapshots,
     catalog |-> <<Item(total, total, None)>>, verifier |-> TRUE, currency |-> currency]

\* The record of m1 before and after its accounts change, a stale one of m2.
Old == Rec(m1, 1, "a", "b", None, TRUE, TRUE, 1, "USD")
New == Rec(m1, 2, "c", "d", None, TRUE, FALSE, 1, "USD")
Odd == [Rec(m2, 1, "a", "b", None, TRUE, FALSE, 1, "USD") EXCEPT !.defects = {"record_stale"}]

Fair(facets2, facets3) ==
    {Rec(m1, 1, "a", None, e1, TRUE, FALSE, 2, "EUR"),
     Rec(m2, 1, "b", None, e1, facets2, FALSE, 1, "EUR"),
     Rec(m3, 1, "c", None, None, facets3, FALSE, 1, "EUR"),
     Rec(m4, 1, "d", None, None, FALSE, FALSE, 3, "USD")}

Buying(rail, rotations, revocations, direct, complete) ==
    [listed |-> <<Odd, Old, New>>, limit |-> 1, rail |-> rail, currency |-> None,
     source |-> "smart_contract", requireAdmission |-> FALSE,
     asks |-> TRUE, fails |-> FALSE, buys |-> TRUE, complete |-> complete, direct |-> direct,
     products |-> 1, byUnit |-> FALSE, unit |-> None, most |-> None, ids |-> {},
     live |-> [m \in Merchants |-> IF m = m2 THEN Odd ELSE Old],
     rotations |-> rotations, revocations |-> revocations, imports |-> 0,
     quotes |-> 2, approvals |-> 2, handoffs |-> 2, posts |-> 2, time |-> MaxTime]

OnX402   == Buying("x402-compatible", {Old, New}, {Old}, FALSE, FALSE)
OnTempo  == [Buying("tempo-mpp", {New}, {Old}, FALSE, TRUE) EXCEPT !.approvals = 1]
Directly == [Buying("tempo-mpp", {New}, {}, TRUE, TRUE)
                EXCEPT !.listed = <<>>, !.quotes = 1, !.approvals = 1, !.ids = {own1}]
Audited  == [Buying("tempo-mpp", {}, {}, FALSE, TRUE)
                EXCEPT !.listed = <<Old>>, !.imports = 3, !.quotes = 1,
                       !.approvals = 1, !.posts = 1, !.time = 0]

Orders(S) == {s \in [1 .. Cardinality(S) -> S] : Members(s) = S}

Comparing(S, s, limit, source) ==
    [listed |-> s, limit |-> limit, rail |-> "tempo-mpp", currency |-> "EUR",
     source |-> source, requireAdmission |-> FALSE,
     asks |-> TRUE, fails |-> TRUE, buys |-> FALSE, complete |-> TRUE, direct |-> FALSE,
     products |-> 1, byUnit |-> FALSE, unit |-> None, most |-> None, ids |-> {},
     live |-> [m \in Merchants |-> CHOOSE r \in S : r.merchant = m],
     rotations |-> {}, revocations |-> {}, imports |-> 0,
     quotes |-> 4, approvals |-> 0, handoffs |-> 0, posts |-> 0, time |-> 0]

Padded == {[r EXCEPT !.catalog[1].parts = IF r.merchant = m2 THEN @ + 2 ELSE @ + 1] :
              r \in Fair(TRUE, FALSE)}

FairSets == {Fair(f, g) : f, g \in BOOLEAN}

Comparisons ==
    UNION {{Comparing(S, s, limit, source) :
               s \in Orders(S), limit \in 1 .. 2,
               source \in {"smart_contract", "compatibility_source"}} : S \in FairSets}

\* A market that compares admitted merchants only, and totals that do not add up.
Strict ==
    {[Comparing(S, s, 2, "smart_contract") EXCEPT !.requireAdmission = TRUE] :
        s \in Orders(Padded), S \in {Padded}}

\* Merchants with two suitable products each, of which one is sold by the piece,
\* the unit of another is not told, and a cheap merchant has no verifier.
Sold(total, count, kind) == Item(total, total, [count |-> count, of |-> kind])

Stocked ==
    {[r EXCEPT !.verifier = (r.merchant # m4), !.currency = "EUR", !.entity = None,
               !.catalog = CASE r.merchant = m1 -> <<Sold(2, 2, "kg"), Sold(5, 6, "kg")>>
                             [] r.merchant = m2 -> <<Item(1, 1, None), Sold(3, 4, "kg")>>
                             [] r.merchant = m3 -> <<Sold(3, 2, "kg"), Sold(1, 9, "piece")>>
                             [] r.merchant = m4 -> <<Sold(1, 3, "kg"), Sold(2, 3, "kg")>>] :
        r \in Fair(TRUE, TRUE)}

Choosy ==
    {[Comparing(Stocked, <<x, y>>, 2, "smart_contract")
        EXCEPT !.products = 2, !.byUnit = byUnit, !.unit = unit, !.most = most] :
        x \in Stocked, y \in Stocked, byUnit \in BOOLEAN, unit \in {None, "kg"},
        most \in {None, 4}}

AllRecords == {Old, New, Odd} \cup Padded \cup Stocked \cup UNION FairSets

(***************************************************************************)
(* Baskets: milk without nuts, with an alternative that has constraints of *)
(* its own and may be the product of another item, and bread one can do    *)
(* without.                                                                *)
(***************************************************************************)
Product(id, answers, tags, allergens, price) ==
    [id |-> id, answers |-> answers, tags |-> tags, allergens |-> allergens,
     terms |-> {}, price |-> price, eligible |-> TRUE, ships |-> TRUE]

Oat    == Product("oat", {"oat", "oat drink"}, {"vegan"}, {"gluten"}, 2)
Almond == Product("almond", {"milk", "oat drink"}, {"vegan"}, {"nut"}, 1)
Soy    == Product("soy", {"milk"}, {"vegan"}, {}, 3)
Cow    == Product("cow", {"milk"}, {"organic"}, {}, 1)
Bread  == [Product("bread", {"bread"}, {}, {}, 1) EXCEPT !.terms = {"wheat"}]
Far    == [Product("far", {"oat", "bread"}, {"vegan"}, {}, 1) EXCEPT !.ships = FALSE]

NoNuts == [required_tags |-> {"vegan"}, exclude_allergens |-> {"nut"}]

Wanted(wants, quantity, required, constraints, alternatives) ==
    [wants |-> wants, quantity |-> quantity, required |-> required,
     constraints |-> constraints, alternatives |-> alternatives]

Instead(wants, constraints) == [wants |-> wants, constraints |-> constraints]

Basket(constraints) ==
    <<Wanted("milk", 2, TRUE, NoNuts, <<Instead("oat drink", constraints)>>),
      Wanted("oat", 1, TRUE, <<>>, <<>>),
      Wanted("bread", 1, FALSE, [exclude_terms |-> {"spelt"}], <<>>)>>

Shopping(limit, currency, partial, fails, constraints) ==
    [basket |-> Basket(constraints), merchants |-> <<m1, m2, m3>>,
     shelf |-> [m \in {m1, m2, m3} |->
                  CASE m = m1 -> <<Almond, Oat, Bread>>
                    [] m = m2 -> <<Cow, Soy, Far, Oat, Bread>>
                    [] OTHER -> <<Almond, Soy, Oat>>],
     currencies |-> [m \in {m1, m2, m3} |-> IF m = m3 THEN "USD" ELSE "EUR"],
     limit |-> limit, currency |-> currency, partial |-> partial, fails |-> fails]

NoShopping == [Shopping(1, None, FALSE, FALSE, <<>>) EXCEPT !.merchants = <<>>]

AllShoppings ==
    {NoShopping}
    \cup {Shopping(limit, currency, partial, TRUE, constraints) :
             limit \in 1 .. 2, currency \in {None, "EUR"}, partial \in BOOLEAN,
             constraints \in {<<>>, [exclude_tags |-> {"fresh"}],
                              [exclude_allergens |-> {"soy"}]}}

Baskets == INSTANCE BasketSearch WITH Shoppings <- AllShoppings

basketVars == <<shopping, hunt>>

\* A search asks merchants fairly (discover_quotes), and a basket search fills
\* the basket it was given (discover_basket_quotes).
SearchesAreFair == SearchIsFair /\ Baskets!BasketIsFilled

MCInit ==
    /\ scene \in {OnX402, OnTempo, Directly, Audited} \cup Comparisons \cup Strict
                \cup {c \in Choosy : c.listed[1] # c.listed[2]}
    /\ SkillInit
    /\ AuditInit
    /\ Baskets!BasketInit
    /\ shopping # NoShopping => scene = Audited

Imports ==
    /\ shop[1].state = "paid" /\ AuditNext
    /\ \A p \in Packets : imports'[p] # "absent" => p <= Cardinality(posts)
    /\ Len(log') <= scene.imports * PacketEvents

InScope ==
    /\ issued <= scene.quotes
    /\ Cardinality(approved) <= scene.approvals
    /\ Cardinality(handoffs) <= scene.handoffs
    /\ Cardinality(posts) <= scene.posts
    /\ now <= scene.time

\* The gateway shares nothing with the skill: imports come last.
NothingImported == \A p \in Packets : imports[p] = "absent"

MCNext ==
    \/ /\ shopping = NoShopping
       /\ \/ /\ NothingImported /\ SkillNext /\ InScope'
             /\ UNCHANGED auditVars
          \/ Imports /\ UNCHANGED skill
       /\ UNCHANGED basketVars
    \/ shopping # NoShopping /\ Baskets!BasketNext /\ UNCHANGED allVars

MCSpec == MCInit /\ [][MCNext]_<<allVars, basketVars>>
=============================================================================
