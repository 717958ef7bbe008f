------------------------------ MODULE MCGateway ------------------------------
(***************************************************************************)
(* Gateway over the setups of its runs.  A setup also says how many of the *)
(* quotes, approvals and challenges it may use, and whether requests name  *)
(* rails; in the setups without crashes nothing expires, either, and where *)
(* months pass, one request is served at a time.  The members of each set  *)
(* are interchangeable.  Quote tournaments are checked beside checkouts:   *)
(* of the two parts, one is frozen.                                        *)
(***************************************************************************)
EXTENDS Gateway, QuoteTournament, TLC

VARIABLE part

TempoFirst == <<"tempo", "x402-compatible">>

Setup(plugin, offered, stock, budget, maxCrashes, months, quotes, approvals, challenges) ==
    [plugin |-> plugin, offered |-> offered, stock |-> stock, budget |-> budget,
     keyInBody |-> TRUE, planner |-> ~plugin /\ maxCrashes > 0, crashes |-> maxCrashes,
     months |-> months, quotes |-> quotes, approvals |-> approvals, challenges |-> challenges]

\* One quote paid twice, with a crash; two quotes for one order's money; the
\* same before and after a month ends; two quotes of the last unit; a ShopBridge
\* store whose quotes change rail.
TwoPayments == Setup(FALSE, <<>>, 2, 2, 1, 1, 1, 1, 2)
OneBudget   == Setup(FALSE, <<>>, 2, 1, 0, 1, 2, 2, 2)
MonthEnd    == Setup(FALSE, <<>>, 2, 1, 0, 2, 2, 2, 2)
LastUnit    == Setup(FALSE, <<>>, 1, 2, 0, 1, 2, 2, 2)
TwoRails    == Setup(TRUE, TempoFirst, 0, 2, 1, 1, 1, 2, 1)

AllSetups == {TwoPayments, OneBudget, MonthEnd, LastUnit, TwoRails}

InScope ==
    /\ Cardinality({q \in Quotes : Quoted(mem, q)}) <= setup.quotes
    /\ Cardinality({a \in Approvals : mem.approval[a].state # "none"}) <= setup.approvals
    /\ Cardinality({c \in Challenges : mem.challenge[c].state # "none"})
          <= setup.challenges
    /\ setup.crashes = 0 => overdue = {}
    /\ setup.months > 1 => Cardinality({t \in Threads : call[t] # Idle}) <= 1
    /\ ~setup.plugin => \A q \in Quotes : mem.rail[q] = None

MCNext == Next /\ InScope'

(***************************************************************************)
(* Tournaments.  In the first market two registry merchants make one       *)
(* product id of two different products; in the second a woo store says    *)
(* its product is a registry merchant's, and an id reads as the favourite. *)
(***************************************************************************)
SameId ==
    [kind |-> ("a" :> "registry" @@ "b" :> "registry" @@ "demo" :> "demo"),
     order |-> <<"demo", "a", "b">>,
     lists |-> ("a" :> {"same", "a1"} @@ "b" :> {"same"} @@ "demo" :> {"tea"}),
     claims |-> Nothing, unfit |-> {<<"a", "a1">>}, alias |-> {"tea"}, fallback |-> "tea",
     limit |-> 2, size |-> 1, currency |-> Nothing, strict |-> TRUE,
     provider |-> FALSE, changes |-> 2]

Claimed ==
    [kind |-> ("a" :> "registry" @@ "woo" :> "woo" @@ "demo" :> "demo"),
     order |-> <<"demo", "woo", "a">>,
     lists |-> ("a" :> {"mytea", "a1"} @@ "woo" :> {"woo1"} @@ "demo" :> {"tea"}),
     claims |-> "a", unfit |-> {}, alias |-> {"tea", "mytea"}, fallback |-> "tea",
     limit |-> 2, size |-> 2, currency |-> "EUR", strict |-> FALSE,
     provider |-> TRUE, changes |-> 1]

AllMarkets == {SameId, Claimed}

Offer(total, currency, denied, protocols) ==
    [total |-> total, currency |-> currency, latest |-> 1, denied |-> denied,
     protocols |-> protocols]

AllTerms == {Offer(2, "EUR", FALSE, {"usable", "unusable"}),
             Offer(3, "EUR", FALSE, {"usable"}), Offer(1, "EUR", TRUE, {"usable"}),
             Offer(1, "USD", FALSE, {"usable"}), Offer(1, "EUR", FALSE, {"unusable"}),
             Offer(1, "EUR", FALSE, {})}

AllProducts == {"same", "a1", "tea", "mytea", "woo1"}

MCInit ==
    /\ Init /\ TournamentInit
    /\ \/ part = "checkout" /\ market = SameId
       \/ part = "tournament" /\ setup = OneBudget

PartNext ==
    \/ part = "checkout" /\ MCNext /\ UNCHANGED <<part, tournamentVars>>
    \/ part = "tournament" /\ TournamentNext /\ UNCHANGED <<part, vars>>

MCSpec == MCInit /\ [][PartNext]_<<part, vars, tournamentVars>>

Symmetry ==
    Permutations(Threads) \cup Permutations(Quotes) \cup Permutations(Approvals)
        \cup Permutations(Challenges) \cup Permutations(Keys)
=============================================================================
