---------------------------- MODULE MCOnchainScan ----------------------------
(***************************************************************************)
(* Scenes: pages that come late, fail or miss a log, with one process and  *)
(* with two; Myotis, whose head moves on; two providers, one of them a     *)
(* liar, with the exact and the lagging policy; hints and preferred        *)
(* records among more records than are wanted.  The session that a scan    *)
(* opens, the batches it sends, the budget it keeps to and the hints it    *)
(* follows, from the chain and from an index, are checked beside it: of    *)
(* the six parts, five are frozen.                                         *)
(***************************************************************************)
EXTENDS OnchainScan

VARIABLES part,
          load, chunks, results, sent, paused, state,
          deployment, now, tip, settled, node, session,
          search, blocks, declared, finalized, reading,
          plan, clock, left, cooldown, caller, requests,
          shops, lookup, answer

CONSTANTS a, b, c, d, h1, h2, s1, s2

Event(name, id, hash) == [name |-> name, id |-> id, hash |-> hash]

Registered(id, hash) == Event("MerchantRegistered", id, hash)
Updated(id, hash)    == Event("MerchantUpdated", id, hash)
Revoked(id)          == Event("MerchantRevoked", id, None)
Suspended(id)        == Event("MerchantSuspended", id, None)
Unsuspended(id)      == Event("MerchantUnsuspended", id, None)
Lapsed(id)           == Event("AdmissionLapsed", id, None)
Renewed(id)          == Event("AdmissionRenewed", id, None)
Pruned(id)           == Event("IndexedRecordPruned", id, None)

Base == [profile |-> "v1", chain |-> <<>>, page |-> 1, workers |-> 2, scanners |-> {s1},
         limit |-> 2, hinted |-> {}, preferred |-> {}, unloadable |-> {}, unreadable |-> {a},
         mayMiss |-> FALSE, liars |-> {}, boundedLag |-> FALSE,
         failures |-> {"incomplete", "error", "crash"}, entity |-> [r \in Records |-> r]]

LifeOfTwo == <<<<Registered(a, h1)>>, <<Registered(b, h2)>>, <<Suspended(a)>>,
               <<Unsuspended(a), Revoked(b)>>>>

AgainAndAgain == <<<<Registered(a, h1)>>, <<Updated(a, h2), Suspended(a)>>, <<Unsuspended(a)>>>>

Four == <<<<Registered(a, h1), Registered(b, h1), Registered(c, h2), Registered(d, h2)>>,
          <<Revoked(d)>>>>

Admission == <<<<Registered(a, h1), Registered(b, h2)>>,
               <<Registered(c, h2), Lapsed(a)>>, <<Renewed(a), Pruned(b)>>>>

AllScenes ==
    {[Base EXCEPT !.chain = LifeOfTwo, !.failures = {"incomplete"}],
     [Base EXCEPT !.chain = LifeOfTwo, !.workers = 3],
     [Base EXCEPT !.chain = LifeOfTwo, !.mayMiss = TRUE, !.page = 2],
     [Base EXCEPT !.chain = AgainAndAgain, !.scanners = {s1, s2}, !.failures = {"incomplete"}],
     [Base EXCEPT !.chain = AgainAndAgain, !.profile = "myotis", !.workers = 1, !.mayMiss = TRUE],
     [Base EXCEPT !.chain = Four, !.hinted = {b, d}, !.unloadable = {b, c}],
     [Base EXCEPT !.chain = Four, !.limit = 1, !.hinted = {a, b, c}, !.unloadable = {a, b, c}],
     [Base EXCEPT !.chain = Four, !.preferred = {a, d}],
     [Base EXCEPT !.chain = Admission, !.profile = "v2", !.liars = {"witness"}, !.limit = 1],
     [Base EXCEPT !.chain = Admission, !.profile = "v2", !.liars = {"primary"},
                  !.boundedLag = TRUE, !.hinted = {a}],
     [Base EXCEPT !.chain = Admission, !.profile = "v2", !.boundedLag = TRUE,
                  !.preferred = {a, b}, !.entity = [r \in Records |-> a]]}

(***************************************************************************)
(* Batches: one that is refused and split down to single calls, and one    *)
(* whose answers do not fit.                                               *)
(***************************************************************************)
Load(calls, size, faults, budget) ==
    [calls |-> calls, size |-> size, faults |-> faults, budget |-> budget]

Transport == INSTANCE RpcTransport
    WITH MaxAttempts <- 4, Pauses <- {1, 3},
         Loads <- {Load(5, 3, {"limited"}, 5), Load(4, 4, {"limited", "large"}, 4),
                   Load(5, 4, {"large", "garbled", "error"}, 0)}

(***************************************************************************)
(* Sessions                                                                *)
(***************************************************************************)
Both(x, y) == [registry |-> x, facets |-> y]

Standard ==
    [asked |-> "auto", client |-> "standard", version |-> 1, rightChain |-> TRUE,
     from |-> Both(2, 3), created |-> Both(2, 3), blockPin |-> Both("none", "none"),
     codePin |-> Both("none", "none"), facets |-> TRUE, linked |-> TRUE, maxAge |-> 1]

MyotisNode ==
    [Standard EXCEPT !.client = "myotis", !.blockPin = Both("right", "right"),
                     !.codePin = Both("right", "right")]

AllDeployments ==
    {[Standard EXCEPT !.from = f, !.rightChain = right, !.facets = facets] :
        f \in {Both(1, 3), Both(2, 3), Both(3, 3), Both(2, 4)}, right \in BOOLEAN,
        facets \in BOOLEAN} \cup
    {[Standard EXCEPT !.version = 2, !.codePin.registry = "right", !.blockPin.registry = pin] :
        pin \in {"none", "right", "wrong"}} \cup
    {[MyotisNode EXCEPT !.from = f, !.version = v, !.asked = asked] :
        f \in {Both(2, 3), Both(3, 3), Both(2, 4)}, v \in {1, 2}, asked \in {"myotis", "standard"}} \cup
    {[MyotisNode EXCEPT !.linked = FALSE], [MyotisNode EXCEPT !.codePin.facets = "none"],
     [MyotisNode EXCEPT !.blockPin.registry = "wrong"]}

Session == INSTANCE RegistrySession
    WITH Deployments <- AllDeployments, MaxTime <- 5, MaxWaits <- 2,
         head <- tip, final <- settled

(***************************************************************************)
(* Hints                                                                   *)
(***************************************************************************)
Tea    == "tea"
Coffee == "coffee"

Search(profile, groups, page) ==
    [profile |-> profile, groups |-> groups, page |-> page,
     documents |-> <<{Tea}, {Tea, Coffee}>>]

Hints == INSTANCE CategoryHints
    WITH Merchants <- {a}, Categories <- {Tea, Coffee}, MaxBlocks <- 5,
         Searches <- {Search("standard", {{Coffee}}, 2), Search("myotis", {{Tea, Coffee}}, 3),
                      Search("v2", {{Tea}, {Tea, Coffee}}, 1)}

(***************************************************************************)
(* Budgets: for one request that counts, and answers that do not fit.      *)
(***************************************************************************)
Plan(count, bytes, general) ==
    [seconds |-> 2, requests |-> count, bytes |-> bytes, timeout |-> 1, size |-> 1,
     general |-> general]

Budget == INSTANCE DiscoveryBudget
    WITH Callers <- {s1, s2}, MaxAttempts <- 2, Delays <- {1, 3}, MaxTime <- 2,
         Plans <- {Plan(1, 5, {s1, s2}), Plan(1, 4, {s2})}

(***************************************************************************)
(* Indexes.  The words are coffee, mug, mugs, shop, shops, tea, teas, the. *)
(***************************************************************************)
Shelf(names, counts) == [i \in DOMAIN names |-> [name |-> names[i], count |-> counts[i]]]

\* All categories declared; one left out; too many; none; with a stop word
Shelves ==
    {Shelf(<<<<6>>, <<1, 3>>, <<1, 3>>>>, <<2, 1, 2>>), Shelf(<<<<3>>, <<6>>, <<1>>>>, <<3, 2, 1>>),
     Shelf(<<<<1>>, <<3>>, <<6>>, <<1, 3>>>>, <<1, 1, 1, 1>>), Shelf(<<None, <<6>>>>, <<5, 0>>),
     Shelf(<<<<1, 4>>>>, <<1>>)}

Here      == [chain |-> 1, registry |-> "here"]
Elsewhere == {None, [chain |-> 1, registry |-> "there"], [chain |-> 2, registry |-> "here"]}

Shop(identity, items) == [identity |-> identity, items |-> items]

AllMarkets ==
    {(a :> Shop(Here, s)) @@ (b :> Shop(i, t)) : s, t \in Shelves, i \in Elsewhere \cup {Here}} \cup
    {[r \in {a, b, c} |-> Shop(Here, s)] : s \in Shelves}

Asking(query, basket, registry) ==
    [query |-> query, basket |-> basket, chain |-> 1, registry |-> registry,
     faults |-> {"damaged", "unavailable"}]

AllLookups ==
    {Asking(<<8, 7>>, <<>>, "here"), Asking(<<2>>, <<>>, None), Asking(<<1, 3>>, <<>>, "here"),
     Asking(<<5, 8>>, <<>>, "here"), Asking(<<8>>, <<>>, "here"), Asking(<<>>, <<>>, "here"),
     Asking(<<>>, <<<<6>>, <<2, 8, 1>>>>, "here"), Asking(<<>>, <<<<8>>, <<>>, <<3>>>>, "here")}

Index == INSTANCE DiscoveryIndex
    WITH Markets <- AllMarkets, Lookups <- AllLookups, StopWords <- {4, 8},
         SingularOf <- (3 :> 2) @@ (5 :> 4) @@ (7 :> 6),
         MaxCategories <- 2, MaxTotal <- 3, MaxEntries <- 2, MaxCandidates <- 3

transportVars == <<load, chunks, results, sent, paused, state>>
sessionVars   == <<deployment, now, tip, settled, node, session>>
hintVars      == <<search, blocks, declared, finalized, reading>>

budgetVars    == <<plan, clock, left, cooldown, caller, requests>>
indexVars     == <<shops, lookup, answer>>

Parts == {"scan", "transport", "session", "hints", "budget", "index"}

\* The parts that are frozen have one initial state.
MCInit ==
    /\ part \in Parts
    /\ Init
    /\ part # "scan" => scene = [Base EXCEPT !.chain = LifeOfTwo, !.workers = 3]
    /\ Transport!Init
    /\ part # "transport" => load = Load(5, 3, {"limited"}, 5)
    /\ Session!Init
    /\ part # "session" => deployment = Standard /\ node.state = "RUNNING"
    /\ Hints!Init
    /\ part # "hints" => search = Search("standard", {{Coffee}}, 2)
    /\ Budget!Init
    /\ part # "budget" => plan = Plan(1, 4, {s2})
    /\ Index!Init
    /\ part # "index" =>
          /\ shops = [r \in {a, b, c} |-> Shop(Here, Shelf(<<<<1, 4>>>>, <<1>>))]
          /\ lookup = Asking(<<8>>, <<>>, "here")

Kept(p, others) == IF part = p THEN TRUE ELSE UNCHANGED others

\* A step of one part
Only(p) ==
    /\ UNCHANGED part
    /\ Kept("scan", vars) /\ Kept("transport", transportVars) /\ Kept("session", sessionVars)
    /\ Kept("hints", hintVars) /\ Kept("budget", budgetVars) /\ Kept("index", indexVars)

\* A batch, a session, a discovery and a look at the index end.
AtRest ==
    \/ part = "transport" /\ state # "sending"
    \/ part = "session" /\ session.at \in {"open", "failed"}
    \/ part = "budget" /\ Budget!Over
    \/ part = "index" /\ answer # None

allVars == <<part, vars, transportVars, sessionVars, hintVars, budgetVars, indexVars>>

MCNext ==
    \/ part = "scan" /\ Next /\ Only("scan")
    \/ part = "transport" /\ Transport!Next /\ Only("transport")
    \/ part = "session" /\ Session!Next /\ Only("session")
    \/ part = "hints" /\ Hints!Next /\ Only("hints")
    \/ part = "budget" /\ Budget!Next /\ Only("budget")
    \/ part = "index" /\ Index!Next /\ Only("index")
    \/ AtRest /\ UNCHANGED allVars

MCSpec ==
    /\ MCInit /\ [][MCNext]_allVars
    /\ WF_vars(part = "scan" /\ Mine) /\ WF_vars(part = "scan" /\ Finalize)
    /\ \A s \in Scanners : /\ WF_vars(part = "scan" /\ Proceeds(s))
                           /\ SF_vars(part = "scan" /\ NextPageArrives(s))
                           /\ SF_vars(part = "scan" /\ SelectLogged(s, {}))

\* A session reads the registry of its descriptor from its first block on,
\* every call of a batch gets its own answer, and a discovery keeps within its
\* budget of time, requests and bytes; a record that a hint led to had declared
\* what was asked, and a hint of the index leads to shops that sell it
\* (_verify_deployment_boundary, call_batch, DiscoveryBudget, hinted_record_ids).
ReadsAreSound ==
    /\ part = "session" => Session!SessionIsPinned
    /\ part = "transport" => Transport!AnswersMatchCalls
    /\ part = "budget" => Budget!BudgetIsKept
    /\ part = "hints" => Hints!HintsAreCurrent
    /\ part = "index" => Index!FacetsAreTop /\ Index!HintsFindWhatIsSold

\* In the part that scans, the checkpoint reaches the end of the chain.
ScanCatchesUp == part = "scan" => CheckpointCatchesUp
=============================================================================
