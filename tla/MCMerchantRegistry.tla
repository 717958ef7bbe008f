------------------------- MODULE MCMerchantRegistry -------------------------
(***************************************************************************)
(* Scenes: two controllers contend for a domain; two domains share         *)
(* document hashes; a record is attested, registered again and attested    *)
(* again; two validators make a quorum; a validator is disabled.           *)
(***************************************************************************)
EXTENDS MerchantRegistry, ContractFeed

CONSTANTS d1, d2, c1, c2, v1, v2, h1, h2

TheRecord == <<d1, c1>>

allVars == <<vars, feedVars>>

MCIds == Domains \X Controllers

Scene(domains, controllers, time, generations, pauses, governance) ==
    [domains |-> domains, controllers |-> controllers, time |-> time,
     generations |-> generations, pauses |-> pauses, governance |-> governance]

Enabling == {<<"setValidator", v1, TRUE>>, <<"setValidator", v2, TRUE>>}

Feeding == Scene({}, {}, 0, 0, FALSE, {})

AllScenes ==
    {Scene({d1}, {c1, c2}, 0, 2, TRUE, {<<"forceRevoke", <<d1, c1>>>>}),
     Scene({d1, d2}, {c1}, 0, 2, FALSE, {}),
     Scene({d1}, {c1}, 1, 2, FALSE, {<<"setValidator", v1, TRUE>>}),
     Scene({d1}, {c1}, 1, 1, FALSE, Enabling \cup {<<"setThreshold", 2>>}),
     Scene({d1}, {c1}, 1, 0, FALSE,
           {<<"setValidator", v1, TRUE>>, <<"setValidator", v1, FALSE>>}),
     Feeding}

(***************************************************************************)
(* The contract runs, or an operator publishes what it did: each alone.    *)
(***************************************************************************)
Publishing == scene.domains = {}

MCInit ==
    /\ Init
    /\ FeedInit

MCNext ==
    \/ Next /\ ~Publishing /\ UNCHANGED feedVars
    \/ Publishing /\ FeedNext /\ UNCHANGED vars

MCSpec == MCInit /\ [][MCNext]_allVars

\* The types of both parts.
TypesOK == TypeOK /\ FeedTypeOK
=============================================================================
