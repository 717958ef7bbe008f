--------------------------- MODULE RegistrySession ---------------------------
(***************************************************************************)
(* How collect_finalized_events of shopbridge_onchain_rpc.py opens a       *)
(* session with a provider before it reads the registry: the chain, the    *)
(* kind of client, a finalized block that is recent, the code of the       *)
(* contracts and the block that deployed them.                             *)
(*                                                                         *)
(* Each call is a step; in between the chain goes on, and a Myotis node,   *)
(* which may be paused, wakes, finds peers, syncs or stops.  The number of *)
(* a block is its time; at some times no block is produced.                *)
(***************************************************************************)
EXTENDS Integers, FiniteSets

CONSTANTS Deployments,  \* descriptors with the providers they are used with
          MaxTime,
          MaxWaits      \* MYOTIS_READY_TIMEOUT_SECONDS

Contracts == {"registry", "facets"}

(***************************************************************************)
(* A deployment says what the buyer's descriptor has (the profile asked    *)
(* for, the version, the first block of each contract, the pins of block   *)
(* and code: none, right or wrong; the oldest finalized block it takes)    *)
(* and what is the case (the client, the block in which each contract was  *)
(* created, whether the chain is the right one and the facets contract is  *)
(* of this registry).  Profiles are "auto", "standard" or "myotis", versions 1 *)
(* or 2, pins "none", "right" or "wrong".                                   *)
(***************************************************************************)
VARIABLES deployment, now, head, final, node, session

vars == <<deployment, now, head, final, node, session>>

Closed == [at |-> "closed", began |-> 0, target |-> 0, block |-> 0, waits |-> 0]

Init ==
    /\ deployment \in Deployments
    /\ now = 1
    /\ head = 1
    /\ final = 1
    /\ node \in [state : {"PAUSED", "STARTING", "RUNNING"}, peers : {0}, synced : {FALSE}]
    /\ deployment.client = "standard" => node.state = "RUNNING"
    /\ session = Closed

Myotis == deployment.client = "myotis"

(***************************************************************************)
(* The chain and the node                                                  *)
(***************************************************************************)
\* Time passes, with or without a block.
Tick ==
    /\ now < MaxTime
    /\ now' = now + 1
    /\ head' \in {head, now + 1}
    /\ UNCHANGED <<deployment, final, node, session>>

Finalize ==
    /\ final' \in final + 1 .. head
    /\ UNCHANGED <<deployment, now, head, node, session>>

\* A node that is paused stays so until it is woken.
NodeChanges ==
    /\ Myotis
    /\ \/ node.state = "STARTING" /\ node' = [node EXCEPT !.state = "RUNNING"]
       \/ node.state = "RUNNING" /\ \E s \in {"PAUSED", "STOPPED"} : node' = [node EXCEPT !.state = s]
       \/ node.state = "RUNNING" /\ node.peers = 0 /\ node' = [node EXCEPT !.peers = 1]
       \/ node.peers = 1 /\ ~node.synced /\ node' = [node EXCEPT !.synced = TRUE]
    /\ UNCHANGED <<deployment, now, head, final, session>>

(***************************************************************************)
(* The session                                                             *)
(***************************************************************************)
Steps(from, s) ==
    /\ session.at = from
    /\ session' = s
    /\ UNCHANGED <<deployment, now, head, final, node>>

To(step) == [session EXCEPT !.at = step]

Ends == [Closed EXCEPT !.at = "failed"]

Require(condition, s) == IF condition THEN s ELSE Ends

\* indexed_at is taken before the first call.
Open ==
    Steps("closed", Require(deployment.rightChain, [Closed EXCEPT !.at = "profile", !.began = now]))

\* _detect_rpc_profile.  A client that does not say what it is counts as a
\* standard one; here every Myotis node says it.
Detect ==
    Steps("profile",
          Require(deployment.asked \in {"auto", deployment.client},
                  To(IF Myotis THEN "status" ELSE "finalized")))

(***************************************************************************)
(* _myotis_finalized_header: woken once, then polled until it runs with a  *)
(* peer, then until it is synced, all within one time limit.               *)
(***************************************************************************)
WakeUp ==
    /\ session.at = "status"
    /\ node.state = "PAUSED"
    /\ \/ node' = [node EXCEPT !.state = "RUNNING"] /\ session' = To("polling")
       \/ node' = node /\ session' = Ends
    /\ UNCHANGED <<deployment, now, head, final>>

Awake ==
    /\ node.state # "PAUSED"
    /\ Steps("status", To("polling"))

Waiting == IF session.waits < MaxWaits THEN [session EXCEPT !.waits = @ + 1] ELSE Ends

Poll ==
    Steps("polling",
          IF node.state = "STOPPED" THEN Ends
          ELSE IF node.state = "RUNNING" /\ node.peers >= 1 THEN To("beacon")
          ELSE Waiting)

\* The finalized header that the beacon client names.
Beacon ==
    Steps("beacon",
          IF node.synced THEN [session EXCEPT !.at = "fresh", !.target = final] ELSE Waiting)

FinalizedHeader == Steps("finalized", [session EXCEPT !.at = "fresh", !.target = final])

\* Not too old, not from the future, and after the deployment.
Fresh ==
    Steps("fresh",
          Require(/\ session.target >= session.began - deployment.maxAge
                  /\ session.target >= deployment.from["registry"],
                  To("head")))

\* With Myotis storage is read at the head, which must not be behind finality.
StateBlock ==
    \E block \in IF Myotis THEN {head, session.target - 1} ELSE {session.target} :
        Steps("head", Require(block >= session.target, [session EXCEPT !.at = "code", !.block = block]))

HasCode(c, block) == deployment.created[c] <= block

PinFits(pin) == pin # "wrong"

\* Code now; version 2 wants storage at the finalized block and both pins.
Code ==
    Steps("code",
          Require(/\ HasCode("registry", session.block)
                  /\ deployment.facets => HasCode("facets", session.block)
                  /\ deployment.version = 2 =>
                        /\ ~Myotis
                        /\ deployment.blockPin["registry"] # "none"
                        /\ deployment.codePin["registry"] = "right",
                  To("boundary")))

\* Faulty variant: code at the first block is enough.
CodeAtFirst(c) == HasCode(c, deployment.from[c]) /\ PinFits(deployment.blockPin[c])

\* The first block has the code and the one before it has none.
CreationBoundary(c) ==
    /\ PinFits(deployment.blockPin[c])
    /\ HasCode(c, deployment.from[c])
    /\ deployment.from[c] > 0 => ~HasCode(c, deployment.from[c] - 1)

\* With Myotis: a pinned block, which has the log of the constructor.
ConstructorLog ==
    /\ deployment.blockPin["registry"] = "right"
    /\ deployment.from["registry"] = deployment.created["registry"]

Boundary ==
    Steps("boundary",
          Require(IF Myotis THEN ConstructorLog ELSE CreationBoundary("registry"),
                  To(IF deployment.facets THEN "facets" ELSE "open")))

\* _onchain_category_hints, before it reads declarations
Facets ==
    Steps("facets",
          Require(/\ deployment.from["facets"] <= session.target
                  /\ PinFits(deployment.codePin["facets"])
                  /\ IF Myotis
                     THEN /\ deployment.blockPin["facets"] # "none"
                          /\ deployment.codePin["facets"] # "none"
                     ELSE CreationBoundary("facets")
                  /\ deployment.linked,
                  To("open")))

Next ==
    \/ Tick \/ Finalize \/ NodeChanges
    \/ Open \/ Detect \/ WakeUp \/ Awake \/ Poll \/ Beacon
    \/ FinalizedHeader \/ Fresh \/ StateBlock \/ Code \/ Boundary \/ Facets

(***************************************************************************)
(* Properties                                                              *)
(***************************************************************************)
\* A session that opens reads the registry of its descriptor at a finalized block
\* that was recent when the session began, and from the block on that created
\* the contract: no event is before the first one it asks for.  That holds for
\* the facets contract too, except with Myotis, where its first block is not
\* checked (_verify_deployment_boundary, _myotis_finalized_header).
SessionIsPinned ==
    session.at = "open" =>
        /\ deployment.rightChain
        /\ session.target <= final /\ session.target <= session.block /\ session.block <= head
        /\ session.target >= session.began - deployment.maxAge
        /\ deployment.from["registry"] = deployment.created["registry"]
        /\ deployment.version = 2 => ~Myotis /\ session.block = session.target
        /\ deployment.facets =>
              /\ deployment.linked /\ HasCode("facets", session.block)
              /\ ~Myotis => deployment.from["facets"] = deployment.created["facets"]
=============================================================================
