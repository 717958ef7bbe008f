------------------------- MODULE RegistryProjection -------------------------
(***************************************************************************)
(* What shopbridge_onchain_projection.py makes of the events of the        *)
(* merchant registry contract: index_contract_events replays them one by   *)
(* one into an index, and overlay_records applies the index to the records *)
(* of a hosted feed.                                                       *)
(*                                                                         *)
(* The index is a record; Project is the body of the replay's loop.  A     *)
(* record is known by its id and the hash of its document.                 *)
(***************************************************************************)
EXTENDS Naturals, FiniteSets, Sequences, SequencesExt

CONSTANTS Ids,         \* record ids
          Hashes,      \* hashes of record documents
          Validators,
          None

(***************************************************************************)
(* The index                                                               *)
(***************************************************************************)
EmptyIndex ==
    [active        |-> [i \in Ids |-> None],   \* the hash of the active record
     revocations   |-> {},                     \* of [id, hash, forced]
     attestations  |-> {},                     \* of [id, validator, hash, expires, since]
     suspended     |-> {},
     supersessions |-> [i \in Ids |-> None],   \* the state of the latest one
     enabled       |-> {},
     threshold     |-> 1,
     paused        |-> FALSE,
     controller    |-> [i \in Ids |-> None],   \* who controls each record
     misbound      |-> {}]                     \* ids with a document of another
WithoutAttestations(index, i) ==
    {a \in index.attestations : a.id # i}

\* activate(): a listed hash is no longer a revoked one.
Activated(index, i, h) ==
    [index EXCEPT !.active[i] = h,
                  !.revocations = {r \in @ : r.hash # h},
                  !.attestations = WithoutAttestations(index, i),
                  !.suspended = @ \ {i}]

Removed(index, i) ==
    [index EXCEPT !.active[i] = None,
                  !.attestations = WithoutAttestations(index, i),
                  !.suspended = @ \ {i}]

WithRevocation(index, i, h) ==
    [index EXCEPT !.revocations =
        {r \in @ : r.hash # h} \cup {[id |-> i, hash |-> h, forced |-> FALSE]}]

\* Faulty variant: the hash of a revoked record is not remembered.
MerchantForgotten(index, e) == Removed(index, e.id)

MerchantRevoked(index, e) ==
    LET h == index.active[e.id] IN
    IF h = None THEN Removed(index, e.id)
    ELSE WithRevocation(Removed(index, e.id), e.id, h)

MerchantForceRevoked(index, e) ==
    [index EXCEPT !.revocations =
        {IF r.id = e.id THEN [r EXCEPT !.forced = TRUE] ELSE r : r \in @}]

\* The previous record of the domain goes, unless its own event removed it.
SupersessionActivated(index, e) ==
    LET h == index.active[e.previous]
        without == Removed(index, e.previous)
        after == IF h \in {None} \cup {r.hash : r \in index.revocations} THEN without
                 ELSE WithRevocation(without, e.previous, h)
    IN  [Activated(after, e.id, e.hash) EXCEPT !.supersessions[e.id] = "activated"]

MerchantAttested(index, e) ==
    IF index.active[e.id] = e.hash
    THEN [index EXCEPT !.attestations =
            {a \in @ : a.id # e.id \/ a.validator # e.validator} \cup
            {[id |-> e.id, validator |-> e.validator, hash |-> e.hash,
              expires |-> e.expires, since |-> TRUE]}]
    ELSE index

MerchantSuspended(index, e) ==
    [index EXCEPT !.suspended = @ \cup {e.id},
                  !.attestations = WithoutAttestations(index, e.id)]

\* Faulty variant: a validator that was disabled keeps its attestations.
ValidatorSwitched(index, e) ==
    [index EXCEPT !.enabled = IF e.enabled THEN @ \cup {e.validator} ELSE @ \ {e.validator}]

\* "since" says whether an attestation came after its validator was last enabled.
ValidatorSet(index, e) ==
    IF e.enabled
    THEN [index EXCEPT !.enabled = @ \cup {e.validator},
                       !.attestations = {IF a.validator = e.validator
                                         THEN [a EXCEPT !.since = FALSE] ELSE a : a \in @}]
    ELSE [index EXCEPT !.enabled = @ \ {e.validator},
                       !.attestations = {a \in @ : a.validator # e.validator}]

Project(index, e) ==
    CASE e.name \in {"MerchantRegistered", "MerchantUpdated", "ControllerChanged"}
            -> Activated(index, e.id, e.hash)
      [] e.name = "MerchantRevoked"         -> MerchantRevoked(index, e)
      [] e.name = "MerchantForceRevoked"    -> MerchantForceRevoked(index, e)
      [] e.name = "SupersessionRequested"   -> [index EXCEPT !.supersessions[e.id] = "requested"]
      [] e.name = "SupersessionApproved"    -> [index EXCEPT !.supersessions[e.id] = "approved"]
      [] e.name = "SupersessionCanceled"    -> [index EXCEPT !.supersessions[e.id] = "canceled"]
      [] e.name = "SupersessionActivated"   -> SupersessionActivated(index, e)
      [] e.name = "MerchantAttested"        -> MerchantAttested(index, e)
      [] e.name = "MerchantSuspended"       -> MerchantSuspended(index, e)
      [] e.name = "MerchantUnsuspended"     -> [index EXCEPT !.suspended = @ \ {e.id}]
      [] e.name = "ValidatorSet"            -> ValidatorSet(index, e)
      [] e.name = "AttestationThresholdSet" -> [index EXCEPT !.threshold = e.threshold]
      [] e.name = "WritesPaused"            -> [index EXCEPT !.paused = e.paused]

(***************************************************************************)
(* The documents of the records name their controller.  An event that      *)
(* carries a controller says who it is; another event's document must name *)
(* the last one.  e.named is the controller the attached document names.   *)
(***************************************************************************)
DocumentEvents == {"MerchantRegistered", "MerchantUpdated", "ControllerChanged",
                   "SupersessionActivated"}

Expected(index, e) ==
    IF "controller" \in DOMAIN e THEN e.controller ELSE index.controller[e.id]

\* Faulty variant: an update forgets who controls the record.
Forgetful(index, e) ==
    IF "id" \notin DOMAIN e THEN index
    ELSE [index EXCEPT !.controller[e.id] =
              IF "controller" \in DOMAIN e THEN e.controller ELSE None]

Bound(index, e) ==
    IF "id" \notin DOMAIN e THEN index
    ELSE [index EXCEPT
            !.misbound = IF e.name \in DocumentEvents /\ e.named # Expected(index, e)
                         THEN @ \cup {e.id} ELSE @,
            !.controller[e.id] = IF e.name = "MerchantRevoked" THEN None
                                 ELSE Expected(index, e)]

Replayed(index, e) == Bound(Project(index, e), e)

Projected(index, events) == FoldLeft(Replayed, index, events)

(***************************************************************************)
(* The lists of the index                                                  *)
(***************************************************************************)
Listed(index) == {i \in Ids : index.active[i] # None /\ i \notin index.suspended}

RevokedHashes(index) == {r.hash : r \in index.revocations}

CurrentAttestations(index, i, now) ==
    {a \in index.attestations :
        /\ a.id = i /\ a.validator \in index.enabled
        /\ a.since /\ a.expires > now
        /\ i \in Listed(index)}

HasQuorum(index, i, now) ==
    /\ index.threshold > 0
    /\ Cardinality(CurrentAttestations(index, i, now)) >= index.threshold

\* The quorum lasts until fewer than threshold attestations are left.
QuorumExpiry(index, i, now) ==
    LET current == CurrentAttestations(index, i, now)
        Lasting(t) == {a \in current : a.expires >= t}
    IN  CHOOSE t \in {a.expires : a \in current} :
            /\ Cardinality(Lasting(t)) >= index.threshold
            /\ \A u \in {a.expires : a \in current} :
                  Cardinality(Lasting(u)) >= index.threshold => u <= t

(***************************************************************************)
(* The overlay.  A hosted record has a hash, the id it is anchored to (or  *)
(* None) and the merchant it names.                                        *)
(***************************************************************************)

Kept(index, r, merchantOf) ==
    /\ r.hash \notin RevokedHashes(index)
    /\ r.id \notin index.suspended
    /\ r.id # None => r.id \in Listed(index) /\ index.active[r.id] = r.hash
    /\ \A i \in Listed(index) : merchantOf[i] # r.merchant

Overlay(index, hosted, merchantOf) ==
    {r \in hosted : Kept(index, r, merchantOf)} \cup
    {[id |-> i, hash |-> index.active[i], merchant |-> merchantOf[i]] : i \in Listed(index)}
=============================================================================
