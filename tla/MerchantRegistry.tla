-------------------------- MODULE MerchantRegistry --------------------------
(***************************************************************************)
(* The merchant registry contract (contracts/AgentCartMerchantRegistry.sol)*)
(* and the index that the projection of its events keeps.                  *)
(*                                                                         *)
(* A call of the contract is one step.  It changes the contract's storage  *)
(* and emits events, which the same step replays into the index, so the    *)
(* index is at every state what a reader of the whole log would have.  The *)
(* id of a record is its domain with the controller that registered it.    *)
(* A merchant's documents name the controller of its record.               *)
(*                                                                         *)
(* Left out: flags, the transfer of ownership, and the lengths of the      *)
(* delays (what is scheduled or approved may be executed at any later      *)
(* step, or never).                                                        *)
(***************************************************************************)
EXTENDS RegistryProjection

CONSTANTS Domains, Controllers, Scenes

RecordId(d, c) == <<d, c>>

(***************************************************************************)
(* A scene bounds a behaviour: who may be a controller or a validator, the *)
(* governance actions the owner may schedule, the last time of the clock,  *)
(* the highest generation, and whether the owner pauses writes.            *)
(***************************************************************************)
ASSUME IdsAreDomainsOfControllers == Ids = Domains \X Controllers
ASSUME NoneIsNoId == None \notin Ids
ASSUME NoneIsNoHash == None \notin Hashes
ASSUME NoneIsNoTime == None \notin Nat
ASSUME ValidatorsAreFinite == IsFiniteSet(Validators)
ASSUME RegistryScenes ==
    \A s \in Scenes :
        /\ s.controllers \subseteq Controllers /\ s.domains \subseteq Domains
        /\ s.time \in Nat /\ s.generations \in Nat /\ s.pauses \in BOOLEAN

VARIABLES record,      \* _records
          domain,      \* recordIdForDomain
          revoked,     \* revokedRecordHashes
          attested,    \* _attestations
          enabledAt,   \* validatorEnabledAt, None when disabled
          threshold,   \* attestationThreshold
          pending,     \* _supersessions
          scheduled,   \* governanceActionReadyAt
          paused,      \* writesPaused
          now,         \* block.timestamp
          index,       \* the projection of all events so far
          scene        \* chosen once

contract == <<record, domain, revoked, attested, enabledAt, threshold, pending,
              scheduled, paused>>
vars == <<contract, now, index, scene>>

NoRecord == [status |-> "none", controller |-> None, hash |-> None, generation |-> 0]
NoAttestation == [hash |-> None, at |-> 0, expires |-> 0, generation |-> 0]

Init ==
    /\ scene \in Scenes
    /\ record = [i \in Ids |-> NoRecord]
    /\ domain = [d \in Domains |-> None]
    /\ revoked = {}
    /\ attested = [i \in Ids |-> [v \in Validators |-> NoAttestation]]
    /\ enabledAt = [v \in Validators |-> None]
    /\ threshold = 1
    /\ pending = [i \in Ids |-> None]
    /\ scheduled = {}
    /\ paused = FALSE
    /\ now = 0
    /\ index = EmptyIndex

Emit(e) == index' = Replayed(index, e)

WritesOpen == ~paused

NewRecord(c, h) == [status |-> "active", controller |-> c, hash |-> h, generation |-> 0]

\* attestationGeneration += 1, up to the bound of the scene
NextGeneration(i) ==
    /\ record[i].generation < scene.generations

(***************************************************************************)
(* Records                                                                 *)
(***************************************************************************)
\* Faulty variant: a domain that has a record is registered again.
RegisterOver(d, c, h) ==
    LET i == RecordId(d, c) IN
    /\ WritesOpen
    /\ h \notin revoked
    /\ record' = [record EXCEPT ![i] = NewRecord(c, h)]
    /\ domain' = [domain EXCEPT ![d] = i]
    /\ Emit([name |-> "MerchantRegistered", id |-> i, hash |-> h, controller |-> c,
             named |-> c])
    /\ UNCHANGED <<revoked, attested, enabledAt, threshold, pending, scheduled, paused,
                   now, scene>>

Register(d, c, h) ==
    LET i == RecordId(d, c) IN
    /\ WritesOpen
    /\ h \notin revoked
    /\ domain[d] = None
    /\ record' = [record EXCEPT ![i] = NewRecord(c, h)]
    /\ domain' = [domain EXCEPT ![d] = i]
    /\ Emit([name |-> "MerchantRegistered", id |-> i, hash |-> h, controller |-> c,
             named |-> c])
    /\ UNCHANGED <<revoked, attested, enabledAt, threshold, pending, scheduled, paused,
                   now, scene>>

\* update, and setController to another controller
SetDocument(i, c, h, event) ==
    /\ WritesOpen
    /\ h \notin revoked
    /\ record[i].status = "active"
    /\ NextGeneration(i)
    /\ record' = [record EXCEPT ![i].hash = h, ![i].controller = c, ![i].generation = @ + 1]
    /\ Emit(event)
    /\ UNCHANGED <<domain, revoked, attested, enabledAt, threshold, pending, scheduled,
                   paused, now, scene>>

Update(i, h) ==
    SetDocument(i, record[i].controller, h,
                [name |-> "MerchantUpdated", id |-> i, hash |-> h,
                 named |-> record[i].controller])

SetController(i, c, h) ==
    SetDocument(i, c, h, [name |-> "ControllerChanged", id |-> i, hash |-> h,
                          controller |-> c, named |-> c])

\* _revoke: its guard, and the storage after it
Revocable(i) == record[i].status \in {"active", "suspended"} /\ NextGeneration(i)
AfterRevoke(i) == [record EXCEPT ![i].status = "revoked", ![i].generation = @ + 1]

Revoke(i) ==
    /\ WritesOpen
    /\ Revocable(i)
    /\ record' = AfterRevoke(i)
    /\ revoked' = revoked \cup {record[i].hash}
    /\ domain' = [domain EXCEPT ![i[1]] = None]
    /\ Emit([name |-> "MerchantRevoked", id |-> i])
    /\ UNCHANGED <<attested, enabledAt, threshold, pending, scheduled, paused, now, scene>>

ForceRevoke(i) ==
    /\ WritesOpen
    /\ <<"forceRevoke", i>> \in scheduled
    /\ Revocable(i)
    /\ scheduled' = scheduled \ {<<"forceRevoke", i>>}
    /\ record' = AfterRevoke(i)
    /\ revoked' = revoked \cup {record[i].hash}
    /\ domain' = [domain EXCEPT ![i[1]] = None]
    /\ index' = Replayed(Replayed(index, [name |-> "MerchantRevoked", id |-> i]),
                         [name |-> "MerchantForceRevoked", id |-> i])
    /\ UNCHANGED <<attested, enabledAt, threshold, pending, paused, now, scene>>

\* By the owner or a validator.
Suspend(i) ==
    /\ WritesOpen
    /\ record[i].status = "active"
    /\ NextGeneration(i)
    /\ record' = [record EXCEPT ![i].status = "suspended", ![i].generation = @ + 1]
    /\ Emit([name |-> "MerchantSuspended", id |-> i])
    /\ UNCHANGED <<domain, revoked, attested, enabledAt, threshold, pending, scheduled,
                   paused, now, scene>>

Unsuspend(i) ==
    /\ WritesOpen
    /\ record[i].status = "suspended"
    /\ record' = [record EXCEPT ![i].status = "active"]
    /\ Emit([name |-> "MerchantUnsuspended", id |-> i])
    /\ UNCHANGED <<domain, revoked, attested, enabledAt, threshold, pending, scheduled,
                   paused, now, scene>>

(***************************************************************************)
(* Supersessions: another controller takes a domain over                   *)
(***************************************************************************)
RequestSupersession(d, c, h) ==
    LET i == RecordId(d, c) IN
    /\ WritesOpen
    /\ h \notin revoked
    /\ domain[d] \notin {None, i}
    /\ pending' = [pending EXCEPT ![i] =
           [controller |-> c, previous |-> domain[d], hash |-> h, approved |-> FALSE]]
    /\ Emit([name |-> "SupersessionRequested", id |-> i, controller |-> c])
    /\ UNCHANGED <<record, domain, revoked, attested, enabledAt, threshold, scheduled,
                   paused, now, scene>>

ApproveSupersession(i) ==
    /\ WritesOpen
    /\ pending[i] # None
    /\ pending' = [pending EXCEPT ![i].approved = TRUE]
    /\ Emit([name |-> "SupersessionApproved", id |-> i])
    /\ UNCHANGED <<record, domain, revoked, attested, enabledAt, threshold, scheduled,
                   paused, now, scene>>

CancelSupersession(i) ==
    /\ WritesOpen
    /\ pending[i] # None
    /\ pending' = [pending EXCEPT ![i] = None]
    /\ Emit([name |-> "SupersessionCanceled", id |-> i])
    /\ UNCHANGED <<record, domain, revoked, attested, enabledAt, threshold, scheduled,
                   paused, now, scene>>

\* The index after the three events of an activation.
AfterActivation(i, p) ==
    LET revocation   == [name |-> "MerchantRevoked", id |-> p.previous]
        activation   == [name |-> "SupersessionActivated", id |-> i, previous |-> p.previous,
                         hash |-> p.hash, controller |-> p.controller,
                         named |-> p.controller]
        registration == [name |-> "MerchantRegistered", id |-> i, hash |-> p.hash,
                         controller |-> p.controller, named |-> p.controller]
    IN  Replayed(Replayed(Replayed(index, revocation), activation), registration)

\* Faulty variant: the hash is looked up before the previous record is revoked.
ActivateEarly(i) ==
    LET p == pending[i] IN
    /\ WritesOpen
    /\ p # None
    /\ p.approved
    /\ domain[i[1]] = p.previous
    /\ p.hash \notin revoked
    /\ Revocable(p.previous)
    /\ record' = [AfterRevoke(p.previous) EXCEPT ![i] = NewRecord(p.controller, p.hash)]
    /\ revoked' = revoked \cup {record[p.previous].hash}
    /\ domain' = [domain EXCEPT ![i[1]] = i]
    /\ pending' = [pending EXCEPT ![i] = None]
    /\ index' = AfterActivation(i, p)
    /\ UNCHANGED <<attested, enabledAt, threshold, scheduled, paused, now, scene>>

\* Only while the domain still has the record that was to be superseded.
ActivateSupersession(i) ==
    LET p == pending[i] IN
    /\ WritesOpen
    /\ p # None
    /\ p.approved
    /\ domain[i[1]] = p.previous
    /\ Revocable(p.previous)
    /\ p.hash \notin revoked \cup {record[p.previous].hash}
    /\ record' = [AfterRevoke(p.previous) EXCEPT ![i] = NewRecord(p.controller, p.hash)]
    /\ revoked' = revoked \cup {record[p.previous].hash}
    /\ domain' = [domain EXCEPT ![i[1]] = i]
    /\ pending' = [pending EXCEPT ![i] = None]
    /\ index' = AfterActivation(i, p)
    /\ UNCHANGED <<attested, enabledAt, threshold, scheduled, paused, now, scene>>

(***************************************************************************)
(* Attestations                                                            *)
(***************************************************************************)
Attest(v, i, expires) ==
    /\ WritesOpen
    /\ enabledAt[v] # None
    /\ record[i].status = "active"
    /\ expires > now
    /\ attested' = [attested EXCEPT ![i][v] =
           [hash |-> record[i].hash, at |-> now, expires |-> expires,
            generation |-> record[i].generation]]
    /\ Emit([name |-> "MerchantAttested", id |-> i, validator |-> v,
             hash |-> record[i].hash, expires |-> expires])
    /\ UNCHANGED <<record, domain, revoked, enabledAt, threshold, pending, scheduled,
                   paused, now, scene>>

\* _attestationSummary: what counts at this time
Counted(i) ==
    {v \in Validators :
        LET a == attested[i][v] IN
        /\ enabledAt[v] # None
        /\ a.generation = record[i].generation
        /\ a.at >= enabledAt[v]
        /\ a.hash = record[i].hash
        /\ a.expires > now}

AttestationIsCurrent(i) ==
    record[i].status = "active" /\ Cardinality(Counted(i)) >= threshold

(***************************************************************************)
(* The owner                                                               *)
(***************************************************************************)
Schedule(action) ==
    /\ action \in scene.governance
    /\ scheduled' = scheduled \cup {action}
    /\ UNCHANGED <<record, domain, revoked, attested, enabledAt, threshold, pending,
                   paused, now, index, scene>>

CancelScheduled(action) ==
    /\ action \in scheduled
    /\ scheduled' = scheduled \ {action}
    /\ UNCHANGED <<record, domain, revoked, attested, enabledAt, threshold, pending,
                   paused, now, index, scene>>

\* The time is kept when the validator is enabled already.
SetValidator(v, on) ==
    /\ <<"setValidator", v, on>> \in scheduled
    /\ scheduled' = scheduled \ {<<"setValidator", v, on>>}
    /\ enabledAt' = [enabledAt EXCEPT ![v] = CASE on /\ @ # None  -> @
                                               [] on /\ @ = None  -> now
                                               [] ~on             -> None]
    /\ Emit([name |-> "ValidatorSet", validator |-> v, enabled |-> on])
    /\ UNCHANGED <<record, domain, revoked, attested, threshold, pending, paused, now, scene>>

SetThreshold(n) ==
    /\ <<"setThreshold", n>> \in scheduled
    /\ scheduled' = scheduled \ {<<"setThreshold", n>>}
    /\ threshold' = n
    /\ Emit([name |-> "AttestationThresholdSet", threshold |-> n])
    /\ UNCHANGED <<record, domain, revoked, attested, enabledAt, pending, paused, now, scene>>

SetWritesPaused(on) ==
    /\ scene.pauses
    /\ paused' = on
    /\ Emit([name |-> "WritesPaused", paused |-> on])
    /\ UNCHANGED <<record, domain, revoked, attested, enabledAt, threshold, pending,
                   scheduled, now, scene>>

Tick ==
    /\ now < scene.time
    /\ now' = now + 1
    /\ UNCHANGED <<contract, index, scene>>

Next ==
    \/ \E d \in scene.domains, c \in scene.controllers, h \in Hashes :
          Register(d, c, h) \/ RequestSupersession(d, c, h)
    \/ \E i \in Ids :
          \/ \E h \in Hashes : \/ Update(i, h)
                               \/ \E c \in scene.controllers : SetController(i, c, h)
          \/ Revoke(i) \/ ForceRevoke(i) \/ Suspend(i) \/ Unsuspend(i)
          \/ ApproveSupersession(i) \/ CancelSupersession(i) \/ ActivateSupersession(i)
          \/ \E v \in Validators, e \in 1 .. scene.time + 1 : Attest(v, i, e)
    \/ \E a \in scene.governance : Schedule(a) \/ CancelScheduled(a)
    \/ \E v \in Validators, on \in BOOLEAN : SetValidator(v, on)
    \/ \E n \in 1 .. Cardinality(Validators) : SetThreshold(n)
    \/ \E on \in BOOLEAN : SetWritesPaused(on)
    \/ Tick

Spec == Init /\ [][Next]_vars

(***************************************************************************)
(* Types                                                                   *)
(***************************************************************************)
Statuses == {"none", "active", "suspended", "revoked"}

\* Every field of the contract and of the index has its type.
TypeOK ==
    /\ scene \in Scenes
    /\ record \in [Ids -> [status : Statuses, controller : Controllers \cup {None},
                           hash : Hashes \cup {None}, generation : 0 .. scene.generations]]
    /\ domain \in [Domains -> Ids \cup {None}]
    /\ revoked \subseteq Hashes
    /\ attested \in [Ids -> [Validators ->
           [hash : Hashes \cup {None}, at : Nat, expires : Nat, generation : Nat]]]
    /\ enabledAt \in [Validators -> Nat \cup {None}]
    /\ threshold \in Nat \ {0}
    /\ pending \in [Ids -> [controller : Controllers, previous : Ids, hash : Hashes,
                            approved : BOOLEAN] \cup {None}]
    /\ scheduled \subseteq scene.governance
    /\ paused \in BOOLEAN
    /\ now \in 0 .. scene.time
    /\ index.active \in [Ids -> Hashes \cup {None}]
    /\ index.revocations \subseteq [id : Ids, hash : Hashes, forced : BOOLEAN]
    /\ index.attestations \subseteq [id : Ids, validator : Validators, hash : Hashes,
                                     expires : Nat, since : BOOLEAN]
    /\ index.suspended \subseteq Ids
    /\ index.enabled \subseteq Validators
    /\ index.paused \in BOOLEAN
    /\ index.controller \in [Ids -> Controllers \cup {None}]
    /\ index.misbound \subseteq Ids

(***************************************************************************)
(* Properties                                                              *)
(***************************************************************************)
\* A domain is registered to one record, the only one of it that is neither
\* unknown nor revoked, through supersessions that overlap other calls.
DomainHasOneRecord ==
    \A i \in Ids : record[i].status \in {"active", "suspended"} <=> domain[i[1]] = i

\* A step gives record i its document: another hash, or the one it had before it
\* was revoked.
GivesDocument(i) ==
    \/ record'[i].hash # record[i].hash
    \/ record[i].status \in {"none", "revoked"} /\ record'[i].status = "active"

\* No call gives a record a document hash that is revoked, not even when it is
\* the hash of the record that the very call revokes, or that of a revoked record
\* that is registered again.
RevokedHashStaysRevoked ==
    [][\A i \in Ids : GivesDocument(i) => record'[i].hash \notin revoked']_vars

\* The replayed index is the contract's storage: the same records are active or
\* suspended with the same hash and controller, the same hashes are revoked, and a
\* merchant whose documents name the controller of its record is never refused.
IndexIsTheContract ==
    /\ \A i \in Ids : index.active[i] =
           IF record[i].status \in {"active", "suspended"} THEN record[i].hash ELSE None
    /\ index.suspended = {i \in Ids : record[i].status = "suspended"}
    /\ RevokedHashes(index) = revoked
    /\ \A i \in Ids : record[i].status \in {"active", "suspended"} =>
           index.controller[i] = record[i].controller
    /\ index.misbound = {}
    /\ index.threshold = threshold
    /\ index.paused = paused

\* A quorum of attestations the index shows is one the contract grants, and it
\* lasts no longer.
ShownQuorumIsGranted ==
    \A i \in Ids : HasQuorum(index, i, now) =>
        /\ AttestationIsCurrent(i)
        /\ Cardinality({v \in Counted(i) :
                            attested[i][v].expires >= QuorumExpiry(index, i, now)}) >= threshold

\* Whatever a hosted feed holds, a record of the overlay that is anchored in the
\* contract is active there with that very document, and no other is revoked.
OverlayIsCurrent ==
    LET merchantOf == [i \in Ids |-> i[1]]
        hosted == [id : Ids \cup {None}, hash : Hashes, merchant : Domains]
    IN  \A r \in Overlay(index, hosted, merchantOf) :
            /\ r.id # None => record[r.id].status = "active" /\ record[r.id].hash = r.hash
            /\ r.id = None => r.hash \notin revoked

\* What a buyer is shown, records, revocations and quorums alike, is what the
\* contract says at that block, after any sequence of its events (overlay_records,
\* index_contract_events).
BuyersSeeTheContract == IndexIsTheContract /\ ShownQuorumIsGranted /\ OverlayIsCurrent
=============================================================================
