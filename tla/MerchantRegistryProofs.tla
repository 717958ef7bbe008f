----------------------- MODULE MerchantRegistryProofs -----------------------
(***************************************************************************)
(* Theorems about the registry contract, for every set of domains,         *)
(* controllers, hashes and validators, and calls in any order: a domain    *)
(* has one record; a revoked hash is never given to a record; the index    *)
(* that a reader replays from the log is the contract's storage; and what  *)
(* that index grants - a quorum, a record in an overlaid feed - the        *)
(* contract grants.  Then about the document of its events: what an        *)
(* operator publishes is the log, and no damaged copy passes for another.  *)
(***************************************************************************)
EXTENDS MerchantRegistry, ContractFeed, FiniteSetTheorems, SequenceTheorems,
        WellFoundedInduction, TLAPS

USE IdsAreDomainsOfControllers, NoneIsNoId

(***************************************************************************)
(* The inductive invariant                                                 *)
(***************************************************************************)
Live == {"active", "suspended"}

RecordType == [status : Statuses, controller : Controllers \cup {None},
               hash : Hashes \cup {None}, generation : Nat]

PendingType == [controller : Controllers, previous : Ids, hash : Hashes,
                approved : BOOLEAN]

\* The part of the storage that decides who has a domain.
StorageOK ==
    /\ scene \in Scenes
    /\ record \in [Ids -> RecordType]
    /\ domain \in [Domains -> Ids \cup {None}]
    /\ pending \in [Ids -> PendingType \cup {None}]

\* A domain is registered to a record of its own.
DomainsAreOwn == \A d \in Domains : domain[d] # None => domain[d][1] = d

\* What is to be superseded is another record of the same domain: without it the
\* activation could revoke the record it is about to write.
SupersedesAnother ==
    \A i \in Ids : pending[i] # None =>
        pending[i].previous # i /\ pending[i].previous[1] = i[1]

Ownership == DomainsAreOwn /\ SupersedesAnother /\ DomainHasOneRecord

IInv == StorageOK /\ Ownership

(***************************************************************************)
(* What a call does to one record                                          *)
(***************************************************************************)

\* An id is the pair of its domain and its controller.
LEMMA IdFacts ==
    /\ \A i \in Ids : i[1] \in Domains
    /\ \A d \in Domains, c \in Controllers : RecordId(d, c) \in Ids /\ RecordId(d, c)[1] = d
BY DEF RecordId

\* A scene names controllers and domains.
LEMMA SceneFacts ==
    ASSUME scene \in Scenes
    PROVE  scene.controllers \subseteq Controllers /\ scene.domains \subseteq Domains
BY RegistryScenes

\* No two records of a domain are live.
LEMMA OthersAreDead ==
    ASSUME DomainHasOneRecord, NEW i \in Ids, domain[i[1]] \in {i, None}
    PROVE  \A j \in Ids : j # i /\ j[1] = i[1] => record[j].status \notin Live
BY DEF DomainHasOneRecord, Live

\* One record is written and its domain is registered to it or to none: the
\* record is live exactly if it has the domain, and had no live rival.
LEMMA OneRecord ==
    ASSUME StorageOK, Ownership, scene' = scene, pending' = pending,
           NEW i \in Ids, domain[i[1]] \in {i, None},
           NEW r \in RecordType, record' = [record EXCEPT ![i] = r],
           NEW d \in {i, None}, domain' = [domain EXCEPT ![i[1]] = d],
           r.status \in Live <=> d = i
    PROVE  IInv'
<1>. USE DEF Ownership
<1>1. StorageOK'
  BY IdFacts DEF StorageOK
<1>2. DomainsAreOwn' /\ SupersedesAnother'
  BY IdFacts DEF StorageOK, DomainsAreOwn, SupersedesAnother
<1>3. DomainHasOneRecord'
  BY IdFacts, OthersAreDead DEF StorageOK, DomainHasOneRecord, Live
<1>. QED
  BY <1>1, <1>2, <1>3 DEF IInv

\* A record that keeps its domain is written, and stays live or dead.
LEMMA SameOwner ==
    ASSUME StorageOK, Ownership, scene' = scene, pending' = pending, domain' = domain,
           NEW i \in Ids, NEW r \in RecordType, record' = [record EXCEPT ![i] = r],
           r.status \in Live <=> record[i].status \in Live
    PROVE  IInv'
<1>. USE DEF Ownership
<1>1. StorageOK' /\ DomainsAreOwn' /\ SupersedesAnother'
  BY DEF StorageOK, DomainsAreOwn, SupersedesAnother
<1>2. DomainHasOneRecord'
  BY DEF StorageOK, DomainHasOneRecord, Live
<1>. QED
  BY <1>1, <1>2 DEF IInv

\* Fields of a record are replaced by values of their types.
LEMMA RecordUpdates ==
    ASSUME NEW r \in RecordType
    PROVE  /\ \A h \in Hashes, c \in Controllers \cup {None} :
                 [r EXCEPT !.hash = h, !.controller = c, !.generation = @ + 1] \in RecordType
           /\ \A s \in Statuses : /\ [r EXCEPT !.status = s] \in RecordType
                                  /\ [r EXCEPT !.status = s, !.generation = @ + 1] \in RecordType
                                  /\ [r EXCEPT !.status = s, !.generation = @ + 1].status = s
                                  /\ [r EXCEPT !.status = s, !.generation = @ + 1].hash = r.hash
<1>1. r.generation + 1 \in Nat
  BY DEF RecordType
<1>2. \A h \in Hashes, c \in Controllers \cup {None} :
         [r EXCEPT !.hash = h, !.controller = c, !.generation = @ + 1] \in RecordType
  BY <1>1 DEF RecordType
<1>3. ASSUME NEW s \in Statuses
      PROVE  [r EXCEPT !.status = s] \in RecordType
  BY DEF RecordType
<1>4. ASSUME NEW s \in Statuses
      PROVE  /\ [r EXCEPT !.status = s, !.generation = @ + 1] \in RecordType
             /\ [r EXCEPT !.status = s, !.generation = @ + 1].status = s
             /\ [r EXCEPT !.status = s, !.generation = @ + 1].hash = r.hash
  BY <1>1 DEF RecordType
<1>. QED
  BY <1>2, <1>3, <1>4

(***************************************************************************)
(* The calls                                                               *)
(***************************************************************************)
LEMMA Registering ==
    ASSUME IInv, NEW d \in scene.domains, NEW c \in scene.controllers, NEW h \in Hashes,
           Register(d, c, h)
    PROVE  IInv'
<1>. USE DEF IInv
<1>1. d \in Domains /\ c \in Controllers
  BY SceneFacts DEF StorageOK
<1>. DEFINE i == RecordId(d, c)
<1>2. i \in Ids /\ i[1] = d
  BY <1>1, IdFacts
<1>3. NewRecord(c, h) \in RecordType /\ NewRecord(c, h).status = "active"
  BY <1>1 DEF NewRecord, RecordType, Statuses
<1>4. /\ domain[d] = None /\ record' = [record EXCEPT ![i] = NewRecord(c, h)]
      /\ domain' = [domain EXCEPT ![i[1]] = i] /\ pending' = pending /\ scene' = scene
  BY <1>2 DEF Register
<1>. HIDE DEF i
<1>. QED
  BY <1>2, <1>3, <1>4, OneRecord DEF Live

LEMMA SettingDocuments ==
    ASSUME IInv, NEW i \in Ids, NEW h \in Hashes, NEW c \in Controllers \cup {None}, NEW e,
           SetDocument(i, c, h, e)
    PROVE  IInv'
<1>. USE DEF IInv
<1>. DEFINE r == [record[i] EXCEPT !.hash = h, !.controller = c, !.generation = @ + 1]
<1>1. record[i] \in RecordType
  BY DEF StorageOK
<1>2. r \in RecordType
  BY <1>1, RecordUpdates
<1>3. r.status = record[i].status
  BY <1>1 DEF RecordType
<1>4. record' = [record EXCEPT ![i] = r]
      /\ domain' = domain /\ pending' = pending /\ scene' = scene
  BY DEF SetDocument, StorageOK
<1>. HIDE DEF r
<1>. QED
  BY <1>2, <1>3, <1>4, SameOwner

LEMMA Suspending ==
    ASSUME IInv, NEW i \in Ids, Suspend(i) \/ Unsuspend(i)
    PROVE  IInv'
<1>. USE DEF IInv
<1>1. record[i] \in RecordType
  BY DEF StorageOK
<1>2. PICK r \in RecordType :
         /\ record' = [record EXCEPT ![i] = r]
         /\ r.status \in Live /\ record[i].status \in Live
  <2>1. CASE Suspend(i)
    <3>. DEFINE r == [record[i] EXCEPT !.status = "suspended", !.generation = @ + 1]
    <3>1. r \in RecordType /\ r.status = "suspended" /\ record[i].status = "active"
      BY <1>1, <2>1, RecordUpdates DEF Suspend, Statuses
    <3>2. record' = [record EXCEPT ![i] = r]
      BY <2>1 DEF Suspend, StorageOK
    <3>. QED
      BY <3>1, <3>2 DEF Live
  <2>2. CASE Unsuspend(i)
    <3>. DEFINE r == [record[i] EXCEPT !.status = "active"]
    <3>1. r \in RecordType /\ r.status = "active" /\ record[i].status = "suspended"
      BY <1>1, <2>2 DEF Unsuspend, RecordType, Statuses
    <3>2. record' = [record EXCEPT ![i] = r]
      BY <2>2 DEF Unsuspend, StorageOK
    <3>. QED
      BY <3>1, <3>2 DEF Live
  <2>. QED
    BY <2>1, <2>2
<1>3. domain' = domain /\ pending' = pending /\ scene' = scene
  BY DEF Suspend, Unsuspend
<1>. QED
  BY <1>2, <1>3, SameOwner

\* The record after _revoke.
RevokedRecord(i) == [record[i] EXCEPT !.status = "revoked", !.generation = @ + 1]

LEMMA AfterRevoking ==
    ASSUME StorageOK, NEW i \in Ids
    PROVE  /\ AfterRevoke(i) = [record EXCEPT ![i] = RevokedRecord(i)]
           /\ RevokedRecord(i) \in RecordType /\ RevokedRecord(i).status = "revoked"
           /\ RevokedRecord(i).hash = record[i].hash
<1>1. record[i] \in RecordType
  BY DEF StorageOK
<1>2. AfterRevoke(i) = [record EXCEPT ![i] = RevokedRecord(i)]
  BY DEF AfterRevoke, RevokedRecord, StorageOK
<1>. QED
  BY <1>1, <1>2, RecordUpdates DEF RevokedRecord, Statuses

LEMMA Revoking ==
    ASSUME IInv, NEW i \in Ids, Revoke(i) \/ ForceRevoke(i)
    PROVE  IInv'
<1>. USE DEF IInv
<1>1. /\ record[i].status \in Live /\ record' = AfterRevoke(i)
      /\ domain' = [domain EXCEPT ![i[1]] = None] /\ pending' = pending /\ scene' = scene
  BY DEF Revoke, ForceRevoke, Revocable, Live
<1>2. domain[i[1]] = i
  BY <1>1 DEF Ownership, DomainHasOneRecord, Live
<1>3. /\ record' = [record EXCEPT ![i] = RevokedRecord(i)]
      /\ RevokedRecord(i) \in RecordType /\ RevokedRecord(i).status \notin Live
  BY <1>1, AfterRevoking DEF Live
<1>. QED
  BY <1>1, <1>2, <1>3, OneRecord

\* Requests, approvals and cancellations change what is pending only.
LEMMA Asking ==
    ASSUME IInv, NEW i \in Ids, NEW p \in PendingType \cup {None},
           pending' = [pending EXCEPT ![i] = p],
           p # None => p.previous # i /\ p.previous[1] = i[1],
           UNCHANGED <<record, domain, scene>>
    PROVE  IInv'
BY DEF IInv, Ownership, StorageOK, DomainsAreOwn, SupersedesAnother, DomainHasOneRecord

LEMMA Requesting ==
    ASSUME IInv, NEW d \in scene.domains, NEW c \in scene.controllers, NEW h \in Hashes,
           RequestSupersession(d, c, h)
    PROVE  IInv'
<1>. USE DEF IInv
<1>1. d \in Domains /\ c \in Controllers
  BY SceneFacts DEF StorageOK
<1>. DEFINE i == RecordId(d, c)
            p == [controller |-> c, previous |-> domain[d], hash |-> h, approved |-> FALSE]
<1>2. i \in Ids /\ i[1] = d
  BY <1>1, IdFacts
<1>3. domain[d] \in Ids /\ domain[d] # i /\ domain[d][1] = d
  BY <1>1 DEF RequestSupersession, StorageOK, Ownership, DomainsAreOwn
<1>4. p \in PendingType /\ p.previous = domain[d]
  BY <1>1, <1>3 DEF PendingType
<1>5. pending' = [pending EXCEPT ![i] = p] /\ UNCHANGED <<record, domain, scene>>
  BY DEF RequestSupersession
<1>. HIDE DEF i, p
<1>. QED
  BY <1>2, <1>3, <1>4, <1>5, Asking

LEMMA Deciding ==
    ASSUME IInv, NEW i \in Ids, ApproveSupersession(i) \/ CancelSupersession(i)
    PROVE  IInv'
<1>1. CASE CancelSupersession(i)
  BY <1>1, Asking DEF CancelSupersession
<1>2. CASE ApproveSupersession(i)
  <2>. DEFINE p == [pending[i] EXCEPT !.approved = TRUE]
  <2>1. pending[i] \in PendingType /\ pending[i] # None
    BY <1>2 DEF ApproveSupersession, IInv, StorageOK
  <2>2. p \in PendingType /\ p.previous = pending[i].previous
    BY <2>1 DEF PendingType
  <2>3. p.previous # i /\ p.previous[1] = i[1]
    BY <2>1, <2>2 DEF IInv, Ownership, SupersedesAnother
  <2>4. pending' = [pending EXCEPT ![i] = p] /\ UNCHANGED <<record, domain, scene>>
    BY <1>2 DEF ApproveSupersession, IInv, StorageOK
  <2>. HIDE DEF p
  <2>. QED
    BY <2>2, <2>3, <2>4, Asking
<1>. QED
  BY <1>1, <1>2

\* A domain changes hands: its record is revoked and another becomes active.
LEMMA Activating ==
    ASSUME IInv, NEW i \in Ids, ActivateSupersession(i)
    PROVE  IInv'
<1>. USE DEF IInv
<1>0. PICK p \in PendingType : p = pending[i] /\ p # None
  BY DEF ActivateSupersession, StorageOK
<1>. DEFINE j == p.previous
            n == NewRecord(p.controller, p.hash)
<1>1. /\ j \in Ids /\ j # i /\ j[1] = i[1]
      /\ domain[i[1]] = j
  BY <1>0 DEF ActivateSupersession, Ownership, SupersedesAnother, PendingType
<1>2. n \in RecordType /\ n.status = "active"
  BY DEF NewRecord, PendingType, RecordType, Statuses
<1>3. /\ record' = [AfterRevoke(j) EXCEPT ![i] = n]
      /\ domain' = [domain EXCEPT ![i[1]] = i]
      /\ pending' = [pending EXCEPT ![i] = None]
      /\ scene' = scene
  BY <1>0 DEF ActivateSupersession
<1>4. /\ record' \in [Ids -> RecordType]
      /\ record'[i].status = "active" /\ record'[j].status = "revoked"
      /\ \A k \in Ids \ {i, j} : record'[k] = record[k]
  <2>1. /\ AfterRevoke(j) = [record EXCEPT ![j] = RevokedRecord(j)]
        /\ RevokedRecord(j) \in RecordType /\ RevokedRecord(j).status = "revoked"
    BY <1>1, AfterRevoking
  <2>. HIDE DEF n, j
  <2>. QED
    BY <1>1, <1>2, <1>3, <2>1 DEF StorageOK
<1>. HIDE DEF n, j
<1>5. StorageOK'
  BY <1>3, <1>4, IdFacts DEF StorageOK
<1>6. DomainsAreOwn'
  BY <1>3, IdFacts DEF StorageOK, Ownership, DomainsAreOwn
<1>7. SupersedesAnother'
  BY <1>3 DEF StorageOK, Ownership, SupersedesAnother
<1>8. DomainHasOneRecord'
  <2>1. domain'[i[1]] = i /\ \A d \in Domains : d # i[1] => domain'[d] = domain[d]
    BY <1>3, IdFacts DEF StorageOK
  <2>2. \A k \in Ids \ {i, j} : k[1] = i[1] => record[k].status \notin Live
    BY <1>1 DEF Ownership, DomainHasOneRecord, Live
  <2>. QED
    BY <1>1, <1>4, <2>1, <2>2, IdFacts DEF Ownership, DomainHasOneRecord, Live
<1>. QED
  BY <1>5, <1>6, <1>7, <1>8 DEF Ownership

\* Every other call leaves this part of the storage alone.
LEMMA StepPreserves ==
    ASSUME IInv, [Next]_vars
    PROVE  IInv'
<1>1. CASE UNCHANGED <<record, domain, pending, scene>>
  BY <1>1 DEF IInv, Ownership, StorageOK, DomainsAreOwn, SupersedesAnother, DomainHasOneRecord
<1>2. ASSUME NEW i \in Ids, NEW h \in Hashes, Update(i, h)
      PROVE  IInv'
  <2>1. PICK c \in Controllers \cup {None} : c = record[i].controller
    BY DEF IInv, StorageOK, RecordType
  <2>2. PICK e : e = [name |-> "MerchantUpdated", id |-> i, hash |-> h,
                      named |-> record[i].controller]
    OBVIOUS
  <2>3. SetDocument(i, c, h, e)
    BY <1>2, <2>1, <2>2 DEF Update, SetDocument
  <2>. QED
    BY <2>3, SettingDocuments
<1>3. ASSUME NEW i \in Ids, NEW h \in Hashes, NEW c \in scene.controllers,
             SetController(i, c, h)
      PROVE  IInv'
  <2>1. c \in Controllers
    BY SceneFacts DEF IInv, StorageOK
  <2>2. PICK e : e = [name |-> "ControllerChanged", id |-> i, hash |-> h,
                      controller |-> c, named |-> c]
    OBVIOUS
  <2>3. SetDocument(i, c, h, e)
    BY <1>3, <2>2 DEF SetController, SetDocument
  <2>. QED
    BY <2>1, <2>3, SettingDocuments
<1>4. ASSUME NEW v \in Validators, NEW i \in Ids, NEW e, Attest(v, i, e)
      PROVE  IInv'
  BY <1>1, <1>4 DEF Attest
<1>5. ASSUME NEW a, \/ Schedule(a) \/ CancelScheduled(a)
      PROVE  IInv'
  BY <1>1, <1>5 DEF Schedule, CancelScheduled
<1>6. ASSUME NEW v, NEW on, SetValidator(v, on) \/ SetThreshold(v) \/ SetWritesPaused(on)
      PROVE  IInv'
  BY <1>1, <1>6 DEF SetValidator, SetThreshold, SetWritesPaused
<1>7. CASE Tick \/ UNCHANGED vars
  BY <1>1, <1>7 DEF Tick, vars, contract
<1>8. ASSUME NEW d \in scene.domains, NEW c \in scene.controllers, NEW h \in Hashes,
             Register(d, c, h) \/ RequestSupersession(d, c, h)
      PROVE  IInv'
  BY <1>8, Registering, Requesting
<1>9. ASSUME NEW i \in Ids,
             \/ Revoke(i) \/ ForceRevoke(i) \/ Suspend(i) \/ Unsuspend(i)
             \/ ApproveSupersession(i) \/ CancelSupersession(i) \/ ActivateSupersession(i)
      PROVE  IInv'
  BY <1>9, Revoking, Suspending, Deciding, Activating
<1>. QED
  BY <1>2, <1>3, <1>4, <1>5, <1>6, <1>7, <1>8, <1>9 DEF Next

(***************************************************************************)
(* The theorems                                                            *)
(***************************************************************************)
LEMMA InitHolds == Init => IInv
  BY IdFacts DEF Init, IInv, Ownership, StorageOK, RecordType, NoRecord, Statuses,
                 DomainsAreOwn, SupersedesAnother, DomainHasOneRecord

LEMMA Invariance == Spec => []IInv
<1>1. Init => IInv
  BY InitHolds
<1>2. IInv /\ [Next]_vars => IInv'
  BY StepPreserves
<1>. QED
  BY <1>1, <1>2, PTL DEF Spec

\* A domain is registered to one record, the only live one of it, however calls
\* of its controllers, supersessions and forced revocations overlap.
THEOREM DomainsHold == Spec => []DomainHasOneRecord
<1>1. IInv => DomainHasOneRecord
  BY DEF IInv, Ownership
<1>. QED
  BY <1>1, Invariance, PTL

\* No call gives a record a hash that is revoked after the call.
LEMMA HashStep ==
    ASSUME IInv, [Next]_vars, NEW i \in Ids, GivesDocument(i)
    PROVE  record'[i].hash \notin revoked'
<1>. USE DEF IInv, GivesDocument
<1>0. record \in [Ids -> RecordType] /\ record[i] \in RecordType
  BY DEF StorageOK
<1>1. CASE UNCHANGED record
  BY <1>1
<1>2. ASSUME NEW j \in Ids, NEW h \in Hashes, NEW c, NEW e, SetDocument(j, c, h, e)
      PROVE  record'[i].hash \notin revoked'
  BY <1>0, <1>2 DEF SetDocument, RecordType
<1>3. ASSUME NEW j \in Ids, Revoke(j) \/ ForceRevoke(j)
      PROVE  FALSE
  BY <1>0, <1>3, AfterRevoking DEF Revoke, ForceRevoke
<1>4. ASSUME NEW j \in Ids, Suspend(j) \/ Unsuspend(j)
      PROVE  FALSE
  BY <1>0, <1>4 DEF Suspend, Unsuspend, RecordType
<1>5. ASSUME NEW d \in scene.domains, NEW c \in scene.controllers, NEW h \in Hashes,
             Register(d, c, h)
      PROVE  record'[i].hash \notin revoked'
  BY <1>0, <1>5 DEF Register, NewRecord
<1>6. ASSUME NEW j \in Ids, ActivateSupersession(j)
      PROVE  record'[i].hash \notin revoked'
  <2>. DEFINE p == pending[j]
              n == NewRecord(p.controller, p.hash)
  <2>1. /\ p.previous \in Ids /\ p.hash \notin revoked'
        /\ record' = [AfterRevoke(p.previous) EXCEPT ![j] = n]
    BY <1>6 DEF ActivateSupersession, StorageOK, PendingType
  <2>2. n.hash = p.hash
    BY DEF NewRecord
  <2>3. AfterRevoke(p.previous) \in [Ids -> RecordType]
        /\ AfterRevoke(p.previous)[i].hash = record[i].hash
        /\ AfterRevoke(p.previous)[i].status \in {record[i].status, "revoked"}
    BY <1>0, <2>1, AfterRevoking
  <2>. HIDE DEF n
  <2>. QED
    BY <2>1, <2>2, <2>3
<1>. QED
  BY <1>1, <1>2, <1>3, <1>4, <1>5, <1>6
     DEF Next, vars, contract, Update, SetController, RequestSupersession,
         ApproveSupersession, CancelSupersession, Attest, Schedule, CancelScheduled,
         SetValidator, SetThreshold, SetWritesPaused, Tick

\* No call gives a record a document hash that is revoked, not even the hash of
\* the record that the very call supersedes or registers again.
THEOREM RevocationsHold == Spec => RevokedHashStaysRevoked
<1>1. IInv /\ [Next]_vars =>
        [\A i \in Ids : GivesDocument(i) => record'[i].hash \notin revoked']_vars
  BY HashStep
<1>. QED
  BY <1>1, Invariance, PTL DEF Spec, RevokedHashStaysRevoked

(***************************************************************************)
(* The index                                                               *)
(***************************************************************************)
RevocationType == [id : Ids, hash : Hashes, forced : BOOLEAN]

AttestationType == [id : Ids, validator : Validators, hash : Hashes, expires : Nat,
                    since : BOOLEAN]

SupersessionStates == {None, "requested", "approved", "canceled", "activated"}

IndexType ==
    [active        : [Ids -> Hashes \cup {None}],
     revocations   : SUBSET RevocationType,
     attestations  : SUBSET AttestationType,
     suspended     : SUBSET Ids,
     supersessions : [Ids -> SupersessionStates],
     enabled       : SUBSET Validators,
     threshold     : Nat,
     paused        : BOOLEAN,
     controller    : [Ids -> Controllers \cup {None}],
     misbound      : SUBSET Ids]

\* What the replay of an event leaves alone.
SameSettings(x, y) ==
    y.enabled = x.enabled /\ y.threshold = x.threshold /\ y.paused = x.paused

SameBinding(x, y) == y.controller = x.controller /\ y.misbound = x.misbound

LEMMA ActivatedFacts ==
    ASSUME NEW x \in IndexType, NEW i \in Ids, NEW h \in Hashes
    PROVE  LET y == Activated(x, i, h) IN
           /\ y \in IndexType
           /\ y.active = [x.active EXCEPT ![i] = h]
           /\ RevokedHashes(y) = RevokedHashes(x) \ {h}
           /\ y.attestations = WithoutAttestations(x, i)
           /\ y.suspended = x.suspended \ {i}
           /\ SameSettings(x, y) /\ SameBinding(x, y)
<1>. DEFINE y == Activated(x, i, h)
<1>1. [x.active EXCEPT ![i] = h] \in [Ids -> Hashes \cup {None}]
  BY DEF IndexType
<1>2. {r \in x.revocations : r.hash # h} \in SUBSET RevocationType
  BY DEF IndexType
<1>3. WithoutAttestations(x, i) \in SUBSET AttestationType
  BY DEF IndexType, WithoutAttestations
<1>4. y \in IndexType
  BY <1>1, <1>2, <1>3 DEF IndexType, Activated
<1>5. /\ y.active = [x.active EXCEPT ![i] = h]
      /\ y.revocations = {r \in x.revocations : r.hash # h}
      /\ y.attestations = WithoutAttestations(x, i)
      /\ y.suspended = x.suspended \ {i}
  BY DEF IndexType, Activated
<1>6. SameSettings(x, y) /\ SameBinding(x, y)
  BY DEF IndexType, Activated, SameSettings, SameBinding
<1>. HIDE DEF y
<1>7. RevokedHashes(y) = RevokedHashes(x) \ {h}
  BY <1>5 DEF RevokedHashes
<1>. QED
  BY <1>4, <1>5, <1>6, <1>7 DEF y

LEMMA RemovedFacts ==
    ASSUME NEW x \in IndexType, NEW i \in Ids
    PROVE  LET y == Removed(x, i) IN
           /\ y \in IndexType
           /\ y.active = [x.active EXCEPT ![i] = None]
           /\ y.revocations = x.revocations
           /\ y.attestations = WithoutAttestations(x, i)
           /\ y.suspended = x.suspended \ {i}
           /\ SameSettings(x, y) /\ SameBinding(x, y)
<1>. DEFINE y == Removed(x, i)
<1>1. [x.active EXCEPT ![i] = None] \in [Ids -> Hashes \cup {None}]
  BY DEF IndexType
<1>2. WithoutAttestations(x, i) \in SUBSET AttestationType
  BY DEF IndexType, WithoutAttestations
<1>3. y \in IndexType
  BY <1>1, <1>2 DEF IndexType, Removed
<1>4. /\ y.active = [x.active EXCEPT ![i] = None]
      /\ y.revocations = x.revocations
      /\ y.attestations = WithoutAttestations(x, i)
      /\ y.suspended = x.suspended \ {i}
  BY DEF IndexType, Removed
<1>5. SameSettings(x, y) /\ SameBinding(x, y)
  BY DEF IndexType, Removed, SameSettings, SameBinding
<1>. QED
  BY <1>3, <1>4, <1>5

\* Indices that differ in their revocations only.
SameRecords(x, y) ==
    /\ y.active = x.active /\ y.suspended = x.suspended
    /\ y.attestations = x.attestations

LEMMA RevocationFacts ==
    ASSUME NEW x \in IndexType, NEW i \in Ids, NEW h \in Hashes
    PROVE  LET y == WithRevocation(x, i, h) IN
           /\ y \in IndexType
           /\ RevokedHashes(y) = RevokedHashes(x) \cup {h}
           /\ SameRecords(x, y) /\ SameSettings(x, y) /\ SameBinding(x, y)
<1>. DEFINE y == WithRevocation(x, i, h)
            n == [id |-> i, hash |-> h, forced |-> FALSE]
<1>1. n \in RevocationType /\ n.hash = h
  BY DEF RevocationType
<1>2. y.revocations = {r \in x.revocations : r.hash # h} \cup {n}
  BY DEF WithRevocation, IndexType
<1>3. {r \in x.revocations : r.hash # h} \cup {n} \in SUBSET RevocationType
  BY <1>1 DEF IndexType
<1>4. SameRecords(x, y) /\ SameSettings(x, y) /\ SameBinding(x, y)
  BY DEF WithRevocation, IndexType, SameRecords, SameSettings, SameBinding
<1>. HIDE DEF n
<1>5. y \in IndexType
  <2>1. y = [x EXCEPT !.revocations = {r \in x.revocations : r.hash # h} \cup {n}]
    BY DEF WithRevocation, IndexType, n
  <2>. QED
    BY <1>3, <2>1 DEF IndexType
<1>. HIDE DEF y
<1>6. RevokedHashes(y) = RevokedHashes(x) \cup {h}
  BY <1>1, <1>2 DEF RevokedHashes
<1>. QED
  BY <1>4, <1>5, <1>6 DEF y

LEMMA ForcedFacts ==
    ASSUME NEW x \in IndexType, NEW e, e.id \in Ids
    PROVE  LET y == MerchantForceRevoked(x, e) IN
           /\ y \in IndexType
           /\ RevokedHashes(y) = RevokedHashes(x)
           /\ SameRecords(x, y) /\ SameSettings(x, y) /\ SameBinding(x, y)
<1>. DEFINE y == MerchantForceRevoked(x, e)
            Forced(r) == IF r.id = e.id THEN [r EXCEPT !.forced = TRUE] ELSE r
            R == {Forced(r) : r \in x.revocations}
<1>1. ASSUME NEW r \in x.revocations
      PROVE  Forced(r) \in RevocationType /\ Forced(r).hash = r.hash
  <2>1. r \in RevocationType
    BY DEF IndexType
  <2>2. [r EXCEPT !.forced = TRUE] \in RevocationType
    BY <2>1 DEF RevocationType
  <2>3. [r EXCEPT !.forced = TRUE].hash = r.hash
    BY <2>1 DEF RevocationType
  <2>. QED
    BY <2>1, <2>2, <2>3
<1>2. y.revocations = R
  BY DEF MerchantForceRevoked, IndexType
<1>3. SameRecords(x, y) /\ SameSettings(x, y) /\ SameBinding(x, y)
  BY DEF MerchantForceRevoked, IndexType, SameRecords, SameSettings, SameBinding
<1>4. R \in SUBSET RevocationType
  BY <1>1
<1>5. y \in IndexType
  <2>1. y = [x EXCEPT !.revocations = R]
    BY DEF MerchantForceRevoked, IndexType
  <2>. HIDE DEF R
  <2>. QED
    BY <1>4, <2>1 DEF IndexType
<1>. HIDE DEF y, Forced
<1>6. RevokedHashes(y) = RevokedHashes(x)
  <2>1. RevokedHashes(y) = {r.hash : r \in R} /\ RevokedHashes(x) = {r.hash : r \in x.revocations}
    BY <1>2 DEF RevokedHashes
  <2>2. \A h : h \in {r.hash : r \in R} <=> h \in {r.hash : r \in x.revocations}
    BY <1>1
  <2>. QED
    BY <2>1, <2>2
<1>. QED
  BY <1>3, <1>5, <1>6 DEF y

\* The binding of an event that carries an id.
LEMMA BoundFacts ==
    ASSUME NEW x \in IndexType, NEW i \in Ids, NEW c \in Controllers \cup {None},
           NEW e, "id" \in DOMAIN e, e.id = i, Expected(x, e) = c,
           e.name \in DocumentEvents => e.named = c
    PROVE  LET y == Bound(x, e) IN
           /\ y \in IndexType /\ RevokedHashes(y) = RevokedHashes(x)
           /\ SameRecords(x, y) /\ SameSettings(x, y)
           /\ y.misbound = x.misbound
           /\ y.controller = [x.controller EXCEPT
                                 ![i] = IF e.name = "MerchantRevoked" THEN None ELSE c]
<1>. DEFINE y == Bound(x, e)
            d == IF e.name = "MerchantRevoked" THEN None ELSE c
            f == [x.controller EXCEPT ![i] = d]
<1>1. f \in [Ids -> Controllers \cup {None}]
  BY DEF IndexType
<1>2. y = [x EXCEPT !.misbound = x.misbound, !.controller = f]
  BY DEF Bound, IndexType
<1>. HIDE DEF y, d, f
<1>3. y \in IndexType
  BY <1>1, <1>2 DEF IndexType
<1>4. /\ SameRecords(x, y) /\ SameSettings(x, y) /\ y.misbound = x.misbound
      /\ y.controller = f /\ y.revocations = x.revocations
  BY <1>1, <1>2 DEF IndexType, SameRecords, SameSettings
<1>. QED
  BY <1>3, <1>4 DEF RevokedHashes, y, f, d

(***************************************************************************)
(* What the index holds after each event                                   *)
(***************************************************************************)
\* The records of y are those of x, but for what is known of record i.
Touches(x, y, i) ==
    /\ \A j \in Ids \ {i} : /\ y.active[j] = x.active[j]
                            /\ y.controller[j] = x.controller[j]
    /\ y.suspended \ {i} = x.suspended \ {i}
    /\ y.misbound = x.misbound
    /\ SameSettings(x, y)

\* A document is attached to a record: it is the active one.
LEMMA DocumentFacts ==
    ASSUME NEW x \in IndexType, NEW i \in Ids, NEW h \in Hashes,
           NEW c \in Controllers \cup {None}, NEW e, "id" \in DOMAIN e,
           e.name \in {"MerchantRegistered", "MerchantUpdated", "ControllerChanged"},
           e.id = i, e.hash = h, e.named = c, Expected(x, e) = c
    PROVE  LET y == Replayed(x, e) IN
           /\ y \in IndexType /\ Touches(x, y, i)
           /\ y.active[i] = h /\ y.controller[i] = c /\ i \notin y.suspended
           /\ RevokedHashes(y) = RevokedHashes(x) \ {h}
           /\ y.attestations = WithoutAttestations(x, i)
<1>. DEFINE z == Activated(x, i, h)
            y == Bound(z, e)
<1>1. Replayed(x, e) = y
  BY DEF Replayed, Project
<1>2. /\ z \in IndexType
      /\ z.active = [x.active EXCEPT ![i] = h]
      /\ RevokedHashes(z) = RevokedHashes(x) \ {h}
      /\ z.attestations = WithoutAttestations(x, i)
      /\ z.suspended = x.suspended \ {i}
      /\ SameSettings(x, z) /\ SameBinding(x, z)
  BY ActivatedFacts
<1>. HIDE DEF z
<1>3. Expected(z, e) = c
  BY <1>2 DEF Expected, SameBinding
<1>4. /\ y \in IndexType /\ RevokedHashes(y) = RevokedHashes(z)
      /\ SameRecords(z, y) /\ SameSettings(z, y) /\ y.misbound = z.misbound
      /\ y.controller = [z.controller EXCEPT
                            ![i] = IF e.name = "MerchantRevoked" THEN None ELSE c]
  BY <1>2, <1>3, BoundFacts
<1>5. e.name # "MerchantRevoked"
  OBVIOUS
<1>. HIDE DEF y
<1>6. /\ x.active \in [Ids -> Hashes \cup {None}]
      /\ x.controller \in [Ids -> Controllers \cup {None}]
  BY DEF IndexType
<1>. QED
  BY <1>1, <1>2, <1>4, <1>5, <1>6 DEF SameRecords, SameSettings, SameBinding, Touches

\* A record is revoked: its hash, if it was active, is a revoked one.
LEMMA RevokedFacts ==
    ASSUME NEW x \in IndexType, NEW i \in Ids
    PROVE  LET y == Replayed(x, [name |-> "MerchantRevoked", id |-> i]) IN
           /\ y \in IndexType /\ Touches(x, y, i)
           /\ y.active[i] = None /\ y.controller[i] = None /\ i \notin y.suspended
           /\ RevokedHashes(y) = RevokedHashes(x) \cup ({x.active[i]} \ {None})
           /\ y.attestations = WithoutAttestations(x, i)
<1>. DEFINE e == [name |-> "MerchantRevoked", id |-> i]
            z == MerchantRevoked(x, e)
            y == Bound(z, e)
            h == x.active[i]
            w == Removed(x, i)
<1>1. Replayed(x, e) = y
  BY DEF Replayed, Project
<1>2. /\ w \in IndexType
      /\ w.active = [x.active EXCEPT ![i] = None]
      /\ w.revocations = x.revocations
      /\ w.attestations = WithoutAttestations(x, i)
      /\ w.suspended = x.suspended \ {i}
      /\ SameSettings(x, w) /\ SameBinding(x, w)
  BY RemovedFacts
<1>3. h \in Hashes \cup {None}
  BY DEF IndexType
<1>4. z = IF h = None THEN w ELSE WithRevocation(w, i, h)
  BY DEF MerchantRevoked
<1>. HIDE DEF h, w, z
<1>5. RevokedHashes(w) = RevokedHashes(x)
  BY <1>2 DEF RevokedHashes
<1>6. /\ z \in IndexType
      /\ RevokedHashes(z) = RevokedHashes(x) \cup ({h} \ {None})
      /\ SameRecords(w, z) /\ SameSettings(w, z) /\ SameBinding(w, z)
  <2>1. CASE h = None
    BY <2>1, <1>2, <1>4, <1>5 DEF SameRecords, SameSettings, SameBinding
  <2>2. CASE h # None
    <3>1. /\ z = WithRevocation(w, i, h) /\ h \in Hashes
      BY <2>2, <1>3, <1>4
    <3>2. /\ z \in IndexType /\ RevokedHashes(z) = RevokedHashes(w) \cup {h}
          /\ SameRecords(w, z) /\ SameSettings(w, z) /\ SameBinding(w, z)
      BY <3>1, <1>2, RevocationFacts
    <3>. QED
      BY <3>2, <2>2, <1>5
  <2>. QED
    BY <2>1, <2>2
<1>7. e.id = i /\ e.name = "MerchantRevoked" /\ DOMAIN e = {"name", "id"}
  OBVIOUS
<1>. HIDE DEF e
<1>8. Expected(z, e) = z.controller[i]
  BY <1>7 DEF Expected
<1>9. z.controller[i] \in Controllers \cup {None}
  BY <1>6 DEF IndexType
<1>10. /\ y \in IndexType /\ RevokedHashes(y) = RevokedHashes(z)
       /\ SameRecords(z, y) /\ SameSettings(z, y) /\ y.misbound = z.misbound
       /\ y.controller = [z.controller EXCEPT ![i] = None]
  BY <1>6, <1>7, <1>8, <1>9, BoundFacts DEF DocumentEvents
<1>. HIDE DEF y
<1>11. /\ x.active \in [Ids -> Hashes \cup {None}]
       /\ x.controller \in [Ids -> Controllers \cup {None}]
  BY DEF IndexType
<1>. QED
  BY <1>1, <1>2, <1>6, <1>10, <1>11 DEF SameRecords, SameSettings, SameBinding, Touches, e, h

\* Events that change neither the records nor whether they are revoked.
Untouched(x, y) ==
    /\ SameRecords(x, y) /\ SameSettings(x, y) /\ SameBinding(x, y)
    /\ RevokedHashes(y) = RevokedHashes(x)

\* An event about record i that carries no controller keeps the binding.
LEMMA BindingKept ==
    ASSUME NEW x \in IndexType, NEW z \in IndexType, SameBinding(x, z), NEW i \in Ids,
           NEW e, "id" \in DOMAIN e, "controller" \notin DOMAIN e, e.id = i,
           e.name \notin DocumentEvents, e.name # "MerchantRevoked"
    PROVE  LET y == Bound(z, e) IN
           /\ y \in IndexType /\ RevokedHashes(y) = RevokedHashes(z)
           /\ SameRecords(z, y) /\ SameSettings(z, y) /\ SameBinding(x, y)
<1>. DEFINE y == Bound(z, e)
            c == z.controller[i]
<1>1. Expected(z, e) = c
  BY DEF Expected
<1>2. c \in Controllers \cup {None}
  BY DEF IndexType
<1>. HIDE DEF c
<1>3. /\ y \in IndexType /\ RevokedHashes(y) = RevokedHashes(z)
      /\ SameRecords(z, y) /\ SameSettings(z, y) /\ y.misbound = z.misbound
      /\ y.controller = [z.controller EXCEPT ![i] = c]
  BY <1>1, <1>2, BoundFacts
<1>4. [z.controller EXCEPT ![i] = c] = z.controller
  BY DEF IndexType, c
<1>. QED
  BY <1>3, <1>4 DEF SameBinding

LEMMA ForceRevokedFacts ==
    ASSUME NEW x \in IndexType, NEW i \in Ids
    PROVE  LET y == Replayed(x, [name |-> "MerchantForceRevoked", id |-> i]) IN
           y \in IndexType /\ Untouched(x, y)
<1>. DEFINE e == [name |-> "MerchantForceRevoked", id |-> i]
            z == MerchantForceRevoked(x, e)
            y == Bound(z, e)
<1>1. Replayed(x, e) = y
  BY DEF Replayed, Project
<1>2. e.id = i /\ e.name = "MerchantForceRevoked" /\ DOMAIN e = {"name", "id"}
  OBVIOUS
<1>. HIDE DEF e
<1>3. /\ z \in IndexType /\ RevokedHashes(z) = RevokedHashes(x)
      /\ SameRecords(x, z) /\ SameSettings(x, z) /\ SameBinding(x, z)
  BY <1>2, ForcedFacts
<1>. HIDE DEF z
<1>4. /\ y \in IndexType /\ RevokedHashes(y) = RevokedHashes(z)
      /\ SameRecords(z, y) /\ SameSettings(z, y) /\ SameBinding(x, y)
  BY <1>2, <1>3, BindingKept DEF DocumentEvents
<1>. HIDE DEF y
<1>. QED
  BY <1>1, <1>3, <1>4 DEF Untouched, SameRecords, SameSettings, e

\* The index after the state of a supersession changed.
LEMMA StateFacts ==
    ASSUME NEW x \in IndexType, NEW i \in Ids, NEW st \in SupersessionStates
    PROVE  LET y == [x EXCEPT !.supersessions[i] = st] IN
           y \in IndexType /\ Untouched(x, y)
<1>. DEFINE f == [x.supersessions EXCEPT ![i] = st]
            y == [x EXCEPT !.supersessions = f]
<1>1. f \in [Ids -> SupersessionStates]
  BY DEF IndexType
<1>2. [x EXCEPT !.supersessions[i] = st] = y
  BY DEF IndexType
<1>. HIDE DEF f
<1>3. y \in IndexType
  BY <1>1 DEF IndexType
<1>4. Untouched(x, y)
  BY DEF Untouched, SameRecords, SameSettings, SameBinding, RevokedHashes, IndexType
<1>. QED
  BY <1>2, <1>3, <1>4

LEMMA DecisionFacts ==
    ASSUME NEW x \in IndexType, NEW i \in Ids,
           NEW n \in {"SupersessionApproved", "SupersessionCanceled"}
    PROVE  LET y == Replayed(x, [name |-> n, id |-> i]) IN
           y \in IndexType /\ Untouched(x, y)
<1>. DEFINE e  == [name |-> n, id |-> i]
            st == IF n = "SupersessionApproved" THEN "approved" ELSE "canceled"
            z  == [x EXCEPT !.supersessions[i] = st]
            y  == Bound(z, e)
<1>1. Replayed(x, e) = y
  BY DEF Replayed, Project
<1>2. e.id = i /\ e.name = n /\ DOMAIN e = {"name", "id"}
  OBVIOUS
<1>3. st \in SupersessionStates
  BY DEF SupersessionStates
<1>. HIDE DEF e, st
<1>4. z \in IndexType /\ Untouched(x, z)
  BY <1>3, StateFacts
<1>. HIDE DEF z
<1>5. /\ y \in IndexType /\ RevokedHashes(y) = RevokedHashes(z)
      /\ SameRecords(z, y) /\ SameSettings(z, y) /\ SameBinding(x, y)
  BY <1>2, <1>4, BindingKept DEF DocumentEvents, Untouched
<1>. HIDE DEF y
<1>. QED
  BY <1>1, <1>4, <1>5 DEF Untouched, SameRecords, SameSettings, e

\* A request names its own controller.
LEMMA RequestFacts ==
    ASSUME NEW x \in IndexType, NEW i \in Ids, NEW c \in Controllers
    PROVE  LET y == Replayed(x, [name |-> "SupersessionRequested", id |-> i,
                                 controller |-> c])
           IN  /\ y \in IndexType /\ Touches(x, y, i)
               /\ SameRecords(x, y) /\ RevokedHashes(y) = RevokedHashes(x)
<1>. DEFINE e == [name |-> "SupersessionRequested", id |-> i, controller |-> c]
            z == [x EXCEPT !.supersessions[i] = "requested"]
            y == Bound(z, e)
<1>1. Replayed(x, e) = y
  BY DEF Replayed, Project
<1>2. /\ e.id = i /\ e.name = "SupersessionRequested" /\ e.controller = c
      /\ DOMAIN e = {"name", "id", "controller"}
  OBVIOUS
<1>. HIDE DEF e
<1>3. z \in IndexType /\ Untouched(x, z)
  BY StateFacts DEF SupersessionStates
<1>. HIDE DEF z
<1>4. Expected(z, e) = c
  BY <1>2 DEF Expected
<1>5. /\ y \in IndexType /\ RevokedHashes(y) = RevokedHashes(z)
      /\ SameRecords(z, y) /\ SameSettings(z, y) /\ y.misbound = z.misbound
      /\ y.controller = [z.controller EXCEPT ![i] = c]
  BY <1>2, <1>3, <1>4, BoundFacts DEF DocumentEvents
<1>. HIDE DEF y
<1>6. x.controller \in [Ids -> Controllers \cup {None}]
  BY DEF IndexType
<1>. QED
  BY <1>1, <1>3, <1>5, <1>6
     DEF Touches, Untouched, SameRecords, SameSettings, SameBinding, e

\* A supersession takes effect after its previous record was revoked.
LEMMA SupersededFacts ==
    ASSUME NEW x \in IndexType, NEW i \in Ids, NEW j \in Ids, x.active[j] = None,
           NEW h \in Hashes, NEW c \in Controllers, i # j
    PROVE  LET y == Replayed(x, [name |-> "SupersessionActivated", id |-> i,
                                 previous |-> j, hash |-> h, controller |-> c,
                                 named |-> c])
           IN  /\ y \in IndexType
               /\ y.active = [x.active EXCEPT ![i] = h]
               /\ y.controller = [x.controller EXCEPT ![i] = c]
               /\ y.suspended = x.suspended \ {i, j} /\ y.misbound = x.misbound
               /\ SameSettings(x, y)
               /\ RevokedHashes(y) = RevokedHashes(x) \ {h}
               /\ y.attestations =
                      WithoutAttestations(x, i) \cap WithoutAttestations(x, j)
<1>. DEFINE e == [name |-> "SupersessionActivated", id |-> i, previous |-> j,
                  hash |-> h, controller |-> c, named |-> c]
            w == Removed(x, j)
            v == Activated(w, i, h)
            z == [v EXCEPT !.supersessions[i] = "activated"]
            y == Bound(z, e)
<1>0. x.active \in [Ids -> Hashes \cup {None}]
  BY DEF IndexType
<1>1. Replayed(x, e) = y
  BY DEF Replayed, Project, SupersessionActivated
<1>2. /\ e.id = i /\ e.name = "SupersessionActivated" /\ e.controller = c /\ e.named = c
      /\ "id" \in DOMAIN e /\ "controller" \in DOMAIN e
  OBVIOUS
<1>. HIDE DEF e
<1>3. /\ w \in IndexType
      /\ w.active = [x.active EXCEPT ![j] = None]
      /\ w.revocations = x.revocations
      /\ w.attestations = WithoutAttestations(x, j)
      /\ w.suspended = x.suspended \ {j}
      /\ SameSettings(x, w) /\ SameBinding(x, w)
  BY RemovedFacts
<1>4. w.active = x.active
  BY <1>0, <1>3
<1>. HIDE DEF w
<1>5. /\ v \in IndexType
      /\ v.active = [w.active EXCEPT ![i] = h]
      /\ RevokedHashes(v) = RevokedHashes(w) \ {h}
      /\ v.attestations = WithoutAttestations(w, i)
      /\ v.suspended = w.suspended \ {i}
      /\ SameSettings(w, v) /\ SameBinding(w, v)
  BY <1>3, ActivatedFacts
<1>. HIDE DEF v
<1>6. z \in IndexType /\ Untouched(v, z)
  BY <1>5, StateFacts DEF SupersessionStates
<1>. HIDE DEF z
<1>7. Expected(z, e) = c
  BY <1>2 DEF Expected
<1>8. /\ y \in IndexType /\ RevokedHashes(y) = RevokedHashes(z)
      /\ SameRecords(z, y) /\ SameSettings(z, y) /\ y.misbound = z.misbound
      /\ y.controller = [z.controller EXCEPT ![i] = c]
  BY <1>2, <1>6, <1>7, BoundFacts
<1>. HIDE DEF y
<1>9. RevokedHashes(w) = RevokedHashes(x)
  BY <1>3 DEF RevokedHashes
<1>10. WithoutAttestations(w, i) = WithoutAttestations(x, i) \cap WithoutAttestations(x, j)
  BY <1>3 DEF WithoutAttestations
<1>11. /\ y.active = [x.active EXCEPT ![i] = h]
       /\ y.suspended = x.suspended \ {i, j} /\ y.misbound = x.misbound
       /\ SameSettings(x, y)
       /\ y.controller = [x.controller EXCEPT ![i] = c]
  BY <1>3, <1>4, <1>5, <1>6, <1>8 DEF Untouched, SameRecords, SameSettings, SameBinding
<1>12. /\ RevokedHashes(y) = RevokedHashes(x) \ {h}
       /\ y.attestations = WithoutAttestations(w, i)
  BY <1>5, <1>6, <1>8, <1>9 DEF Untouched, SameRecords
<1>. QED
  BY <1>1, <1>8, <1>10, <1>11, <1>12 DEF e

\* An attestation of the active document replaces the validator's earlier one.
Attestation(i, v, h, t) ==
    [id |-> i, validator |-> v, hash |-> h, expires |-> t, since |-> TRUE]

LEMMA AttestedFacts ==
    ASSUME NEW x \in IndexType, NEW i \in Ids, NEW v \in Validators, NEW h \in Hashes,
           x.active[i] = h, NEW t \in Nat
    PROVE  LET y == Replayed(x, [name |-> "MerchantAttested", id |-> i, validator |-> v,
                                 hash |-> h, expires |-> t])
           IN  /\ y \in IndexType
               /\ y.active = x.active /\ y.suspended = x.suspended
               /\ SameSettings(x, y) /\ SameBinding(x, y)
               /\ RevokedHashes(y) = RevokedHashes(x)
               /\ y.attestations =
                      {a \in x.attestations : a.id # i \/ a.validator # v}
                      \cup {Attestation(i, v, h, t)}
<1>. DEFINE e == [name |-> "MerchantAttested", id |-> i, validator |-> v, hash |-> h,
                  expires |-> t]
            A == {a \in x.attestations : a.id # i \/ a.validator # v}
                 \cup {Attestation(i, v, h, t)}
            z == [x EXCEPT !.attestations = A]
            y == Bound(z, e)
<1>1. Replayed(x, e) = y
  BY DEF Replayed, Project, MerchantAttested, Attestation, IndexType
<1>2. /\ e.id = i /\ e.name = "MerchantAttested"
      /\ DOMAIN e = {"name", "id", "validator", "hash", "expires"}
  OBVIOUS
<1>. HIDE DEF e
<1>3. A \in SUBSET AttestationType
  <2>1. Attestation(i, v, h, t) \in AttestationType
    BY DEF Attestation, AttestationType
  <2>. QED
    BY <2>1 DEF IndexType
<1>. HIDE DEF A
<1>4. z \in IndexType
  BY <1>3 DEF IndexType
<1>5. /\ z.attestations = A /\ z.active = x.active /\ z.suspended = x.suspended
      /\ z.revocations = x.revocations /\ SameSettings(x, z) /\ SameBinding(x, z)
  BY DEF IndexType, SameSettings, SameBinding
<1>. HIDE DEF z
<1>6. /\ y \in IndexType /\ RevokedHashes(y) = RevokedHashes(z)
      /\ SameRecords(z, y) /\ SameSettings(z, y) /\ SameBinding(x, y)
  BY <1>2, <1>4, <1>5, BindingKept DEF DocumentEvents
<1>. HIDE DEF y
<1>. QED
  BY <1>1, <1>5, <1>6 DEF SameRecords, SameSettings, RevokedHashes, A, e

LEMMA SuspendedFacts ==
    ASSUME NEW x \in IndexType, NEW i \in Ids
    PROVE  /\ LET y == Replayed(x, [name |-> "MerchantSuspended", id |-> i]) IN
              /\ y \in IndexType /\ y.active = x.active
              /\ y.suspended = x.suspended \cup {i}
              /\ SameSettings(x, y) /\ SameBinding(x, y)
              /\ RevokedHashes(y) = RevokedHashes(x)
              /\ y.attestations = WithoutAttestations(x, i)
           /\ LET y == Replayed(x, [name |-> "MerchantUnsuspended", id |-> i]) IN
              /\ y \in IndexType /\ y.active = x.active
              /\ y.suspended = x.suspended \ {i}
              /\ SameSettings(x, y) /\ SameBinding(x, y)
              /\ RevokedHashes(y) = RevokedHashes(x)
              /\ y.attestations = x.attestations
<1>1. WithoutAttestations(x, i) \in SUBSET AttestationType
  BY DEF IndexType, WithoutAttestations
<1>2. ASSUME NEW n \in {"MerchantSuspended", "MerchantUnsuspended"},
             NEW z \in IndexType, SameBinding(x, z)
      PROVE  LET y == Bound(z, [name |-> n, id |-> i]) IN
             /\ y \in IndexType /\ RevokedHashes(y) = RevokedHashes(z)
             /\ SameRecords(z, y) /\ SameSettings(z, y) /\ SameBinding(x, y)
  <2>. DEFINE e == [name |-> n, id |-> i]
  <2>1. e.id = i /\ e.name = n /\ DOMAIN e = {"name", "id"}
    OBVIOUS
  <2>. HIDE DEF e
  <2>2. LET y == Bound(z, e) IN
        /\ y \in IndexType /\ RevokedHashes(y) = RevokedHashes(z)
        /\ SameRecords(z, y) /\ SameSettings(z, y) /\ SameBinding(x, y)
    BY <1>2, <2>1, BindingKept DEF DocumentEvents
  <2>. QED
    BY <2>2 DEF e
<1>3. LET y == Replayed(x, [name |-> "MerchantSuspended", id |-> i]) IN
      /\ y \in IndexType /\ y.active = x.active
      /\ y.suspended = x.suspended \cup {i}
      /\ SameSettings(x, y) /\ SameBinding(x, y)
      /\ RevokedHashes(y) = RevokedHashes(x)
      /\ y.attestations = WithoutAttestations(x, i)
  <2>. DEFINE A == WithoutAttestations(x, i)
              S == x.suspended \cup {i}
              z == [x EXCEPT !.suspended = S, !.attestations = A]
              y == Bound(z, [name |-> "MerchantSuspended", id |-> i])
  <2>1. Replayed(x, [name |-> "MerchantSuspended", id |-> i]) = y
    BY DEF Replayed, Project, MerchantSuspended, IndexType
  <2>2. S \in SUBSET Ids
    BY DEF IndexType
  <2>. HIDE DEF A, S
  <2>3. z \in IndexType
    BY <1>1, <2>2 DEF IndexType, A
  <2>4. /\ z.attestations = A /\ z.active = x.active /\ z.suspended = S
        /\ z.revocations = x.revocations /\ SameSettings(x, z) /\ SameBinding(x, z)
    BY DEF IndexType, SameSettings, SameBinding
  <2>. HIDE DEF z
  <2>5. /\ y \in IndexType /\ RevokedHashes(y) = RevokedHashes(z)
        /\ SameRecords(z, y) /\ SameSettings(z, y) /\ SameBinding(x, y)
    BY <1>2, <2>3, <2>4
  <2>. HIDE DEF y
  <2>. QED
    BY <2>1, <2>4, <2>5 DEF SameRecords, SameSettings, RevokedHashes, A, S
<1>4. LET y == Replayed(x, [name |-> "MerchantUnsuspended", id |-> i]) IN
      /\ y \in IndexType /\ y.active = x.active
      /\ y.suspended = x.suspended \ {i}
      /\ SameSettings(x, y) /\ SameBinding(x, y)
      /\ RevokedHashes(y) = RevokedHashes(x)
      /\ y.attestations = x.attestations
  <2>. DEFINE S == x.suspended \ {i}
              z == [x EXCEPT !.suspended = S]
              y == Bound(z, [name |-> "MerchantUnsuspended", id |-> i])
  <2>1. Replayed(x, [name |-> "MerchantUnsuspended", id |-> i]) = y
    BY DEF Replayed, Project, IndexType
  <2>2. S \in SUBSET Ids
    BY DEF IndexType
  <2>. HIDE DEF S
  <2>3. z \in IndexType
    BY <2>2 DEF IndexType
  <2>4. /\ z.attestations = x.attestations /\ z.active = x.active /\ z.suspended = S
        /\ z.revocations = x.revocations /\ SameSettings(x, z) /\ SameBinding(x, z)
    BY DEF IndexType, SameSettings, SameBinding
  <2>. HIDE DEF z
  <2>5. /\ y \in IndexType /\ RevokedHashes(y) = RevokedHashes(z)
        /\ SameRecords(z, y) /\ SameSettings(z, y) /\ SameBinding(x, y)
    BY <1>2, <2>3, <2>4
  <2>. HIDE DEF y
  <2>. QED
    BY <2>1, <2>4, <2>5 DEF SameRecords, SameSettings, RevokedHashes, S
<1>. QED
  BY <1>3, <1>4

\* What is known of a validator's attestations once it is enabled or disabled.
Switched(A, v, on) ==
    IF on THEN {IF a.validator = v THEN [a EXCEPT !.since = FALSE] ELSE a : a \in A}
    ELSE {a \in A : a.validator # v}

LEMMA ValidatorFacts ==
    ASSUME NEW x \in IndexType, NEW e, e.name = "ValidatorSet", e.validator \in Validators,
           "id" \notin DOMAIN e
    PROVE  LET y == Replayed(x, e) IN
           /\ y \in IndexType
           /\ y.active = x.active /\ y.suspended = x.suspended
           /\ y.threshold = x.threshold /\ y.paused = x.paused
           /\ SameBinding(x, y) /\ RevokedHashes(y) = RevokedHashes(x)
           /\ y.enabled = IF e.enabled THEN x.enabled \cup {e.validator}
                          ELSE x.enabled \ {e.validator}
           /\ y.attestations = Switched(x.attestations, e.validator, e.enabled)
<1>. DEFINE v == e.validator
            V == IF e.enabled THEN x.enabled \cup {v} ELSE x.enabled \ {v}
            A == Switched(x.attestations, v, e.enabled)
            z == [x EXCEPT !.enabled = V, !.attestations = A]
<1>1. Replayed(x, e) = z
  <2>1. Project(x, e) = ValidatorSet(x, e)
    BY DEF Project
  <2>2. Bound(ValidatorSet(x, e), e) = ValidatorSet(x, e)
    BY DEF Bound
  <2>3. CASE e.enabled
    <3>1. ValidatorSet(x, e) =
            [x EXCEPT !.enabled = x.enabled \cup {v},
                      !.attestations = {IF a.validator = v THEN [a EXCEPT !.since = FALSE]
                                        ELSE a : a \in x.attestations}]
      BY <2>3 DEF ValidatorSet, IndexType
    <3>. QED
      BY <2>1, <2>2, <2>3, <3>1 DEF Replayed, Switched
  <2>4. CASE ~e.enabled
    <3>1. ValidatorSet(x, e) =
            [x EXCEPT !.enabled = x.enabled \ {v},
                      !.attestations = {a \in x.attestations : a.validator # v}]
      BY <2>4 DEF ValidatorSet, IndexType
    <3>. QED
      BY <2>1, <2>2, <2>4, <3>1 DEF Replayed, Switched
  <2>. QED
    BY <2>3, <2>4
<1>. HIDE DEF v
<1>2. V \in SUBSET Validators
  BY DEF IndexType, v
<1>3. A \in SUBSET AttestationType
  <2>1. ASSUME NEW a \in x.attestations
        PROVE  a \in AttestationType /\ [a EXCEPT !.since = FALSE] \in AttestationType
    <3>1. a \in AttestationType
      BY DEF IndexType
    <3>. QED
      BY <3>1 DEF AttestationType
  <2>. QED
    BY <2>1 DEF Switched
<1>. HIDE DEF V, A
<1>4. z \in IndexType
  BY <1>2, <1>3 DEF IndexType
<1>5. /\ z.active = x.active /\ z.suspended = x.suspended
      /\ z.threshold = x.threshold /\ z.paused = x.paused
      /\ SameBinding(x, z) /\ z.revocations = x.revocations
      /\ z.enabled = V /\ z.attestations = A
  BY DEF IndexType, SameBinding
<1>. HIDE DEF z
<1>. QED
  BY <1>1, <1>4, <1>5 DEF RevokedHashes, V, A, v

LEMMA ThresholdFacts ==
    ASSUME NEW x \in IndexType, NEW n \in Nat
    PROVE  LET y == Replayed(x, [name |-> "AttestationThresholdSet", threshold |-> n]) IN
           /\ y \in IndexType /\ SameRecords(x, y) /\ SameBinding(x, y)
           /\ RevokedHashes(y) = RevokedHashes(x)
           /\ y.threshold = n /\ y.paused = x.paused /\ y.enabled = x.enabled
<1>. DEFINE e == [name |-> "AttestationThresholdSet", threshold |-> n]
            z == [x EXCEPT !.threshold = n]
<1>1. e.name = "AttestationThresholdSet" /\ e.threshold = n /\ "id" \notin DOMAIN e
  OBVIOUS
<1>2. Replayed(x, e) = z
  <2>. HIDE DEF e
  <2>1. Project(x, e) = [x EXCEPT !.threshold = n]
    BY <1>1 DEF Project
  <2>. QED
    BY <1>1, <2>1 DEF Replayed, Bound
<1>3. /\ z \in IndexType /\ SameRecords(x, z) /\ SameBinding(x, z)
      /\ RevokedHashes(z) = RevokedHashes(x)
      /\ z.threshold = n /\ z.paused = x.paused /\ z.enabled = x.enabled
  BY DEF IndexType, SameRecords, SameBinding, RevokedHashes
<1>. QED
  BY <1>2, <1>3

LEMMA PauseFacts ==
    ASSUME NEW x \in IndexType, NEW on \in BOOLEAN
    PROVE  LET y == Replayed(x, [name |-> "WritesPaused", paused |-> on]) IN
           /\ y \in IndexType /\ SameRecords(x, y) /\ SameBinding(x, y)
           /\ RevokedHashes(y) = RevokedHashes(x)
           /\ y.threshold = x.threshold /\ y.paused = on /\ y.enabled = x.enabled
<1>. DEFINE e == [name |-> "WritesPaused", paused |-> on]
            z == [x EXCEPT !.paused = on]
<1>1. e.name = "WritesPaused" /\ e.paused = on /\ "id" \notin DOMAIN e
  OBVIOUS
<1>2. Replayed(x, e) = z
  <2>. HIDE DEF e
  <2>1. Project(x, e) = [x EXCEPT !.paused = on]
    BY <1>1 DEF Project
  <2>. QED
    BY <1>1, <2>1 DEF Replayed, Bound
<1>3. /\ z \in IndexType /\ SameRecords(x, z) /\ SameBinding(x, z)
      /\ RevokedHashes(z) = RevokedHashes(x)
      /\ z.threshold = x.threshold /\ z.paused = on /\ z.enabled = x.enabled
  BY DEF IndexType, SameRecords, SameBinding, RevokedHashes
<1>. QED
  BY <1>2, <1>3

(***************************************************************************)
(* The index is the contract                                               *)
(***************************************************************************)
\* A live record has a document and a controller.
LiveRecordsAreWhole ==
    \A i \in Ids : record[i].status \in Live =>
        record[i].hash \in Hashes /\ record[i].controller \in Controllers

SettingsOK == threshold \in Nat /\ paused \in BOOLEAN

IndexInv ==
    /\ IInv /\ LiveRecordsAreWhole /\ SettingsOK
    /\ index \in IndexType /\ IndexIsTheContract

\* One record was written, and the index touched it alone.
LEMMA OneIndexed ==
    ASSUME IndexInv, IInv', NEW i \in Ids, \A j \in Ids \ {i} : record'[j] = record[j],
           UNCHANGED <<threshold, paused>>,
           index' \in IndexType, Touches(index, index', i),
           index'.active[i] = IF record'[i].status \in Live THEN record'[i].hash ELSE None,
           i \in index'.suspended <=> record'[i].status = "suspended",
           record'[i].status \in Live =>
               /\ index'.controller[i] = record'[i].controller
               /\ record'[i].hash \in Hashes /\ record'[i].controller \in Controllers,
           RevokedHashes(index') = revoked'
    PROVE  IndexInv'
<1>1. LiveRecordsAreWhole' /\ SettingsOK'
  BY DEF IndexInv, LiveRecordsAreWhole, SettingsOK
<1>2. \A j \in Ids : index'.active[j] =
         IF record'[j].status \in {"active", "suspended"} THEN record'[j].hash ELSE None
  BY DEF IndexInv, IndexIsTheContract, Touches, Live
<1>3. index'.suspended = {j \in Ids : record'[j].status = "suspended"}
  <2>1. index.suspended \subseteq Ids /\ index'.suspended \subseteq Ids
    BY DEF IndexInv, IndexType
  <2>2. \A j \in Ids : j \in index'.suspended <=> record'[j].status = "suspended"
    BY DEF IndexInv, IndexIsTheContract, Touches
  <2>. QED
    BY <2>1, <2>2
<1>4. \A j \in Ids : record'[j].status \in {"active", "suspended"} =>
         index'.controller[j] = record'[j].controller
  BY DEF IndexInv, IndexIsTheContract, Touches, Live
<1>5. index'.misbound = {} /\ index'.threshold = threshold' /\ index'.paused = paused'
  BY DEF IndexInv, IndexIsTheContract, Touches, SameSettings
<1>6. IndexIsTheContract'
  BY <1>2, <1>3, <1>4, <1>5 DEF IndexIsTheContract
<1>. QED
  BY <1>1, <1>6 DEF IndexInv

LEMMA RecordTypes ==
    ASSUME IInv, NEW i \in Ids
    PROVE  /\ record \in [Ids -> RecordType] /\ record[i] \in RecordType
           /\ record[i].status \in Statuses
BY DEF IInv, StorageOK, RecordType

\* A document is attached to record i, which is or becomes live.
LEMMA IndexOfDocument ==
    ASSUME IndexInv, IInv', NEW i \in Ids, NEW h \in Hashes, NEW c \in Controllers,
           h \notin revoked,
           \A j \in Ids \ {i} : record'[j] = record[j],
           record'[i].status = "active", record'[i].hash = h, record'[i].controller = c,
           UNCHANGED <<threshold, paused, revoked>>,
           NEW e, "id" \in DOMAIN e,
           e.name \in {"MerchantRegistered", "MerchantUpdated", "ControllerChanged"},
           e.id = i, e.hash = h, e.named = c, Expected(index, e) = c,
           index' = Replayed(index, e)
    PROVE  IndexInv'
<1>1. index \in IndexType /\ RevokedHashes(index) = revoked
  BY DEF IndexInv, IndexIsTheContract
<1>. DEFINE y == Replayed(index, e)
<1>2. /\ y \in IndexType /\ Touches(index, y, i)
      /\ y.active[i] = h /\ y.controller[i] = c /\ i \notin y.suspended
      /\ RevokedHashes(y) = RevokedHashes(index) \ {h}
  BY <1>1, DocumentFacts
<1>. HIDE DEF y
<1>3. index' = y
  BY DEF y
<1>4. RevokedHashes(index') = revoked'
  BY <1>1, <1>2, <1>3
<1>5. record'[i].status \in Live /\ record'[i].status # "suspended"
  BY DEF Live
<1>. QED
  BY <1>2, <1>3, <1>4, <1>5, OneIndexed

LEMMA IndexRegister ==
    ASSUME IndexInv, IInv', NEW d \in scene.domains, NEW c \in scene.controllers,
           NEW h \in Hashes, Register(d, c, h)
    PROVE  IndexInv'
<1>0. IInv
  BY DEF IndexInv
<1>1. d \in Domains /\ c \in Controllers
  BY <1>0, SceneFacts DEF IInv, StorageOK
<1>. DEFINE i == RecordId(d, c)
            e == [name |-> "MerchantRegistered", id |-> i, hash |-> h, controller |-> c,
                  named |-> c]
<1>2. i \in Ids
  BY <1>1, IdFacts
<1>3. /\ h \notin revoked /\ record' = [record EXCEPT ![i] = NewRecord(c, h)]
      /\ index' = Replayed(index, e)
      /\ UNCHANGED <<threshold, paused, revoked>>
  BY DEF Register, Emit
<1>4. /\ "id" \in DOMAIN e /\ e.name = "MerchantRegistered" /\ e.id = i /\ e.hash = h
      /\ e.named = c /\ Expected(index, e) = c
  BY DEF Expected
<1>. HIDE DEF i, e
<1>5. /\ \A j \in Ids \ {i} : record'[j] = record[j]
      /\ record'[i].status = "active" /\ record'[i].hash = h /\ record'[i].controller = c
  BY <1>0, <1>2, <1>3, RecordTypes DEF NewRecord
<1>. QED
  BY <1>1, <1>2, <1>3, <1>4, <1>5, IndexOfDocument

LEMMA IndexSetDocument ==
    ASSUME IndexInv, IInv', NEW i \in Ids, NEW h \in Hashes, NEW c \in Controllers,
           NEW e, "id" \in DOMAIN e, e.name \in {"MerchantUpdated", "ControllerChanged"},
           e.id = i, e.hash = h, e.named = c, Expected(index, e) = c,
           SetDocument(i, c, h, e)
    PROVE  IndexInv'
<1>0. IInv
  BY DEF IndexInv
<1>1. /\ h \notin revoked /\ record[i].status = "active"
      /\ record' = [record EXCEPT ![i].hash = h, ![i].controller = c, ![i].generation = @ + 1]
      /\ index' = Replayed(index, e)
      /\ UNCHANGED <<threshold, paused, revoked>>
  BY DEF SetDocument, Emit
<1>2. /\ \A j \in Ids \ {i} : record'[j] = record[j]
      /\ record'[i].status = "active" /\ record'[i].hash = h /\ record'[i].controller = c
  BY <1>0, <1>1, RecordTypes DEF RecordType
<1>. QED
  BY <1>1, <1>2, IndexOfDocument

LEMMA IndexUpdate ==
    ASSUME IndexInv, IInv', NEW i \in Ids, NEW h \in Hashes, Update(i, h)
    PROVE  IndexInv'
<1>1. record[i].status = "active"
  BY DEF Update, SetDocument
<1>. DEFINE c == record[i].controller
            e == [name |-> "MerchantUpdated", id |-> i, hash |-> h, named |-> c]
<1>2. c \in Controllers /\ index.controller[i] = c
  BY <1>1 DEF IndexInv, LiveRecordsAreWhole, IndexIsTheContract, Live
<1>3. SetDocument(i, c, h, e)
  BY DEF Update
<1>4. /\ "id" \in DOMAIN e /\ e.name = "MerchantUpdated" /\ e.id = i /\ e.hash = h
      /\ e.named = c /\ Expected(index, e) = c
  BY <1>2 DEF Expected
<1>. HIDE DEF c, e
<1>. QED
  BY <1>2, <1>3, <1>4, IndexSetDocument

LEMMA IndexSetController ==
    ASSUME IndexInv, IInv', NEW i \in Ids, NEW h \in Hashes, NEW c \in scene.controllers,
           SetController(i, c, h)
    PROVE  IndexInv'
<1>. DEFINE e == [name |-> "ControllerChanged", id |-> i, hash |-> h, controller |-> c,
                  named |-> c]
<1>1. c \in Controllers
  BY SceneFacts DEF IndexInv, IInv, StorageOK
<1>2. SetDocument(i, c, h, e)
  BY DEF SetController
<1>3. /\ "id" \in DOMAIN e /\ e.name = "ControllerChanged" /\ e.id = i /\ e.hash = h
      /\ e.named = c /\ Expected(index, e) = c
  BY DEF Expected
<1>. HIDE DEF e
<1>. QED
  BY <1>1, <1>2, <1>3, IndexSetDocument

\* What the index knows of a live record.
LEMMA LiveFacts ==
    ASSUME IndexInv, NEW i \in Ids, record[i].status \in Live
    PROVE  /\ index.active[i] = record[i].hash
           /\ record[i].hash \in Hashes /\ record[i].hash # None
           /\ index.controller[i] = record[i].controller
BY NoneIsNoHash DEF IndexInv, LiveRecordsAreWhole, IndexIsTheContract, Live

\* Record i is revoked, with its hash.
LEMMA IndexOfRevoked ==
    ASSUME IndexInv, IInv', NEW i \in Ids, record[i].status \in Live,
           record' = AfterRevoke(i), revoked' = revoked \cup {record[i].hash},
           UNCHANGED <<threshold, paused>>,
           NEW y, y = Replayed(index, [name |-> "MerchantRevoked", id |-> i]),
           index' \in IndexType, Untouched(y, index')
    PROVE  IndexInv'
<1>0. IInv /\ index \in IndexType /\ RevokedHashes(index) = revoked
  BY DEF IndexInv, IndexIsTheContract
<1>1. /\ record' = [record EXCEPT ![i] = RevokedRecord(i)]
      /\ RevokedRecord(i).status = "revoked"
  BY <1>0, AfterRevoking DEF IInv
<1>2. /\ \A j \in Ids \ {i} : record'[j] = record[j]
      /\ record'[i].status \notin Live /\ record'[i].status # "suspended"
  BY <1>0, <1>1, RecordTypes DEF Live
<1>3. /\ y \in IndexType /\ Touches(index, y, i)
      /\ y.active[i] = None /\ y.controller[i] = None /\ i \notin y.suspended
      /\ RevokedHashes(y) = RevokedHashes(index) \cup ({index.active[i]} \ {None})
  BY <1>0, RevokedFacts
<1>4. RevokedHashes(index') = revoked'
  BY <1>0, <1>3, LiveFacts DEF Untouched
<1>5. Touches(index, index', i) /\ index'.active[i] = None /\ i \notin index'.suspended
  BY <1>3 DEF Untouched, Touches, SameRecords, SameSettings, SameBinding
<1>. QED
  BY <1>2, <1>4, <1>5, OneIndexed

LEMMA IndexRevoke ==
    ASSUME IndexInv, IInv', NEW i \in Ids, Revoke(i) \/ ForceRevoke(i)
    PROVE  IndexInv'
<1>. DEFINE y == Replayed(index, [name |-> "MerchantRevoked", id |-> i])
            z == Replayed(y, [name |-> "MerchantForceRevoked", id |-> i])
<1>1. /\ record[i].status \in Live /\ record' = AfterRevoke(i)
      /\ revoked' = revoked \cup {record[i].hash}
      /\ UNCHANGED <<threshold, paused>>
  BY DEF Revoke, ForceRevoke, Revocable, Live
<1>2. index' = y \/ index' = z
  BY DEF Revoke, ForceRevoke, Emit
<1>3. y \in IndexType
  BY RevokedFacts DEF IndexInv
<1>. HIDE DEF y
<1>4. z \in IndexType /\ Untouched(y, z)
  BY <1>3, ForceRevokedFacts
<1>5. index' \in IndexType /\ Untouched(y, index')
  <2>1. Untouched(y, y)
    BY DEF Untouched, SameRecords, SameSettings, SameBinding
  <2>. QED
    BY <1>2, <1>3, <1>4, <2>1
<1>. QED
  BY <1>1, <1>5, IndexOfRevoked DEF y

LEMMA IndexSuspend ==
    ASSUME IndexInv, IInv', NEW i \in Ids, Suspend(i) \/ Unsuspend(i)
    PROVE  IndexInv'
<1>0. IInv /\ index \in IndexType /\ RevokedHashes(index) = revoked
  BY DEF IndexInv, IndexIsTheContract
<1>1. CASE Suspend(i)
  <2>. DEFINE y == Replayed(index, [name |-> "MerchantSuspended", id |-> i])
  <2>1. /\ y \in IndexType /\ y.active = index.active
        /\ y.suspended = index.suspended \cup {i}
        /\ SameSettings(index, y) /\ SameBinding(index, y)
        /\ RevokedHashes(y) = RevokedHashes(index)
    BY <1>0, SuspendedFacts
  <2>2. /\ record[i].status = "active" /\ index' = y
        /\ record' = [record EXCEPT ![i].status = "suspended", ![i].generation = @ + 1]
        /\ UNCHANGED <<threshold, paused, revoked>>
    BY <1>1 DEF Suspend, Emit
  <2>. HIDE DEF y
  <2>3. /\ \A j \in Ids \ {i} : record'[j] = record[j]
        /\ record'[i].status = "suspended" /\ record'[i].hash = record[i].hash
        /\ record'[i].controller = record[i].controller
    BY <1>0, <2>2, RecordTypes DEF RecordType
  <2>4. record[i].hash \in Hashes /\ record[i].controller \in Controllers
    BY <2>2 DEF IndexInv, LiveRecordsAreWhole, Live
  <2>5. index.active[i] = record[i].hash /\ index.controller[i] = record[i].controller
    BY <2>2, LiveFacts DEF Live
  <2>6. Touches(index, index', i)
    BY <2>1, <2>2 DEF Touches, SameBinding
  <2>7. /\ index' \in IndexType /\ i \in index'.suspended
        /\ index'.active[i] = record'[i].hash /\ index'.controller[i] = record'[i].controller
        /\ RevokedHashes(index') = revoked'
    BY <1>0, <2>1, <2>2, <2>3, <2>5 DEF SameBinding
  <2>. QED
    BY <2>2, <2>3, <2>4, <2>6, <2>7, OneIndexed DEF Live
<1>2. CASE Unsuspend(i)
  <2>. DEFINE y == Replayed(index, [name |-> "MerchantUnsuspended", id |-> i])
  <2>1. /\ y \in IndexType /\ y.active = index.active
        /\ y.suspended = index.suspended \ {i}
        /\ SameSettings(index, y) /\ SameBinding(index, y)
        /\ RevokedHashes(y) = RevokedHashes(index)
    BY <1>0, SuspendedFacts
  <2>2. /\ record[i].status = "suspended" /\ index' = y
        /\ record' = [record EXCEPT ![i].status = "active"]
        /\ UNCHANGED <<threshold, paused, revoked>>
    BY <1>2 DEF Unsuspend, Emit
  <2>. HIDE DEF y
  <2>3. /\ \A j \in Ids \ {i} : record'[j] = record[j]
        /\ record'[i].status = "active" /\ record'[i].hash = record[i].hash
        /\ record'[i].controller = record[i].controller
    BY <1>0, <2>2, RecordTypes DEF RecordType
  <2>4. record[i].hash \in Hashes /\ record[i].controller \in Controllers
    BY <2>2 DEF IndexInv, LiveRecordsAreWhole, Live
  <2>5. index.active[i] = record[i].hash /\ index.controller[i] = record[i].controller
    BY <2>2, LiveFacts DEF Live
  <2>6. Touches(index, index', i)
    BY <2>1, <2>2 DEF Touches, SameBinding
  <2>7. /\ index' \in IndexType /\ i \notin index'.suspended
        /\ index'.active[i] = record'[i].hash /\ index'.controller[i] = record'[i].controller
        /\ RevokedHashes(index') = revoked'
    BY <1>0, <2>1, <2>2, <2>3, <2>5 DEF SameBinding
  <2>. QED
    BY <2>2, <2>3, <2>4, <2>6, <2>7, OneIndexed DEF Live
<1>. QED
  BY <1>1, <1>2

\* The records stay as they are, and so does what the index says of them.
LEMMA SameIndexed ==
    ASSUME IndexInv, IInv', SettingsOK', UNCHANGED <<record, revoked>>,
           index' \in IndexType, index'.active = index.active,
           index'.suspended = index.suspended, index'.misbound = index.misbound,
           RevokedHashes(index') = RevokedHashes(index),
           \A i \in Ids : record[i].status \in Live =>
               index'.controller[i] = index.controller[i],
           index'.threshold = threshold', index'.paused = paused'
    PROVE  IndexInv'
<1>1. LiveRecordsAreWhole'
  BY DEF IndexInv, LiveRecordsAreWhole
<1>2. IndexIsTheContract'
  BY DEF IndexInv, IndexIsTheContract, Live
<1>. QED
  BY <1>1, <1>2 DEF IndexInv

LEMMA IndexUntouched ==
    ASSUME IndexInv, IInv', UNCHANGED <<record, revoked, threshold, paused>>,
           index' \in IndexType, Untouched(index, index')
    PROVE  IndexInv'
<1>1. SettingsOK' /\ index.threshold = threshold' /\ index.paused = paused'
  BY DEF IndexInv, SettingsOK, IndexIsTheContract
<1>. QED
  BY <1>1, SameIndexed DEF Untouched, SameRecords, SameSettings, SameBinding

LEMMA IndexRequest ==
    ASSUME IndexInv, IInv', NEW d \in scene.domains, NEW c \in scene.controllers,
           NEW h \in Hashes, RequestSupersession(d, c, h)
    PROVE  IndexInv'
<1>0. IInv /\ index \in IndexType
  BY DEF IndexInv
<1>1. d \in Domains /\ c \in Controllers
  BY <1>0, SceneFacts DEF IInv, StorageOK
<1>. DEFINE i == RecordId(d, c)
            y == Replayed(index, [name |-> "SupersessionRequested", id |-> i,
                                  controller |-> c])
<1>2. i \in Ids /\ i[1] = d
  BY <1>1, IdFacts
<1>3. domain[d] # i /\ index' = y /\ UNCHANGED <<record, revoked, threshold, paused>>
  BY DEF RequestSupersession, Emit
<1>. HIDE DEF i
<1>4. record[i].status \notin Live
  BY <1>0, <1>2, <1>3 DEF IInv, Ownership, DomainHasOneRecord, Live
<1>5. /\ y \in IndexType /\ Touches(index, y, i)
      /\ SameRecords(index, y) /\ RevokedHashes(y) = RevokedHashes(index)
  BY <1>0, <1>1, <1>2, RequestFacts
<1>. HIDE DEF y
<1>6. SettingsOK' /\ index.threshold = threshold' /\ index.paused = paused'
  BY <1>3 DEF IndexInv, SettingsOK, IndexIsTheContract
<1>. QED
  BY <1>2, <1>3, <1>4, <1>5, <1>6, SameIndexed DEF Touches, SameRecords, SameSettings

LEMMA IndexDecide ==
    ASSUME IndexInv, IInv', NEW i \in Ids, ApproveSupersession(i) \/ CancelSupersession(i)
    PROVE  IndexInv'
<1>1. PICK n \in {"SupersessionApproved", "SupersessionCanceled"} :
         index' = Replayed(index, [name |-> n, id |-> i])
  BY DEF ApproveSupersession, CancelSupersession, Emit
<1>2. UNCHANGED <<record, revoked, threshold, paused>>
  BY DEF ApproveSupersession, CancelSupersession
<1>3. index' \in IndexType /\ Untouched(index, index')
  BY <1>1, DecisionFacts DEF IndexInv
<1>. QED
  BY <1>2, <1>3, IndexUntouched

\* The index after a domain has changed hands.
LEMMA ActivationFacts ==
    ASSUME NEW x \in IndexType, index = x, NEW i \in Ids, NEW p \in PendingType,
           p.previous # i, p.hash \notin RevokedHashes(x) \cup {x.active[p.previous]}
    PROVE  LET j == p.previous
               y == AfterActivation(i, p)
           IN  /\ y \in IndexType
               /\ y.active[j] = None /\ y.active[i] = p.hash
               /\ y.controller[i] = p.controller
               /\ y.suspended = x.suspended \ {i, j} /\ y.misbound = x.misbound
               /\ \A k \in Ids \ {i, j} : /\ y.active[k] = x.active[k]
                                          /\ y.controller[k] = x.controller[k]
               /\ SameSettings(x, y)
               /\ RevokedHashes(y) = RevokedHashes(x) \cup ({x.active[j]} \ {None})
               /\ y.attestations \subseteq
                      WithoutAttestations(x, i) \cap WithoutAttestations(x, j)
<1>. DEFINE j == p.previous
            h == p.hash
            c == p.controller
            e1 == [name |-> "MerchantRevoked", id |-> j]
            e2 == [name |-> "SupersessionActivated", id |-> i, previous |-> j,
                   hash |-> h, controller |-> c, named |-> c]
            e3 == [name |-> "MerchantRegistered", id |-> i, hash |-> h,
                   controller |-> c, named |-> c]
            y1 == Replayed(x, e1)
            y2 == Replayed(y1, e2)
            y3 == Replayed(y2, e3)
<1>1. AfterActivation(i, p) = y3
  BY DEF AfterActivation
<1>2. j \in Ids /\ h \in Hashes /\ c \in Controllers
  BY DEF PendingType
<1>3. /\ "id" \in DOMAIN e3 /\ e3.name = "MerchantRegistered" /\ e3.id = i /\ e3.hash = h
      /\ e3.named = c /\ \A z : Expected(z, e3) = c
  BY DEF Expected
<1>. HIDE DEF h, c, j
<1>4. j # i /\ h \notin RevokedHashes(x) /\ h # x.active[j]
  BY DEF j, h
<1>5. /\ y1 \in IndexType /\ Touches(x, y1, j)
      /\ y1.active[j] = None /\ y1.controller[j] = None /\ j \notin y1.suspended
      /\ RevokedHashes(y1) = RevokedHashes(x) \cup ({x.active[j]} \ {None})
      /\ y1.attestations = WithoutAttestations(x, j)
  BY <1>2, RevokedFacts
<1>. HIDE DEF y1
<1>6. /\ y2 \in IndexType
      /\ y2.active = [y1.active EXCEPT ![i] = h]
      /\ y2.controller = [y1.controller EXCEPT ![i] = c]
      /\ y2.suspended = y1.suspended \ {i, j} /\ y2.misbound = y1.misbound
      /\ SameSettings(y1, y2)
      /\ RevokedHashes(y2) = RevokedHashes(y1) \ {h}
      /\ y2.attestations = WithoutAttestations(y1, i) \cap WithoutAttestations(y1, j)
  BY <1>2, <1>4, <1>5, SupersededFacts
<1>. HIDE DEF y2, e3
<1>7. /\ y3 \in IndexType /\ Touches(y2, y3, i)
      /\ y3.active[i] = h /\ y3.controller[i] = c /\ i \notin y3.suspended
      /\ RevokedHashes(y3) = RevokedHashes(y2) \ {h}
      /\ y3.attestations = WithoutAttestations(y2, i)
  BY <1>2, <1>3, <1>6, DocumentFacts
<1>. HIDE DEF y3
<1>8. /\ y1.active \in [Ids -> Hashes \cup {None}]
      /\ y1.controller \in [Ids -> Controllers \cup {None}]
  BY <1>5 DEF IndexType
<1>9. /\ y2.active[i] = h /\ y2.controller[i] = c
      /\ \A k \in Ids \ {i} : y2.active[k] = y1.active[k] /\ y2.controller[k] = y1.controller[k]
  BY <1>6, <1>8
<1>10. /\ y3.active[j] = None
       /\ \A k \in Ids \ {i, j} : y3.active[k] = x.active[k] /\ y3.controller[k] = x.controller[k]
  BY <1>2, <1>4, <1>5, <1>7, <1>9 DEF Touches
<1>11. y3.suspended = x.suspended \ {i, j} /\ y3.misbound = x.misbound
  BY <1>5, <1>6, <1>7 DEF Touches
<1>12. SameSettings(x, y3)
  BY <1>5, <1>6, <1>7 DEF Touches, SameSettings
<1>13. RevokedHashes(y3) = RevokedHashes(x) \cup ({x.active[j]} \ {None})
  BY <1>4, <1>5, <1>6, <1>7
<1>14. y3.attestations \subseteq WithoutAttestations(x, i) \cap WithoutAttestations(x, j)
  BY <1>5, <1>6, <1>7 DEF WithoutAttestations
<1>. QED
  BY <1>1, <1>7, <1>10, <1>11, <1>12, <1>13, <1>14 DEF j, h, c

LEMMA IndexActivate ==
    ASSUME IndexInv, IInv', NEW i \in Ids, ActivateSupersession(i)
    PROVE  IndexInv'
<1>0. IInv /\ index \in IndexType /\ RevokedHashes(index) = revoked
  BY DEF IndexInv, IndexIsTheContract
<1>1. PICK p \in PendingType : p = pending[i] /\ p # None
  BY <1>0 DEF ActivateSupersession, IInv, StorageOK
<1>. DEFINE j == p.previous
            n == NewRecord(p.controller, p.hash)
            y == AfterActivation(i, p)
<1>2. /\ domain[i[1]] = j /\ Revocable(j) /\ index' = y
      /\ p.hash \notin revoked \cup {record[j].hash}
      /\ record' = [AfterRevoke(j) EXCEPT ![i] = n]
      /\ revoked' = revoked \cup {record[j].hash}
      /\ UNCHANGED <<threshold, paused>>
  BY <1>1 DEF ActivateSupersession
<1>3. j \in Ids /\ j # i /\ p.hash \in Hashes /\ p.controller \in Controllers
  BY <1>0, <1>1 DEF IInv, Ownership, SupersedesAnother, PendingType
<1>4. record[j].status \in Live
  BY <1>2 DEF Revocable, Live
<1>5. /\ n.status = "active" /\ n.hash = p.hash /\ n.controller = p.controller
  BY DEF NewRecord
<1>. HIDE DEF n
<1>6. /\ AfterRevoke(j) = [record EXCEPT ![j] = RevokedRecord(j)]
      /\ RevokedRecord(j).status = "revoked"
  BY <1>0, <1>3, AfterRevoking DEF IInv
<1>7. /\ record'[i] = n /\ record'[j].status = "revoked"
      /\ \A k \in Ids \ {i, j} : record'[k] = record[k]
  BY <1>0, <1>2, <1>3, <1>6, RecordTypes
<1>8. index.active[j] = record[j].hash /\ record[j].hash # None
  BY <1>3, <1>4, LiveFacts
<1>9. /\ y \in IndexType
      /\ y.active[j] = None /\ y.active[i] = p.hash
      /\ y.controller[i] = p.controller
      /\ y.suspended = index.suspended \ {i, j} /\ y.misbound = index.misbound
      /\ \A k \in Ids \ {i, j} : /\ y.active[k] = index.active[k]
                                 /\ y.controller[k] = index.controller[k]
      /\ SameSettings(index, y)
      /\ RevokedHashes(y) = RevokedHashes(index) \cup ({index.active[j]} \ {None})
  BY <1>0, <1>2, <1>3, <1>8, ActivationFacts
<1>. HIDE DEF y, j
<1>10. RevokedHashes(index') = revoked'
  BY <1>0, <1>2, <1>8, <1>9
<1>11. \A k \in Ids : index'.active[k] =
         IF record'[k].status \in {"active", "suspended"} THEN record'[k].hash ELSE None
  BY <1>2, <1>3, <1>5, <1>7, <1>9 DEF IndexInv, IndexIsTheContract
<1>12. index'.suspended = {k \in Ids : record'[k].status = "suspended"}
  <2>1. index.suspended = {k \in Ids : record[k].status = "suspended"}
    BY DEF IndexInv, IndexIsTheContract
  <2>. QED
    BY <2>1, <1>2, <1>3, <1>5, <1>7, <1>9
<1>13. \A k \in Ids : record'[k].status \in {"active", "suspended"} =>
         index'.controller[k] = record'[k].controller
  BY <1>2, <1>3, <1>5, <1>7, <1>9 DEF IndexInv, IndexIsTheContract
<1>14. index'.misbound = {} /\ index'.threshold = threshold' /\ index'.paused = paused'
  BY <1>2, <1>9 DEF IndexInv, IndexIsTheContract, SameSettings
<1>15. LiveRecordsAreWhole' /\ SettingsOK'
  BY <1>2, <1>3, <1>5, <1>7 DEF IndexInv, LiveRecordsAreWhole, SettingsOK, Live
<1>16. IndexIsTheContract'
  BY <1>10, <1>11, <1>12, <1>13, <1>14 DEF IndexIsTheContract
<1>. QED
  BY <1>2, <1>9, <1>15, <1>16 DEF IndexInv

LEMMA IndexAttest ==
    ASSUME IndexInv, IInv', NEW v \in Validators, NEW i \in Ids, NEW t \in Nat,
           Attest(v, i, t)
    PROVE  IndexInv'
<1>. DEFINE h == record[i].hash
            y == Replayed(index, [name |-> "MerchantAttested", id |-> i, validator |-> v,
                                  hash |-> h, expires |-> t])
<1>1. /\ record[i].status \in Live /\ index' = y
      /\ UNCHANGED <<record, revoked, threshold, paused>>
  BY DEF Attest, Emit, Live
<1>2. index.active[i] = h /\ h \in Hashes
  BY <1>1, LiveFacts
<1>. HIDE DEF h
<1>3. /\ y \in IndexType
      /\ y.active = index.active /\ y.suspended = index.suspended
      /\ SameSettings(index, y) /\ SameBinding(index, y)
      /\ RevokedHashes(y) = RevokedHashes(index)
  BY <1>2, AttestedFacts DEF IndexInv
<1>. HIDE DEF y
<1>4. SettingsOK' /\ index.threshold = threshold' /\ index.paused = paused'
  BY <1>1 DEF IndexInv, SettingsOK, IndexIsTheContract
<1>. QED
  BY <1>1, <1>3, <1>4, SameIndexed DEF SameSettings, SameBinding

LEMMA IndexSetValidator ==
    ASSUME IndexInv, IInv', NEW v \in Validators, NEW on \in BOOLEAN, SetValidator(v, on)
    PROVE  IndexInv'
<1>. DEFINE e == [name |-> "ValidatorSet", validator |-> v, enabled |-> on]
            y == Replayed(index, e)
<1>1. index' = y /\ UNCHANGED <<record, revoked, threshold, paused>>
  BY DEF SetValidator, Emit
<1>2. index \in IndexType /\ index.threshold = threshold /\ index.paused = paused /\ SettingsOK
  BY DEF IndexInv, IndexIsTheContract
<1>3. e.name = "ValidatorSet" /\ e.validator \in Validators /\ "id" \notin DOMAIN e
  OBVIOUS
<1>. HIDE DEF e
<1>4. /\ y \in IndexType
      /\ y.active = index.active /\ y.suspended = index.suspended
      /\ y.threshold = index.threshold /\ y.paused = index.paused
      /\ SameBinding(index, y) /\ RevokedHashes(y) = RevokedHashes(index)
  BY <1>2, <1>3, ValidatorFacts
<1>. HIDE DEF y
<1>. QED
  BY <1>1, <1>2, <1>4, SameIndexed DEF SameBinding, SettingsOK

LEMMA IndexSetThreshold ==
    ASSUME IndexInv, IInv', NEW n \in Nat, SetThreshold(n)
    PROVE  IndexInv'
<1>. DEFINE y == Replayed(index, [name |-> "AttestationThresholdSet", threshold |-> n])
<1>1. index' = y /\ threshold' = n /\ UNCHANGED <<record, revoked, paused>>
  BY DEF SetThreshold, Emit
<1>2. index \in IndexType /\ index.paused = paused /\ SettingsOK
  BY DEF IndexInv, IndexIsTheContract
<1>3. \A x \in IndexType :
        LET z == Replayed(x, [name |-> "AttestationThresholdSet", threshold |-> n])
        IN  /\ z \in IndexType /\ SameRecords(x, z) /\ SameBinding(x, z)
            /\ RevokedHashes(z) = RevokedHashes(x)
            /\ z.threshold = n /\ z.paused = x.paused /\ z.enabled = x.enabled
  BY ThresholdFacts
<1>4. /\ y \in IndexType /\ SameRecords(index, y) /\ SameBinding(index, y)
      /\ RevokedHashes(y) = RevokedHashes(index)
      /\ y.threshold = n /\ y.paused = index.paused
  BY <1>2, <1>3
<1>. HIDE DEF y
<1>. QED
  BY <1>1, <1>2, <1>4, SameIndexed DEF SameRecords, SameBinding, SettingsOK

LEMMA IndexPause ==
    ASSUME IndexInv, IInv', NEW on \in BOOLEAN, SetWritesPaused(on)
    PROVE  IndexInv'
<1>. DEFINE y == Replayed(index, [name |-> "WritesPaused", paused |-> on])
<1>1. index' = y /\ paused' = on /\ UNCHANGED <<record, revoked, threshold>>
  BY DEF SetWritesPaused, Emit
<1>2. index \in IndexType /\ index.threshold = threshold /\ SettingsOK
  BY DEF IndexInv, IndexIsTheContract
<1>3. \A x \in IndexType :
        LET z == Replayed(x, [name |-> "WritesPaused", paused |-> on])
        IN  /\ z \in IndexType /\ SameRecords(x, z) /\ SameBinding(x, z)
            /\ RevokedHashes(z) = RevokedHashes(x)
            /\ z.threshold = x.threshold /\ z.paused = on /\ z.enabled = x.enabled
  BY PauseFacts
<1>4. /\ y \in IndexType /\ SameRecords(index, y) /\ SameBinding(index, y)
      /\ RevokedHashes(y) = RevokedHashes(index)
      /\ y.threshold = index.threshold /\ y.paused = on
  BY <1>2, <1>3
<1>. HIDE DEF y
<1>. QED
  BY <1>1, <1>2, <1>4, SameIndexed DEF SameRecords, SameBinding, SettingsOK

\* A scene's clock and a threshold are natural numbers.
LEMMA Bounds ==
    ASSUME scene \in Scenes
    PROVE  /\ 1 .. scene.time + 1 \subseteq Nat
           /\ 1 .. Cardinality(Validators) \subseteq Nat
<1>1. scene.time \in Nat
  BY RegistryScenes
<1>2. Cardinality(Validators) \in Nat
  BY ValidatorsAreFinite, FS_CardinalityType
<1>. QED
  BY <1>1, <1>2

LEMMA IndexStep ==
    ASSUME IndexInv, [Next]_vars
    PROVE  IndexInv'
<1>0. IInv /\ IInv' /\ scene \in Scenes
  BY StepPreserves DEF IndexInv, IInv, StorageOK
<1>1. CASE UNCHANGED <<record, revoked, threshold, paused, index>>
  BY <1>0, <1>1
     DEF IndexInv, LiveRecordsAreWhole, SettingsOK, IndexIsTheContract, RevokedHashes
<1>2. ASSUME NEW d \in scene.domains, NEW c \in scene.controllers, NEW h \in Hashes,
             Register(d, c, h) \/ RequestSupersession(d, c, h)
      PROVE  IndexInv'
  BY <1>0, <1>2, IndexRegister, IndexRequest
<1>3. ASSUME NEW i \in Ids, NEW h \in Hashes, Update(i, h)
      PROVE  IndexInv'
  BY <1>0, <1>3, IndexUpdate
<1>4. ASSUME NEW i \in Ids, NEW h \in Hashes, NEW c \in scene.controllers,
             SetController(i, c, h)
      PROVE  IndexInv'
  BY <1>0, <1>4, IndexSetController
<1>5. ASSUME NEW i \in Ids,
             \/ Revoke(i) \/ ForceRevoke(i) \/ Suspend(i) \/ Unsuspend(i)
             \/ ApproveSupersession(i) \/ CancelSupersession(i) \/ ActivateSupersession(i)
      PROVE  IndexInv'
  BY <1>0, <1>5, IndexRevoke, IndexSuspend, IndexDecide, IndexActivate
<1>6. ASSUME NEW i \in Ids, NEW v \in Validators, NEW t \in 1 .. scene.time + 1,
             Attest(v, i, t)
      PROVE  IndexInv'
  BY <1>0, <1>6, Bounds, IndexAttest
<1>7. ASSUME NEW a \in scene.governance, Schedule(a) \/ CancelScheduled(a)
      PROVE  IndexInv'
  BY <1>1, <1>7 DEF Schedule, CancelScheduled
<1>8. ASSUME NEW v \in Validators, NEW on \in BOOLEAN, SetValidator(v, on)
      PROVE  IndexInv'
  BY <1>0, <1>8, IndexSetValidator
<1>9. ASSUME NEW n \in 1 .. Cardinality(Validators), SetThreshold(n)
      PROVE  IndexInv'
  BY <1>0, <1>9, Bounds, IndexSetThreshold
<1>10. ASSUME NEW on \in BOOLEAN, SetWritesPaused(on)
       PROVE  IndexInv'
  BY <1>0, <1>10, IndexPause
<1>11. CASE Tick \/ UNCHANGED vars
  BY <1>1, <1>11 DEF Tick, vars, contract
<1>. QED
  BY <1>2, <1>3, <1>4, <1>5, <1>6, <1>7, <1>8, <1>9, <1>10, <1>11 DEF Next

LEMMA IndexInit ==
    ASSUME Init
    PROVE  IndexInv
<1>1. IInv
  BY InitHolds
<1>2. /\ EmptyIndex \in IndexType /\ RevokedHashes(EmptyIndex) = {}
      /\ EmptyIndex.active = [i \in Ids |-> None] /\ EmptyIndex.suspended = {}
      /\ EmptyIndex.misbound = {} /\ EmptyIndex.threshold = 1
      /\ EmptyIndex.paused = FALSE
  BY DEF EmptyIndex, IndexType, RevokedHashes, SupersessionStates
<1>3. /\ index = EmptyIndex /\ revoked = {} /\ threshold = 1 /\ paused = FALSE
      /\ \A i \in Ids : record[i].status = "none"
  BY DEF Init, NoRecord
<1>. HIDE DEF EmptyIndex
<1>4. LiveRecordsAreWhole /\ SettingsOK
  BY <1>3 DEF LiveRecordsAreWhole, SettingsOK, Live
<1>5. IndexIsTheContract
  BY <1>2, <1>3 DEF IndexIsTheContract
<1>. QED
  BY <1>1, <1>2, <1>3, <1>4, <1>5 DEF IndexInv

\* The index replayed from the log is the contract's storage: what is active,
\* suspended and revoked, who controls it, the threshold and the pause, and no
\* merchant's own document is refused.
THEOREM IndexHolds == Spec => []IndexIsTheContract
<1>1. Init => IndexInv
  BY IndexInit
<1>2. IndexInv /\ [Next]_vars => IndexInv'
  BY IndexStep
<1>3. IndexInv => IndexIsTheContract
  BY DEF IndexInv
<1>. QED
  BY <1>1, <1>2, <1>3, PTL DEF Spec

(***************************************************************************)
(* Attestations and quorums                                                *)
(***************************************************************************)
StoredAttestation == [hash : Hashes \cup {None}, at : Nat, expires : Nat, generation : Nat]

\* A validator was enabled in the past, and the index knows which ones are.
ClockOK ==
    /\ now \in Nat
    /\ enabledAt \in [Validators -> Nat \cup {None}]
    /\ \A v \in Validators : enabledAt[v] # None => enabledAt[v] <= now
    /\ index.enabled = {v \in Validators : enabledAt[v] # None}
    /\ attested \in [Ids -> [Validators -> StoredAttestation]]

\* An attestation of the index is the one in storage, made for the record as it is
\* now.  The storage keeps others, of earlier documents and generations, so the
\* converse is false; that the index dropped those is what has to be inductive.
AttestationsAreStored ==
    \A a \in index.attestations :
        LET g == attested[a.id][a.validator] IN
        /\ g.hash = a.hash /\ g.expires = a.expires
        /\ g.hash = record[a.id].hash /\ g.generation = record[a.id].generation
        /\ a.since /\ enabledAt[a.validator] # None => g.at >= enabledAt[a.validator]

QuorumInv == IndexInv /\ ClockOK /\ AttestationsAreStored

\* A step that at most takes attestations away, and all those of the records it writes.
Lessens ==
    /\ index'.attestations \subseteq index.attestations
    /\ index'.enabled = index.enabled
    /\ UNCHANGED <<attested, enabledAt, now>>
    /\ \A a \in index'.attestations : /\ record'[a.id].hash = record[a.id].hash
                                      /\ record'[a.id].generation = record[a.id].generation

LEMMA QuorumLessens ==
    ASSUME QuorumInv, IndexInv', Lessens
    PROVE  QuorumInv'
<1>1. ClockOK'
  BY DEF QuorumInv, ClockOK, Lessens
<1>2. AttestationsAreStored'
  BY DEF QuorumInv, AttestationsAreStored, Lessens
<1>. QED
  BY <1>1, <1>2 DEF QuorumInv

\* The attestations of the index are of records and validators.
LEMMA AttestationTypes ==
    ASSUME IndexInv, NEW a \in index.attestations
    PROVE  /\ a \in AttestationType
           /\ a.id \in Ids /\ a.validator \in Validators /\ a.hash \in Hashes
           /\ a.expires \in Nat /\ a.since \in BOOLEAN
<1>1. a \in AttestationType
  BY DEF IndexInv, IndexType
<1>. QED
  BY <1>1 DEF AttestationType

\* Record i is written and its attestations are dropped.
LEMMA WritingLessens ==
    ASSUME IndexInv, NEW i \in Ids, \A j \in Ids \ {i} : record'[j] = record[j],
           index'.attestations = WithoutAttestations(index, i),
           index'.enabled = index.enabled, UNCHANGED <<attested, enabledAt, now>>
    PROVE  Lessens
BY AttestationTypes DEF Lessens, WithoutAttestations

LEMMA LessensRegister ==
    ASSUME IndexInv, NEW d \in scene.domains, NEW c \in scene.controllers,
           NEW h \in Hashes, Register(d, c, h)
    PROVE  Lessens
<1>0. IInv /\ index \in IndexType
  BY DEF IndexInv
<1>1. d \in Domains /\ c \in Controllers
  BY <1>0, SceneFacts DEF IInv, StorageOK
<1>. DEFINE i == RecordId(d, c)
            e == [name |-> "MerchantRegistered", id |-> i, hash |-> h,
                  controller |-> c, named |-> c]
            y == Replayed(index, e)
<1>2. i \in Ids
  BY <1>1, IdFacts
<1>3. /\ record' = [record EXCEPT ![i] = NewRecord(c, h)] /\ index' = y
      /\ UNCHANGED <<attested, enabledAt, now>>
  BY DEF Register, Emit
<1>4. /\ "id" \in DOMAIN e /\ e.name = "MerchantRegistered" /\ e.id = i /\ e.hash = h
      /\ e.named = c /\ Expected(index, e) = c
  BY DEF Expected
<1>. HIDE DEF i, e
<1>5. Touches(index, y, i) /\ y.attestations = WithoutAttestations(index, i)
  BY <1>0, <1>1, <1>2, <1>4, DocumentFacts
<1>. HIDE DEF y
<1>6. \A j \in Ids \ {i} : record'[j] = record[j]
  BY <1>0, <1>2, <1>3, RecordTypes
<1>. QED
  BY <1>2, <1>3, <1>5, <1>6, WritingLessens DEF Touches, SameSettings

LEMMA LessensSetDocument ==
    ASSUME IndexInv, NEW i \in Ids, NEW h \in Hashes, NEW c \in Controllers,
           NEW e, "id" \in DOMAIN e, e.name \in {"MerchantUpdated", "ControllerChanged"},
           e.id = i, e.hash = h, e.named = c, Expected(index, e) = c,
           SetDocument(i, c, h, e)
    PROVE  Lessens
<1>0. IInv /\ index \in IndexType
  BY DEF IndexInv
<1>. DEFINE y == Replayed(index, e)
<1>1. /\ record' = [record EXCEPT ![i].hash = h, ![i].controller = c, ![i].generation = @ + 1]
      /\ index' = y /\ UNCHANGED <<attested, enabledAt, now>>
  BY DEF SetDocument, Emit
<1>2. Touches(index, y, i) /\ y.attestations = WithoutAttestations(index, i)
  BY <1>0, DocumentFacts
<1>. HIDE DEF y
<1>3. \A j \in Ids \ {i} : record'[j] = record[j]
  BY <1>0, <1>1, RecordTypes
<1>. QED
  BY <1>1, <1>2, <1>3, WritingLessens DEF Touches, SameSettings

LEMMA LessensUpdate ==
    ASSUME IndexInv, NEW i \in Ids, NEW h \in Hashes, Update(i, h)
    PROVE  Lessens
<1>1. record[i].status = "active"
  BY DEF Update, SetDocument
<1>. DEFINE c == record[i].controller
            e == [name |-> "MerchantUpdated", id |-> i, hash |-> h, named |-> c]
<1>2. c \in Controllers /\ index.controller[i] = c
  BY <1>1 DEF IndexInv, LiveRecordsAreWhole, IndexIsTheContract, Live
<1>3. SetDocument(i, c, h, e)
  BY DEF Update
<1>4. /\ "id" \in DOMAIN e /\ e.name = "MerchantUpdated" /\ e.id = i /\ e.hash = h
      /\ e.named = c /\ Expected(index, e) = c
  BY <1>2 DEF Expected
<1>. HIDE DEF c, e
<1>. QED
  BY <1>2, <1>3, <1>4, LessensSetDocument

LEMMA LessensSetController ==
    ASSUME IndexInv, NEW i \in Ids, NEW h \in Hashes, NEW c \in scene.controllers,
           SetController(i, c, h)
    PROVE  Lessens
<1>. DEFINE e == [name |-> "ControllerChanged", id |-> i, hash |-> h, controller |-> c,
                  named |-> c]
<1>1. c \in Controllers
  BY SceneFacts DEF IndexInv, IInv, StorageOK
<1>2. SetDocument(i, c, h, e)
  BY DEF SetController
<1>3. /\ "id" \in DOMAIN e /\ e.name = "ControllerChanged" /\ e.id = i /\ e.hash = h
      /\ e.named = c /\ Expected(index, e) = c
  BY DEF Expected
<1>. HIDE DEF e
<1>. QED
  BY <1>1, <1>2, <1>3, LessensSetDocument

LEMMA LessensRevoke ==
    ASSUME IndexInv, NEW i \in Ids, Revoke(i) \/ ForceRevoke(i)
    PROVE  Lessens
<1>0. IInv /\ index \in IndexType
  BY DEF IndexInv
<1>. DEFINE y == Replayed(index, [name |-> "MerchantRevoked", id |-> i])
            z == Replayed(y, [name |-> "MerchantForceRevoked", id |-> i])
<1>1. record' = AfterRevoke(i) /\ UNCHANGED <<attested, enabledAt, now>>
  BY DEF Revoke, ForceRevoke
<1>2. index' = y \/ index' = z
  BY DEF Revoke, ForceRevoke, Emit
<1>3. /\ y \in IndexType /\ Touches(index, y, i)
      /\ y.attestations = WithoutAttestations(index, i)
  BY <1>0, RevokedFacts
<1>. HIDE DEF y
<1>4. Untouched(y, z)
  BY <1>3, ForceRevokedFacts
<1>. HIDE DEF z
<1>5. /\ index'.attestations = WithoutAttestations(index, i)
      /\ index'.enabled = index.enabled
  BY <1>2, <1>3, <1>4 DEF Touches, SameSettings, Untouched, SameRecords
<1>6. \A j \in Ids \ {i} : record'[j] = record[j]
  BY <1>0, <1>1, RecordTypes DEF AfterRevoke
<1>. QED
  BY <1>1, <1>5, <1>6, WritingLessens

LEMMA LessensSuspend ==
    ASSUME IndexInv, NEW i \in Ids, Suspend(i) \/ Unsuspend(i)
    PROVE  Lessens
<1>0. IInv /\ index \in IndexType
  BY DEF IndexInv
<1>1. CASE Suspend(i)
  <2>. DEFINE y == Replayed(index, [name |-> "MerchantSuspended", id |-> i])
  <2>1. SameSettings(index, y) /\ y.attestations = WithoutAttestations(index, i)
    BY <1>0, SuspendedFacts
  <2>2. /\ record' = [record EXCEPT ![i].status = "suspended", ![i].generation = @ + 1]
        /\ index' = y /\ UNCHANGED <<attested, enabledAt, now>>
    BY <1>1 DEF Suspend, Emit
  <2>. HIDE DEF y
  <2>3. \A j \in Ids \ {i} : record'[j] = record[j]
    BY <1>0, <2>2, RecordTypes
  <2>. QED
    BY <2>1, <2>2, <2>3, WritingLessens DEF SameSettings
<1>2. CASE Unsuspend(i)
  <2>. DEFINE y == Replayed(index, [name |-> "MerchantUnsuspended", id |-> i])
  <2>1. SameSettings(index, y) /\ y.attestations = index.attestations
    BY <1>0, SuspendedFacts
  <2>2. /\ record' = [record EXCEPT ![i].status = "active"]
        /\ index' = y /\ UNCHANGED <<attested, enabledAt, now>>
    BY <1>2 DEF Unsuspend, Emit
  <2>. HIDE DEF y
  <2>3. \A j \in Ids : /\ record'[j].hash = record[j].hash
                       /\ record'[j].generation = record[j].generation
    BY <1>0, <2>2, RecordTypes DEF RecordType
  <2>. QED
    BY <2>1, <2>2, <2>3, AttestationTypes DEF Lessens, SameSettings
<1>. QED
  BY <1>1, <1>2

\* A step that leaves the attestations and the records alone.
LEMMA LeavingLessens ==
    ASSUME index'.attestations = index.attestations, index'.enabled = index.enabled,
           UNCHANGED <<record, attested, enabledAt, now>>
    PROVE  Lessens
BY DEF Lessens

LEMMA LessensSupersession ==
    ASSUME IndexInv, NEW i \in Ids,
           \/ ApproveSupersession(i) \/ CancelSupersession(i)
           \/ \E d \in scene.domains, c \in scene.controllers, h \in Hashes :
                  RequestSupersession(d, c, h)
    PROVE  Lessens
<1>0. IInv /\ index \in IndexType
  BY DEF IndexInv
<1>1. CASE ApproveSupersession(i) \/ CancelSupersession(i)
  <2>1. PICK n \in {"SupersessionApproved", "SupersessionCanceled"} :
           index' = Replayed(index, [name |-> n, id |-> i])
    BY <1>1 DEF ApproveSupersession, CancelSupersession, Emit
  <2>2. UNCHANGED <<record, attested, enabledAt, now>>
    BY <1>1 DEF ApproveSupersession, CancelSupersession
  <2>3. Untouched(index, index')
    BY <1>0, <2>1, DecisionFacts
  <2>. QED
    BY <2>2, <2>3, LeavingLessens DEF Untouched, SameRecords, SameSettings
<1>2. ASSUME NEW d \in scene.domains, NEW c \in scene.controllers, NEW h \in Hashes,
             RequestSupersession(d, c, h)
      PROVE  Lessens
  <2>. DEFINE k == RecordId(d, c)
              y == Replayed(index, [name |-> "SupersessionRequested", id |-> k,
                                    controller |-> c])
  <2>1. d \in Domains /\ c \in Controllers
    BY <1>0, SceneFacts DEF IInv, StorageOK
  <2>2. k \in Ids
    BY <2>1, IdFacts
  <2>3. index' = y /\ UNCHANGED <<record, attested, enabledAt, now>>
    BY <1>2 DEF RequestSupersession, Emit
  <2>. HIDE DEF k
  <2>4. Touches(index, y, k) /\ SameRecords(index, y)
    BY <1>0, <2>1, <2>2, RequestFacts
  <2>. HIDE DEF y
  <2>. QED
    BY <2>3, <2>4, LeavingLessens DEF Touches, SameRecords, SameSettings
<1>. QED
  BY <1>1, <1>2

LEMMA LessensActivate ==
    ASSUME IndexInv, NEW i \in Ids, ActivateSupersession(i)
    PROVE  Lessens
<1>0. IInv /\ index \in IndexType /\ RevokedHashes(index) = revoked
  BY DEF IndexInv, IndexIsTheContract
<1>1. PICK p \in PendingType : p = pending[i] /\ p # None
  BY <1>0 DEF ActivateSupersession, IInv, StorageOK
<1>. DEFINE j == p.previous
            n == NewRecord(p.controller, p.hash)
            y == AfterActivation(i, p)
<1>2. /\ Revocable(j) /\ index' = y
      /\ p.hash \notin revoked \cup {record[j].hash}
      /\ record' = [AfterRevoke(j) EXCEPT ![i] = n]
      /\ UNCHANGED <<attested, enabledAt, now>>
  BY <1>1 DEF ActivateSupersession
<1>3. j \in Ids /\ j # i
  BY <1>0, <1>1 DEF IInv, Ownership, SupersedesAnother, PendingType
<1>4. index.active[j] = record[j].hash
  BY <1>2, <1>3, LiveFacts DEF Revocable, Live
<1>5. /\ SameSettings(index, y)
      /\ y.attestations \subseteq WithoutAttestations(index, i) \cap WithoutAttestations(index, j)
  BY <1>0, <1>2, <1>3, <1>4, ActivationFacts
<1>. HIDE DEF n, y, j
<1>6. \A k \in Ids \ {i, j} : record'[k] = record[k]
  BY <1>0, <1>2, <1>3, RecordTypes DEF AfterRevoke
<1>. QED
  BY <1>2, <1>5, <1>6, AttestationTypes DEF Lessens, WithoutAttestations, SameSettings

LEMMA LessensGovern ==
    ASSUME IndexInv, NEW n \in Nat, NEW on \in BOOLEAN, SetThreshold(n) \/ SetWritesPaused(on)
    PROVE  Lessens
<1>0. index \in IndexType
  BY DEF IndexInv
<1>1. CASE SetThreshold(n)
  <2>. DEFINE y == Replayed(index, [name |-> "AttestationThresholdSet", threshold |-> n])
  <2>1. index' = y /\ UNCHANGED <<record, attested, enabledAt, now>>
    BY <1>1 DEF SetThreshold, Emit
  <2>2. SameRecords(index, y) /\ y.enabled = index.enabled
    BY <1>0, ThresholdFacts
  <2>. HIDE DEF y
  <2>. QED
    BY <2>1, <2>2, LeavingLessens DEF SameRecords
<1>2. CASE SetWritesPaused(on)
  <2>. DEFINE y == Replayed(index, [name |-> "WritesPaused", paused |-> on])
  <2>1. index' = y /\ UNCHANGED <<record, attested, enabledAt, now>>
    BY <1>2 DEF SetWritesPaused, Emit
  <2>2. SameRecords(index, y) /\ y.enabled = index.enabled
    BY <1>0, PauseFacts
  <2>. HIDE DEF y
  <2>. QED
    BY <2>1, <2>2, LeavingLessens DEF SameRecords
<1>. QED
  BY <1>1, <1>2

LEMMA QuorumAttest ==
    ASSUME QuorumInv, IndexInv', NEW v \in Validators, NEW i \in Ids, NEW t \in Nat,
           Attest(v, i, t)
    PROVE  QuorumInv'
<1>. DEFINE h == record[i].hash
            g == [hash |-> h, at |-> now, expires |-> t, generation |-> record[i].generation]
            new == Attestation(i, v, h, t)
            y == Replayed(index, [name |-> "MerchantAttested", id |-> i, validator |-> v,
                                  hash |-> h, expires |-> t])
<1>0. IndexInv /\ index \in IndexType /\ record[i] \in RecordType
  BY RecordTypes DEF QuorumInv, IndexInv
<1>1. /\ record[i].status \in Live /\ index' = y /\ enabledAt[v] # None
      /\ attested' = [attested EXCEPT ![i][v] = g]
      /\ UNCHANGED <<record, enabledAt, now>>
  BY DEF Attest, Emit, Live
<1>2. index.active[i] = h /\ h \in Hashes
  BY <1>0, <1>1, LiveFacts
<1>3. g \in StoredAttestation
  BY <1>0, <1>2 DEF QuorumInv, ClockOK, StoredAttestation, RecordType
<1>4. /\ g.hash = h /\ g.expires = t /\ g.at = now /\ g.generation = record[i].generation
      /\ new.id = i /\ new.validator = v /\ new.hash = h /\ new.expires = t
  BY DEF Attestation
<1>. HIDE DEF h, g
<1>5. /\ SameSettings(index, y)
      /\ y.attestations = {a \in index.attestations : a.id # i \/ a.validator # v} \cup {new}
  BY <1>0, <1>2, AttestedFacts
<1>. HIDE DEF y, new
<1>6. ClockOK'
  BY <1>1, <1>3, <1>5 DEF QuorumInv, ClockOK, SameSettings
<1>7. ASSUME NEW a \in index'.attestations
      PROVE  LET s == attested'[a.id][a.validator] IN
             /\ s.hash = a.hash /\ s.expires = a.expires
             /\ s.hash = record'[a.id].hash /\ s.generation = record'[a.id].generation
             /\ a.since /\ enabledAt'[a.validator] # None => s.at >= enabledAt'[a.validator]
  <2>1. CASE a = new
    <3>1. attested'[i][v] = g
      BY <1>1 DEF QuorumInv, ClockOK
    <3>2. enabledAt[v] \in Nat /\ now >= enabledAt[v] /\ now \in Nat
      BY <1>1 DEF QuorumInv, ClockOK
    <3>. QED
      BY <2>1, <3>1, <3>2, <1>1, <1>4 DEF h
  <2>2. CASE a \in index.attestations /\ (a.id # i \/ a.validator # v)
    <3>1. a.id \in Ids /\ a.validator \in Validators
      BY <2>2, <1>0, AttestationTypes
    <3>2. attested'[a.id][a.validator] = attested[a.id][a.validator]
      BY <2>2, <3>1, <1>1 DEF QuorumInv, ClockOK
    <3>. QED
      BY <2>2, <3>2, <1>1 DEF QuorumInv, AttestationsAreStored
  <2>. QED
    BY <2>1, <2>2, <1>1, <1>5
<1>8. AttestationsAreStored'
  BY <1>7 DEF AttestationsAreStored
<1>. QED
  BY <1>6, <1>8 DEF QuorumInv

LEMMA QuorumSetValidator ==
    ASSUME QuorumInv, IndexInv', NEW v \in Validators, NEW on \in BOOLEAN, SetValidator(v, on)
    PROVE  QuorumInv'
<1>. DEFINE e == [name |-> "ValidatorSet", validator |-> v, enabled |-> on]
            y == Replayed(index, e)
            new == CASE on /\ enabledAt[v] # None -> enabledAt[v]
                     [] on /\ enabledAt[v] = None -> now
                     [] ~on                       -> None
<1>0. IndexInv /\ index \in IndexType /\ ClockOK
  BY DEF QuorumInv, IndexInv
<1>1. /\ index' = y /\ enabledAt' = [enabledAt EXCEPT ![v] = new]
      /\ UNCHANGED <<record, attested, now>>
  BY DEF SetValidator, Emit
<1>2. /\ e.name = "ValidatorSet" /\ e.validator = v /\ e.enabled = on
      /\ "id" \notin DOMAIN e
  OBVIOUS
<1>. HIDE DEF e
<1>3. /\ y.enabled = IF on THEN index.enabled \cup {v} ELSE index.enabled \ {v}
      /\ y.attestations = Switched(index.attestations, v, on)
  BY <1>0, <1>2, ValidatorFacts
<1>. HIDE DEF y
<1>4. /\ on => new # None /\ new \in Nat /\ new <= now
      /\ ~on => new = None
  BY <1>0, NoneIsNoTime DEF ClockOK
<1>. HIDE DEF new
<1>5. /\ enabledAt'[v] = new
      /\ \A w \in Validators \ {v} : enabledAt'[w] = enabledAt[w]
      /\ enabledAt' \in [Validators -> Nat \cup {None}]
  BY <1>0, <1>1, <1>4 DEF ClockOK
<1>6. index'.enabled = {w \in Validators : enabledAt'[w] # None}
  BY <1>0, <1>1, <1>3, <1>4, <1>5 DEF ClockOK
<1>7. ClockOK'
  BY <1>0, <1>1, <1>4, <1>5, <1>6 DEF ClockOK
<1>8. ASSUME NEW a \in index'.attestations
      PROVE  \E b \in index.attestations :
               /\ a.id = b.id /\ a.validator = b.validator /\ a.hash = b.hash
               /\ a.expires = b.expires /\ (a.since => b.since /\ a.validator # v)
  <2>1. CASE on
    <3>1. PICK b \in index.attestations :
             a = IF b.validator = v THEN [b EXCEPT !.since = FALSE] ELSE b
      BY <2>1, <1>1, <1>3 DEF Switched
    <3>2. b \in AttestationType
      BY <1>0, AttestationTypes
    <3>. QED
      BY <3>1, <3>2 DEF AttestationType
  <2>2. CASE ~on
    BY <2>2, <1>1, <1>3 DEF Switched
  <2>. QED
    BY <2>1, <2>2
<1>9. AttestationsAreStored'
  <2>. SUFFICES ASSUME NEW a \in index'.attestations
                PROVE  LET s == attested'[a.id][a.validator] IN
                       /\ s.hash = a.hash /\ s.expires = a.expires
                       /\ s.hash = record'[a.id].hash
                       /\ s.generation = record'[a.id].generation
                       /\ a.since /\ enabledAt'[a.validator] # None =>
                              s.at >= enabledAt'[a.validator]
    BY DEF AttestationsAreStored
  <2>1. PICK b \in index.attestations :
          /\ a.id = b.id /\ a.validator = b.validator /\ a.hash = b.hash
          /\ a.expires = b.expires /\ (a.since => b.since /\ a.validator # v)
    BY <1>8
  <2>2. b.validator \in Validators
    BY <1>0, AttestationTypes
  <2>3. LET s == attested[b.id][b.validator] IN
        /\ s.hash = b.hash /\ s.expires = b.expires
        /\ s.hash = record[b.id].hash /\ s.generation = record[b.id].generation
        /\ b.since /\ enabledAt[b.validator] # None => s.at >= enabledAt[b.validator]
    BY DEF QuorumInv, AttestationsAreStored
  <2>4. a.since => enabledAt'[a.validator] = enabledAt[b.validator]
    BY <2>1, <2>2, <1>5
  <2>. QED
    BY <2>1, <2>3, <2>4, <1>1
<1>. QED
  BY <1>7, <1>9 DEF QuorumInv

LEMMA QuorumStep ==
    ASSUME QuorumInv, [Next]_vars
    PROVE  QuorumInv'
<1>0. IndexInv /\ IndexInv' /\ scene \in Scenes
  BY IndexStep DEF QuorumInv, IndexInv, IInv, StorageOK
<1>1. CASE UNCHANGED <<record, attested, enabledAt, now, index>>
  BY <1>0, <1>1, LeavingLessens, QuorumLessens
<1>2. ASSUME NEW d \in scene.domains, NEW c \in scene.controllers, NEW h \in Hashes,
             Register(d, c, h) \/ RequestSupersession(d, c, h)
      PROVE  QuorumInv'
  <2>1. RecordId(d, c) \in Ids
    BY <1>0, SceneFacts, IdFacts
  <2>. QED
    BY <2>1, <1>0, <1>2, LessensRegister, LessensSupersession, QuorumLessens
<1>3. ASSUME NEW i \in Ids, NEW h \in Hashes, Update(i, h)
      PROVE  QuorumInv'
  BY <1>0, <1>3, LessensUpdate, QuorumLessens
<1>4. ASSUME NEW i \in Ids, NEW h \in Hashes, NEW c \in scene.controllers,
             SetController(i, c, h)
      PROVE  QuorumInv'
  BY <1>0, <1>4, LessensSetController, QuorumLessens
<1>5. ASSUME NEW i \in Ids,
             \/ Revoke(i) \/ ForceRevoke(i) \/ Suspend(i) \/ Unsuspend(i)
             \/ ApproveSupersession(i) \/ CancelSupersession(i) \/ ActivateSupersession(i)
      PROVE  QuorumInv'
  BY <1>0, <1>5, LessensRevoke, LessensSuspend, LessensSupersession, LessensActivate,
     QuorumLessens
<1>6. ASSUME NEW i \in Ids, NEW v \in Validators, NEW t \in 1 .. scene.time + 1,
             Attest(v, i, t)
      PROVE  QuorumInv'
  BY <1>0, <1>6, Bounds, QuorumAttest
<1>7. ASSUME NEW a \in scene.governance, Schedule(a) \/ CancelScheduled(a)
      PROVE  QuorumInv'
  BY <1>1, <1>7 DEF Schedule, CancelScheduled
<1>8. ASSUME NEW v \in Validators, NEW on \in BOOLEAN, SetValidator(v, on)
      PROVE  QuorumInv'
  BY <1>0, <1>8, QuorumSetValidator
<1>9. ASSUME NEW n \in 1 .. Cardinality(Validators), SetThreshold(n)
      PROVE  QuorumInv'
  BY <1>0, <1>9, Bounds, LessensGovern, QuorumLessens
<1>10. ASSUME NEW on \in BOOLEAN, SetWritesPaused(on)
       PROVE  QuorumInv'
  <2>1. 0 \in Nat
    OBVIOUS
  <2>. QED
    BY <2>1, <1>0, <1>10, LessensGovern, QuorumLessens
<1>11. CASE Tick
  <2>1. /\ now' = now + 1
        /\ UNCHANGED <<record, attested, enabledAt, index>>
    BY <1>11 DEF Tick, contract
  <2>2. ClockOK'
    BY <2>1 DEF QuorumInv, ClockOK
  <2>3. AttestationsAreStored'
    BY <2>1 DEF QuorumInv, AttestationsAreStored
  <2>. QED
    BY <1>0, <2>2, <2>3 DEF QuorumInv
<1>12. CASE UNCHANGED vars
  BY <1>1, <1>12 DEF vars, contract
<1>. QED
  BY <1>2, <1>3, <1>4, <1>5, <1>6, <1>7, <1>8, <1>9, <1>10, <1>11, <1>12 DEF Next

\* A set of current attestations is no larger than a set of its validators: a
\* validator has one attestation of a record.
LEMMA OneEach ==
    ASSUME QuorumInv, NEW i \in Ids,
           NEW S, S \subseteq CurrentAttestations(index, i, now),
           NEW V, V \subseteq Validators, \A a \in S : a.validator \in V
    PROVE  /\ IsFiniteSet(S) /\ Cardinality(S) \in Nat /\ Cardinality(V) \in Nat
           /\ Cardinality(S) <= Cardinality(V)
<1>. DEFINE f == [a \in S |-> a.validator]
<1>1. ASSUME NEW a \in S, NEW b \in S, a.validator = b.validator
      PROVE  a = b
  <2>1. /\ a \in index.attestations /\ a.id = i /\ a.since
        /\ b \in index.attestations /\ b.id = i /\ b.since
    BY DEF CurrentAttestations
  <2>2. a.hash = b.hash /\ a.expires = b.expires
    BY <1>1, <2>1 DEF QuorumInv, AttestationsAreStored
  <2>3. a \in AttestationType /\ b \in AttestationType
    BY <2>1, AttestationTypes DEF QuorumInv
  <2>4. a.since = b.since
    BY <2>1, <2>3 DEF AttestationType
  <2>. QED
    BY <1>1, <2>1, <2>2, <2>3, <2>4 DEF AttestationType
<1>2. f \in Injection(S, V)
  BY <1>1 DEF Injection, IsInjective
<1>3. IsFiniteSet(V)
  BY ValidatorsAreFinite, FS_Subset
<1>4. IsFiniteSet(S) /\ Cardinality(S) <= Cardinality(V)
  BY <1>2, <1>3, FS_Injection
<1>. QED
  BY <1>3, <1>4, FS_CardinalityType

\* A current attestation of the index counts in the contract, and expires there when
\* the index says.
LEMMA CurrentCounts ==
    ASSUME QuorumInv, NEW i \in Ids, NEW a \in CurrentAttestations(index, i, now)
    PROVE  /\ a.validator \in Counted(i)
           /\ attested[i][a.validator].expires = a.expires /\ a.expires \in Nat
<1>1. /\ a \in index.attestations /\ a.id = i /\ a.validator \in index.enabled
      /\ a.since /\ a.expires > now
  BY DEF CurrentAttestations
<1>2. a.validator \in Validators /\ a.expires \in Nat
  BY <1>1, AttestationTypes DEF QuorumInv
<1>3. enabledAt[a.validator] # None
  BY <1>1 DEF QuorumInv, ClockOK
<1>4. LET g == attested[i][a.validator] IN
      /\ g.expires = a.expires /\ g.hash = record[i].hash
      /\ g.generation = record[i].generation /\ g.at >= enabledAt[a.validator]
  BY <1>1, <1>3 DEF QuorumInv, AttestationsAreStored
<1>. QED
  BY <1>1, <1>2, <1>3, <1>4 DEF Counted

\* A set of naturals that is not empty has a least element.
LEMMA LeastNatural ==
    ASSUME NEW S \in SUBSET Nat, S # {}
    PROVE  \E m \in S : \A k \in S : m <= k
<1>1. PICK m \in S : \A k \in S : <<k, m>> \notin OpToRel(<, Nat)
  BY WFMin, NatLessThanWellFounded, Zenon
<1>2. \A k \in S : ~(k < m)
  BY <1>1, Zenon DEF OpToRel
<1>. QED
  BY <1>2

\* A quorum has an expiry, which is that of one of its attestations.  Of the times
\* until which enough of them last, the one with the fewest lasting is the latest.
LEMMA QuorumExpires ==
    ASSUME QuorumInv, NEW i \in Ids, HasQuorum(index, i, now)
    PROVE  LET t == QuorumExpiry(index, i, now) IN
           /\ t \in Nat
           /\ Cardinality({a \in CurrentAttestations(index, i, now) : a.expires >= t})
                  >= index.threshold
<1>. DEFINE Current == CurrentAttestations(index, i, now)
            Lasting(t) == {a \in Current : a.expires >= t}
            Times == {a.expires : a \in Current}
            Enough(t) == Cardinality(Lasting(t)) >= index.threshold
            Counts == {Cardinality(Lasting(t)) : t \in {u \in Times : Enough(u)}}
<1>1. Times \subseteq Nat
  BY CurrentCounts
<1>2. /\ IsFiniteSet(Current) /\ Cardinality(Current) \in Nat
      /\ \A t \in Times : /\ Lasting(t) \subseteq Current
                          /\ IsFiniteSet(Lasting(t)) /\ Cardinality(Lasting(t)) \in Nat
  <2>1. \A S : S \subseteq Current => IsFiniteSet(S) /\ Cardinality(S) \in Nat
    BY CurrentCounts, OneEach DEF Counted
  <2>. QED
    BY <2>1
<1>3. index.threshold > 0 /\ Cardinality(Current) >= index.threshold /\ index.threshold \in Nat
  BY DEF HasQuorum, QuorumInv, IndexInv, IndexType
<1>4. Current # {}
  BY <1>3, FS_EmptySet
<1>. HIDE DEF Current
<1>5. \E t \in Times : Enough(t)
  <2>1. PICK t \in Times : \A u \in Times : t <= u
    BY <1>1, <1>4, LeastNatural
  <2>2. Lasting(t) = Current
    BY <1>1, <2>1
  <2>. QED
    BY <1>3, <2>1, <2>2
<1>. DEFINE Size(u) == Cardinality(Lasting(u))
<1>6. /\ \A u \in Times : Size(u) \in Nat
      /\ \A u \in Times : Enough(u) => Size(u) \in Counts
      /\ \A m \in Counts : \E u \in Times : Enough(u) /\ m = Size(u)
  <2>1. \A u \in Times : Size(u) \in Nat
    BY <1>2
  <2>. HIDE DEF Lasting, Times
  <2>. QED
    BY <2>1
<1>7. PICK m \in Counts : \A k \in Counts : m <= k
  <2>. HIDE DEF Counts, Times, Enough, Size
  <2>1. Counts \subseteq Nat /\ Counts # {}
    BY <1>5, <1>6
  <2>. QED
    BY <2>1, LeastNatural
<1>8. PICK t \in Times : Enough(t) /\ m = Size(t)
  <2>. HIDE DEF Counts, Times, Enough, Size
  <2>. QED
    BY <1>6, <1>7
<1>9. ASSUME NEW u \in Times, Enough(u), t < u
      PROVE  FALSE
  <2>1. Lasting(u) \subseteq Lasting(t)
    BY <1>1, <1>8, <1>9
  <2>2. PICK a \in Current : a.expires = t
    BY <1>8
  <2>3. a \in Lasting(t) /\ a \notin Lasting(u)
    BY <1>1, <1>8, <1>9, <2>2
  <2>4. Cardinality(Lasting(u)) < Cardinality(Lasting(t))
    <3>. HIDE DEF Lasting
    <3>. QED
      BY <1>2, <1>8, <2>1, <2>3, FS_Subset
  <2>5. Size(u) < Size(t)
    BY <2>4
  <2>. HIDE DEF Counts, Times, Enough, Size
  <2>6. Size(u) \in Counts /\ Size(u) \in Nat /\ Size(t) \in Nat
    BY <1>6, <1>8, <1>9
  <2>. QED
    BY <1>7, <1>8, <2>5, <2>6
<1>10. \A u \in Times : Enough(u) => u <= t
  <2>. HIDE DEF Times, Enough
  <2>. QED
    BY <1>1, <1>8, <1>9
<1>11. QuorumExpiry(index, i, now) =
         CHOOSE s \in Times : Enough(s) /\ \A u \in Times : Enough(u) => u <= s
  BY DEF QuorumExpiry, Current
<1>12. LET s == QuorumExpiry(index, i, now) IN s \in Times /\ Enough(s)
  <2>. HIDE DEF Times, Enough
  <2>. QED
    BY <1>8, <1>10, <1>11
<1>. QED
  BY <1>1, <1>12 DEF Current

LEMMA QuorumIsGranted ==
    ASSUME QuorumInv
    PROVE  ShownQuorumIsGranted
<1>. SUFFICES ASSUME NEW i \in Ids, HasQuorum(index, i, now)
     PROVE  /\ AttestationIsCurrent(i)
            /\ Cardinality({v \in Counted(i) :
                   attested[i][v].expires >= QuorumExpiry(index, i, now)}) >= threshold
  BY DEF ShownQuorumIsGranted
<1>. DEFINE Current == CurrentAttestations(index, i, now)
            t == QuorumExpiry(index, i, now)
            Late == {a \in Current : a.expires >= t}
            Valid == {v \in Counted(i) : attested[i][v].expires >= t}
<1>1. /\ index.threshold = threshold /\ threshold \in Nat /\ threshold > 0
      /\ Cardinality(Current) >= threshold
  BY DEF HasQuorum, QuorumInv, IndexInv, IndexIsTheContract, SettingsOK
<1>2. Cardinality(Late) >= threshold /\ t \in Nat
  BY <1>1, QuorumExpires
<1>3. Counted(i) \subseteq Validators
  BY DEF Counted
<1>4. /\ Cardinality(Counted(i)) \in Nat /\ Cardinality(Current) \in Nat
      /\ Cardinality(Current) <= Cardinality(Counted(i))
  <2>. HIDE DEF Current
  <2>1. Current \subseteq CurrentAttestations(index, i, now)
    BY DEF Current
  <2>2. \A a \in Current : a.validator \in Counted(i)
    BY CurrentCounts DEF Current
  <2>. QED
    BY <1>3, <2>1, <2>2, OneEach
<1>5. /\ Cardinality(Valid) \in Nat /\ Cardinality(Late) \in Nat
      /\ Cardinality(Late) <= Cardinality(Valid)
  <2>1. Late \subseteq CurrentAttestations(index, i, now) /\ Valid \subseteq Validators
    BY <1>3
  <2>2. \A a \in Late : a.validator \in Valid
    BY CurrentCounts
  <2>. HIDE DEF Late, Valid
  <2>. QED
    BY <2>1, <2>2, OneEach
<1>6. record[i].status = "active"
  <2>1. PICK a : a \in Current
    BY <1>1, FS_EmptySet
  <2>2. i \in Listed(index)
    BY <2>1 DEF CurrentAttestations
  <2>. QED
    BY <2>2 DEF Listed, QuorumInv, IndexInv, IndexIsTheContract
<1>. HIDE DEF Current, Late, Valid
<1>7. Cardinality(Counted(i)) >= threshold /\ Cardinality(Valid) >= threshold
  BY <1>1, <1>2, <1>4, <1>5
<1>. QED
  BY <1>6, <1>7 DEF AttestationIsCurrent, Valid

LEMMA OverlayFollows ==
    ASSUME IndexInv
    PROVE  OverlayIsCurrent
<1>. DEFINE merchantOf == [i \in Ids |-> i[1]]
            hosted == [id : Ids \cup {None}, hash : Hashes, merchant : Domains]
<1>1. \A i \in Listed(index) : record[i].status = "active" /\ record[i].hash = index.active[i]
  BY DEF Listed, IndexInv, IndexIsTheContract
<1>2. RevokedHashes(index) = revoked
  BY DEF IndexInv, IndexIsTheContract
<1>3. ASSUME NEW r \in hosted, Kept(index, r, merchantOf)
      PROVE  /\ r.id # None => record[r.id].status = "active" /\ record[r.id].hash = r.hash
             /\ r.id = None => r.hash \notin revoked
  BY <1>1, <1>2, <1>3 DEF Kept
<1>4. ASSUME NEW i \in Listed(index), NEW r,
             r = [id |-> i, hash |-> index.active[i], merchant |-> merchantOf[i]]
      PROVE  /\ r.id # None => record[r.id].status = "active" /\ record[r.id].hash = r.hash
             /\ r.id = None => r.hash \notin revoked
  <2>1. r.id = i /\ r.hash = index.active[i] /\ i # None
    BY <1>4 DEF Listed
  <2>. QED
    BY <1>1, <2>1
<1>. QED
  BY <1>3, <1>4 DEF OverlayIsCurrent, Overlay

\* What a buyer is shown is what the contract says: the index is its storage, a quorum
\* the index shows is one the contract grants, for as long, and an overlaid feed holds
\* no record that is not active there with that document (index_contract_events,
\* overlay_records).
THEOREM BuyersHold == Spec => []BuyersSeeTheContract
<1>1. ASSUME Init PROVE QuorumInv
  <2>1. index.attestations = {} /\ index.enabled = {}
    BY <1>1 DEF Init, EmptyIndex
  <2>2. ClockOK
    BY <1>1, <2>1 DEF Init, ClockOK, StoredAttestation, NoAttestation
  <2>3. IndexInv
    BY <1>1, IndexInit
  <2>. QED
    BY <2>1, <2>2, <2>3 DEF QuorumInv, AttestationsAreStored
<1>2. QuorumInv /\ [Next]_vars => QuorumInv'
  BY QuorumStep
<1>3. QuorumInv => BuyersSeeTheContract
  BY QuorumIsGranted, OverlayFollows DEF QuorumInv, IndexInv, BuyersSeeTheContract
<1>. QED
  BY <1>1, <1>2, <1>3, PTL DEF Spec

(***************************************************************************)
(* The replay of a history, event by event                                 *)
(***************************************************************************)
LEMMA Greatest ==
    ASSUME NEW m \in Nat, NEW T \in SUBSET (1 .. m), T # {}
    PROVE  Max(T) \in T /\ \A t \in T : t <= Max(T)
<1>. DEFINE D == {m - t : t \in T}
<1>1. D \in SUBSET Nat /\ D # {}
  <2>1. \A t \in T : t \in Nat /\ t <= m
    OBVIOUS
  <2>2. \A t \in T : m - t \in Nat
    BY <2>1
  <2>. QED
    BY <2>2
<1>2. PICK d \in D : \A c \in D : d <= c
  BY <1>1, LeastNatural
<1>3. PICK x \in T : d = m - x
  BY <1>2
<1>4. \A t \in T : x >= t
  <2>1. \A t \in T : m - t \in D /\ t \in Int
    <3>1. \A t \in T : t \in 1 .. m
      OBVIOUS
    <3>2. \A t \in T : t \in Int
      BY <3>1
    <3>3. \A t \in T : m - t \in D
      BY Zenon
    <3>. QED
      BY <3>2, <3>3, Zenon
  <2>2. \A t \in T : m - x <= m - t
    BY <2>1, <1>2, <1>3
  <2>. QED
    BY <2>1, <2>2
<1>5. \E y \in T : \A t \in T : y >= t
  BY <1>4
<1>6. Max(T) \in T /\ \A t \in T : Max(T) >= t
  BY <1>5, Zenon DEF Max
<1>. QED
  BY <1>6

\* it replays the events of s that have their place in a set.
Replays(it, s) ==
    it = [T \in SUBSET (DOMAIN s) |->
            IF T = {} THEN EmptyIndex ELSE Replayed(it[T \ {Max(T)}], s[Max(T)])]

LEMMA TruthIsReplayed ==
    ASSUME NEW s
    PROVE  Truth(s) = (CHOOSE it : Replays(it, s))[DOMAIN s]
BY DEF Truth, Projected, FoldLeft, MapThenFoldSet, Replays

\* g does so for the first m.
ReplaysUpTo(g, s, m) ==
    g = [T \in SUBSET (1 .. m) |->
            IF T = {} THEN EmptyIndex ELSE Replayed(g[T \ {Max(T)}], s[Max(T)])]

LEMMA ReplaysExist ==
    ASSUME NEW s, NEW n \in Nat
    PROVE  \E g : ReplaysUpTo(g, s, n)
<1>. DEFINE Bad == {m \in Nat : ~\E g : ReplaysUpTo(g, s, m)}
<1>. SUFFICES ASSUME Bad # {} PROVE FALSE
  OBVIOUS
<1>1. PICK m \in Bad : \A k \in Bad : m <= k
  BY LeastNatural
<1>2. CASE m = 0
  <2>. DEFINE g == [T \in SUBSET (1 .. 0) |-> EmptyIndex]
  <2>1. \A T \in SUBSET (1 .. 0) : T = {}
    OBVIOUS
  <2>2. ReplaysUpTo(g, s, 0)
    BY <2>1 DEF ReplaysUpTo
  <2>. QED
    BY <1>2, <2>2
<1>3. CASE m # 0
  <2>1. m - 1 \in Nat /\ m - 1 \notin Bad
    BY <1>1, <1>3
  <2>2. PICK g : ReplaysUpTo(g, s, m - 1)
    BY <2>1
  <2>. DEFINE Next1(f, T) == IF T = {} THEN EmptyIndex
                             ELSE Replayed(f[T \ {Max(T)}], s[Max(T)])
              h == [T \in SUBSET (1 .. m) |-> Next1(g, T)]
  <2>3. ASSUME NEW T \in SUBSET (1 .. m), T # {}
        PROVE  T \ {Max(T)} \in SUBSET (1 .. m - 1)
    <3>. DEFINE x == Max(T)
    <3>1. x \in T /\ \A t \in T : t <= x
      BY <2>3, Greatest
    <3>. HIDE DEF x
    <3>2. m \in Nat /\ \A t \in T : t \in Int /\ 1 <= t /\ t <= m
      OBVIOUS
    <3>3. \A t \in T \ {x} : t <= m - 1
      BY <3>1, <3>2
    <3>4. \A t \in T \ {x} : t \in 1 .. m - 1
      BY <3>2, <3>3
    <3>5. T \ {x} \subseteq 1 .. m - 1
      BY <3>4
    <3>. QED
      BY <3>5 DEF x
  <2>4. \A T \in SUBSET (1 .. m - 1) : T \in SUBSET (1 .. m) /\ g[T] = Next1(g, T)
    <3>1. \A T \in SUBSET (1 .. m - 1) : g[T] = Next1(g, T)
      BY <2>2 DEF ReplaysUpTo
    <3>2. 1 .. m - 1 \subseteq 1 .. m
      OBVIOUS
    <3>. HIDE DEF Next1
    <3>. QED
      BY <3>1, <3>2
  <2>5. \A T \in SUBSET (1 .. m - 1) : h[T] = g[T]
    BY <2>4
  <2>6. ASSUME NEW T \in SUBSET (1 .. m) PROVE Next1(g, T) = Next1(h, T)
    <3>1. CASE T = {}
      BY <3>1
    <3>2. CASE T # {}
      BY <3>2, <2>3, <2>5
    <3>. QED
      BY <3>1, <3>2
  <2>7. h = [T \in SUBSET (1 .. m) |-> Next1(h, T)]
    BY <2>6
  <2>8. ReplaysUpTo(h, s, m)
    BY <2>7 DEF ReplaysUpTo
  <2>. QED
    BY <2>8
<1>. QED
  BY <1>2, <1>3

\* What a history comes to: it is replayed from the first event on.
LEMMA TruthIsAChain ==
    ASSUME NEW S, NEW s \in Seq(S)
    PROVE  \E it : /\ Truth(s) = it[1 .. Len(s)]
                   /\ it[1 .. 0] = EmptyIndex
                   /\ \A i \in 1 .. Len(s) : it[1 .. i] = Replayed(it[1 .. i - 1], s[i])
<1>1. Len(s) \in Nat /\ DOMAIN s = 1 .. Len(s)
  OBVIOUS
<1>2. \E it : Replays(it, s)
  <2>1. PICK it : ReplaysUpTo(it, s, Len(s))
    BY <1>1, ReplaysExist
  <2>2. Replays(it, s)
    BY <1>1, <2>1 DEF Replays, ReplaysUpTo
  <2>. QED
    BY <2>2
<1>3. PICK it : Replays(it, s) /\ Truth(s) = it[1 .. Len(s)]
  <2>1. Replays(CHOOSE it : Replays(it, s), s)
    BY <1>2
  <2>. QED
    BY <2>1, <1>1, TruthIsReplayed
<1>4. ASSUME NEW T \in SUBSET (1 .. Len(s))
      PROVE  it[T] = IF T = {} THEN EmptyIndex ELSE Replayed(it[T \ {Max(T)}], s[Max(T)])
  BY <1>1, <1>3 DEF Replays
<1>5. it[1 .. 0] = EmptyIndex
  <2>1. 1 .. 0 = {} /\ 1 .. 0 \in SUBSET (1 .. Len(s))
    OBVIOUS
  <2>. QED
    BY <2>1, <1>4
<1>6. ASSUME NEW i \in 1 .. Len(s)
      PROVE  it[1 .. i] = Replayed(it[1 .. i - 1], s[i])
  <2>. DEFINE T == 1 .. i
  <2>1. i \in Nat /\ T \in SUBSET (1 .. i) /\ T \in SUBSET (1 .. Len(s)) /\ i \in T /\ T # {}
    <3>. DEFINE n == Len(s)
    <3>1. n \in Nat /\ i \in 1 .. n
      BY <1>1
    <3>. HIDE DEF n
    <3>2. i \in Nat /\ 1 .. i \subseteq 1 .. n /\ i \in 1 .. i
      BY <3>1
    <3>. QED
      BY <3>2 DEF n
  <2>2. Max(T) \in T /\ \A t \in T : t <= Max(T)
    BY <2>1, Greatest
  <2>3. Max(T) = i
    BY <2>1, <2>2
  <2>4. T \ {i} = 1 .. i - 1
    BY <2>1
  <2>. HIDE DEF T
  <2>5. it[T] = Replayed(it[T \ {Max(T)}], s[Max(T)])
    BY <2>1, <1>4
  <2>. QED
    BY <2>3, <2>4, <2>5 DEF T
<1>. QED
  BY <1>3, <1>5, <1>6

LEMMA TruthOfNothing == Truth(<<>>) = EmptyIndex
<1>1. <<>> \in Seq({}) /\ Len(<<>>) = 0
  OBVIOUS
<1>. QED
  BY <1>1, TruthIsAChain

LEMMA TruthGoesOn ==
    ASSUME NEW S, NEW s \in Seq(S), NEW e \in S
    PROVE  Truth(Append(s, e)) = Replayed(Truth(s), e)
<1>. DEFINE t == Append(s, e)
            n == Len(s)
<1>1. /\ t \in Seq(S) /\ Len(t) = n + 1 /\ n \in Nat
      /\ \A i \in 1 .. n : t[i] = s[i]
      /\ t[n + 1] = e
  OBVIOUS
<1>. HIDE DEF t, n
<1>2. PICK it : /\ Truth(s) = it[1 .. n]
                /\ it[1 .. 0] = EmptyIndex
                /\ \A i \in 1 .. n : it[1 .. i] = Replayed(it[1 .. i - 1], s[i])
  BY TruthIsAChain DEF n
<1>3. PICK jt : /\ Truth(t) = jt[1 .. n + 1]
                /\ jt[1 .. 0] = EmptyIndex
                /\ \A i \in 1 .. n + 1 : jt[1 .. i] = Replayed(jt[1 .. i - 1], t[i])
  <2>1. \E kt : /\ Truth(t) = kt[1 .. Len(t)]
                /\ kt[1 .. 0] = EmptyIndex
                /\ \A i \in 1 .. Len(t) : kt[1 .. i] = Replayed(kt[1 .. i - 1], t[i])
    BY <1>1, TruthIsAChain
  <2>. QED
    BY <2>1, <1>1
<1>. DEFINE Bad == {k \in 0 .. n : it[1 .. k] # jt[1 .. k]}
<1>4. Bad = {}
  <2>. SUFFICES ASSUME Bad # {} PROVE FALSE
    OBVIOUS
  <2>1. PICK k \in Bad : \A j \in Bad : k <= j
    <3>1. Bad \in SUBSET Nat
      BY <1>1
    <3>. HIDE DEF Bad
    <3>. QED
      BY <3>1, LeastNatural
  <2>2. k # 0
    BY <2>1, <1>2, <1>3
  <2>3. k \in 1 .. n /\ k \in 1 .. n + 1 /\ k - 1 \in 0 .. n /\ k - 1 \notin Bad
    BY <2>1, <2>2, <1>1
  <2>4. it[1 .. k - 1] = jt[1 .. k - 1]
    BY <2>3
  <2>. QED
    BY <2>1, <2>3, <2>4, <1>1, <1>2, <1>3
<1>5. it[1 .. n] = jt[1 .. n]
  BY <1>1, <1>4
<1>6. n + 1 \in 1 .. n + 1 /\ (n + 1) - 1 = n
  BY <1>1
<1>7. jt[1 .. n + 1] = Replayed(jt[1 .. n], e)
  BY <1>1, <1>3, <1>6
<1>. QED
  BY <1>2, <1>3, <1>5, <1>7 DEF t

(***************************************************************************)
(* The events of the contract                                              *)
(***************************************************************************)
FeedNames == {"MerchantRegistered", "MerchantUpdated", "ControllerChanged", "MerchantRevoked"}

IsEvent(e) ==
    /\ e.name \in FeedNames /\ {"id", "doc"} \subseteq DOMAIN e
    /\ e = [f \in DOMAIN e |-> e[f]]
    /\ e.doc = e.hash
    /\ e.block \in Nat /\ e.tx \in Nat

LEMMA StampedFacts ==
    ASSUME NEW b \in Nat, NEW t \in Nat, NEW e, e.name \in FeedNames,
           {"name", "id", "hash"} \subseteq DOMAIN e, {"block", "tx", "doc"} \cap DOMAIN e = {}
    PROVE  LET f == Stamped(b, t, e) IN IsEvent(f) /\ f.block = b /\ f.tx = t
BY DEF Stamped, IsEvent

\* An event never makes a record right that was bound to a document of another.
LEMMA MisboundGrows ==
    ASSUME NEW x, "misbound" \in DOMAIN x, NEW e, IsEvent(e)
    PROVE  LET y == Replayed(x, e) IN
           "misbound" \in DOMAIN y /\ x.misbound \subseteq y.misbound
<1>. DEFINE z == Project(x, e)
<1>1. "misbound" \in DOMAIN z /\ z.misbound = x.misbound
  <2>1. CASE e.name = "MerchantRevoked"
    <3>1. z = MerchantRevoked(x, e)
      BY <2>1 DEF Project
    <3>. QED
      BY <3>1 DEF MerchantRevoked, Removed, WithRevocation
  <2>2. CASE e.name # "MerchantRevoked"
    <3>1. z = Activated(x, e.id, e.hash)
      BY <2>2 DEF Project, IsEvent, FeedNames
    <3>. QED
      BY <3>1 DEF Activated
  <2>. QED
    BY <2>1, <2>2
<1>. HIDE DEF z
<1>2. LET y == Bound(z, e) IN "misbound" \in DOMAIN y /\ z.misbound \subseteq y.misbound
  BY <1>1 DEF Bound
<1>. QED
  BY <1>1, <1>2 DEF Replayed, z

\* The document of a revocation is not read.
LEMMA RevocationHasNoDocument ==
    ASSUME NEW x, NEW e, IsEvent(e), e.name \notin DocumentEvents, NEW d
    PROVE  Replayed(x, [e EXCEPT !.doc = d]) = Replayed(x, e)
<1>. DEFINE f == [e EXCEPT !.doc = d]
<1>1. e.name = "MerchantRevoked"
  BY DEF IsEvent, FeedNames, DocumentEvents
<1>2. /\ f.name = e.name /\ f.id = e.id /\ DOMAIN f = DOMAIN e
      /\ "id" \in DOMAIN e /\ ("controller" \in DOMAIN e => f.controller = e.controller)
  BY <1>1 DEF IsEvent
<1>. HIDE DEF f
<1>3. Project(x, f) = MerchantRevoked(x, f) /\ Project(x, e) = MerchantRevoked(x, e)
  BY <1>1, <1>2 DEF Project
<1>4. Project(x, f) = Project(x, e)
  BY <1>2, <1>3 DEF MerchantRevoked
<1>5. ASSUME NEW z PROVE Bound(z, f) = Bound(z, e)
  <2>1. Expected(z, f) = Expected(z, e)
    BY <1>2 DEF Expected
  <2>. QED
    BY <1>1, <1>2, <2>1 DEF Bound, DocumentEvents
<1>. QED
  BY <1>4, <1>5 DEF Replayed, f

(***************************************************************************)
(* Sequences                                                               *)
(***************************************************************************)
LEMMA SameSequence ==
    ASSUME NEW S, NEW s \in Seq(S), NEW t \in Seq(S), Len(s) = Len(t),
           \A n \in 1 .. Len(s) : s[n] = t[n]
    PROVE  s = t
OBVIOUS

LEMMA PrefixFacts ==
    ASSUME NEW S, NEW s \in Seq(S), NEW k \in 0 .. Len(s)
    PROVE  LET p == SubSeq(s, 1, k)
           IN  p \in Seq(S) /\ Len(p) = k /\ \A n \in 1 .. k : p[n] = s[n]
BY SubSeqProperties

\* The events up to a block, when that is where some of the first ones end.
LEMMA UpToIsAPrefix ==
    ASSUME NEW S, NEW s \in Seq(S), NEW b, NEW k \in 0 .. Len(s),
           \A n \in 1 .. Len(s) : s[n].block <= b <=> n <= k
    PROVE  UpTo(s, b) = SubSeq(s, 1, k)
<1>. DEFINE N == {n \in 1 .. Len(s) : s[n].block <= b}
<1>1. N = 1 .. k
  OBVIOUS
<1>2. Cardinality(1 .. k) = k
  BY FS_Interval
<1>. QED
  BY <1>1, <1>2 DEF UpTo

LEMMA WithoutFacts ==
    ASSUME NEW S, NEW s \in Seq(S), NEW m \in Nat
    PROVE  LET w == Without(s, m) IN
           /\ w \in Seq(S)
           /\ m \notin 1 .. Len(s) => w = s
           /\ m \in 1 .. Len(s) =>
                 /\ Len(w) = Len(s) - 1
                 /\ \A n \in 1 .. Len(w) : w[n] = s[IF n < m THEN n ELSE n + 1]
<1>1. CASE m \notin 1 .. Len(s)
  BY <1>1 DEF Without
<1>2. CASE m \in 1 .. Len(s)
  <2>. DEFINE l == Len(s)
              x == SubSeq(s, 1, m - 1)
              y == SubSeq(s, m + 1, l)
              w == x \o y
  <2>1. l \in Nat /\ m \in 1 .. l
    BY <1>2
  <2>2. /\ x \in Seq(S) /\ Len(x) = m - 1
        /\ \A n \in 1 .. m - 1 : x[n] = s[n]
    BY <2>1, SubSeqProperties
  <2>3. /\ y \in Seq(S) /\ Len(y) = l - m
        /\ \A n \in 1 .. l - m : y[n] = s[m + n]
    BY <2>1, SubSeqProperties
  <2>. HIDE DEF l, x, y
  <2>4. /\ w \in Seq(S) /\ Len(w) = l - 1
        /\ \A n \in 1 .. l - 1 : w[n] = IF n <= m - 1 THEN x[n] ELSE y[n - (m - 1)]
    <3>1. /\ w \in Seq(S) /\ Len(w) = Len(x) + Len(y)
          /\ \A n \in 1 .. Len(x) + Len(y) :
                w[n] = IF n <= Len(x) THEN x[n] ELSE y[n - Len(x)]
      BY <2>2, <2>3, ConcatProperties
    <3>2. Len(x) + Len(y) = l - 1
      BY <2>1, <2>2, <2>3
    <3>. QED
      BY <3>1, <3>2, <2>2
  <2>. HIDE DEF w
  <2>5. ASSUME NEW n \in 1 .. l - 1 PROVE w[n] = s[IF n < m THEN n ELSE n + 1]
    <3>1. CASE n < m
      BY <3>1, <2>1, <2>2, <2>4
    <3>2. CASE ~(n < m)
      <4>1. n - (m - 1) \in 1 .. l - m /\ m + (n - (m - 1)) = n + 1 /\ ~(n <= m - 1)
        BY <3>2, <2>1
      <4>. QED
        BY <3>2, <4>1, <2>3, <2>4
    <3>. QED
      BY <3>1, <3>2
  <2>6. Without(s, m) = w
    BY <1>2 DEF Without, RemoveAt, w, x, y, l
  <2>. QED
    BY <1>2, <2>4, <2>5, <2>6 DEF l
<1>. QED
  BY <1>1, <1>2

LEMMA LongerSequence ==
    ASSUME NEW s, s \in Seq(ToSet(s)), NEW e
    PROVE  LET t == Append(s, e) IN
           /\ t \in Seq(ToSet(t)) /\ s \in Seq(ToSet(t)) /\ e \in ToSet(t)
           /\ Len(s) \in Nat /\ Len(t) = Len(s) + 1
           /\ \A n \in 1 .. Len(s) : t[n] = s[n]
           /\ t[Len(s) + 1] = e
<1>. DEFINE E == ToSet(s) \cup {e}
            t == Append(s, e)
<1>1. s \in Seq(E) /\ e \in E
  OBVIOUS
<1>. HIDE DEF E
<1>2. /\ t \in Seq(E) /\ Len(s) \in Nat /\ Len(t) = Len(s) + 1
      /\ \A n \in 1 .. Len(s) : t[n] = s[n]
      /\ t[Len(s) + 1] = e
      /\ DOMAIN t = 1 .. Len(s) + 1 /\ DOMAIN s = 1 .. Len(s)
  BY <1>1
<1>. HIDE DEF t
<1>3. E = ToSet(t)
  <2>1. \A x \in E : x \in ToSet(t)
    <3>1. \A n \in 1 .. Len(s) : n \in 1 .. Len(s) + 1
      BY <1>2
    <3>2. Len(s) + 1 \in 1 .. Len(s) + 1
      BY <1>2
    <3>. QED
      BY <1>2, <3>1, <3>2 DEF ToSet, E
  <2>2. \A n \in 1 .. Len(s) + 1 : t[n] \in E
    BY <1>2
  <2>. QED
    BY <1>2, <2>1, <2>2 DEF ToSet
<1>. QED
  BY <1>1, <1>2, <1>3 DEF t

(***************************************************************************)
(* The inductive invariant of the document of events                       *)
(***************************************************************************)
\* Events in the order of the chain.
History(events) ==
    /\ \A n \in 1 .. Len(events) : IsEvent(events[n])
    /\ \A n, k \in 1 .. Len(events) : n < k =>
          events[n].block <= events[k].block /\ events[n].tx < events[k].tx

LogIsHistory ==
    /\ log \in Seq(ToSet(log)) /\ clock \in Nat
    /\ History(log)
    /\ \A n \in 1 .. Len(log) : log[n].tx = n /\ log[n].block <= clock

\* The events up to a block are the first ones.
LogSplits ==
    \A b \in Nat : \E k \in 0 .. Len(log) :
        \A n \in 1 .. Len(log) : log[n].block <= b <=> n <= k

\* What was bound wrongly by the first events still is.
MisboundIsKept ==
    /\ "misbound" \in DOMAIN Truth(log)
    /\ \A k \in 0 .. Len(log) : Truth(SubSeq(log, 1, k)).misbound \subseteq Truth(log).misbound

\* What was published: events of the log in their order, none after the block;
\* with a witness, all of them.
PublishedIsHistory ==
    feed # None =>
        /\ DOMAIN feed = {"events", "to", "head", "at", "complete", "ours", "independent"}
        /\ feed = [f \in DOMAIN feed |-> feed[f]]
        /\ feed.events \in Seq(ToSet(log)) /\ History(feed.events)
        /\ feed.to \in Nat /\ feed.head \in Nat /\ feed.to <= feed.head
        /\ feed.complete /\ feed.ours
        /\ \A n \in 1 .. Len(feed.events) : feed.events[n].block <= feed.to
        /\ feed.independent # None =>
              /\ feed.independent.to = feed.to /\ feed.independent.history = feed.events
              /\ feed.events = Until(feed.to)

FeedInv == LogIsHistory /\ LogSplits /\ MisboundIsKept /\ PublishedIsHistory

LEMMA FeedInvInit == FeedInit => FeedInv
<1>. SUFFICES ASSUME FeedInit PROVE FeedInv
  OBVIOUS
<1>1. log = <<>> /\ Len(log) = 0 /\ clock = 1 /\ feed = None
  BY DEF FeedInit
<1>2. LogIsHistory /\ LogSplits
  BY <1>1 DEF LogIsHistory, LogSplits, History
<1>3. SubSeq(log, 1, 0) = <<>>
  BY <1>1
<1>4. MisboundIsKept
  <2>1. \A k \in 0 .. Len(log) : k = 0
    BY <1>1
  <2>2. "misbound" \in DOMAIN EmptyIndex
    BY DEF EmptyIndex
  <2>. QED
    BY <1>1, <1>3, <2>1, <2>2, TruthOfNothing DEF MisboundIsKept
<1>. QED
  BY <1>1, <1>2, <1>4 DEF FeedInv, PublishedIsHistory

LEMMA EmittedKeeps ==
    ASSUME FeedInv, NEW e, Emitted(e), e.name \in FeedNames,
           {"name", "id", "hash"} \subseteq DOMAIN e, {"block", "tx", "doc"} \cap DOMAIN e = {}
    PROVE  FeedInv'
<1>. DEFINE n == Len(log)
            f == Stamped(clock, n + 1, e)
<1>1. /\ log' = Append(log, f) /\ clock' = clock /\ feed' = None
      /\ log \in Seq(ToSet(log)) /\ n \in Nat /\ clock \in Nat
  BY DEF Emitted, FeedInv, LogIsHistory
<1>2. IsEvent(f) /\ f.block = clock /\ f.tx = n + 1
  BY <1>1, StampedFacts
<1>. HIDE DEF f
<1>3. /\ log' \in Seq(ToSet(log')) /\ log \in Seq(ToSet(log')) /\ f \in ToSet(log')
      /\ Len(log') = n + 1
      /\ \A i \in 1 .. n : log'[i] = log[i]
      /\ log'[n + 1] = f
  BY <1>1, LongerSequence
<1>. HIDE DEF n
<1>4. \A i \in 1 .. n + 1 : i \in 1 .. n \/ i = n + 1
  BY <1>1
<1>5. /\ History(log)
      /\ \A i \in 1 .. n : log[i].tx = i /\ log[i].block <= clock
  BY DEF FeedInv, LogIsHistory, n
<1>6. LogIsHistory'
  <2>1. \A i \in 1 .. n + 1 : IsEvent(log'[i]) /\ log'[i].tx = i /\ log'[i].block <= clock
    BY <1>1, <1>2, <1>3, <1>4, <1>5 DEF History, n
  <2>2. ASSUME NEW i \in 1 .. n + 1, NEW k \in 1 .. n + 1, i < k
        PROVE  log'[i].block <= log'[k].block /\ log'[i].tx < log'[k].tx
    <3>1. i \in 1 .. n
      BY <1>1, <2>2
    <3>2. CASE k \in 1 .. n
      BY <3>1, <3>2, <2>2, <1>3, <1>5 DEF History, n
    <3>3. CASE k = n + 1
      BY <3>1, <3>3, <2>1, <1>1, <1>2, <1>3
    <3>. QED
      BY <3>2, <3>3, <1>4
  <2>. QED
    BY <2>1, <2>2, <1>1, <1>3 DEF LogIsHistory, History
<1>7. LogSplits'
  <2>. SUFFICES ASSUME NEW b \in Nat
                PROVE  \E k \in 0 .. n + 1 : \A i \in 1 .. n + 1 : log'[i].block <= b <=> i <= k
    BY <1>3 DEF LogSplits
  <2>0. \A i \in 1 .. n : log[i].block \in Nat
    BY <1>5 DEF History, IsEvent, n
  <2>1. CASE clock <= b
    <3>1. \A i \in 1 .. n + 1 : log'[i].block <= b
      BY <2>0, <2>1, <1>1, <1>2, <1>3, <1>4, <1>5
    <3>2. n + 1 \in 0 .. n + 1 /\ \A i \in 1 .. n + 1 : i <= n + 1
      BY <1>1
    <3>3. \A i \in 1 .. n + 1 : log'[i].block <= b <=> i <= n + 1
      BY <3>1, <3>2, Zenon
    <3>. QED
      BY <3>2, <3>3, Zenon
  <2>2. CASE ~(clock <= b)
    <3>1. PICK k \in 0 .. n : \A i \in 1 .. n : log[i].block <= b <=> i <= k
      BY DEF FeedInv, LogSplits, n
    <3>2. \A i \in 1 .. n + 1 : log'[i].block <= b <=> i <= k
      BY <2>2, <3>1, <1>1, <1>2, <1>3, <1>4
    <3>3. k \in 0 .. n + 1
      BY <1>1
    <3>. QED
      BY <3>2, <3>3, Zenon
  <2>. QED
    BY <2>1, <2>2
<1>8. MisboundIsKept'
  <2>1. Truth(log') = Replayed(Truth(log), f)
    BY <1>1, <1>3, TruthGoesOn
  <2>2. /\ "misbound" \in DOMAIN Truth(log)
        /\ \A k \in 0 .. n : Truth(SubSeq(log, 1, k)).misbound \subseteq Truth(log).misbound
    BY DEF FeedInv, MisboundIsKept, n
  <2>3. "misbound" \in DOMAIN Truth(log') /\ Truth(log).misbound \subseteq Truth(log').misbound
    BY <2>1, <2>2, <1>2, MisboundGrows
  <2>4. ASSUME NEW k \in 0 .. n PROVE SubSeq(log', 1, k) = SubSeq(log, 1, k)
    <3>. DEFINE S == ToSet(log')
                p == SubSeq(log, 1, k)
                q == SubSeq(log', 1, k)
    <3>1. /\ p \in Seq(S) /\ Len(p) = k /\ \A i \in 1 .. k : p[i] = log[i]
      BY <1>3, PrefixFacts DEF n
    <3>2. k \in 0 .. Len(log')
      BY <1>1, <1>3
    <3>3. /\ q \in Seq(S) /\ Len(q) = k /\ \A i \in 1 .. k : q[i] = log'[i]
      BY <1>3, <3>2, PrefixFacts
    <3>4. \A i \in 1 .. k : i \in 1 .. n
      BY <1>1
    <3>. HIDE DEF S, p, q
    <3>5. p = q
      BY <3>1, <3>3, <3>4, <1>3, SameSequence
    <3>. QED
      BY <3>5 DEF p, q
  <2>5. SubSeq(log', 1, n + 1) = log'
    BY <1>1, <1>3
  <2>6. ASSUME NEW k \in 0 .. n + 1
        PROVE  Truth(SubSeq(log', 1, k)).misbound \subseteq Truth(log').misbound
    <3>1. CASE k \in 0 .. n
      BY <3>1, <2>2, <2>3, <2>4
    <3>2. CASE k = n + 1
      BY <3>2, <2>5
    <3>. QED
      BY <3>1, <3>2, <1>1
  <2>. QED
    BY <1>3, <2>3, <2>6 DEF MisboundIsKept
<1>. QED
  BY <1>1, <1>6, <1>7, <1>8 DEF FeedInv, PublishedIsHistory

LEMMA CallKeeps == ASSUME FeedInv, ContractCall PROVE FeedInv'
<1>. USE DEF FeedNames
<1>1. ASSUME NEW h \in Hashes, NEW d \in FeedControllers,
             Emitted([name |-> "MerchantRegistered", id |-> FeedId, hash |-> h,
                      controller |-> FeedId[2], named |-> d])
      PROVE  FeedInv'
  BY <1>1, EmittedKeeps
<1>2. ASSUME NEW h \in Hashes, NEW d \in FeedControllers,
             Emitted([name |-> "MerchantUpdated", id |-> FeedId, hash |-> h, named |-> d])
      PROVE  FeedInv'
  BY <1>2, EmittedKeeps
<1>3. ASSUME NEW h \in Hashes, NEW c \in FeedControllers, NEW d \in FeedControllers,
             Emitted([name |-> "ControllerChanged", id |-> FeedId, hash |-> h,
                      controller |-> c, named |-> d])
      PROVE  FeedInv'
  BY <1>3, EmittedKeeps
<1>4. ASSUME Emitted([name |-> "MerchantRevoked", id |-> FeedId,
                      hash |-> Truth(log).active[FeedId]])
      PROVE  FeedInv'
  BY <1>4, EmittedKeeps
<1>. QED
  BY <1>1, <1>2, <1>3, <1>4 DEF ContractCall

(***************************************************************************)
(* What a provider returns                                                 *)
(***************************************************************************)
\* The events of the log up to a block are its first ones.
LEMMA LogUpTo ==
    ASSUME FeedInv, NEW b \in Nat
    PROVE  \E k \in 0 .. Len(log) :
              /\ \A n \in 1 .. Len(log) : log[n].block <= b <=> n <= k
              /\ UpTo(log, b) = SubSeq(log, 1, k)
              /\ UpTo(log, b) \in Seq(ToSet(log)) /\ Len(UpTo(log, b)) = k
              /\ \A n \in 1 .. k : UpTo(log, b)[n] = log[n]
<1>1. log \in Seq(ToSet(log))
  BY DEF FeedInv, LogIsHistory
<1>2. PICK k \in 0 .. Len(log) : \A n \in 1 .. Len(log) : log[n].block <= b <=> n <= k
  BY DEF FeedInv, LogSplits
<1>3. UpTo(log, b) = SubSeq(log, 1, k)
  BY <1>1, <1>2, UpToIsAPrefix
<1>. QED
  BY <1>1, <1>2, <1>3, PrefixFacts

\* A snapshot is a part of the log, in its order, up to its block.
LEMMA SnapshotIsHistory ==
    ASSUME FeedInv, NEW b \in Nat, NEW m \in Nat
    PROVE  LET w == Without(UpTo(log, b), m)
           IN  /\ w \in Seq(ToSet(log)) /\ History(w)
               /\ \A n \in 1 .. Len(w) : w[n].block <= b
<1>. DEFINE u == UpTo(log, b)
            w == Without(u, m)
<1>1. PICK k \in 0 .. Len(log) :
              /\ \A n \in 1 .. Len(log) : log[n].block <= b <=> n <= k
              /\ u \in Seq(ToSet(log)) /\ Len(u) = k
              /\ \A n \in 1 .. k : u[n] = log[n]
  BY LogUpTo
<1>. HIDE DEF u
<1>2. \A n \in 1 .. k : n \in 1 .. Len(log) /\ n <= k
  OBVIOUS
<1>3. History(u) /\ \A n \in 1 .. k : u[n].block <= b
  BY <1>1, <1>2 DEF FeedInv, LogIsHistory, History
<1>4. /\ w \in Seq(ToSet(log))
      /\ m \notin 1 .. k => w = u
      /\ m \in 1 .. k =>
            /\ Len(w) = k - 1
            /\ \A n \in 1 .. Len(w) : w[n] = u[IF n < m THEN n ELSE n + 1]
  BY <1>1, WithoutFacts
<1>. HIDE DEF w
<1>5. CASE m \notin 1 .. k
  BY <1>5, <1>1, <1>3, <1>4 DEF w, u
<1>6. CASE m \in 1 .. k
  <2>. DEFINE Place(n) == IF n < m THEN n ELSE n + 1
  <2>1. /\ \A n \in 1 .. k - 1 : Place(n) \in 1 .. k
        /\ \A n, j \in 1 .. k - 1 : n < j => Place(n) < Place(j)
    BY <1>6
  <2>2. Len(w) = k - 1 /\ \A n \in 1 .. k - 1 : w[n] = u[Place(n)]
    BY <1>4, <1>6
  <2>. HIDE DEF Place
  <2>3. History(w) /\ \A n \in 1 .. k - 1 : w[n].block <= b
    BY <1>1, <1>3, <2>1, <2>2 DEF History
  <2>. QED
    BY <1>4, <2>2, <2>3 DEF w, u
<1>. QED
  BY <1>5, <1>6

\* Of a snapshot, what is not after an earlier block is the log up to that block
\* without the event that the provider missed.
LEMMA SnapshotUpTo ==
    ASSUME FeedInv, NEW b \in Nat, NEW c \in Nat, c <= b, NEW m \in Nat
    PROVE  UpTo(Without(UpTo(log, b), m), c) = Without(UpTo(log, c), m)
<1>. DEFINE L == ToSet(log)
            u == UpTo(log, b)
            v == UpTo(log, c)
            w == Without(u, m)
            x == Without(v, m)
<1>0. \A n \in 1 .. Len(log) : log[n].block \in Nat
  BY DEF FeedInv, LogIsHistory, History, IsEvent
<1>1. PICK k \in 0 .. Len(log) :
              /\ \A n \in 1 .. Len(log) : log[n].block <= b <=> n <= k
              /\ u \in Seq(L) /\ Len(u) = k
              /\ \A n \in 1 .. k : u[n] = log[n]
  BY LogUpTo
<1>2. PICK j \in 0 .. Len(log) :
              /\ \A n \in 1 .. Len(log) : log[n].block <= c <=> n <= j
              /\ v \in Seq(L) /\ Len(v) = j
              /\ \A n \in 1 .. j : v[n] = log[n]
  BY LogUpTo
<1>. HIDE DEF u, v, L
<1>3. j <= k
  <2>. SUFFICES ASSUME j > k PROVE FALSE
    OBVIOUS
  <2>1. j \in 1 .. Len(log) /\ j <= j /\ ~(j <= k)
    OBVIOUS
  <2>2. log[j].block <= c /\ ~(log[j].block <= b)
    BY <1>1, <1>2, <2>1
  <2>. QED
    BY <1>0, <2>1, <2>2
<1>4. /\ w \in Seq(L)
      /\ m \notin 1 .. k => w = u
      /\ m \in 1 .. k =>
            /\ Len(w) = k - 1
            /\ \A n \in 1 .. Len(w) : w[n] = u[IF n < m THEN n ELSE n + 1]
  BY <1>1, WithoutFacts
<1>5. /\ x \in Seq(L)
      /\ m \notin 1 .. j => x = v
      /\ m \in 1 .. j =>
            /\ Len(x) = j - 1
            /\ \A n \in 1 .. Len(x) : x[n] = v[IF n < m THEN n ELSE n + 1]
  BY <1>2, WithoutFacts
<1>. HIDE DEF w, x
<1>6. \A n \in 1 .. k : n \in 1 .. Len(log)
  OBVIOUS
\* the place of an event of w in the log
<1>. DEFINE Place(n) == IF m \in 1 .. k /\ ~(n < m) THEN n + 1 ELSE n
            len == IF m \in 1 .. k THEN k - 1 ELSE k
            cut == IF m \in 1 .. j THEN j - 1 ELSE j
<1>7. Len(w) = len /\ \A n \in 1 .. len : Place(n) \in 1 .. k /\ w[n] = log[Place(n)]
  BY <1>1, <1>4
<1>8. /\ cut \in 0 .. len /\ len \in Nat
      /\ \A n \in 1 .. len : n <= cut <=> Place(n) <= j
  BY <1>3
<1>9. Len(x) = cut /\ \A n \in 1 .. cut : x[n] = log[Place(n)]
  BY <1>2, <1>3, <1>5
<1>. HIDE DEF Place, len, cut
<1>10. UpTo(w, c) = SubSeq(w, 1, cut)
  <2>1. \A n \in 1 .. Len(w) : w[n].block <= c <=> n <= cut
    BY <1>2, <1>6, <1>7, <1>8
  <2>. QED
    BY <2>1, <1>4, <1>7, <1>8, UpToIsAPrefix
<1>. DEFINE p == SubSeq(w, 1, cut)
<1>11. p \in Seq(L) /\ Len(p) = cut /\ \A n \in 1 .. cut : p[n] = w[n]
  BY <1>4, <1>7, <1>8, PrefixFacts
<1>. HIDE DEF p
<1>12. \A n \in 1 .. cut : p[n] = x[n]
  <2>1. \A n \in 1 .. cut : n \in 1 .. len
    BY <1>8
  <2>. QED
    BY <2>1, <1>7, <1>9, <1>11
<1>13. p = x
  BY <1>5, <1>9, <1>11, <1>12, SameSequence
<1>. QED
  BY <1>10, <1>13 DEF p, w, x, u, v

\* Two that do not miss the same event, and have the same events, miss none.
LEMMA AgreedIsComplete ==
    ASSUME FeedInv, NEW b \in Nat, NEW m \in Nat, NEW o \in Nat, m # 0 => o # m,
           Without(UpTo(log, b), m) = Without(UpTo(log, b), o)
    PROVE  Without(UpTo(log, b), m) = UpTo(log, b)
<1>. DEFINE L == ToSet(log)
            u == UpTo(log, b)
            w == Without(u, m)
            x == Without(u, o)
<1>1. PICK k \in 0 .. Len(log) : /\ u \in Seq(L) /\ Len(u) = k
                                  /\ \A n \in 1 .. k : u[n] = log[n]
  BY LogUpTo
<1>. HIDE DEF u, L
<1>2. \A n \in 1 .. k : u[n].tx = n
  <2>1. \A n \in 1 .. k : n \in 1 .. Len(log)
    OBVIOUS
  <2>. QED
    BY <1>1, <2>1 DEF FeedInv, LogIsHistory
<1>4. /\ w \in Seq(L)
      /\ m \notin 1 .. k => w = u
      /\ m \in 1 .. k =>
            /\ Len(w) = k - 1
            /\ \A n \in 1 .. Len(w) : w[n] = u[IF n < m THEN n ELSE n + 1]
  BY <1>1, WithoutFacts
<1>5. /\ x \in Seq(L)
      /\ o \notin 1 .. k => x = u
      /\ o \in 1 .. k =>
            /\ Len(x) = k - 1
            /\ \A n \in 1 .. Len(x) : x[n] = u[IF n < o THEN n ELSE n + 1]
  BY <1>1, WithoutFacts
<1>6. w = x
  BY DEF u
<1>. HIDE DEF w, x
<1>7. CASE m \in 1 .. k
  <2>1. o \in 1 .. k /\ o # m
    <3>1. Len(w) = k - 1 /\ Len(u) # k - 1
      BY <1>1, <1>4, <1>7
    <3>. QED
      BY <3>1, <1>5, <1>6, <1>7
  <2>2. CASE m < o
    <3>1. m \in 1 .. k - 1 /\ m + 1 \in 1 .. k
      BY <2>1, <2>2, <1>7
    <3>2. w[m] = u[m + 1] /\ x[m] = u[m]
      BY <3>1, <2>1, <2>2, <1>4, <1>5, <1>7
    <3>. QED
      BY <3>1, <3>2, <1>2, <1>6, <1>7
  <2>3. CASE o < m
    <3>1. o \in 1 .. k - 1 /\ o + 1 \in 1 .. k
      BY <2>1, <2>3, <1>7
    <3>2. x[o] = u[o + 1] /\ w[o] = u[o]
      BY <3>1, <2>1, <2>3, <1>4, <1>5, <1>7
    <3>. QED
      BY <3>1, <3>2, <1>2, <1>6, <2>1
  <2>. QED
    BY <2>1, <2>2, <2>3
<1>. QED
  BY <1>4, <1>7 DEF w, u


(***************************************************************************)
(* What is published                                                       *)
(***************************************************************************)
LEMMA WrittenKeeps ==
    ASSUME FeedInv, UNCHANGED <<log, clock>>, NEW events, NEW to \in Nat, NEW head \in Nat,
           to <= head, events \in Seq(ToSet(log)), History(events),
           \A n \in 1 .. Len(events) : events[n].block <= to,
           NEW witness, feed' = Written(events, to, head, witness),
           witness # None => /\ witness.to = to /\ witness.history = events
                             /\ events = UpTo(log, to)
    PROVE  FeedInv'
<1>1. /\ DOMAIN feed' = {"events", "to", "head", "at", "complete", "ours", "independent"}
      /\ feed' = [f \in DOMAIN feed' |-> feed'[f]]
      /\ feed'.events = events /\ feed'.to = to /\ feed'.head = head
      /\ feed'.complete /\ feed'.ours /\ feed'.independent = witness
  BY DEF Written
<1>2. PublishedIsHistory'
  BY <1>1 DEF PublishedIsHistory, Until, History
<1>3. LogIsHistory' /\ LogSplits' /\ MisboundIsKept'
  BY DEF FeedInv, LogIsHistory, LogSplits, MisboundIsKept, History
<1>. QED
  BY <1>2, <1>3 DEF FeedInv

LEMMA RefreshKeeps == ASSUME FeedInv, Refresh PROVE FeedInv'
<1>1. UNCHANGED <<log, clock>>
  BY DEF Refresh
<1>2. PICK m \in Missable, b \in 1 .. clock - 1 :
          LET primary == Snapshot(m, b) IN
          \/ feed' = Written(primary.events, b, b, None)
          \/ \E other \in Missable, behind \in 1 .. clock - 1 :
                /\ m # 0 => other # m
                /\ PublishedPair(primary, Snapshot(other, behind))
  BY DEF Refresh
<1>3. /\ \A n \in Missable : n \in Nat
      /\ \A n \in 1 .. clock - 1 : n \in Nat
  <2>1. Len(log) \in Nat /\ clock \in Nat
    BY DEF FeedInv, LogIsHistory
  <2>. QED
    BY <2>1 DEF Missable
<1>. DEFINE p == Without(UpTo(log, b), m)
<1>4. Snapshot(m, b).events = p /\ Snapshot(m, b).head = b
  BY DEF Snapshot
<1>5. m \in Nat /\ b \in Nat /\ b <= b
  BY <1>3
<1>6. CASE feed' = Written(Snapshot(m, b).events, b, b, None)
  <2>1. p \in Seq(ToSet(log)) /\ History(p) /\ \A n \in 1 .. Len(p) : p[n].block <= b
    BY <1>5, SnapshotIsHistory
  <2>. HIDE DEF p
  <2>. QED
    BY <2>1, <1>1, <1>4, <1>5, <1>6, WrittenKeeps
<1>7. ASSUME NEW o \in Missable, NEW c \in 1 .. clock - 1, m # 0 => o # m,
             PublishedPair(Snapshot(m, b), Snapshot(o, c))
      PROVE  FeedInv'
  <2>. DEFINE w == Without(UpTo(log, c), o)
              to == IF b <= c THEN b ELSE c
              x == Without(UpTo(log, to), m)
              y == Without(UpTo(log, to), o)
              witness == [to |-> to, history |-> y]
  <2>1. Snapshot(o, c).events = w /\ Snapshot(o, c).head = c
    BY DEF Snapshot
  <2>2. o \in Nat /\ c \in Nat /\ to \in Nat /\ to <= b /\ to <= c
    BY <1>3, <1>5
  <2>3. /\ Comparable(Snapshot(m, b), to) = Comparable(Snapshot(o, c), to)
        /\ feed' = Written(Comparable(Snapshot(m, b), to), to, b,
                           [to |-> to, history |-> Comparable(Snapshot(o, c), to)])
    BY <1>4, <1>7, <2>1 DEF PublishedPair
  <2>. HIDE DEF to
  <2>4. Comparable(Snapshot(m, b), to) = x
    BY <1>4, <1>5, <2>2, SnapshotUpTo DEF Comparable
  <2>5. Comparable(Snapshot(o, c), to) = y
    BY <2>1, <2>2, SnapshotUpTo DEF Comparable
  <2>6. x = y /\ feed' = Written(x, to, b, witness)
    BY <2>3, <2>4, <2>5
  <2>7. x = UpTo(log, to)
    BY <1>5, <1>7, <2>2, <2>6, AgreedIsComplete
  <2>8. x \in Seq(ToSet(log)) /\ History(x) /\ \A n \in 1 .. Len(x) : x[n].block <= to
    BY <1>5, <2>2, SnapshotIsHistory
  <2>9. witness.to = to /\ witness.history = x
    BY <2>6
  <2>. HIDE DEF x, y, witness
  <2>. QED
    BY <2>2, <2>6, <2>7, <2>8, <2>9, <1>1, <1>5, WrittenKeeps
<1>. QED
  BY <1>2, <1>6, <1>7

LEMMA FeedInvStep == FeedInv /\ [FeedNext]_feedVars => FeedInv'
<1>. SUFFICES ASSUME FeedInv, [FeedNext]_feedVars PROVE FeedInv'
  OBVIOUS
<1>1. CASE NewBlock
  <2>1. clock' = clock + 1 /\ log' = log /\ feed' = feed
    BY <1>1 DEF NewBlock
  <2>2. \A n \in 1 .. Len(log) : log[n].block \in Nat
    BY DEF FeedInv, LogIsHistory, History, IsEvent
  <2>3. LogIsHistory'
    BY <2>1, <2>2 DEF FeedInv, LogIsHistory, History
  <2>. QED
    BY <2>1, <2>3 DEF FeedInv, LogSplits, MisboundIsKept, PublishedIsHistory, History, Until
<1>2. CASE UNCHANGED feedVars
  BY <1>2 DEF feedVars, FeedInv, LogIsHistory, LogSplits, MisboundIsKept, PublishedIsHistory,
              History, Until
<1>. QED
  BY <1>1, <1>2, CallKeeps, RefreshKeeps DEF FeedNext

(***************************************************************************)
(* What a reader makes of a copy                                           *)
(***************************************************************************)
LEMMA WitnessedIsTrue ==
    ASSUME FeedInv, feed # None, NEW damage \in Damages(feed), NEW source \in Sources,
           source # "path", Accepted(Copied(feed, damage), source),
           Copied(feed, damage).independent # None
    PROVE  IndexOf(Copied(feed, damage), source) = Truth(Until(Copied(feed, damage).to))
<1>. DEFINE copy == Copied(feed, damage)
<1>1. copy.independent = feed.independent
  <2>1. DOMAIN feed = {"events", "to", "head", "at", "complete", "ours", "independent"}
    BY DEF FeedInv, PublishedIsHistory
  <2>. QED
    BY <2>1 DEF Copied, Damages
<1>. HIDE DEF copy
<1>2. copy.independent.to = copy.to /\ copy.independent.history = copy.events
  BY DEF Accepted, EnvelopeIsValid, WitnessMatches, copy
<1>3. copy.events = Until(copy.to)
  BY <1>1, <1>2 DEF FeedInv, PublishedIsHistory, copy
<1>. QED
  BY <1>3 DEF IndexOf, copy

\* An event at another place, or twice, is noticed.
LEMMA SwappedIsRefused ==
    ASSUME FeedInv, feed # None, feed.events # <<>>, Copied(feed, "swapped") # feed
    PROVE  ~EventsAreValid(Copied(feed, "swapped").events)
<1>. DEFINE L == ToSet(log)
            e == feed.events
            n == Len(e)
            one == <<e[n]>>
            f == Front(e)
            c == one \o f
<1>1. /\ e \in Seq(L) /\ History(e)
      /\ DOMAIN feed = {"events", "to", "head", "at", "complete", "ours", "independent"}
  BY DEF FeedInv, PublishedIsHistory
<1>2. Copied(feed, "swapped") = [feed EXCEPT !.events = c]
  BY DEF Copied
<1>3. n \in Nat \ {0} /\ e[n] \in L
  BY <1>1
<1>. HIDE DEF L, n
<1>4. one \in Seq(L) /\ Len(one) = 1 /\ one[1] = e[n]
  BY <1>3
<1>. HIDE DEF one
<1>5. f \in Seq(L) /\ Len(f) = n - 1 /\ \A i \in 1 .. n - 1 : f[i] = e[i]
  <2>1. n - 1 \in 0 .. Len(e)
    BY <1>3 DEF n
  <2>2. f = SubSeq(e, 1, n - 1)
    BY DEF Front, n
  <2>. QED
    BY <1>1, <2>1, <2>2, PrefixFacts
<1>. HIDE DEF f
<1>6. /\ c \in Seq(L) /\ Len(c) = n
      /\ \A i \in 1 .. n : c[i] = IF i <= 1 THEN one[i] ELSE f[i - 1]
  <2>1. /\ c \in Seq(L) /\ Len(c) = Len(one) + Len(f)
        /\ \A i \in 1 .. Len(one) + Len(f) :
              c[i] = IF i <= Len(one) THEN one[i] ELSE f[i - Len(one)]
    BY <1>4, <1>5, ConcatProperties
  <2>2. Len(one) + Len(f) = n /\ Len(one) = 1
    BY <1>3, <1>4, <1>5
  <2>. QED
    BY <2>1, <2>2
<1>. HIDE DEF c
<1>7. n # 1
  <2>. SUFFICES ASSUME n = 1 PROVE FALSE
    OBVIOUS
  <2>1. \A i \in 1 .. n : c[i] = e[i]
    BY <1>4, <1>6
  <2>2. c = e
    BY <2>1, <1>1, <1>6, SameSequence DEF n
  <2>3. feed = [f1 \in DOMAIN feed |-> feed[f1]]
    BY DEF FeedInv, PublishedIsHistory
  <2>4. [feed EXCEPT !.events = e] = feed
    BY <2>3
  <2>. QED
    BY <2>2, <2>4, <1>2
<1>8. 1 \in 1 .. n /\ 2 \in 1 .. n /\ n \in 1 .. n /\ 2 - 1 = 1 /\ 1 < n /\ 2 \in 2 .. n
  BY <1>3, <1>7
<1>9. c[1] = e[n] /\ c[2] = e[1]
  BY <1>4, <1>5, <1>6, <1>8
<1>10. e[1].block <= e[n].block /\ e[1].tx < e[n].tx /\ IsEvent(e[1]) /\ IsEvent(e[n])
  BY <1>1, <1>8 DEF History, n
<1>11. ~InOrder(c[1], c[2])
  BY <1>9, <1>10 DEF InOrder, IsEvent
<1>12. Copied(feed, "swapped").events = c
  BY <1>1, <1>2
<1>. QED
  BY <1>6, <1>8, <1>11, <1>12 DEF EventsAreValid

LEMMA DoubledIsRefused ==
    ASSUME FeedInv, feed # None, feed.events # <<>>
    PROVE  ~EventsAreValid(Copied(feed, "doubled").events)
<1>. DEFINE L == ToSet(log)
            e == feed.events
            n == Len(e)
            c == Append(e, e[n])
<1>1. /\ e \in Seq(L)
      /\ DOMAIN feed = {"events", "to", "head", "at", "complete", "ours", "independent"}
  BY DEF FeedInv, PublishedIsHistory
<1>2. n \in Nat \ {0} /\ e[n] \in L
  BY <1>1
<1>3. Len(c) = n + 1 /\ c[n] = e[n] /\ c[n + 1] = e[n]
  BY <1>1, <1>2
<1>4. Copied(feed, "doubled").events = c
  BY <1>1 DEF Copied
<1>. HIDE DEF c, n
<1>5. n \in 1 .. n + 1 /\ n + 1 \in 1 .. n + 1 /\ n # n + 1
  BY <1>2
<1>6. c[n].tx = c[n + 1].tx
  BY <1>3
<1>. QED
  BY <1>3, <1>4, <1>5, <1>6 DEF EventsAreValid

\* A document of another hash is noticed where it would be read.
LEMMA ReplacedIsHarmless ==
    ASSUME FeedInv, feed # None, feed.events # <<>>, Copied(feed, "replaced") # feed,
           EventsAreValid(Copied(feed, "replaced").events)
    PROVE  Truth(Copied(feed, "replaced").events) = Truth(feed.events)
<1>. DEFINE e == feed.events
            n == Len(e)
            d == CHOOSE h \in Hashes : h # e[n].hash
            last == [e[n] EXCEPT !.doc = d]
            c == [e EXCEPT ![n] = last]
            f == Front(e)
            S == ToSet(log) \cup {last}
<1>1. /\ e \in Seq(ToSet(log)) /\ History(e)
      /\ DOMAIN feed = {"events", "to", "head", "at", "complete", "ours", "independent"}
  BY DEF FeedInv, PublishedIsHistory
<1>2. Copied(feed, "replaced") = [feed EXCEPT !.events = c]
  BY <1>1 DEF Copied
<1>. HIDE DEF d
<1>3. n \in Nat \ {0} /\ e \in Seq(S) /\ last \in S /\ e[n] \in S
  BY <1>1
<1>4. IsEvent(e[n])
  BY <1>1, <1>3 DEF History
<1>. HIDE DEF last, S, n
<1>5. /\ c \in Seq(S) /\ Len(c) = n /\ c[n] = last
      /\ \A i \in 1 .. n - 1 : c[i] = e[i]
  BY <1>3 DEF n
<1>6. Copied(feed, "replaced").events = c
  BY <1>1, <1>2
<1>. HIDE DEF c
<1>7. f \in Seq(S) /\ Len(f) = n - 1 /\ \A i \in 1 .. n - 1 : f[i] = e[i]
  <2>1. n - 1 \in 0 .. Len(e)
    BY <1>3 DEF n
  <2>2. f = SubSeq(e, 1, n - 1)
    BY DEF Front, n
  <2>. QED
    BY <1>3, <2>1, <2>2, PrefixFacts
<1>. HIDE DEF f
<1>8. ASSUME NEW x \in S, NEW s \in Seq(S), Len(s) = n, s[n] = x,
             \A i \in 1 .. n - 1 : s[i] = e[i]
      PROVE  s = Append(f, x)
  <2>. DEFINE a == Append(f, x)
  <2>1. /\ a \in Seq(S) /\ Len(a) = n /\ a[n] = x
        /\ \A i \in 1 .. n - 1 : a[i] = f[i]
    BY <1>3, <1>7
  <2>. HIDE DEF a
  <2>2. \A i \in 1 .. n : s[i] = a[i]
    <3>1. \A i \in 1 .. n : i \in 1 .. n - 1 \/ i = n
      BY <1>3
    <3>. QED
      BY <3>1, <2>1, <1>7, <1>8
  <2>3. s = a
    BY <2>1, <2>2, <1>8, SameSequence
  <2>. QED
    BY <2>3 DEF a
<1>9. c = Append(f, last) /\ e = Append(f, e[n])
  BY <1>3, <1>5, <1>8 DEF n
<1>10. Truth(c) = Replayed(Truth(f), last) /\ Truth(e) = Replayed(Truth(f), e[n])
  BY <1>3, <1>7, <1>9, TruthGoesOn
<1>11. e[n].name \notin DocumentEvents
  <2>. SUFFICES ASSUME e[n].name \in DocumentEvents PROVE FALSE
    OBVIOUS
  <2>1. n \in 1 .. n /\ last.name = e[n].name /\ last.hash = e[n].hash /\ last.doc = d
    BY <1>3, <1>4 DEF last, IsEvent
  <2>2. d = e[n].hash
    BY <2>1, <1>5, <1>6 DEF EventsAreValid
  <2>3. last = e[n]
    BY <2>2, <1>4 DEF last, IsEvent
  <2>4. feed = [f1 \in DOMAIN feed |-> feed[f1]]
    BY DEF FeedInv, PublishedIsHistory
  <2>5. [feed EXCEPT !.events = e] = feed
    BY <2>4
  <2>. QED
    BY <2>3, <2>5, <1>2, <1>9
<1>12. Replayed(Truth(f), last) = Replayed(Truth(f), e[n])
  BY <1>4, <1>11, RevocationHasNoDocument DEF last
<1>. QED
  BY <1>6, <1>10, <1>12

\* An honest copy of a complete history is accepted.
LEMMA HonestIsAccepted ==
    ASSUME FeedInv, feed # None, IsFresh(feed), feed.events = Until(feed.to), AllNamedRight,
           NEW source \in Sources, source = "witnessed" => feed.independent # None
    PROVE  Accepted(feed, source)
<1>. DEFINE e == feed.events
<1>1. PublishedIsHistory /\ MisboundIsKept
  BY DEF FeedInv
<1>2. \A n \in 1 .. Len(e) : IsEvent(e[n])
  BY <1>1 DEF PublishedIsHistory, History
<1>3. \A n, k \in 1 .. Len(e) : n < k =>
          e[n].block <= e[k].block /\ e[n].tx < e[k].tx
  BY <1>1 DEF PublishedIsHistory, History
<1>4. Len(e) \in Nat /\ \A n \in 1 .. Len(e) : e[n].block \in Nat /\ e[n].tx \in Nat
  <2>1. Len(e) \in Nat
    BY <1>1 DEF PublishedIsHistory
  <2>2. \A n \in 1 .. Len(e) : e[n].block \in Nat /\ e[n].tx \in Nat
    BY <1>2, Zenon DEF IsEvent
  <2>. QED
    BY <2>1, <2>2
<1>5. EventsAreValid(e)
  <2>1. ASSUME NEW n \in 2 .. Len(e) PROVE InOrder(e[n - 1], e[n])
    <3>1. n - 1 \in 1 .. Len(e) /\ n \in 1 .. Len(e) /\ n - 1 < n
      BY <1>4
    <3>. QED
      BY <3>1, <1>3, <1>4 DEF InOrder
  <2>2. ASSUME NEW n \in 1 .. Len(e), NEW k \in 1 .. Len(e), n # k
        PROVE  e[n].tx # e[k].tx
    <3>1. n < k \/ k < n
      BY <2>2
    <3>. QED
      BY <3>1, <1>3, <1>4
  <2>3. \A n \in 1 .. Len(e) : e[n].doc = e[n].hash
    BY <1>2 DEF IsEvent
  <2>. QED
    BY <2>1, <2>2, <2>3 DEF EventsAreValid
<1>6. EnvelopeIsValid(feed)
  BY <1>1 DEF PublishedIsHistory, EnvelopeIsValid, WitnessMatches
<1>7. Truth(e).misbound = {}
  <2>1. feed.to \in Nat
    BY <1>1 DEF PublishedIsHistory
  <2>2. PICK k \in 0 .. Len(log) : UpTo(log, feed.to) = SubSeq(log, 1, k)
    BY <2>1, LogUpTo
  <2>. QED
    BY <2>2, <1>1 DEF MisboundIsKept, AllNamedRight, Until
<1>. QED
  BY <1>5, <1>6, <1>7 DEF Accepted

LEMMA EveryCopyIsTold ==
    ASSUME FeedInv, feed # None, NEW damage \in Damages(feed), NEW source \in Sources
    PROVE  Told(damage, source)
<1>. DEFINE copy == Copied(feed, damage)
<1>1. source # "path" /\ Accepted(copy, source) => copy.at >= clock - MaxAge
  BY DEF Accepted, EnvelopeIsValid, IsFresh
<1>2. source # "path" /\ Accepted(copy, source) /\ copy.independent # None =>
          IndexOf(copy, source) = Truth(Until(copy.to))
  BY WitnessedIsTrue
<1>3. damage \in {"swapped", "doubled", "replaced"} => feed.events # <<>>
  BY DEF Damages
<1>4. damage \in {"swapped", "doubled", "replaced"} /\ copy # feed
          /\ Accepted(copy, source) => Truth(copy.events) = Truth(feed.events)
  BY <1>3, SwappedIsRefused, DoubledIsRefused, ReplacedIsHarmless DEF Accepted
<1>5. damage = "none" /\ IsFresh(feed) /\ feed.events = Until(feed.to)
          /\ AllNamedRight /\ (source = "witnessed" => feed.independent # None) =>
          Accepted(copy, source)
  <2>1. damage = "none" => copy = feed
    BY DEF Copied
  <2>. HIDE DEF copy
  <2>. QED
    BY <2>1, HonestIsAccepted
<1>. QED
  BY <1>1, <1>2, <1>4, <1>5 DEF Told

LEMMA FeedInvariance == FeedSpec => []FeedInv
<1>. QED
  BY FeedInvInit, FeedInvStep, PTL DEF FeedSpec

\* However providers missed events and lagged, and whatever happened to a copy.
THEOREM FeedsAreTrue == FeedSpec => []FeedIsTrue
<1>1. FeedInv => FeedIsTrue
  BY EveryCopyIsTold DEF FeedIsTrue, Told
<1>. QED
  BY <1>1, FeedInvariance, PTL
=============================================================================
