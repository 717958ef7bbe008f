---------------------------- MODULE ContractFeed ----------------------------
(***************************************************************************)
(* The document of contract events that an operator publishes, and what a  *)
(* reader makes of it.  onchain-registry-indexer-loop.mjs reconstructs the *)
(* finalized events from one RPC provider, compares them with those of a   *)
(* witness if there is one, and keeps the last complete document it wrote. *)
(* index_contract_document validates the document and replays its events.  *)
(*                                                                         *)
(* A provider may miss an event, and lag; the two of a pair do not miss    *)
(* the same event.  A copy of the document may have suffered on its way.   *)
(* Hashes of histories are the histories.                                  *)
(***************************************************************************)
EXTENDS RegistryProjection

CONSTANTS FeedId,          \* the record the events are about
          FeedControllers,
          LastBlock, MaxEvents, \* bounds
          MaxAge, MaxLag   \* ONCHAIN_REGISTRY_MAX_AGE_SECONDS, the witness's lag

VARIABLES log,             \* the events of the contract so far
          clock,           \* time, and the block being built; those before are final
          feed             \* the published document, or None

feedVars == <<log, clock, feed>>

FeedInit == log = <<>> /\ clock = 1 /\ feed = None

(***************************************************************************)
(* The contract: one record, whose merchant may attach a document that     *)
(* names another controller.                                               *)
(***************************************************************************)
Truth(events) == Projected(EmptyIndex, events)

\* A log is in the order of its blocks.
UpTo(events, block) ==
    SubSeq(events, 1, Cardinality({n \in 1 .. Len(events) : events[n].block <= block}))

\* doc is the hash of the document that the document of events gives with an event.
Stamped(b, t, e) ==
    [f \in {"block", "tx", "doc"} \cup DOMAIN e |->
        CASE f = "block" -> b
          [] f = "tx"    -> t
          [] f = "doc"   -> e.hash
          [] OTHER       -> e[f]]

\* tx is the event's transaction.  What comes after a publication is in no block of it.
Emitted(e) ==
    /\ feed = None
    /\ Len(log) < MaxEvents
    /\ log' = Append(log, Stamped(clock, Len(log) + 1, e))
    /\ UNCHANGED <<clock, feed>>

Unrevoked(h) == h \notin RevokedHashes(Truth(log))

ContractCall ==
    \/ \E h \in Hashes, d \in FeedControllers :
          /\ Truth(log).active[FeedId] = None /\ Unrevoked(h)
          /\ Emitted([name |-> "MerchantRegistered", id |-> FeedId, hash |-> h,
                      controller |-> FeedId[2], named |-> d])
    \/ \E h \in Hashes, d \in FeedControllers :
          /\ Truth(log).active[FeedId] # None /\ Unrevoked(h)
          /\ Emitted([name |-> "MerchantUpdated", id |-> FeedId, hash |-> h, named |-> d])
    \/ \E h \in Hashes, c, d \in FeedControllers :
          /\ Truth(log).active[FeedId] # None /\ Unrevoked(h)
          /\ c # Truth(log).controller[FeedId]
          /\ Emitted([name |-> "ControllerChanged", id |-> FeedId, hash |-> h,
                      controller |-> c, named |-> d])
    \/ /\ Truth(log).active[FeedId] # None
       /\ Emitted([name |-> "MerchantRevoked", id |-> FeedId,
                   hash |-> Truth(log).active[FeedId]])

NewBlock ==
    /\ clock < LastBlock
    /\ clock' = clock + 1
    /\ UNCHANGED <<log, feed>>

(***************************************************************************)
(* The indexer.  A snapshot holds the events up to its finalized block     *)
(* that its provider returned.                                             *)
(***************************************************************************)
Without(events, missed) ==
    IF missed \in 1 .. Len(events) THEN RemoveAt(events, missed) ELSE events

Snapshot(missed, head) == [events |-> Without(UpTo(log, head), missed), head |-> head]

Comparable(snapshot, to) == UpTo(snapshot.events, to)

Written(events, to, head, independent) ==
    [events |-> events, to |-> to, head |-> head, at |-> clock, complete |-> TRUE,
     ours |-> TRUE, independent |-> independent]

\* Faulty variant: the events after the common block are published too.
PublishedUncut(p, w) ==
    LET to == IF p.head <= w.head THEN p.head ELSE w.head IN
    /\ Comparable(p, to) = Comparable(w, to)
    /\ feed' = Written(p.events, p.head, p.head, [to |-> to, history |-> Comparable(w, to)])

\* compareFinalizedSnapshots; a divergence keeps the last document.
PublishedPair(p, w) ==
    LET to  == IF p.head <= w.head THEN p.head ELSE w.head
        lag == IF p.head <= w.head THEN w.head - p.head ELSE p.head - w.head
    IN  /\ Comparable(p, to) = Comparable(w, to)
        /\ lag <= MaxLag
        /\ feed' = Written(Comparable(p, to), to, p.head,
                           [to |-> to, history |-> Comparable(w, to)])

Missable == {0} \cup 1 .. Len(log)

\* A document shows the log as it is, so one publication stands for the latest.
Refresh ==
    /\ feed = None
    /\ \E missed \in Missable, head \in 1 .. clock - 1 :
          LET primary == Snapshot(missed, head) IN
          \/ feed' = Written(primary.events, head, head, None)
          \/ \E other \in Missable, behind \in 1 .. clock - 1 :
                /\ missed # 0 => other # missed
                /\ PublishedPair(primary, Snapshot(other, behind))
    /\ UNCHANGED <<log, clock>>

FeedNext == ContractCall \/ NewBlock \/ Refresh

FeedSpec == FeedInit /\ [][FeedNext]_feedVars

(***************************************************************************)
(* What may become of a copy                                               *)
(***************************************************************************)
Damages(doc) ==
    {"none", "cut", "incomplete", "foreign"} \cup
    (IF doc.events = <<>> THEN {} ELSE {"swapped", "doubled", "dropped", "replaced"})

Copied(doc, damage) ==
    LET n == Len(doc.events) IN
    CASE damage = "none"       -> doc
      [] damage = "incomplete" -> [doc EXCEPT !.complete = FALSE]
      [] damage = "foreign"    -> [doc EXCEPT !.ours = FALSE]
      [] damage = "cut"        -> [doc EXCEPT !.to = @ - 1]
      [] damage = "swapped"    -> [doc EXCEPT !.events = <<doc.events[n]>> \o Front(doc.events)]
      [] damage = "doubled"    -> [doc EXCEPT !.events = Append(@, doc.events[n])]
      [] damage = "dropped"    -> [doc EXCEPT !.events = Front(@)]
      [] damage = "replaced"   -> [doc EXCEPT !.events[n].doc =
                                      CHOOSE h \in Hashes : h # doc.events[n].hash]

(***************************************************************************)
(* The reader.  verify_contract_events checks the events themselves;       *)
(* finalized_document_errors and controller_binding_errors are for a       *)
(* document from elsewhere; the skill can ask for a witness.               *)
(***************************************************************************)
InOrder(e, f) == e.block < f.block \/ (e.block = f.block /\ e.tx <= f.tx)

\* Faulty variant: the order of the events is not looked at.
EventsWereGenuine(events) ==
    /\ \A n, k \in 1 .. Len(events) : n # k => events[n].tx # events[k].tx
    /\ \A n \in 1 .. Len(events) :
          events[n].name \in DocumentEvents => events[n].doc = events[n].hash

EventsAreValid(events) ==
    /\ \A n \in 2 .. Len(events) : InOrder(events[n - 1], events[n])
    /\ \A n, k \in 1 .. Len(events) : n # k => events[n].tx # events[k].tx
    /\ \A n \in 1 .. Len(events) :
          events[n].name \in DocumentEvents => events[n].doc = events[n].hash

IsFresh(doc) == doc.at >= clock - MaxAge /\ doc.head >= clock - MaxAge

WitnessMatches(doc) ==
    /\ doc.independent.to = doc.to
    /\ doc.independent.history = doc.events

EnvelopeIsValid(doc) ==
    /\ doc.ours /\ doc.complete
    /\ IsFresh(doc)
    /\ doc.to <= doc.head
    /\ \A n \in 1 .. Len(doc.events) : doc.events[n].block <= doc.to
    /\ doc.independent # None => WitnessMatches(doc)

\* Where the document comes from: a file of the operator, a URL, or a URL whose
\* document must have a witness.
Sources == {"path", "url", "witnessed"}

Accepted(doc, source) ==
    /\ EventsAreValid(doc.events)
    /\ source # "path" => EnvelopeIsValid(doc) /\ Truth(doc.events).misbound = {}
    /\ source = "witnessed" => doc.independent # None

\* The index of a refused document is empty.
IndexOf(doc, source) == IF Accepted(doc, source) THEN Truth(doc.events) ELSE EmptyIndex

(***************************************************************************)
(* Properties                                                              *)
(***************************************************************************)
Until(block) == UpTo(log, block)

AllNamedRight == Truth(log).misbound = {}

\* What is promised of a copy with some damage.
Told(damage, source) ==
    LET copy == Copied(feed, damage) IN
    /\ source # "path" /\ Accepted(copy, source) =>
          copy.at >= clock - MaxAge
    /\ source # "path" /\ Accepted(copy, source) /\ copy.independent # None =>
          IndexOf(copy, source) = Truth(Until(copy.to))
    /\ damage \in {"swapped", "doubled", "replaced"} /\ copy # feed
          /\ Accepted(copy, source) => Truth(copy.events) = Truth(feed.events)
    /\ damage = "none" /\ IsFresh(feed) /\ feed.events = Until(feed.to)
          /\ AllNamedRight /\ (source = "witnessed" => feed.independent # None) =>
          Accepted(copy, source)

\* However providers missed events and lagged, and whatever happened to the copy: a
\* witnessed document that is accepted tells what the contract held at its block,
\* and a reader is never told of it later than the limit; an honest copy of a
\* complete history is accepted by all, so that an error on the way cannot hide a
\* merchant (compareFinalizedSnapshots, finalized_document_errors).
FeedIsTrue ==
    feed # None =>
        \A damage \in Damages(feed), source \in Sources : Told(damage, source)

\* Every field has its type.
FeedTypeOK ==
    /\ clock \in 1 .. LastBlock
    /\ Len(log) <= MaxEvents
    /\ feed # None => feed.to \in 0 .. clock /\ feed.head \in 1 .. clock - 1 /\ feed.at \in 1 .. clock
=============================================================================
