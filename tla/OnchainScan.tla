----------------------------- MODULE OnchainScan -----------------------------
(***************************************************************************)
(* The buyer's direct scan of a registry: collect_finalized_events of      *)
(* shopbridge_onchain_rpc.py, run by several processes that share one      *)
(* checkpoint file.                                                        *)
(*                                                                         *)
(* Version 1 replays the finalized lifecycle logs, fetched in pages by     *)
(* parallel workers from the end of the checkpoint on, and compares the    *)
(* records it selects with storage.  Version 2 has a second provider       *)
(* confirm the finalized block and every read of storage at it.  With the  *)
(* Myotis profile storage is read at the head of the chain instead.        *)
(*                                                                         *)
(* A provider's index of logs may miss some; what it stores is what the    *)
(* chain has, unless it is the one provider of version 2 that lies.        *)
(***************************************************************************)
EXTENDS OnchainSelection

CONSTANTS Records,
          Scanners,  \* processes
          None,
          Scenes

Providers == {"primary", "witness"}

(***************************************************************************)
(* A scene fixes the registry: its version, the chain (for each block the  *)
(* events in it), the size of a page, the number of workers, the           *)
(* processes, the limit of candidates, the hinted and the preferred        *)
(* records, the records whose documents cannot be loaded and those whose   *)
(* storage may be unreadable, and what may go wrong (missing logs; a liar; *)
(* requests that fail, processes that end).                                *)
(***************************************************************************)
EventsOf(s) == UNION {ToSet(s.chain[b]) : b \in DOMAIN s.chain}

ASSUME ScenesAreScans ==
    \A s \in Scenes :
        /\ s.profile \in {"v1", "myotis", "v2"}
        /\ s.chain \in Seq(Seq(EventsOf(s))) /\ s.chain # <<>> /\ None \notin Seq(EventsOf(s))
        /\ s.page \in Nat \ {0} /\ s.workers \in Nat \ {0} /\ s.limit \in Nat \ {0}
        /\ s.scanners \subseteq Scanners
        /\ s.hinted \cup s.preferred \cup s.unloadable \cup s.unreadable \subseteq Records
        /\ s.mayMiss \in BOOLEAN
        /\ s.liars \subseteq Providers /\ s.liars # Providers  \* one is honest
        /\ s.failures \subseteq {"incomplete", "error", "crash"} /\ None \notin s.failures

ASSUME RecordsAreFinite == IsFiniteSet(Records)

VARIABLES final,       \* the last finalized block of the chain
          head,        \* its last block
          reported,    \* the finalized block each provider knows
          checkpoint,  \* the checkpoint file
          scan,        \* what each process does
          missed,      \* whether some log was missing from an answer
          scene        \* chosen once

vars == <<final, head, reported, checkpoint, scan, missed, scene>>

LastBlock == Len(scene.chain)

NoDocument == [selected |-> <<>>, failed |-> {}]

Resting == [at |-> "idle", target |-> 0, from |-> 1, logs |-> <<>>, fetched |-> <<>>,
            pending |-> {}, next |-> 0, done |-> 0, failure |-> None,
            heads |-> [p \in Providers |-> None], attempts |-> 0, doc |-> NoDocument,
            hashes |-> [r \in Records |-> None]]

Init ==
    /\ scene \in Scenes
    /\ final = 1
    /\ head = 1
    /\ reported = [p \in Providers |-> 1]
    /\ checkpoint = None
    /\ scan = [s \in Scanners |-> Resting]
    /\ missed = FALSE

(***************************************************************************)
(* The registry at a block, and what a list of logs makes of it            *)
(***************************************************************************)
Unknown == [status |-> "none", hash |-> None, eligible |-> FALSE, indexed |-> FALSE]

After(state, e) ==
    [state EXCEPT ![e.id] =
        CASE e.name = "MerchantRegistered"  -> [status |-> "active", hash |-> e.hash,
                                                eligible |-> TRUE, indexed |-> TRUE]
          [] e.name = "MerchantUpdated"     -> [@ EXCEPT !.hash = e.hash]
          [] e.name = "MerchantRevoked"     -> [@ EXCEPT !.status = "revoked", !.eligible = FALSE,
                                                         !.indexed = FALSE]
          [] e.name = "MerchantSuspended"   -> [@ EXCEPT !.status = "suspended", !.indexed = FALSE]
          [] e.name = "MerchantUnsuspended" -> [@ EXCEPT !.status = "active", !.indexed = TRUE]
          [] e.name = "AdmissionLapsed"     -> [@ EXCEPT !.eligible = FALSE]
          [] e.name = "AdmissionRenewed"    -> [@ EXCEPT !.eligible = TRUE]
          [] e.name = "IndexedRecordPruned" -> [@ EXCEPT !.indexed = FALSE]]

Replay(logs) == FoldLeft(After, [r \in Records |-> Unknown], logs)

Events(from, to) == FlattenSeq(SubSeq(scene.chain, from, to))

Storage(block) == Replay(Events(1, block))

Lifecycle == {"MerchantRegistered", "MerchantUpdated", "MerchantRevoked",
              "MerchantSuspended", "MerchantUnsuspended"}

\* What eth_getLogs has of a block, and of a range.
BlockLogs(block) ==
    Among(scene.chain[block], {e \in ToSet(scene.chain[block]) : e.name \in Lifecycle})

Logs(from, to) == FlattenSeq([n \in 1 .. to - from + 1 |-> BlockLogs(from + n - 1)])

\* Every event is of a record that an earlier one registered.
Complete(logs) ==
    \A i \in 1 .. Len(logs) :
        \E j \in 1 .. i : logs[j].name = "MerchantRegistered" /\ logs[j].id = logs[i].id

RevokedIn(state) == {state[r].hash : r \in {x \in Records : state[x].status = "revoked"}}

\* _verify_contract_storage of one record
Matches(lifecycle, storage, r) ==
    /\ lifecycle[r].status = storage[r].status
    /\ lifecycle[r].hash = storage[r].hash
    /\ lifecycle[r].hash \in RevokedIn(storage) <=> lifecycle[r].status = "revoked"

(***************************************************************************)
(* The chain                                                               *)
(***************************************************************************)
Mine ==
    /\ head < LastBlock
    /\ head' = head + 1
    /\ UNCHANGED <<final, reported, checkpoint, scan, missed, scene>>

Finalize ==
    /\ final < head
    /\ final' = final + 1
    /\ UNCHANGED <<head, reported, checkpoint, scan, missed, scene>>

Report(p) ==
    /\ scene.profile = "v2"
    /\ reported[p] < final
    /\ reported' = [reported EXCEPT ![p] = @ + 1]
    /\ UNCHANGED <<final, head, checkpoint, scan, missed, scene>>

Becomes(s, r) == scan' = [scan EXCEPT ![s] = r]

(***************************************************************************)
(* Version 1: pages                                                        *)
(***************************************************************************)
PageCount(r) == IF r.from > r.target THEN 0 ELSE (r.target - r.from) \div scene.page + 1

FirstOf(r, i) == r.from + (i - 1) * scene.page

LastOf(r, i) ==
    LET end == FirstOf(r, i) + scene.page - 1 IN IF end < r.target THEN end ELSE r.target

\* submit(): as many pages as there are workers
Filled(r) ==
    IF r.failure # None THEN r
    ELSE LET room == scene.workers - Cardinality(r.pending)
             new  == {i \in r.next + 1 .. r.next + room : i <= PageCount(r)}
         IN  [r EXCEPT !.pending = @ \cup new, !.next = @ + Cardinality(new)]

\* A checkpoint is of use if it is not ahead of the finalized block and its logs
\* are a lifecycle from its beginning.
Usable(c, target) == c # None /\ c.block <= target /\ Complete(c.logs)

StartScan(s) ==
    LET hit == scene.profile = "v1" /\ Usable(checkpoint, final)
    IN  /\ s \in scene.scanners
        /\ scene.profile # "v2"
        /\ scan[s].at \in {"idle", "done"}
        /\ Becomes(s, Filled([Resting EXCEPT
               !.at = "pages", !.target = final,
               !.from = IF hit THEN checkpoint.block + 1 ELSE 1,
               !.logs = IF hit THEN checkpoint.logs ELSE <<>>,
               !.fetched = [i \in 1 .. LastBlock |-> None]]))
        /\ UNCHANGED <<final, head, reported, checkpoint, missed, scene>>

\* Faulty variant: pages are taken in the order in which they arrive.
AsTheyArrive(r) ==
    LET i == CHOOSE i \in 1 .. LastBlock : r.fetched[i] # None
    IN  [r EXCEPT !.logs = @ \o r.fetched[i], !.done = @ + 1, !.fetched[i] = None]

\* The pages that continue what is there already are taken in order.
Contiguous(r) ==
    LET ready == {n \in r.done + 1 .. LastBlock : \A i \in r.done + 1 .. n : r.fetched[i] # None}
        upto  == IF ready = {} THEN r.done ELSE r.done + Cardinality(ready)
    IN  [r EXCEPT !.logs = @ \o FlattenSeq([i \in 1 .. upto - r.done |-> r.fetched[r.done + i]]),
                  !.done = upto]

\* The log index of the provider may miss events.
Answers(from, to) ==
    LET all == Logs(from, to)
    IN  {all} \cup
        (IF scene.mayMiss THEN {RemoveAt(all, k) : k \in 1 .. Len(all)} ELSE {})

PageArrives(s, i) ==
    LET r == scan[s] IN
    /\ r.at = "pages"
    /\ i \in r.pending
    /\ \E answer \in Answers(FirstOf(r, i), LastOf(r, i)) :
          /\ missed' = (missed \/ answer # Logs(FirstOf(r, i), LastOf(r, i)))
          /\ Becomes(s, Filled(Contiguous(
                [r EXCEPT !.pending = @ \ {i}, !.fetched[i] = answer])))
    /\ UNCHANGED <<final, head, reported, checkpoint, scene>>

\* A request fails for good, or the time for the discovery is over.  Pages that
\* were submitted go on; no more are.
PageFails(s, i, failure) ==
    LET r == scan[s] IN
    /\ r.at = "pages"
    /\ i \in r.pending
    /\ failure \in scene.failures
    /\ Becomes(s, [r EXCEPT !.pending = @ \ {i},
                            !.failure = IF @ \in {None, "incomplete"} THEN failure ELSE @])
    /\ UNCHANGED <<final, head, reported, checkpoint, missed, scene>>

Written(block, logs) == [block |-> block, logs |-> logs]

\* Faulty variant: an unfinished scan leaves no checkpoint.
FailWithout(s) ==
    /\ scan[s].at = "pages" /\ scan[s].pending = {} /\ scan[s].failure # None
    /\ Becomes(s, Resting)
    /\ UNCHANGED <<final, head, reported, checkpoint, missed, scene>>

\* An unfinished scan leaves what it has without a gap.
FailScan(s) ==
    LET r == scan[s]
        kept == r.failure = "incomplete" /\ r.done > 0 /\ scene.profile = "v1"
    IN  /\ r.at = "pages"
        /\ r.pending = {}
        /\ r.failure # None
        /\ checkpoint' = IF kept THEN Written(LastOf(r, r.done), r.logs) ELSE checkpoint
        /\ Becomes(s, Resting)
        /\ UNCHANGED <<final, head, reported, missed, scene>>

\* An event of a record that no log registered ends the scan.
EndPages(s) ==
    LET r == scan[s] IN
    /\ r.at = "pages"
    /\ r.pending = {}
    /\ r.failure = None
    /\ Becomes(s, IF Complete(r.logs) THEN [r EXCEPT !.at = "select"] ELSE Resting)
    /\ UNCHANGED <<final, head, reported, checkpoint, missed, scene>>

(***************************************************************************)
(* Version 2: two providers                                                *)
(***************************************************************************)
StartWitnessed(s) ==
    /\ s \in scene.scanners
    /\ scene.profile = "v2"
    /\ scan[s].at \in {"idle", "done"}
    /\ Becomes(s, [Resting EXCEPT !.at = "heads"])
    /\ UNCHANGED <<final, head, reported, checkpoint, missed, scene>>

\* A header is a block of the chain, or one that a liar made up.
Header(n, real) == [number |-> n, real |-> real]

ReadHead(s, p) ==
    /\ scan[s].at = "heads"
    /\ scan[s].heads[p] = None
    /\ \E h \in {Header(reported[p], TRUE)} \cup
                (IF p \in scene.liars THEN [number : 1 .. LastBlock, real : BOOLEAN] ELSE {}) :
          Becomes(s, [scan[s] EXCEPT !.heads[p] = h])
    /\ UNCHANGED <<final, head, reported, checkpoint, missed, scene>>

\* Both finalized heads, or the lower of the two, confirmed by both.
Boundaries(heads) ==
    LET primary == heads["primary"]
        witness == heads["witness"]
        lower   == IF primary.number < witness.number THEN primary ELSE witness
        Confirms(p) == IF p \in scene.liars THEN BOOLEAN ELSE {TRUE}
    IN  IF primary = witness THEN {primary}
        ELSE IF scene.boundedLag /\ primary.number # witness.number
        THEN {[lower EXCEPT !.real = real] : real \in
                {x \in BOOLEAN : x = lower.real /\ \A p \in Providers : x \in Confirms(p)}}
        ELSE {}

AgreeOnBoundary(s) ==
    LET r == scan[s] IN
    /\ r.at = "heads"
    /\ \A p \in Providers : r.heads[p] # None
    /\ \E b \in Boundaries(r.heads) :
          Becomes(s, [r EXCEPT !.at = "select", !.target = b.number])
    /\ UNCHANGED <<final, head, reported, checkpoint, missed, scene>>

\* Six in the code; a bound of the model, what an attempt finds is forgotten.
MaxAttempts == 2

\* Try again, or give up.
DisagreeOnBoundary(s) ==
    LET r == scan[s] IN
    /\ r.at = "heads"
    /\ \A p \in Providers : r.heads[p] # None
    /\ Becomes(s, IF r.attempts + 1 = MaxAttempts THEN Resting
                  ELSE [r EXCEPT !.attempts = @ + 1, !.heads = Resting.heads])
    /\ UNCHANGED <<final, head, reported, checkpoint, missed, scene>>

\* A lie about storage is another answer than the other provider's: no scan.
CatchLiar(s) ==
    /\ scan[s].at = "select"
    /\ scene.profile = "v2"
    /\ scene.liars # {}
    /\ Becomes(s, Resting)
    /\ UNCHANGED <<final, head, reported, checkpoint, missed, scene>>

(***************************************************************************)
(* Selection                                                               *)
(***************************************************************************)
Exact == scene.preferred # {}

\* Of the records in scope; every order is possible.
Orders(scope) ==
    SetToSeqs(IF Exact THEN scope \cap scene.preferred ELSE scope)

DocumentOf(order, active, counted, mismatched) ==
    Document(order, scene.hinted, Exact, scene.limit, active, counted, mismatched,
             scene.unloadable)

\* The scan ends with a document and the hashes its records had.
Done(target, state, doc) ==
    [Resting EXCEPT !.at = "done", !.target = target, !.doc = doc,
                    !.hashes = [x \in Records |-> state[x].hash]]

\* Requests that fail, or that the time for the discovery is over for
Failures == {"incomplete", "error"}

\* The records whose storage cannot be read, where requests may fail.
Unread == IF scene.failures \cap Failures = {} THEN {{}} ELSE SUBSET scene.unreadable

\* The records the logs leave active, compared with storage at the block of the
\* scan; one that cannot be read is excluded like one that differs.  Only a scan
\* that excludes none leaves a checkpoint.
SelectLogged(s, unread) ==
    LET r          == scan[s]
        lifecycle  == Replay(r.logs)
        active     == {x \in Records : lifecycle[x].status = "active"}
        mismatched == {x \in active : x \in unread \/ ~Matches(lifecycle, Storage(r.target), x)}
    IN  /\ r.at = "select"
        /\ scene.profile = "v1"
        /\ \E order \in Orders(active) :
              LET doc == DocumentOf(order, active, Cardinality(active), mismatched)
              IN  /\ Becomes(s, Done(r.target, lifecycle, doc))
                  /\ checkpoint' = IF doc.excluded = {} THEN Written(r.target, r.logs)
                                   ELSE checkpoint
        /\ UNCHANGED <<final, head, reported, missed, scene>>

\* Faulty variant: mismatches are excluded, as with version 1, at a block that
\* is read but not compared with the finalized one.
SelectUnchecked(s) ==
    LET r          == scan[s]
        lifecycle  == Replay(r.logs)
        active     == {x \in Records : lifecycle[x].status = "active"}
    IN  /\ r.at = "select"
        /\ scene.profile = "myotis"
        /\ \E order \in Orders(active) :
              Becomes(s, Done(r.target, lifecycle,
                              DocumentOf(order, active, Cardinality(active), {})))
        /\ UNCHANGED <<final, head, reported, checkpoint, missed, scene>>

\* The head may move on while the records are compared; one mismatch ends the scan.
SelectAtHead(s) ==
    LET r          == scan[s]
        lifecycle  == Replay(r.logs)
        active     == {x \in Records : lifecycle[x].status = "active"}
    IN  /\ r.at = "select"
        /\ scene.profile = "myotis"
        /\ \E order \in Orders(active) :
              LET doc == DocumentOf(order, active, Cardinality(active), {})
                  same == \A x \in ToSet(doc.selected) : Matches(lifecycle, Storage(head), x)
              IN  Becomes(s, IF same THEN Done(r.target, lifecycle, doc) ELSE Resting)
        /\ UNCHANGED <<final, head, reported, checkpoint, missed, scene>>

\* One record of each entity.
OneOfEach(scope) ==
    {x \in SUBSET scope :
        /\ \A a, b \in x : scene.entity[a] = scene.entity[b] => a = b
        /\ {scene.entity[a] : a \in x} = {scene.entity[a] : a \in scope}}

Eligible(state, drawn) == {x \in drawn : state[x].status = "active" /\ state[x].eligible}

\* At most three times as many records as are wanted are drawn: the preferred
\* ones, or some of the index and of the hinted ones.
Draws(state) ==
    LET indexed == {x \in Records : state[x].indexed}
        reserve == IF 3 * scene.limit < MaxCandidates THEN 3 * scene.limit ELSE MaxCandidates
    IN  IF Exact THEN {scene.preferred}
        ELSE {x \in SUBSET (indexed \cup scene.hinted) :
                 /\ Cardinality(x) <= reserve
                 /\ Cardinality(x) < reserve => indexed \subseteq x}

\* A read that the two providers answer differently is in CatchLiar.
SelectStored(s, unread) ==
    LET r       == scan[s]
        state   == Storage(r.target)
        indexed == {x \in Records : state[x].indexed}
    IN  /\ r.at = "select"
        /\ scene.profile = "v2"
        /\ \E drawn \in Draws(state) :
              LET active == {x \in drawn : state[x].status = "active"}
              IN  \E scope \in OneOfEach(Eligible(state, drawn)) : \E order \in Orders(scope) :
                     Becomes(s, Done(r.target, state,
                         DocumentOf(order, active, Cardinality(indexed),
                                    {x \in active : x \in unread \/ ~Matches(state, state, x)})))
        /\ UNCHANGED <<final, head, reported, checkpoint, missed, scene>>

\* A request before the records are compared (the categories, the head), or with
\* Myotis while they are, fails: all that was fetched is lost.
SelectFails(s) ==
    /\ scan[s].at = "select"
    /\ scene.failures \cap Failures # {}
    /\ Becomes(s, Resting)
    /\ UNCHANGED <<final, head, reported, checkpoint, missed, scene>>

(***************************************************************************)
(* The process ends at any point; the next one starts from the checkpoint. *)
(***************************************************************************)
Crash(s) ==
    /\ "crash" \in scene.failures
    /\ scan[s].at \notin {"idle", "done"}
    /\ Becomes(s, Resting)
    /\ UNCHANGED <<final, head, reported, checkpoint, missed, scene>>

\* What a process does by itself.
Proceeds(s) ==
    \/ StartScan(s) \/ StartWitnessed(s)
    \/ \E i \in scan[s].pending : \/ PageArrives(s, i)
                                  \/ \E f \in Failures : PageFails(s, i, f)
    \/ FailScan(s) \/ EndPages(s)
    \/ \E p \in Providers : ReadHead(s, p)
    \/ AgreeOnBoundary(s) \/ DisagreeOnBoundary(s) \/ CatchLiar(s)
    \/ \E unread \in Unread : SelectLogged(s, unread) \/ SelectStored(s, unread)
    \/ SelectAtHead(s) \/ SelectFails(s)

Next ==
    \/ Mine \/ Finalize \/ \E p \in Providers : Report(p)
    \/ \E s \in Scanners : Proceeds(s) \/ Crash(s)

\* The page that the logs of the scan wait for.
NextPageArrives(s) == \E i \in scan[s].pending : i = scan[s].done + 1 /\ PageArrives(s, i)

(***************************************************************************)
(* The chain goes on, a process goes on, and neither the page a scan waits *)
(* for nor its comparison with storage is timed out every time.            *)
(***************************************************************************)
Spec ==
    /\ Init /\ [][Next]_vars
    /\ WF_vars(Mine) /\ WF_vars(Finalize)
    /\ \A s \in Scanners : /\ WF_vars(Proceeds(s))
                           /\ SF_vars(NextPageArrives(s)) /\ SF_vars(SelectLogged(s, {}))

(***************************************************************************)
(* Properties                                                              *)
(***************************************************************************)

\* A record is served only if the contract had it active under the hash that is
\* served, at the block of the scan (with Myotis: at one between it and the
\* head), whatever logs the provider missed.  That block is final, though one of
\* two providers makes its finalized head up, and with version 2 the record was
\* eligible there (collect_finalized_events, _v2_witness).
ServedWereActive ==
    \A s \in Scanners :
        /\ scan[s].target <= final
        /\ \A r \in Served(scan[s].doc) :
              \E b \in scan[s].target .. (IF scene.profile = "myotis" THEN head
                                           ELSE scan[s].target) :
                  /\ Storage(b)[r].status = "active"
                  /\ Storage(b)[r].hash = scan[s].hashes[r]
                  /\ scene.profile = "v2" => Storage(b)[r].eligible

\* While no answer misses a log, the checkpoint has exactly the logs of the chain
\* up to its block, whichever pages came late, failed or were cancelled and
\* whichever processes wrote it (_scan_finalized_history, _write_checkpoint).
CheckpointIsTrue ==
    checkpoint # None /\ ~missed => checkpoint.logs = Logs(1, checkpoint.block)

\* The projection accepts what a scan hands over: its counts of candidates,
\* hints, attempts and mismatches agree (finalized_document_errors).  Version 2
\* is left out while a record that could be served is not in the index.
DocumentIsAccepted ==
    \A s \in Scanners :
        scan[s].at = "done" =>
            LET state == Storage(scan[s].target)
            IN  \/ scene.profile = "v2" /\ \E r \in Records : state[r].eligible /\ ~state[r].indexed
                \/ Acceptable(scan[s].doc)

\* Scans that run out of time again and again, in their pages or after them,
\* still bring the checkpoint to the end of the chain: each that fails in its
\* pages leaves those it has without a gap, and the next one goes on there
\* (_scan_finalized_history, history_sync_incomplete).
CheckpointCatchesUp ==
    scene.profile = "v1" /\ scene.failures = {"incomplete"} /\ ~scene.mayMiss =>
        <>(checkpoint # None /\ checkpoint.block = LastBlock)
=============================================================================
