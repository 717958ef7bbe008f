--------------------------- MODULE RegistryMonitor ---------------------------
(***************************************************************************)
(* The registry monitor of gateway/agentcart.py beside the hosted registry *)
(* it watches.                                                             *)
(*                                                                         *)
(* A run, scheduled or asked for, computes the registry's health without   *)
(* the lock, exchanges the last snapshot under it, sends what changed to   *)
(* one sink after another without it, and files the delivery under it      *)
(* again.  The snapshots are saved, so a crash only ends the runs under    *)
(* way.  Nothing is sent again.                                            *)
(*                                                                         *)
(* An auditor outside watches too: with the proof of the feed it keeps.    *)
(***************************************************************************)
EXTENDS HostedRegistry, SequencesExt

CONSTANT StoreError  \* the alert of a store that cannot be read

Sinks == {"webhook", "homeassistant", "email"}

(***************************************************************************)
(* A scene of the monitor also says which sinks are told, of what severity *)
(* and whether of what is resolved, and how old a record gets.             *)
(***************************************************************************)
ASSUME ScenesTellSinks == \A s \in Scenes : s.sinks \subseteq Sinks

VARIABLES snapshot,   \* alerts of the last snapshot
          run,        \* where the monitor run of each thread is
          shown,      \* by sink: the alerts it got and no word of their end
          failures,   \* sinks that refused a notification, or that it was kept from
                      \* by a crash or by a run that broke off
          attention,  \* needs_attention: the last delivery was not a full one
          age         \* of each record: 0 fresh, more than that near stale

monitorVars == <<snapshot, run, shown, failures, attention, age>>
vars == <<registryVars, monitorVars>>

Resting == [at |-> "idle", alerts |-> {}, new |-> {}, resolved |-> {},
            sinks |-> <<>>, told |-> {}, refused |-> {}]

Init ==
    /\ RegistryInit
    /\ snapshot = {}
    /\ run = [t \in Threads |-> Resting]
    /\ shown = [s \in Sinks |-> {}]
    /\ failures = {}
    /\ attention = FALSE
    /\ age = [r \in Records |-> 0]

(***************************************************************************)
(* registry_health                                                         *)
(***************************************************************************)
\* What is said, of whom, how severe it is: an alert is its fingerprint, and
\* the age in days is part of what is said.
Alert(about, severity, days) == [about |-> about, severity |-> severity, days |-> days]

\* registry_health_alert_for_check: a merchant whose record does not verify.
Failed(m) == Alert(m, 3, 0)

\* registry_freshness_alert_for_check: a record that verifies and is ageing.
NearStale(r) ==
    IF age[r] = 0 THEN {} ELSE {Alert(MerchantOf[r], 2, age[r])}

StoreAlerts ==
    IF ~Readable THEN {Alert(StoreError, 3, 0)}
    ELSE IF Store.entries = {} THEN {Alert(None, 1, 0)}
    ELSE {}

\* A fetch may fail, so a record that is attested may be reported, too.
Health ==
    {StoreAlerts \cup {Failed(MerchantOf[r]) : r \in failed}
                 \cup UNION {NearStale(r) : r \in Feed(Store) \ failed} :
        failed \in {f \in SUBSET Feed(Store) :
                        \A r \in Feed(Store) : ~Verified(r) => r \in f}}

Healths == IF Readable THEN Health ELSE {StoreAlerts}

Runs(t, r) == run' = [run EXCEPT ![t] = r]

CheckHealth(t) ==
    /\ t \in scene.monitors
    /\ run[t] = Resting
    /\ \E alerts \in Healths : Runs(t, [Resting EXCEPT !.at = "checked", !.alerts = alerts])
    /\ UNCHANGED <<registryVars, snapshot, shown, failures, attention, age>>

(***************************************************************************)
(* Notifications                                                           *)
(***************************************************************************)
Allowed(alerts) == {a \in alerts : a.severity >= scene.minimum}

\* registry_alert_notification_payload: what there is to say, if anything.
News(new, resolved) ==
    [new |-> Allowed(new), resolved |-> IF scene.resolved THEN Allowed(resolved) ELSE {}]

Configured ==
    LET Sent(s) == IF s \in scene.sinks THEN <<s>> ELSE <<>>
    IN  Sent("webhook") \o Sent("homeassistant") \o Sent("email")

Changed(r) ==
    LET news == News(r.alerts \ snapshot, snapshot \ r.alerts)
        any  == news.new \cup news.resolved # {}
    IN  [r EXCEPT !.at = "notify", !.new = news.new, !.resolved = news.resolved,
                  !.sinks = IF any THEN Configured ELSE <<>>]

\* Faulty variant: the snapshot is compared and not exchanged.
CompareSnapshot(t) ==
    /\ run[t].at = "checked"
    /\ Runs(t, Changed(run[t]))
    /\ UNCHANGED <<registryVars, snapshot, shown, failures, attention, age>>

\* registry_monitor_changes, and the snapshot is saved.
ExchangeSnapshot(t) ==
    /\ run[t].at = "checked"
    /\ snapshot' = run[t].alerts
    /\ Runs(t, Changed(run[t]))
    /\ UNCHANGED <<registryVars, shown, failures, attention, age>>

\* send_registry_alert_webhook, _homeassistant, _email: what a sink knows then.
Informed(s, r) == [shown EXCEPT ![s] = (@ \cup r.new) \ r.resolved]

\* One sink after another, each once; one that answers with an error may have
\* got the notification all the same.
Notify(t) ==
    LET r == run[t]
        s == Head(r.sinks)
    IN  /\ r.at = "notify" /\ r.sinks # <<>>
        /\ \/ /\ shown' = Informed(s, r)
              /\ Runs(t, [r EXCEPT !.sinks = Tail(@), !.told = @ \cup {s}])
              /\ UNCHANGED failures
           \/ /\ shown' \in {shown, Informed(s, r)}
              /\ failures' = failures \cup {s}
              /\ Runs(t, [r EXCEPT !.sinks = Tail(@), !.refused = @ \cup {s}])
        /\ UNCHANGED <<registryVars, snapshot, attention, age>>

\* The webhook or Home Assistant times out or answers no JSON, and only an
\* AgentCartError is caught: the run ends there.  The snapshot is saved already,
\* the sinks that follow are not told, and nothing is filed.
NotifyBreaks(t) ==
    LET r == run[t]
        s == Head(r.sinks)
    IN  /\ r.at = "notify" /\ r.sinks # <<>> /\ s # "email"
        /\ shown' \in {shown, Informed(s, r)}
        /\ failures' = failures \cup ToSet(r.sinks)
        /\ Runs(t, Resting)
        /\ UNCHANGED <<registryVars, snapshot, attention, age>>

DeliveryState(r) ==
    IF r.told \cup r.refused = {} THEN "skipped"
    ELSE IF r.refused = {} THEN "sent"
    ELSE IF r.told = {} THEN "failed" ELSE "partial"

\* registry_alert_delivery_metrics counts the problems since the last delivery
\* without one.
NeedsAttention(r) == DeliveryState(r) \in {"failed", "partial"}

\* The delivery is filed, one that was skipped as well.
FileDelivery(t) ==
    /\ run[t].at = "notify" /\ run[t].sinks = <<>>
    /\ attention' = NeedsAttention(run[t])
    /\ Runs(t, Resting)
    /\ UNCHANGED <<registryVars, snapshot, shown, failures, age>>

(***************************************************************************)
(* Time, and crashes                                                       *)
(***************************************************************************)
Ages(r) ==
    /\ age[r] < scene.oldest
    /\ age' = [age EXCEPT ![r] = @ + 1]
    /\ UNCHANGED <<registryVars, snapshot, run, shown, failures, attention>>

\* The process of both components dies and starts again.
Crash ==
    /\ Restart
    /\ run' = [t \in Threads |-> Resting]
    /\ failures' = failures \cup UNION {ToSet(run[t].sinks) : t \in Threads}
    /\ UNCHANGED <<snapshot, shown, attention, age>>

Next ==
    \/ RegistryNext /\ UNCHANGED monitorVars
    \/ \E t \in Threads :
          \/ CheckHealth(t) \/ ExchangeSnapshot(t)
          \/ Notify(t) \/ NotifyBreaks(t) \/ FileDelivery(t)
    \/ \E r \in scene.records : Ages(r)
    \/ Crash

Spec == Init /\ [][Next]_vars

(***************************************************************************)
(* Beside it, one outside who fetched a feed proof earlier and keeps it    *)
(* (hosted_registry_feed_proof, hosted_registry_transparency_log).  A hash *)
(* stands for what it is of.                                               *)
(***************************************************************************)
VARIABLE witness  \* the proof kept, or None

feedVars == <<vars, witness>>

FeedProofsInit == Init /\ witness = None

\* verify_hosted_registry_transparency_events
ChainValid(log) ==
    \A i \in 1 .. Len(log) :
        /\ log[i].sequence = i
        /\ log[i].previous = SubSeq(log, 1, i - 1)

\* Faulty variant: what was submitted again is no longer proven to be revoked.
PayloadOfEntries(s) ==
    [records |-> Feed(s), revocations |-> s.revocations \ s.entries, head |-> s.log,
     valid |-> ChainValid(s.log)]

Payload(s) ==
    [records |-> Feed(s), revocations |-> s.revocations, head |-> s.log,
     valid |-> ChainValid(s.log)]

\* What the signature is over: the feed, the revocations and the head of the log,
\* and not that the chain was found valid.
SignaturePayload(p) == [records |-> p.records, revocations |-> p.revocations, head |-> p.head]

\* Nothing is locked, and a store that cannot be read has no proof.
FetchProof ==
    /\ scene.proven
    /\ Readable
    /\ LET p == Payload(Store)
       IN  witness' = [valid |-> p.valid, signed |-> SignaturePayload(p)]
    /\ UNCHANGED vars

FeedProofsNext ==
    \/ Next /\ UNCHANGED witness
    \/ FetchProof

FeedProofsSpec == FeedProofsInit /\ [][FeedProofsNext]_feedVars

(***************************************************************************)
(* Properties                                                              *)
(***************************************************************************)
Scheduled == \E t \in Threads : scene.monitors \subseteq {t}

\* With the scheduled monitor alone, a sink that refused nothing so far, and that
\* no run broke off at or before, knows the last snapshot: of the alerts it is to
\* be told, none is announced twice, none is missed, and none stays open once it
\* is resolved (or it never hears of an end, if it is not to).  And what needs
\* attention is a delivery a sink refused.
RecipientsAreCurrent ==
    /\ Scheduled /\ (\A t \in Threads : run[t] = Resting) =>
          \A s \in scene.sinks \ failures :
              IF scene.resolved THEN shown[s] = Allowed(snapshot)
              ELSE Allowed(snapshot) \subseteq shown[s]
    /\ attention => failures # {}

Continues(p, s) ==
    /\ IsPrefix(p.head, s.log)
    /\ p.revocations \subseteq s.revocations

\* The feed can be audited.  The log explains the store (LogExplainsStore), every
\* proof is of a chain that verifies, two proofs of one head prove one feed, and
\* with one submission at a time the store continues what was signed earlier: no
\* event is taken back and no revocation forgotten.
FeedIsAuditable ==
    /\ LogExplainsStore
    /\ witness # None =>
          LET p == witness.signed IN
          /\ witness.valid
          /\ Readable =>
                /\ p.head = Store.log =>
                      p.records = Feed(Store) /\ p.revocations = Store.revocations
                /\ OneAtATime => Continues(p, Store)
=============================================================================
