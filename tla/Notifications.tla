---------------------------- MODULE Notifications ----------------------------
(***************************************************************************)
(* The audit log of gateway/agentcart.py and the notifications about it.   *)
(*                                                                         *)
(* Every thread of the gateway appends audit events: to the file, without  *)
(* the lock, then to the tail kept in the saved state, under it.  Then the *)
(* same thread tells the operator of the events that matter, one sink      *)
(* after another and without the lock, and files the delivery under it.    *)
(* A sink may have got a message although its answer is an error.          *)
(*                                                                         *)
(* With the monitor of the hosted registry, which tells the operator what  *)
(* ails its records, it shares nothing but the process they run in.        *)
(***************************************************************************)
EXTENDS RegistryMonitor, FiniteSets

CONSTANTS Tellers,       \* threads that append events
          Phones,        \* the notify services of Home Assistant, in order
          Malformed,     \* those among them whose name has no dot
          TailLimit, HistoryLimit,
          Tellings,      \* who is told of what
          Nothing        \* no event, no phone

(***************************************************************************)
(* A telling bounds a behaviour: the sinks configured, the least severity  *)
(* told, the sequence of events appended, and whether there is a crash.    *)
(***************************************************************************)
OpsSinks == {"webhook", "homeassistant", "email"}

ASSUME TellingsAreTellings ==
    \A s \in Tellings : s.sinks \subseteq OpsSinks /\ s.events \in Seq(STRING)
ASSUME PhonesAreInOrder == Phones \in Seq(STRING)
ASSUME LimitsArePositive == TailLimit \in Nat \ {0} /\ HistoryLimit \in Nat \ {0}

VARIABLES telling,  \* chosen once
          file,     \* the audit log
          tail,     \* the tail of it in the saved state
          teller,   \* where each thread is
          reached,  \* what really got to a sink: event, sink, phone
          history,  \* deliveries on record, and all there ever were
          filed,
          cut       \* events whose thread a crash ended

noteVars == <<telling, file, tail, teller, reached, history, filed, cut>>

Silent == [at |-> "idle", event |-> Nothing, sinks |-> <<>>, phones |-> <<>>,
           phoneOk |-> FALSE, results |-> <<>>]

NotesInit ==
    /\ telling \in Tellings
    /\ file = <<>> /\ tail = <<>>
    /\ teller = [t \in Tellers |-> Silent]
    /\ reached = {}
    /\ history = <<>> /\ filed = <<>>
    /\ cut = {}

(***************************************************************************)
(* What is told to whom                                                    *)
(***************************************************************************)
Severity(kind) ==
    CASE kind \in {"quote.created", "order.created", "refund verified"} -> 1
      [] kind \in {"refund unverified", "delivery exception", "calendar.event_failed"} -> 2
      [] OTHER -> 0

\* Events of the other kinds have no payload; the threshold is at least "info".
Told(e) == Severity(e.kind) >= telling.minimum

\* The sinks in the order they are tried.
OpsConfigured ==
    LET Tried(s) == IF s \in telling.sinks THEN <<s>> ELSE <<>>
    IN  Tried("webhook") \o Tried("homeassistant") \o Tried("email")

\* Faulty variant: one sink that got it is enough.
SentToSome(results) ==
    IF \E r \in ToSet(results) : r.ok THEN "sent" ELSE "failed"

State(results) ==
    LET ok == {r \in ToSet(results) : r.ok}
    IN  IF ok = ToSet(results) THEN "sent" ELSE IF ok # {} THEN "partial" ELSE "failed"

LastOf(s, n) == SubSeq(s, IF Len(s) > n THEN Len(s) - n + 1 ELSE 1, Len(s))

(***************************************************************************)
(* append_audit_event                                                      *)
(***************************************************************************)
GoesTo(t, c) == teller' = [teller EXCEPT ![t] = c]

AppendToFile(t) ==
    /\ teller[t] = Silent
    /\ Len(file) < Len(telling.events)
    /\ LET e == [id |-> Len(file) + 1, kind |-> telling.events[Len(file) + 1]]
       IN  /\ file' = Append(file, e)
           /\ GoesTo(t, [Silent EXCEPT !.at = "tail", !.event = e])
    /\ UNCHANGED <<telling, tail, reached, history, filed, cut>>

\* A skipped event is told to nobody and leaves no delivery.
AppendToTail(t) ==
    LET e == teller[t].event IN
    /\ teller[t].at = "tail"
    /\ tail' = LastOf(Append(tail, e), TailLimit)
    /\ GoesTo(t, IF Told(e) /\ telling.sinks # {}
                 THEN [teller[t] EXCEPT !.at = "tell", !.sinks = OpsConfigured,
                                        !.phones = Phones]
                 ELSE Silent)
    /\ UNCHANGED <<telling, file, reached, history, filed, cut>>

(***************************************************************************)
(* The sinks                                                               *)
(***************************************************************************)
\* A call that may arrive whether or not its answer is a success.
Calls(e, sink, phone, ok) ==
    /\ reached' \in {reached \cup {<<e, sink, phone>>}} \cup (IF ok THEN {} ELSE {reached})
    /\ UNCHANGED <<telling, file, tail, history, filed, cut>>

Answered(t, ok) ==
    LET c == teller[t] IN
    GoesTo(t, [c EXCEPT !.sinks = Tail(@), !.results = Append(@, [sink |-> Head(c.sinks), ok |-> ok])])

\* send_ops_event_webhook, send_ops_event_email
TellSink(t) ==
    /\ teller[t].at = "tell" /\ teller[t].sinks # <<>>
    /\ Head(teller[t].sinks) # "homeassistant"
    /\ \E ok \in BOOLEAN :
          /\ Calls(teller[t].event, Head(teller[t].sinks), Nothing, ok)
          /\ Answered(t, ok)

\* send_ops_event_homeassistant: every phone is tried, one is enough.
TellPhone(t) ==
    LET c == teller[t] IN
    /\ c.at = "tell" /\ c.sinks # <<>> /\ Head(c.sinks) = "homeassistant"
    /\ c.phones # <<>>
    /\ \E ok \in BOOLEAN :
          /\ IF Head(c.phones) \in Malformed
             THEN ~ok /\ UNCHANGED <<telling, file, tail, reached, history, filed, cut>>
             ELSE Calls(c.event, "homeassistant", Head(c.phones), ok)
          /\ GoesTo(t, [c EXCEPT !.phones = Tail(@), !.phoneOk = @ \/ ok])

PhonesAreDone(t) ==
    LET c == teller[t] IN
    /\ c.at = "tell" /\ c.sinks # <<>> /\ Head(c.sinks) = "homeassistant"
    /\ c.phones = <<>>
    /\ Answered(t, c.phoneOk)
    /\ UNCHANGED <<telling, file, tail, reached, history, filed, cut>>

\* The webhook or a phone's service times out or answers no JSON, and only an
\* AgentCartError is caught there: the sinks that follow are not tried, and the
\* delivery is one failure without a sink, whoever got it before
\* (maybe_deliver_ops_event_notification).
TellingBreaks(t) ==
    LET c == teller[t] IN
    /\ c.at = "tell" /\ c.sinks # <<>> /\ Head(c.sinks) # "email"
    /\ Head(c.sinks) = "homeassistant" => c.phones # <<>> /\ Head(c.phones) \notin Malformed
    /\ Calls(c.event, Head(c.sinks),
             IF Head(c.sinks) = "webhook" THEN Nothing ELSE Head(c.phones), FALSE)
    /\ GoesTo(t, [c EXCEPT !.sinks = <<>>,
                           !.results = <<[sink |-> "internal", ok |-> FALSE]>>])

(***************************************************************************)
(* record_ops_event_delivery                                               *)
(***************************************************************************)
Delivery(c) == [event |-> c.event, state |-> State(c.results), results |-> c.results]

\* Faulty variant: the history is cut from its new end.
RecordAndCutNewest(t) ==
    /\ teller[t].at = "tell" /\ teller[t].sinks = <<>>
    /\ history' = SubSeq(Append(history, Delivery(teller[t])), 1,
                         IF Len(history) < HistoryLimit THEN Len(history) + 1 ELSE HistoryLimit)
    /\ filed' = Append(filed, teller[t].event)
    /\ GoesTo(t, Silent)
    /\ UNCHANGED <<telling, file, tail, reached, cut>>

RecordDelivery(t) ==
    /\ teller[t].at = "tell" /\ teller[t].sinks = <<>>
    /\ history' = LastOf(Append(history, Delivery(teller[t])), HistoryLimit)
    /\ filed' = Append(filed, teller[t].event)
    /\ GoesTo(t, Silent)
    /\ UNCHANGED <<telling, file, tail, reached, cut>>

\* The file and the saved state survive; nobody takes the delivery up again.
GatewayDies ==
    /\ cut = {} /\ telling.crashes
    /\ \E t \in Tellers : teller[t] # Silent
    /\ cut' = {teller[t].event : t \in {u \in Tellers : teller[u] # Silent}}
    /\ teller' = [t \in Tellers |-> Silent]
    /\ UNCHANGED <<telling, file, tail, reached, history, filed>>

NotesNext ==
    \/ \E t \in Tellers :
          \/ AppendToFile(t) \/ AppendToTail(t)
          \/ TellSink(t) \/ TellPhone(t) \/ PhonesAreDone(t) \/ TellingBreaks(t)
          \/ RecordDelivery(t)
    \/ GatewayDies

\* Beside the monitor.
AlertsInit == FeedProofsInit /\ NotesInit

AlertsNext ==
    \/ FeedProofsNext /\ UNCHANGED noteVars
    \/ NotesNext /\ UNCHANGED feedVars

AlertsSpec == AlertsInit /\ [][AlertsNext]_<<feedVars, noteVars>>

(***************************************************************************)
(* Properties                                                              *)
(***************************************************************************)
InFlight == {teller[t].event : t \in Tellers}

Got(e, sink) == \E r \in reached : r[1] = e /\ r[2] = sink

\* What the records say of the notifications is what became of them.  A delivery
\* filed as sent got to every sink configured, a partial one to some sink and a
\* sink that answered well did get it; of a failed one nothing is said.  Nobody was
\* told of an event below the threshold.  Every event of the log that no crash cut
\* short was filed once and is still on record unless newer deliveries pushed it
\* out, and the tail in the saved state lacks none of the log's last events but
\* those being written.
DeliveriesAreTrue ==
    /\ \A d \in ToSet(history) :
          /\ d.state = "sent" => \A s \in telling.sinks : Got(d.event, s)
          /\ d.state = "partial" => \E s \in telling.sinks : Got(d.event, s)
          /\ \A r \in ToSet(d.results) : r.ok => Got(d.event, r.sink)
    /\ \A r \in reached : Told(r[1]) /\ r[1] \in ToSet(file)
    /\ \A e \in ToSet(file) \ (InFlight \cup cut) :
          /\ Told(e) /\ telling.sinks # {} =>
                /\ Cardinality({i \in 1 .. Len(filed) : filed[i] = e}) = 1
                /\ \/ \E d \in ToSet(history) : d.event = e
                   \/ Len(history) = HistoryLimit
                      /\ \A d \in ToSet(history) :
                            \E i, j \in 1 .. Len(filed) :
                                i < j /\ filed[i] = e /\ filed[j] = d.event
          /\ e \in ToSet(tail) \/ Len(tail) = TailLimit
    /\ \A i, j \in 1 .. Len(tail) : tail[i] = tail[j] => i = j

\* The operator is told what there is to know: the monitor's recipients are
\* current (run_registry_monitor), and the deliveries on record are true
\* (maybe_deliver_ops_event_notification).
TheOperatorIsTold == RecipientsAreCurrent /\ DeliveriesAreTrue
=============================================================================
