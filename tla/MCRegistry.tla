------------------------------ MODULE MCRegistry ------------------------------
(***************************************************************************)
(* Two merchants, one of them with two records, in nine scenes: one thread *)
(* that submits, with a crash; two at once; proofs fetched beside; and the *)
(* monitor, scheduled, or with records that age, or run from two threads.  *)
(* Beside them, while nobody submits, the audit log and its notifications. *)
(***************************************************************************)
EXTENDS Notifications, TLC

CONSTANTS t1, t2, t3, m1, m2, old, new, other

Owners == (old :> m1) @@ (new :> m1) @@ (other :> m2)

Scene(submitters, monitors, records, submissions, maxCrashes) ==
    [submitters |-> submitters, monitors |-> monitors, records |-> records,
     submissions |-> submissions, crashes |-> maxCrashes,
     sinks |-> {}, minimum |-> 3, resolved |-> FALSE, oldest |-> 0, proven |-> FALSE]

Watching(scene_, sinks, minimum, resolved, oldest) ==
    [scene_ EXCEPT !.sinks = sinks, !.minimum = minimum, !.resolved = resolved,
                   !.oldest = oldest]

\* Proofs of the feed are fetched, too.
Proven(scene_) == [scene_ EXCEPT !.proven = TRUE]

Alone == Scene({t1}, {}, {old, new, other}, 3, 1)

AllScenes == {Alone,
              Proven(Scene({t1}, {}, {old, new}, 3, 0)),
              Proven(Scene({t1, t2}, {}, {old, other}, 2, 0)),
              Scene({t1, t2}, {}, {old}, 3, 0),
              Scene({t1, t2}, {}, {old, other}, 2, 0),
              Watching(Scene({t1}, {t2}, {old, other}, 2, 1), {"webhook"}, 2, TRUE, 0),
              Watching(Scene({t1}, {t2}, {old}, 1, 0), {"webhook", "email"}, 1, TRUE, 2),
              Watching(Scene({t1}, {t2}, {old}, 1, 0), {"webhook"}, 2, FALSE, 1),
              Watching(Scene({t1}, {t2, t3}, {old}, 1, 0), {"homeassistant"}, 3, TRUE, 0)}

(***************************************************************************)
(* Three events on two threads and two sinks, with a crash; two deliveries *)
(* on one thread to every sink and two phones, one of them misspelt; and   *)
(* nobody to tell.                                                         *)
(***************************************************************************)
NotesOf(sinks, minimum, events, crashes_) ==
    [sinks |-> sinks, minimum |-> minimum, events |-> events, crashes |-> crashes_]

Quiet == NotesOf({}, 1, <<>>, FALSE)

AllTellings ==
    {NotesOf({"webhook"}, 1,
             <<"refund verified", "status unchanged", "delivery exception", "order.created">>, TRUE),
     NotesOf({"webhook", "email"}, 2,
             <<"refund unverified", "quote.created", "calendar.event_failed">>, FALSE),
     NotesOf({"webhook", "homeassistant", "email"}, 1, <<"order.created", "refund verified">>, FALSE),
     NotesOf({}, 1, <<"order.created", "refund verified">>, TRUE)}

EveryTelling == AllTellings \cup {Quiet}

TwoPhones == <<"notify.phone", "phone">>

MCInit ==
    /\ AlertsInit
    /\ telling # Quiet => scene = Alone

MCNext ==
    \/ telling = Quiet /\ FeedProofsNext /\ UNCHANGED noteVars
    \/ telling # Quiet /\ NotesNext /\ UNCHANGED feedVars

MCSpec == MCInit /\ [][MCNext]_<<feedVars, noteVars>>
=============================================================================
