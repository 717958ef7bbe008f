----------------------------- MODULE ChatStreams -----------------------------
(***************************************************************************)
(* How the household hears of a chat job (household_os.py): the thread of  *)
(* the job puts events into a queue of its own, and every page that is     *)
(* open for the job takes events from that one queue; when there is none   *)
(* for two seconds it looks at the job instead.                            *)
(***************************************************************************)
EXTENDS Naturals, Sequences

CONSTANT Listeners

VARIABLES chatJob,  \* the job: where its thread is, its status, its reply
          events,   \* its queue
          known,    \* whether chat_jobs still has it
          listener  \* what each page does, and what it heard

streams == <<chatJob, events, known, listener>>

Final == {"done", "failed"}

StreamsInit ==
    /\ chatJob = [at |-> "none", status |-> "none", reply |-> FALSE]
    /\ events = <<>>
    /\ known = FALSE
    /\ listener = [l \in Listeners |-> [at |-> "away", heard |-> "none"]]

Put(e) == events' = Append(events, e)

(***************************************************************************)
(* The job                                                                 *)
(***************************************************************************)
Queue ==
    /\ chatJob.at = "none"
    /\ chatJob' = [chatJob EXCEPT !.at = "queued", !.status = "queued"]
    /\ Put("status")
    /\ known' = TRUE
    /\ UNCHANGED listener

\* update_chat_job and emit_chat_job_event; a message is appended to the chat.
Start ==
    /\ chatJob.at = "queued"
    /\ chatJob' = [chatJob EXCEPT !.at = "started", !.status = "running"]
    /\ Put("status")
    /\ UNCHANGED <<known, listener>>

Write ==
    /\ chatJob.at = "started"
    /\ chatJob' = [chatJob EXCEPT !.at = "writing"]
    /\ Put("status")
    /\ UNCHANGED <<known, listener>>

\* The status is set before the reply.
SetStatus(outcome) ==
    /\ \/ chatJob.at = "writing"
       \/ chatJob.at = "started" /\ outcome = "failed"
    /\ chatJob' = [chatJob EXCEPT !.at = "answered", !.status = outcome]
    /\ UNCHANGED <<events, known, listener>>

SetReply ==
    /\ chatJob.at = "answered"
    /\ chatJob' = [chatJob EXCEPT !.at = "told", !.reply = TRUE]
    /\ UNCHANGED <<events, known, listener>>

Tell ==
    /\ chatJob.at = "told"
    /\ chatJob' = [chatJob EXCEPT !.at = "over"]
    /\ Put(chatJob.status)
    /\ UNCHANGED <<known, listener>>

\* A later job finds this one over for a long time.
Prune ==
    /\ known
    /\ chatJob.status \in Final
    /\ known' = FALSE
    /\ UNCHANGED <<chatJob, events, listener>>

(***************************************************************************)
(* The pages                                                               *)
(***************************************************************************)
\* get_chat_job finds the job or the request fails.
Listen(l) ==
    /\ listener[l].at = "away"
    /\ known
    /\ listener' = [listener EXCEPT ![l].at = "listening"]
    /\ UNCHANGED <<chatJob, events, known>>

\* write_sse_event; the stream ends with the job.
Hears(l, e) ==
    listener' = [listener EXCEPT ![l] =
        IF e \in Final THEN [at |-> "ended", heard |-> e] ELSE @]

Take(l) ==
    /\ listener[l].at = "listening"
    /\ events # <<>>
    /\ Hears(l, Head(events))
    /\ events' = Tail(events)
    /\ UNCHANGED <<chatJob, known>>

\* Faulty variant: what is looked up is always a status.
SnapshotOfStatus == "status"

\* chat_job_snapshot
Snapshot == IF chatJob.status \in Final THEN chatJob.status ELSE "status"

TimesOut(l) ==
    /\ listener[l].at = "listening"
    /\ events = <<>>
    /\ Hears(l, Snapshot)
    /\ UNCHANGED <<chatJob, events, known>>

\* The page is closed: what it is sent next is lost with the connection.
Close(l) ==
    /\ listener[l].at = "listening"
    /\ listener' = [listener EXCEPT ![l].at = "closed"]
    /\ events' = IF events = <<>> THEN events ELSE Tail(events)
    /\ UNCHANGED <<chatJob, known>>

StreamedJob ==
    \/ Queue \/ Start \/ Write \/ \E o \in Final : SetStatus(o)
    \/ SetReply \/ Tell

StreamsNext ==
    \/ StreamedJob \/ Prune
    \/ \E l \in Listeners : Listen(l) \/ Take(l) \/ TimesOut(l) \/ Close(l)

\* The thread of the job goes on, and so do the pages that stay open.
StreamsFairness ==
    /\ WF_streams(StreamedJob)
    /\ \A l \in Listeners : WF_streams(Take(l) \/ TimesOut(l))

(***************************************************************************)
(* Properties                                                              *)
(***************************************************************************)
\* Every page that stays open hears how the job ended, though the event of its
\* end goes to one page only, which may be the one that is closed.
ListenersHearTheEnd ==
    \A l \in Listeners :
        listener[l].at = "listening" ~>
            \/ listener[l].at = "closed"
            \/ listener[l].at = "ended" /\ listener[l].heard = chatJob.status
=============================================================================
