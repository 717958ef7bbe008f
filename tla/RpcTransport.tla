---------------------------- MODULE RpcTransport ----------------------------
(***************************************************************************)
(* JsonRpcClient.call_batch of shopbridge_onchain_rpc.py: many calls to a  *)
(* provider that limits how often and how much it is asked.                *)
(*                                                                         *)
(* A batch is sent in chunks.  A chunk that the provider refuses, because  *)
(* of its size or because of too many requests, is sent again in halves,   *)
(* a call on its own a few times, after a pause that the budget of the     *)
(* discovery bounds.  The items of an answer come in any order; some       *)
(* providers repeat an item, leave one out or answer another request.      *)
(*                                                                         *)
(* The answer to call i is i.                                              *)
(***************************************************************************)
EXTENDS Integers, Sequences, SequencesExt, FiniteSets

CONSTANTS Loads,        \* batches: [calls, size, faults, budget]
          MaxAttempts,  \* HISTORY_REQUEST_ATTEMPTS
          Pauses        \* how long a provider may ask to wait

\* A batch says how many calls it has, how many go into one request (at least
\* one), which of the faults "limited", "large", "garbled" and "error" its
\* provider may show, and how long it may be waited for.

VARIABLES load,      \* the batch, chosen once
          chunks,    \* what is still to be sent, in order: [calls, attempt]
          results,   \* what call_batch will return
          sent,      \* the number of requests so far: ids of the next ones follow
          paused,    \* the time spent waiting
          state      \* "sending", "done" or "failed"

vars == <<load, chunks, results, sent, paused, state>>

LOCAL Least(a, b) == IF a < b THEN a ELSE b

Chunk(calls, attempt) == [calls |-> calls, attempt |-> attempt]

\* range(0, len(calls), size)
ChunksOf(calls, size) ==
    [n \in 1 .. (Len(calls) + size - 1) \div size |->
        Chunk(SubSeq(calls, (n - 1) * size + 1, Least(n * size, Len(calls))), 0)]

Init ==
    /\ load \in Loads
    /\ chunks = ChunksOf([i \in 1 .. load.calls |-> i], load.size)
    /\ results = <<>>
    /\ sent = 0
    /\ paused = 0
    /\ state = "sending"

Sending == state = "sending" /\ chunks # <<>>

\* Ids grow with every call of every request.
Ids(calls) == {sent + k : k \in 1 .. Len(calls)}

ItemOf(calls, id) == [id |-> id, result |-> calls[id - sent]]

Answers(calls) == SetToSeqs({ItemOf(calls, id) : id \in Ids(calls)})

\* Items that answer another request, come twice or are missing.
Garbled(calls) ==
    {ReplaceAt(a, 1, [a[1] EXCEPT !.id = sent]) : a \in Answers(calls)} \cup
    {ReplaceAt(a, 1, a[Len(a)]) : a \in {x \in Answers(calls) : Len(x) > 1}} \cup
    {Tail(a) : a \in Answers(calls)}

Valid(calls, answer) ==
    /\ Len(answer) = Len(calls)
    /\ {answer[k].id : k \in 1 .. Len(answer)} = Ids(calls)

\* Faulty variant: results are taken in the order of the answer.
AsAnswered(calls, answer) == [k \in 1 .. Len(calls) |-> answer[k].result]

ByIds(calls, answer) ==
    [k \in 1 .. Len(calls) |->
        (CHOOSE item \in ToSet(answer) : item.id = sent + k).result]

\* The whole answer counts or, with one item that does not fit, nothing of it.
Answer ==
    LET calls == Head(chunks).calls IN
    /\ Sending
    /\ \E answer \in Answers(calls) \cup
                     (IF "garbled" \in load.faults THEN Garbled(calls) ELSE {}) :
          IF Valid(calls, answer)
          THEN /\ results' = results \o ByIds(calls, answer)
               /\ chunks' = Tail(chunks)
               /\ state' = IF Len(chunks) = 1 THEN "done" ELSE "sending"
          ELSE state' = "failed" /\ UNCHANGED <<results, chunks>>
    /\ sent' = sent + Len(calls)
    /\ UNCHANGED <<load, paused>>

Halves(chunk) ==
    LET middle == Len(chunk.calls) \div 2
    IN  <<Chunk(SubSeq(chunk.calls, 1, middle), chunk.attempt + 1),
          Chunk(SubSeq(chunk.calls, middle + 1, Len(chunk.calls)), chunk.attempt + 1)>>

Again(chunk) ==
    IF Len(chunk.calls) = 1 THEN <<Chunk(chunk.calls, chunk.attempt + 1)>> ELSE Halves(chunk)

GivesUp(chunk, limited) ==
    Len(chunk.calls) = 1 /\ (~limited \/ chunk.attempt + 1 >= MaxAttempts)

Refused(chunk, pause) ==
    /\ paused' = paused + Least(pause, load.budget - paused)
    /\ chunks' = Again(chunk) \o Tail(chunks)
    /\ UNCHANGED state

\* 429: wait, then send less at a time, or the call again.
Limited ==
    LET chunk == Head(chunks) IN
    /\ Sending
    /\ "limited" \in load.faults
    /\ IF GivesUp(chunk, TRUE) \/ paused >= load.budget
       THEN state' = "failed" /\ UNCHANGED <<chunks, paused>>
       ELSE \E pause \in Pauses : Refused(chunk, pause)
    /\ sent' = sent + Len(chunk.calls)
    /\ UNCHANGED <<load, results>>

\* 413, or an error that says so
TooLarge ==
    LET chunk == Head(chunks) IN
    /\ Sending
    /\ "large" \in load.faults
    /\ IF GivesUp(chunk, FALSE)
       THEN state' = "failed" /\ UNCHANGED <<chunks, paused>>
       ELSE Refused(chunk, 0)
    /\ sent' = sent + Len(chunk.calls)
    /\ UNCHANGED <<load, results>>

\* No connection, not JSON, an error for one item.
Fails ==
    /\ Sending
    /\ "error" \in load.faults
    /\ state' = "failed"
    /\ sent' = sent + Len(Head(chunks).calls)
    /\ UNCHANGED <<load, chunks, results, paused>>

Next == Answer \/ Limited \/ TooLarge \/ Fails

(***************************************************************************)
(* Properties                                                              *)
(***************************************************************************)
\* Every call gets its own answer, once, whatever the order of the items, the
\* splits and the pauses; and the pauses fit the budget (call_batch).
AnswersMatchCalls ==
    /\ state = "done" => results = [i \in 1 .. load.calls |-> i]
    /\ paused <= load.budget
=============================================================================
