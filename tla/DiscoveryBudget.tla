-------------------------- MODULE DiscoveryBudget --------------------------
(***************************************************************************)
(* The budget of a discovery: DiscoveryBudget and request_json of          *)
(* shopbridge_safe_http.py, and the retries of _history_call of            *)
(* shopbridge_onchain_rpc.py.                                              *)
(*                                                                         *)
(* The threads of a scan share one budget of time, of requests and of      *)
(* bytes.  A request reserves the bytes it may read before it is sent; a   *)
(* worker thread sends it, and gives back what was not read.  The caller   *)
(* waits for the worker no longer than the time reserved: it goes on, and  *)
(* the worker, that may still wait for a name server, outlives it.  What   *)
(* is asked again waits for the cooldown that all threads share.           *)
(***************************************************************************)
EXTENDS Integers, Sequences, FiniteSetsExt

CONSTANTS Callers,      \* threads that call a provider
          Plans,        \* budgets: [seconds, requests, bytes, timeout, size, general]
          MaxAttempts,  \* HISTORY_REQUEST_ATTEMPTS
          Delays,       \* how long the provider, or the backoff, asks to wait
          MaxTime       \* bound on the clock

\* The callers in "general" ask for the headers of events, which count as
\* requests; the others read pages of logs, which do not.  Each asks once.

VARIABLES plan,      \* the budget and the calls, chosen once
          clock,     \* time.monotonic(), from the start of the discovery
          left,      \* [requests, bytes]: what remains
          cooldown,  \* diagnostics["_cooldown_until"]
          caller,    \* caller -> [at, attempt, request, until]
          requests   \* all requests, in the order they were reserved

vars == <<plan, clock, left, cooldown, caller, requests>>

LOCAL Least(a, b)    == IF a < b THEN a ELSE b
LOCAL Greatest(a, b) == IF a > b THEN a ELSE b

\* A request may read "allocation" bytes; it is "resolving" or "reading" until
\* its worker is "over" with an outcome, after "received" bytes.
Outcomes == {"answer", "retryable", "failed"}

Deadline == plan.seconds

Init ==
    /\ plan \in Plans
    /\ clock = 0
    /\ left = [requests |-> plan.requests, bytes |-> plan.bytes]
    /\ cooldown = 0
    /\ caller = [c \in Callers |-> [at |-> "sending", attempt |-> 0, request |-> 0, until |-> 0]]
    /\ requests = <<>>

Tick ==
    /\ clock < MaxTime
    /\ clock' = clock + 1
    /\ UNCHANGED <<plan, left, cooldown, caller, requests>>

Goes(c, at) == caller' = [caller EXCEPT ![c].at = at]

(***************************************************************************)
(* A call                                                                  *)
(***************************************************************************)
\* The cooldown is over, or will be, or the time of the discovery is.
Cools(c) ==
    /\ caller[c].at = "sending"
    /\ CASE clock >= Deadline -> Goes(c, "incomplete")
         [] clock < Deadline /\ cooldown > clock ->
                caller' = [caller EXCEPT ![c].at = "sleeping",
                                         ![c].until = Least(cooldown, Deadline)]
         [] OTHER -> Goes(c, "ready")
    /\ UNCHANGED <<plan, clock, left, cooldown, requests>>

Wakes(c) ==
    /\ caller[c].at = "sleeping" /\ clock >= caller[c].until
    /\ Goes(c, "sending")
    /\ UNCHANGED <<plan, clock, left, cooldown, requests>>

\* except OnchainRpcError: the time is over, or the error is for good.
Ends(c) ==
    /\ Goes(c, IF clock >= Deadline THEN "incomplete" ELSE "failed")
    /\ UNCHANGED cooldown

Again(c) ==
    /\ caller' = [caller EXCEPT ![c].at = "sending", ![c].attempt = @ + 1]
    /\ \E delay \in Delays :
          cooldown' = Greatest(cooldown, clock + Least(delay, Deadline - clock))

\* What can be asked again is, after a while.
Fails(c, retryable) ==
    IF clock < Deadline /\ retryable /\ caller[c].attempt + 1 < MaxAttempts
    THEN Again(c) ELSE Ends(c)

Exhausted(c) ==
    \/ clock >= Deadline
    \/ c \in plan.general /\ left.requests = 0
    \/ left.bytes <= 1

\* One byte more than a request may return is kept for it: an answer that is
\* too long shows by it.
Reserve(c) ==
    LET size == Least(plan.size, left.bytes - 1) IN
    /\ caller[c].at = "ready" /\ ~Exhausted(c)
    /\ left' = [requests |-> left.requests - (IF c \in plan.general THEN 1 ELSE 0),
                bytes    |-> left.bytes - (size + 1)]
    /\ LET until == clock + Least(plan.timeout, Deadline - clock) IN
          /\ requests' = Append(requests,
                [by |-> c, allocation |-> size, until |-> until,
                 at |-> "resolving", received |-> 0, outcome |-> "failed"])
          /\ caller' = [caller EXCEPT ![c].at = "waiting", ![c].until = until,
                                      ![c].request = Len(requests) + 1]
    /\ UNCHANGED <<plan, clock, cooldown>>

Refused(c) ==
    /\ caller[c].at = "ready" /\ Exhausted(c)
    /\ Ends(c)
    /\ UNCHANGED <<plan, clock, left, requests>>

(***************************************************************************)
(* The worker of a request                                                 *)
(***************************************************************************)
\* Faulty variant: what a failed read took is given back with the rest.
GivesAllBack(r, known, received) ==
    left.bytes + requests[r].allocation + 1 - (IF known THEN received ELSE 0)

\* budget.finish: a read that failed keeps all that was reserved for it.
GivesBack(r, known, received) ==
    left.bytes + requests[r].allocation + 1 -
        (IF known THEN received ELSE requests[r].allocation + 1)

Finishes(r, known, received, outcome) ==
    /\ left' = [left EXCEPT !.bytes = GivesBack(r, known, received)]
    /\ requests' = [requests EXCEPT ![r].at = "over", ![r].received = received,
                                    ![r].outcome = outcome]
    /\ UNCHANGED <<plan, clock, cooldown, caller>>

\* A name that is not found, or leads to a forbidden address
Unresolved(r) ==
    /\ requests[r].at = "resolving"
    /\ Finishes(r, FALSE, 0, "failed")

\* The name took longer than the caller waits: request_timeout.
TooLate(r) ==
    /\ requests[r].at = "resolving" /\ clock >= requests[r].until
    /\ Finishes(r, FALSE, 0, "retryable")

Connects(r) ==
    /\ requests[r].at = "resolving" /\ clock < requests[r].until
    /\ requests' = [requests EXCEPT ![r].at = "reading"]
    /\ UNCHANGED <<plan, clock, left, cooldown, caller>>

\* A body that is one byte too long is an error of its own.
Reads(r) ==
    /\ requests[r].at = "reading"
    /\ \E received \in 0 .. requests[r].allocation + 1, outcome \in Outcomes :
          /\ received > requests[r].allocation => outcome # "answer"
          /\ Finishes(r, TRUE, received, outcome)

\* The connection breaks in the middle, or the announced body is too long.
Breaks(r) ==
    /\ requests[r].at = "reading"
    /\ \E received \in 0 .. requests[r].allocation, outcome \in {"retryable", "failed"} :
          Finishes(r, FALSE, received, outcome)

(***************************************************************************)
(* The caller                                                              *)
(***************************************************************************)
Waits(c) == caller[c].at = "waiting"

Takes(c) ==
    LET request == requests[caller[c].request] IN
    /\ Waits(c) /\ request.at = "over"
    /\ IF request.outcome = "answer"
       THEN Goes(c, "answered") /\ UNCHANGED cooldown
       ELSE Fails(c, request.outcome = "retryable")
    /\ UNCHANGED <<plan, clock, left, requests>>

\* worker.join(timeout_seconds) ends first: request_timeout.
GivesUp(c) ==
    /\ Waits(c) /\ requests[caller[c].request].at # "over"
    /\ clock >= caller[c].until
    /\ Fails(c, TRUE)
    /\ UNCHANGED <<plan, clock, left, requests>>

Next ==
    \/ Tick
    \/ \E c \in Callers : Cools(c) \/ Wakes(c) \/ Reserve(c) \/ Refused(c) \/ Takes(c) \/ GivesUp(c)
    \/ \E r \in DOMAIN requests :
          Unresolved(r) \/ TooLate(r) \/ Connects(r) \/ Reads(r) \/ Breaks(r)

Over ==
    /\ \A c \in Callers : caller[c].at \in {"answered", "incomplete", "failed"}
    /\ \A r \in DOMAIN requests : requests[r].at = "over"

(***************************************************************************)
(* Properties                                                              *)
(***************************************************************************)
\* What a request received, or may still receive
Bytes(r) == IF requests[r].at = "over" THEN requests[r].received ELSE requests[r].allocation + 1

\* No interleaving of callers, retries and workers that outlive their callers
\* lets a discovery read more bytes or send more general requests than its
\* budget, or sleep or wait past its deadline (DiscoveryBudget, _history_call).
BudgetIsKept ==
    /\ left.bytes >= 0 /\ left.requests >= 0
    /\ MapThenSumSet(Bytes, DOMAIN requests) + left.bytes <= plan.bytes
    /\ Cardinality({r \in DOMAIN requests : requests[r].by \in plan.general}) <= plan.requests
    /\ cooldown <= Deadline
    /\ \A c \in Callers : caller[c].until <= Deadline
=============================================================================
