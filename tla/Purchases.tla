------------------------------ MODULE Purchases ------------------------------
(***************************************************************************)
(* What a household may rely on: nothing is bought without a decision of   *)
(* its own that is final, nor unless the month it was quoted in has budget *)
(* left, and what was bought stays bought.  The buyer gateway implements   *)
(* this with threads, a lock, a state file, failures and crashes (module   *)
(* Gateway).                                                               *)
(***************************************************************************)
EXTENDS Naturals, Sequences, FiniteSets

CONSTANTS Approvals, Quotes, NoQuote, Budgets

VARIABLES budget,    \* orders a month pays for, chosen once
          month,     \* counted from 1
          made,      \* the month each quote was made in, or 0
          decision,  \* of each approval
          about,     \* the quote it is about
          bought     \* the approvals bought under, in order

vars == <<budget, month, made, decision, about, bought>>

Init ==
    /\ budget \in Budgets
    /\ month = 1
    /\ made = [q \in Quotes |-> 0]
    /\ decision = [a \in Approvals |-> "none"]
    /\ about = [a \in Approvals |-> NoQuote]
    /\ bought = <<>>

NextMonth ==
    /\ month' = month + 1
    /\ UNCHANGED <<budget, made, decision, about, bought>>

Quote(q) ==
    /\ made[q] = 0
    /\ made' = [made EXCEPT ![q] = month]
    /\ UNCHANGED <<budget, month, decision, about, bought>>

Ask(a, q) ==
    /\ decision[a] = "none"
    /\ decision' = [decision EXCEPT ![a] = "pending"]
    /\ about' = [about EXCEPT ![a] = q]
    /\ UNCHANGED <<budget, month, made, bought>>

Decide(a, d) ==
    /\ decision[a] = "pending"
    /\ decision' = [decision EXCEPT ![a] = d]
    /\ UNCHANGED <<budget, month, made, about, bought>>

Expire(stale) ==
    /\ \A a \in stale : decision[a] = "pending"
    /\ decision' = [a \in Approvals |-> IF a \in stale THEN "expired" ELSE decision[a]]
    /\ UNCHANGED <<budget, month, made, about, bought>>

\* A purchase may have begun in an earlier month than it is seen in.
Buy(a, q) ==
    /\ decision[a] = "approved"
    /\ about[a] = q
    /\ Cardinality({i \in 1 .. Len(bought) : bought[i].month = made[q]}) < budget
    /\ \E m \in made[q] .. month :
          bought' = Append(bought, [approval |-> a, quote |-> q, month |-> m])
    /\ UNCHANGED <<budget, month, made, decision, about>>

Next ==
    \/ NextMonth \/ \E q \in Quotes : Quote(q)
    \/ \E a \in Approvals, q \in Quotes : Ask(a, q) \/ Buy(a, q)
    \/ \E a \in Approvals, d \in {"approved", "rejected", "expired"} : Decide(a, d)
    \/ \E stale \in SUBSET Approvals : Expire(stale)

Spec == Init /\ [][Next]_vars
=============================================================================
