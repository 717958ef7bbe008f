----------------------------- MODULE RefundProofs -----------------------------
(***************************************************************************)
(* Theorems about RefundLedger and GatewayRefunds.  For every set of       *)
(* workers, references and payments, calls that fail, workers that die or  *)
(* are too late, and any limit of attempts: what the ledger says of an     *)
(* operation is what its rail did, once; together the operations take no   *)
(* more than was paid; and leases are kept.  For every set of threads and  *)
(* requests and every total: what the gateway records is what the merchant *)
(* gave, and what the agents say of an order is not more than happened.    *)
(***************************************************************************)
EXTENDS GatewayRefunds, RefundLedger, Integers, FiniteSets, Functions, FiniteSetTheorems,
        SequenceTheorems, WellFoundedInduction, TLAPS

(***************************************************************************)
(* What the sums of the models (SumFunction of the community modules) are: *)
(* a sum over a finite set is the value at any one of its elements and the *)
(* sum over the others.                                                    *)
(*                                                                         *)
(* A sum is a fold, and folds are recursive functions on sets.  That they  *)
(* exist, and what they compute, is shown by way of a smallest set for     *)
(* which it would be wrong.                                                *)
(***************************************************************************)

(***************************************************************************)
(* Smallest sets                                                           *)
(***************************************************************************)
LEMMA LeastNumber ==
    ASSUME NEW N \in SUBSET Nat, N # {}
    PROVE  \E m \in N : \A k \in N : m <= k
<1>1. PICK m \in N : \A k \in N : <<k, m>> \notin OpToRel(<, Nat)
  BY WFMin, NatLessThanWellFounded, Zenon
<1>2. \A k \in N : ~(k < m)
  BY <1>1, Zenon DEF OpToRel
<1>. QED
  BY <1>2

\* Of some subsets of a finite set, one has no subset with one element less.
LEMMA SmallestSet ==
    ASSUME NEW S, IsFiniteSet(S), NEW F \in SUBSET (SUBSET S), F # {}
    PROVE  \E T \in F : \A x \in T : T \ {x} \notin F
<1>. DEFINE N == {Cardinality(T) : T \in F}
<1>1. \A T \in F : IsFiniteSet(T) /\ Cardinality(T) \in Nat
  BY FS_Subset, FS_CardinalityType
<1>2. N \in SUBSET Nat /\ N # {}
  BY <1>1
<1>3. PICK T \in F : \A U \in F : Cardinality(T) <= Cardinality(U)
  <2>1. PICK m \in N : \A k \in N : m <= k
    BY <1>2, LeastNumber
  <2>. QED
    BY <2>1
<1>4. ASSUME NEW x \in T
      PROVE  T \ {x} \notin F
  <2>1. Cardinality(T \ {x}) = Cardinality(T) - 1
    BY <1>1, FS_RemoveElement
  <2>. QED
    BY <1>1, <1>3, <2>1
<1>. QED
  BY <1>4

(***************************************************************************)
(* The recursive function behind a sum                                     *)
(***************************************************************************)
Some(s) == CHOOSE x \in s : TRUE

Rest(s) == s \ {Some(s)}

\* it sums f over the subsets of S.
Adds(f, it, S) ==
    it = [s \in SUBSET S |-> IF s = {} THEN 0 ELSE f[Some(s)] + it[Rest(s)]]

LEMMA SumIsIterated ==
    ASSUME NEW f, NEW S
    PROVE  SumFunctionOnSet(f, S) = (CHOOSE it : Adds(f, it, S))[S]
BY DEF SumFunctionOnSet, FoldFunctionOnSet, MapThenFoldSet, Adds, Some, Rest

LEMMA SomeOfIt == ASSUME NEW s, s # {} PROVE Some(s) \in s
BY DEF Some

\* Sums over the sets of up to n elements.
Small(S, n) == {s \in SUBSET S : Cardinality(s) <= n}

AddsUpTo(f, g, S, n) ==
    /\ g \in [Small(S, n) -> Int]
    /\ \A s \in Small(S, n) : g[s] = IF s = {} THEN 0 ELSE f[Some(s)] + g[Rest(s)]

LEMMA RestIsSmaller ==
    ASSUME NEW S, IsFiniteSet(S), NEW n \in Nat, NEW s \in Small(S, n), s # {}
    PROVE  Some(s) \in S /\ n > 0 /\ Rest(s) \in Small(S, n - 1)
<1>1. IsFiniteSet(s) /\ Cardinality(s) \in Nat /\ Cardinality(s) <= n
  BY FS_Subset, FS_CardinalityType DEF Small
<1>2. Some(s) \in s
  BY SomeOfIt
<1>3. Cardinality(Rest(s)) = Cardinality(s) - 1 /\ Cardinality(s) # 0
  BY <1>1, <1>2, FS_RemoveElement, FS_EmptySet DEF Rest
<1>. QED
  BY <1>1, <1>2, <1>3 DEF Small, Rest

LEMMA SumsUpTo ==
    ASSUME NEW S, IsFiniteSet(S), NEW f, \A x \in S : f[x] \in Int, NEW n \in Nat
    PROVE  \E g : AddsUpTo(f, g, S, n)
<1>. DEFINE Bad == {m \in Nat : ~\E g : AddsUpTo(f, g, S, m)}
<1>. SUFFICES ASSUME Bad # {} PROVE FALSE
  OBVIOUS
<1>1. PICK m \in Bad : \A k \in Bad : m <= k
  BY LeastNumber
<1>2. CASE m = 0
  <2>. DEFINE g == [s \in Small(S, 0) |-> 0]
  <2>1. \A s \in Small(S, 0) : s = {}
    BY RestIsSmaller
  <2>2. AddsUpTo(f, g, S, 0)
    BY <2>1 DEF AddsUpTo
  <2>. QED
    BY <1>2, <2>2
<1>3. CASE m # 0
  <2>1. m - 1 \in Nat /\ m - 1 \notin Bad
    BY <1>1, <1>3
  <2>2. PICK g : AddsUpTo(f, g, S, m - 1)
    BY <2>1
  <2>. DEFINE h == [s \in Small(S, m) |-> IF s = {} THEN 0 ELSE f[Some(s)] + g[Rest(s)]]
  <2>3. h \in [Small(S, m) -> Int]
    BY <2>2, RestIsSmaller DEF AddsUpTo
  <2>4. Small(S, m - 1) \subseteq Small(S, m)
    <3>1. \A s \in SUBSET S : Cardinality(s) \in Nat
      BY FS_Subset, FS_CardinalityType
    <3>. QED
      BY <3>1 DEF Small
  <2>5. \A s \in Small(S, m - 1) : h[s] = g[s]
    BY <2>2, <2>4 DEF AddsUpTo
  <2>6. \A s \in Small(S, m) : h[s] = IF s = {} THEN 0 ELSE f[Some(s)] + h[Rest(s)]
    BY <2>5, RestIsSmaller
  <2>7. AddsUpTo(f, h, S, m)
    BY <2>3, <2>6 DEF AddsUpTo
  <2>. QED
    BY <2>7
<1>. QED
  BY <1>2, <1>3

LEMMA SumsExist ==
    ASSUME NEW S, IsFiniteSet(S), NEW f, \A x \in S : f[x] \in Int
    PROVE  \E it : Adds(f, it, S)
<1>1. \A s \in SUBSET S : Cardinality(s) <= Cardinality(S)
  BY FS_Subset
<1>2. Small(S, Cardinality(S)) = SUBSET S /\ Cardinality(S) \in Nat
  BY <1>1, FS_CardinalityType DEF Small
<1>3. PICK g : AddsUpTo(f, g, S, Cardinality(S))
  BY <1>2, SumsUpTo
<1>4. Adds(f, g, S)
  BY <1>2, <1>3 DEF Adds, AddsUpTo
<1>. QED
  BY <1>4

\* Such functions are of integers, and agree where what they sum does.
LEMMA SumsAgree ==
    ASSUME NEW S, IsFiniteSet(S), NEW T, NEW f, NEW g, NEW i, NEW j,
           Adds(f, i, S), Adds(g, j, T), \A x \in S : x \in T /\ f[x] = g[x] /\ f[x] \in Int
    PROVE  \A s \in SUBSET S : i[s] = j[s] /\ i[s] \in Int
<1>. DEFINE Bad == {s \in SUBSET S : ~(i[s] = j[s] /\ i[s] \in Int)}
<1>. SUFFICES ASSUME Bad # {} PROVE FALSE
  OBVIOUS
<1>1. PICK s \in Bad : \A x \in s : s \ {x} \notin Bad
  BY SmallestSet
<1>2. /\ i[s] = IF s = {} THEN 0 ELSE f[Some(s)] + i[Rest(s)]
      /\ j[s] = IF s = {} THEN 0 ELSE g[Some(s)] + j[Rest(s)]
  BY DEF Adds
<1>3. s # {}
  BY <1>2
<1>4. Some(s) \in s /\ Rest(s) \in SUBSET S /\ Rest(s) \notin Bad
  BY <1>1, <1>3, SomeOfIt DEF Rest
<1>. QED
  BY <1>2, <1>3, <1>4

\* The order in which the elements are taken does not matter.
LEMMA SumsTakeAny ==
    ASSUME NEW S, IsFiniteSet(S), NEW f, NEW i, Adds(f, i, S), \A x \in S : f[x] \in Int
    PROVE  \A s \in SUBSET S : \A x \in s : i[s] = f[x] + i[s \ {x}]
<1>. DEFINE Bad == {s \in SUBSET S : ~\A x \in s : i[s] = f[x] + i[s \ {x}]}
<1>. SUFFICES ASSUME Bad # {} PROVE FALSE
  OBVIOUS
<1>0. \A s \in SUBSET S : i[s] \in Int
  BY SumsAgree
<1>1. PICK s \in Bad : \A x \in s : s \ {x} \notin Bad
  BY SmallestSet
<1>2. PICK x \in s : i[s] # f[x] + i[s \ {x}]
  BY <1>1
<1>. DEFINE y == Some(s)
            both == (s \ {x}) \ {y}
<1>3. y \in s /\ i[s] = f[y] + i[s \ {y}]
  BY <1>2, SomeOfIt DEF Adds, Rest
<1>4. x # y
  BY <1>2, <1>3
<1>. HIDE DEF y
<1>5. i[s \ {x}] = f[y] + i[both]
  BY <1>1, <1>3, <1>4
<1>6. i[s \ {y}] = f[x] + i[(s \ {y}) \ {x}]
  BY <1>1, <1>3, <1>4
<1>7. (s \ {y}) \ {x} = both
  OBVIOUS
<1>8. f[x] \in Int /\ f[y] \in Int /\ i[both] \in Int
  BY <1>0, <1>3
<1>. HIDE DEF both
<1>9. i[s] = f[y] + (f[x] + i[both])
  BY <1>3, <1>6, <1>7
<1>10. f[x] + i[s \ {x}] = f[x] + (f[y] + i[both])
  BY <1>5
<1>11. f[y] + (f[x] + i[both]) = f[x] + (f[y] + i[both])
  BY <1>8
<1>. QED
  BY <1>2, <1>9, <1>10, <1>11

(***************************************************************************)
(* Sums                                                                    *)
(***************************************************************************)
LEMMA SumAdds ==
    ASSUME NEW S, IsFiniteSet(S), NEW f, \A x \in S : f[x] \in Int
    PROVE  \E it : Adds(f, it, S) /\ SumFunctionOnSet(f, S) = it[S]
<1>1. Adds(f, CHOOSE it : Adds(f, it, S), S)
  BY SumsExist
<1>. QED
  BY <1>1, SumIsIterated

\* A sum of integers is one; it is that of what is summed.
LEMMA SumsAreOfValues ==
    ASSUME NEW S, IsFiniteSet(S), NEW f, NEW g, \A x \in S : f[x] \in Int /\ f[x] = g[x]
    PROVE  /\ SumFunctionOnSet(f, S) \in Int
           /\ SumFunctionOnSet(f, S) = SumFunctionOnSet(g, S)
<1>1. PICK i : Adds(f, i, S) /\ SumFunctionOnSet(f, S) = i[S]
  BY SumAdds
<1>2. PICK j : Adds(g, j, S) /\ SumFunctionOnSet(g, S) = j[S]
  BY SumAdds
<1>3. i[S] = j[S] /\ i[S] \in Int
  BY <1>1, <1>2, SumsAgree
<1>. QED
  BY <1>1, <1>2, <1>3

\* Nothing adds up to zero.
LEMMA SumOfNothing == ASSUME NEW f PROVE SumFunctionOnSet(f, {}) = 0
<1>1. IsFiniteSet({})
  BY FS_EmptySet
<1>2. PICK i : Adds(f, i, {}) /\ SumFunctionOnSet(f, {}) = i[{}]
  BY <1>1, SumAdds
<1>. QED
  BY <1>2 DEF Adds

\* A sum is any one of its values and the sum of the others.
LEMMA SumTakesAny ==
    ASSUME NEW S, IsFiniteSet(S), NEW f, \A x \in S : f[x] \in Int, NEW x \in S
    PROVE  SumFunctionOnSet(f, S) = f[x] + SumFunctionOnSet(f, S \ {x})
<1>1. IsFiniteSet(S \ {x})
  BY FS_RemoveElement
<1>2. PICK i : Adds(f, i, S) /\ SumFunctionOnSet(f, S) = i[S]
  BY SumAdds
<1>3. PICK j : Adds(f, j, S \ {x}) /\ SumFunctionOnSet(f, S \ {x}) = j[S \ {x}]
  BY <1>1, SumAdds
<1>4. j[S \ {x}] = i[S \ {x}]
  BY <1>1, <1>2, <1>3, SumsAgree
<1>5. i[S] = f[x] + i[S \ {x}]
  BY <1>2, SumsTakeAny
<1>. QED
  BY <1>2, <1>3, <1>4, <1>5

\* Where no value is more, the sum is not.
LEMMA SumsAreMonotone ==
    ASSUME NEW S, IsFiniteSet(S), NEW f, NEW g,
           \A x \in S : f[x] \in Int /\ g[x] \in Int /\ f[x] <= g[x]
    PROVE  SumFunctionOnSet(f, S) <= SumFunctionOnSet(g, S)
<1>. DEFINE Bad == {s \in SUBSET S : ~(SumFunctionOnSet(f, s) <= SumFunctionOnSet(g, s))}
<1>. SUFFICES ASSUME Bad # {} PROVE FALSE
  OBVIOUS
<1>1. PICK s \in Bad : \A x \in s : s \ {x} \notin Bad
  BY SmallestSet
<1>2. s # {}
  BY SumOfNothing
<1>3. PICK x \in s : TRUE
  BY <1>2
<1>4. IsFiniteSet(s) /\ IsFiniteSet(s \ {x})
  BY FS_Subset, FS_RemoveElement
<1>5. /\ SumFunctionOnSet(f, s) = f[x] + SumFunctionOnSet(f, s \ {x})
      /\ SumFunctionOnSet(g, s) = g[x] + SumFunctionOnSet(g, s \ {x})
  BY <1>3, <1>4, SumTakesAny
<1>6. SumFunctionOnSet(f, s \ {x}) \in Int /\ SumFunctionOnSet(g, s \ {x}) \in Int
  BY <1>4, SumsAreOfValues
<1>7. SumFunctionOnSet(f, s \ {x}) <= SumFunctionOnSet(g, s \ {x})
  BY <1>1, <1>3
<1>. QED
  BY <1>3, <1>5, <1>6, <1>7

(***************************************************************************)
(* Sums over a function                                                    *)
(***************************************************************************)
\* The sum over all that a function is defined for.
LEMMA SumType ==
    ASSUME NEW S, IsFiniteSet(S), NEW f \in [S -> Int]
    PROVE  SumFunction(f) = SumFunctionOnSet(f, S) /\ SumFunction(f) \in Int
BY SumsAreOfValues DEF SumFunction

LEMMA SumOfZeros ==
    ASSUME NEW S, IsFiniteSet(S), NEW f \in [S -> Int], \A x \in S : f[x] = 0
    PROVE  SumFunction(f) = 0
<1>. DEFINE Bad == {s \in SUBSET S : SumFunctionOnSet(f, s) # 0}
<1>1. Bad = {}
  <2>. SUFFICES ASSUME Bad # {} PROVE FALSE
    OBVIOUS
  <2>1. PICK s \in Bad : \A x \in s : s \ {x} \notin Bad
    BY SmallestSet
  <2>2. PICK x \in s : TRUE
    BY SumOfNothing
  <2>3. SumFunctionOnSet(f, s) = f[x] + SumFunctionOnSet(f, s \ {x})
    BY <2>2, FS_Subset, SumTakesAny
  <2>. QED
    BY <2>1, <2>2, <2>3
<1>. QED
  BY <1>1, SumType

LEMMA SumOfNaturals ==
    ASSUME NEW S, IsFiniteSet(S), NEW f \in [S -> Nat]
    PROVE  SumFunction(f) \in Nat
<1>. DEFINE z == [x \in S |-> 0]
<1>1. f \in [S -> Int] /\ z \in [S -> Int] /\ \A x \in S : z[x] <= f[x] /\ z[x] = 0
  OBVIOUS
<1>. HIDE DEF z
<1>2. SumFunctionOnSet(z, S) <= SumFunctionOnSet(f, S)
  BY <1>1, SumsAreMonotone
<1>. QED
  BY <1>1, <1>2, SumOfZeros, SumType

\* A value is replaced.
LEMMA SumOfUpdate ==
    ASSUME NEW S, IsFiniteSet(S), NEW f \in [S -> Int], NEW g \in [S -> Int], NEW x \in S,
           \A y \in S : y # x => g[y] = f[y]
    PROVE  SumFunction(g) = SumFunction(f) - f[x] + g[x]
<1>. DEFINE T == S \ {x}
<1>1. IsFiniteSet(T) /\ \A y \in T : g[y] = f[y]
  BY FS_RemoveElement
<1>2. /\ SumFunctionOnSet(f, S) = f[x] + SumFunctionOnSet(f, T)
      /\ SumFunctionOnSet(g, S) = g[x] + SumFunctionOnSet(g, T)
  BY <1>1, SumTakesAny
<1>3. SumFunctionOnSet(f, T) = SumFunctionOnSet(g, T) /\ SumFunctionOnSet(f, T) \in Int
  BY <1>1, SumsAreOfValues
<1>4. SumFunction(f) = SumFunctionOnSet(f, S) /\ SumFunction(g) = SumFunctionOnSet(g, S)
  BY <1>1, SumType
<1>. QED
  BY <1>1, <1>2, <1>3, <1>4

\* A value is added at the end of what is summed.
LEMMA SumOfExtension ==
    ASSUME NEW S, IsFiniteSet(S), NEW T, NEW x \in T, S = T \ {x}, NEW f \in [S -> Int],
           NEW g \in [T -> Int], \A y \in S : g[y] = f[y]
    PROVE  SumFunction(g) = SumFunction(f) + g[x]
<1>1. IsFiniteSet(T)
  <2>1. T = S \cup {x}
    OBVIOUS
  <2>. QED
    BY <2>1, FS_AddElement
<1>2. SumFunctionOnSet(g, T) = g[x] + SumFunctionOnSet(g, S)
  BY <1>1, SumTakesAny
<1>3. SumFunctionOnSet(f, S) = SumFunctionOnSet(g, S) /\ SumFunctionOnSet(f, S) \in Int
  BY SumsAreOfValues
<1>4. SumFunction(f) = SumFunctionOnSet(f, S) /\ SumFunction(g) = SumFunctionOnSet(g, T)
  BY <1>1, SumType
<1>. QED
  BY <1>2, <1>3, <1>4

USE RequestsAreRefunds

(***************************************************************************)
(* The inductive invariant                                                 *)
(***************************************************************************)
States == {"none", "reserved", "prepared", "pending", "requires_action", "succeeded",
           "failed", "canceled", "review_required"}
Operation == [state : States, amount : Nat, reference : {Nothing, 1} \cup Bytes, version : Nat]
Said == [reference : {1} \cup Bytes, state : States]

StripePlaces == {"create", "retrieve"}
TempoPlaces == {"prepare", "save", "reread", "receipt", "broadcast", "receipt again"}
Advancing == StripePlaces \cup TempoPlaces \cup {"write"}

Job == [at : {"idle", "load", "get", "finish"} \cup Advancing, key : References \cup {Nothing},
        amount : Nat, op : Operation, got : {Nothing} \cup Bytes \cup Said, lease : Nat,
        late : BOOLEAN]
Place == [attempts : Nat, lease : Nat, live : BOOLEAN, due : BOOLEAN]
StripeRefund == [first : {"pending", "succeeded"},
                 now : {"pending", "requires_action", "succeeded", "failed", "canceled"}]
Refunds == Seq(StripeRefund)
Lane == [sent : SUBSET Bytes, mined : Bytes \cup {Nothing},
         status : {"none", "success", "reverted", "other"}]

Types ==
    /\ payment \in Payments
    /\ ledger \in [References -> Operation]
    /\ age \in [References -> {"fresh", "old", "forgotten"}]
    /\ queue \in [References -> Place]
    /\ work \in [Workers -> Job]
    /\ stripe \in [References -> Refunds]
    /\ chain \in [References -> Lane]

\* A state that may be put on record: what is final is so on the rail.
Told(state, entries, lane) ==
    /\ state = "succeeded" =>
          lane.status = "success" \/ (entries # <<>> /\ entries[1].now = "succeeded")
    /\ state \in Lost =>
          lane.status = "reverted" \/ (entries # <<>> /\ entries[1].now \in Lost)

\* An operation of the ledger and its rail, which is Stripe or not.
EntryFits(atStripe, op, entries, lane) ==
    /\ (op.version = 0) <=> (op.reference = Nothing)
    /\ op.state = "none" => op.version = 0
    /\ Len(entries) <= 1
    /\ entries # <<>> => (entries[1].first = "succeeded" => entries[1].now = "succeeded")
    /\ IF atStripe THEN /\ op.reference \in {Nothing, 1} /\ lane.sent = {}
                        /\ op.reference # Nothing => entries # <<>>
       ELSE op.reference \in {Nothing} \cup Bytes /\ entries = <<>>
    /\ lane.sent \subseteq {op.reference}
    /\ lane.mined # Nothing => lane.mined \in lane.sent
    /\ (lane.mined = Nothing) <=> (lane.status = "none")
    /\ Told(op.state, entries, lane)

\* A worker read what is still on record, or something older; its identity lasts.
Read(job, op) ==
    /\ job.op.state # "none"
    /\ job.op.version <= op.version
    /\ job.op.version = op.version => job.op = op
    /\ job.op.reference # Nothing => op.reference = job.op.reference

JobFits(atStripe, job, op, entries, lane, old) ==
    /\ job.at \in Advancing => Read(job, op)
    /\ IF atStripe THEN job.at \notin TempoPlaces ELSE job.at \notin StripePlaces
    /\ job.at = "create" => old # "forgotten"
    /\ job.at \in {"retrieve", "receipt", "broadcast", "receipt again"} =>
          job.op.reference # Nothing
    /\ job.at \in {"prepare", "save"} => job.op.reference = Nothing
    /\ job.at \in {"save", "reread"} => job.got \in Bytes
    /\ job.at = "reread" => op.version > 0
    /\ job.at = "write" =>
          /\ job.got \in Said /\ job.got.state # "none"
          /\ Told(job.got.state, entries, lane)
          /\ IF atStripe THEN job.got.reference = 1 /\ entries # <<>>
             ELSE job.got.reference \in Bytes /\ job.got.reference = job.op.reference

AtStripe == payment.rail = "stripe"
Entry(k) == EntryFits(AtStripe, ledger[k], stripe[k], chain[k])
Fits(w) ==
    LET k == work[w].key IN
    work[w].at # "idle" =>
        /\ k \in References
        /\ JobFits(AtStripe, work[w], ledger[k], stripe[k], chain[k], age[k])

RInv == Types /\ (\A k \in References : Entry(k)) /\ (\A w \in Workers : Fits(w))

\* Leases are numbered as the attempts are, so no two workers ever had the same.
Leased(w) ==
    LET k == work[w].key IN
    work[w].lease > 0 =>
        /\ k \in References
        /\ work[w].lease <= queue[k].attempts
        /\ ~work[w].late => queue[k].lease = work[w].lease /\ queue[k].live
        /\ \A v \in Workers : work[v].key = k /\ work[v].lease = work[w].lease => v = w

LInv == \A w \in Workers : Leased(w)

IInv == RInv /\ LInv

(***************************************************************************)
(* Turns of one worker                                                     *)
(***************************************************************************)
\* What a worker is when it is over, and the parts that every job has.
LEMMA JobsAreTyped ==
    ASSUME Types, NEW w \in Workers
    PROVE  /\ NoOperation \in Operation /\ NotWorking \in Job /\ work[w] \in Job
           /\ Over(w) \in Job /\ Over(w).at \in {"idle", "finish"}
           /\ Over(w).at = "finish" => Over(w).key = work[w].key
<1>1. NoOperation \in Operation
  BY DEF NoOperation, Operation, States
<1>2. NotWorking \in Job
  BY <1>1 DEF NotWorking, Job
<1>3. work[w] \in Job
  BY DEF Types
<1>4. Over(w) \in Job /\ Over(w).at \in {"idle", "finish"}
                      /\ (Over(w).at = "finish" => Over(w).key = work[w].key)
  BY <1>1, <1>2, <1>3 DEF Over, Job, NotWorking
<1>. QED
  BY <1>1, <1>2, <1>3, <1>4

\* A worker that does nothing yet, or has done all, fits any operation.
LEMMA RestingFits ==
    ASSUME NEW s, NEW job, job.at \in {"load", "get", "finish"},
           NEW op, NEW entries, NEW lane, NEW old
    PROVE  JobFits(s, job, op, entries, lane, old)
  BY DEF JobFits, Advancing, StripePlaces, TempoPlaces

\* A turn that writes nothing disturbs nobody.
LEMMA TurnFits ==
    ASSUME RInv, NEW w \in Workers, NEW to \in Job, Turns(w, to),
           UNCHANGED <<payment, ledger, age, rails>>, queue' \in [References -> Place],
           to.at # "idle" =>
              /\ to.key \in References
              /\ JobFits(AtStripe, to, ledger[to.key], stripe[to.key], chain[to.key], age[to.key])
    PROVE  RInv'
<1>1. work' \in [Workers -> Job] /\ \A v \in Workers : work'[v] = IF v = w THEN to ELSE work[v]
  BY DEF RInv, Types, Turns
<1>2. Types'
  BY <1>1 DEF RInv, Types, rails
<1>3. ASSUME NEW k \in References PROVE Entry(k)'
  BY <1>3 DEF RInv, Entry, AtStripe, rails
<1>4. ASSUME NEW v \in Workers PROVE Fits(v)'
  BY <1>1, <1>4 DEF RInv, Fits, AtStripe, rails
<1>. QED
  BY <1>2, <1>3, <1>4 DEF RInv

LEMMA RestTurn ==
    ASSUME RInv, NEW w \in Workers, NEW to \in Job, Turns(w, to),
           UNCHANGED <<payment, ledger, age, rails>>, queue' \in [References -> Place],
           to.at \in {"idle", "load", "get", "finish"},
           to.at # "idle" => to.key \in References
    PROVE  RInv'
<1>1. to.at # "idle" =>
          JobFits(AtStripe, to, ledger[to.key], stripe[to.key], chain[to.key], age[to.key])
  BY RestingFits
<1>. QED
  BY <1>1, TurnFits

\* Calls that fail and workers that die.
LEMMA OverTurn ==
    ASSUME RInv, NEW w \in Workers, work[w].at # "idle",
           Turns(w, Over(w)) \/ Turns(w, NotWorking),
           UNCHANGED <<payment, ledger, age, queue, rails>>
    PROVE  RInv'
<1>1. work[w].key \in References /\ queue' \in [References -> Place] /\ Types
  BY DEF RInv, Fits, Types
<1>2. CASE Turns(w, Over(w))
  BY <1>1, <1>2, JobsAreTyped, RestTurn
<1>3. CASE Turns(w, NotWorking)
  <2>1. NotWorking \in Job /\ NotWorking.at = "idle"
    BY <1>1, JobsAreTyped DEF NotWorking
  <2>. QED
    BY <1>1, <1>3, <2>1, RestTurn
<1>. QED
  BY <1>2, <1>3

\* What a worker takes up is what the operation needs.
LEMMA TakesUp ==
    ASSUME RInv, NEW w \in Workers, work[w].at \in {"load", "get"},
           NEW k \in References, k = work[w].key, ledger[k].state # "none",
           Takes(w, k, ledger[k]), UNCHANGED <<payment, ledger, age, queue, rails>>
    PROVE  RInv'
<1>. DEFINE op == ledger[k]
            to == [work[w] EXCEPT !.at = Turn(k, op), !.op = op]
<1>1. CASE Turn(k, op) = "over"
  BY <1>1, OverTurn DEF Takes
<1>2. CASE Turn(k, op) # "over"
  <2>1. Turns(w, to)
    BY <1>2 DEF Takes
  <2>2. op \in Operation /\ work[w] \in Job /\ Entry(k) /\ queue' \in [References -> Place]
    BY DEF RInv, Types
  <2>3. Turn(k, op) \in (IF AtStripe THEN StripePlaces ELSE {"prepare", "receipt"})
    BY <1>2 DEF Turn, AtStripe, StripePlaces
  <2>4. to \in Job /\ to.at = Turn(k, op) /\ to.op = op /\ to.key = k
    BY <2>2, <2>3 DEF Job, Advancing, StripePlaces, TempoPlaces
  <2>5. /\ Turn(k, op) = "create" => age[k] = "fresh"
        /\ Turn(k, op) \in {"retrieve", "receipt"} => op.reference # Nothing
        /\ Turn(k, op) = "prepare" => op.reference = Nothing
    BY DEF Turn
  <2>6. Read(to, op)
    BY <2>2, <2>4 DEF Read, Operation
  <2>7. JobFits(AtStripe, to, op, stripe[k], chain[k], age[k])
    BY <2>3, <2>4, <2>5, <2>6 DEF JobFits, StripePlaces, TempoPlaces
  <2>. QED
    BY <2>1, <2>2, <2>4, <2>7, TurnFits
<1>. QED
  BY <1>1, <1>2

(***************************************************************************)
(* Writes to the ledger                                                    *)
(***************************************************************************)
\* An operation that is written is one.
LEMMA NewEntry ==
    ASSUME NEW op \in Operation, NEW state \in States, NEW reference \in {1} \cup Bytes
    PROVE  [op EXCEPT !.state = state, !.reference = reference, !.version = @ + 1] \in Operation
<1>1. [op EXCEPT !.state = state] \in Operation
  BY DEF Operation
<1>2. [op EXCEPT !.state = state, !.reference = reference] \in Operation
  BY <1>1 DEF Operation
<1>3. op.version + 1 \in Nat
  BY DEF Operation
<1>4. ASSUME NEW n \in Nat, NEW r \in Operation PROVE [r EXCEPT !.version = n] \in Operation
  BY DEF Operation
<1>. QED
  BY <1>2, <1>3, <1>4

\* A write is over the operation that was read, and keeps an identity that there
\* is; whoever read the operation before read something older.
LEMMA WriteTurn ==
    ASSUME RInv, NEW w \in Workers, work[w].at \in Advancing,
           NEW k \in References, k = work[w].key,
           NEW state \in States, NEW reference \in {1} \cup Bytes,
           Write(k, work[w].op, state, reference),
           NEW to \in Job, Turns(w, to), to.at # "idle" => to.key = k,
           UNCHANGED <<payment, age, queue, rails>>,
           state # "none", Told(state, stripe[k], chain[k]),
           work[w].op.reference \in {Nothing, reference},
           IF AtStripe THEN reference = 1 /\ stripe[k] # <<>> ELSE reference \in Bytes,
           \/ to.at \in {"idle", "finish"}
           \/ /\ to.at = "reread" /\ work[w].at = "save" /\ to = [work[w] EXCEPT !.at = "reread"]
    PROVE  RInv'
<1>. DEFINE op == ledger[k]
            new == [op EXCEPT !.state = state, !.reference = reference, !.version = @ + 1]
<1>1. /\ op \in Operation /\ work[w] \in Job /\ Entry(k) /\ Types
      /\ \A v \in Workers : work[v] \in Job /\ Fits(v)
      /\ Read(work[w], op) /\ work[w].op \in Operation
      /\ JobFits(AtStripe, work[w], op, stripe[k], chain[k], age[k])
  BY DEF RInv, Types, Fits, JobFits, Advancing, Job, StripePlaces, TempoPlaces
<1>2. /\ new \in Operation /\ new.state = state /\ new.reference = reference
      /\ new.version = op.version + 1 /\ new.version > 0 /\ op.version \in Nat
  <2>1. op.version \in Nat /\ op \in Operation
    BY <1>1 DEF Operation
  <2>2. new \in Operation
    BY <2>1, NewEntry
  <2>3. new.state = state /\ new.reference = reference /\ new.version = op.version + 1
    BY <2>1 DEF Operation
  <2>. QED
    BY <2>1, <2>2, <2>3
<1>3. /\ work' \in [Workers -> Job]
      /\ \A v \in Workers : work'[v] = IF v = w THEN to ELSE work[v]
  BY DEF RInv, Types, Turns
<1>4. \/ ledger' = [ledger EXCEPT ![k] = new] /\ work[w].op = op
      \/ ledger' = ledger /\ work[w].op.version < op.version
  <2>1. CASE op.version = work[w].op.version
    <3>1. work[w].op = op
      BY <1>1, <2>1 DEF Read
    <3>2. ledger' = [ledger EXCEPT ![k] = new]
      BY <2>1 DEF Write
    <3>. QED
      BY <3>1, <3>2
  <2>2. CASE op.version # work[w].op.version
    BY <1>1, <2>2 DEF Write, Read, Operation
  <2>. QED
    BY <2>1, <2>2
<1>5. \/ ledger' = ledger
      \/ \A j \in References : ledger'[j] = IF j = k THEN new ELSE ledger[j]
  BY <1>1, <1>4 DEF Types
<1>. HIDE DEF new
<1>6. Types'
  <2>1. ledger' \in [References -> Operation]
    BY <1>1, <1>2, <1>4 DEF Types
  <2>. QED
    BY <1>1, <1>3, <2>1 DEF Types, rails
<1>7. CASE work[w].op = op /\ ledger' = [ledger EXCEPT ![k] = new]
  <2>1. ledger'[k] = new /\ \A j \in References \ {k} : ledger'[j] = ledger[j]
    BY <1>1, <1>7 DEF Types
  <2>2. op.reference \in {Nothing, reference} /\ chain[k].sent \subseteq {reference}
    <3>1. op.reference \in {Nothing, reference} /\ chain[k] \in Lane
      BY <1>1, <1>7 DEF Types
    <3>2. chain[k].sent \subseteq {op.reference} /\ Nothing \notin chain[k].sent
      BY <1>1, <3>1 DEF Entry, EntryFits, Lane
    <3>. QED
      BY <3>1, <3>2
  <2>3. EntryFits(AtStripe, new, stripe[k], chain[k])
    BY <1>1, <1>2, <2>2 DEF Entry, EntryFits
  <2>4. ASSUME NEW j \in References PROVE Entry(j)'
    BY <2>1, <2>3, <2>4 DEF RInv, Entry, AtStripe, rails
  <2>5. ASSUME NEW v \in Workers, v # w PROVE Fits(v)'
    <3>1. Read(work[v], op) /\ work[v].op \in Operation /\ op.reference \in {Nothing, reference}
             => Read(work[v], new)
      BY <1>1, <1>2 DEF Read, Operation
    <3>2. CASE work[v].key = k /\ work[v].at # "idle"
      <4>1. JobFits(AtStripe, work[v], op, stripe[k], chain[k], age[k]) /\ work[v].op \in Operation
        BY <1>1, <3>2 DEF Fits, Job
      <4>2. JobFits(AtStripe, work[v], new, stripe[k], chain[k], age[k])
        BY <1>2, <2>2, <3>1, <4>1 DEF JobFits
      <4>. QED
        BY <1>3, <2>1, <2>5, <3>2, <4>2 DEF Fits, AtStripe, rails
    <3>3. CASE work[v].key # k \/ work[v].at = "idle"
      BY <1>1, <1>3, <2>1, <2>5, <3>3 DEF Fits, AtStripe, rails
    <3>. QED
      BY <3>2, <3>3
  <2>6. Fits(w)'
    <3>1. CASE to.at \in {"idle", "finish"}
      <4>1. to.at = "finish" => JobFits(AtStripe, to, new, stripe[k], chain[k], age[k])
        BY RestingFits
      <4>. QED
        BY <1>3, <2>1, <3>1, <4>1 DEF Fits, AtStripe, rails
    <3>2. CASE to = [work[w] EXCEPT !.at = "reread"] /\ work[w].at = "save"
      <4>1. /\ to.at = "reread" /\ to.op = op /\ to.got = work[w].got /\ to.got \in Bytes
            /\ ~AtStripe
        BY <1>1, <1>7, <3>2 DEF Job, JobFits, TempoPlaces
      <4>2. Read(to, new)
        BY <1>1, <1>2, <1>7, <2>2, <4>1 DEF Read, Operation
      <4>3. JobFits(AtStripe, to, new, stripe[k], chain[k], age[k])
        BY <1>2, <4>1, <4>2 DEF JobFits, StripePlaces
      <4>. QED
        BY <1>3, <2>1, <3>2, <4>1, <4>3 DEF Fits, AtStripe, rails
    <3>. QED
      BY <3>1, <3>2
  <2>. QED
    BY <1>6, <2>4, <2>5, <2>6 DEF RInv
<1>8. CASE ledger' = ledger /\ work[w].op.version < op.version
  <2>1. to.at = "reread" => JobFits(AtStripe, to, op, stripe[k], chain[k], age[k])
    <3>1. to.at = "reread" => /\ to.op = work[w].op /\ to.got = work[w].got /\ to.got \in Bytes
                              /\ ~AtStripe
      BY <1>1 DEF Job, JobFits, TempoPlaces
    <3>2. to.at = "reread" => Read(to, op)
      BY <1>1, <3>1 DEF Read
    <3>3. op.version > 0
      BY <1>1, <1>8 DEF Operation
    <3>. QED
      BY <3>1, <3>2, <3>3 DEF JobFits, StripePlaces
  <2>2. to.at # "idle" => JobFits(AtStripe, to, op, stripe[k], chain[k], age[k])
    BY <2>1, RestingFits
  <2>3. queue' \in [References -> Place]
    BY <1>1 DEF Types
  <2>. QED
    BY <1>8, <2>2, <2>3, TurnFits
<1>. QED
  BY <1>4, <1>7, <1>8

LEMMA SavePreparedFits ==
    ASSUME RInv, NEW w \in Workers, SavePrepared(w) PROVE RInv'
<1>. DEFINE k == work[w].key
            to == [work[w] EXCEPT !.at = "reread"]
<1>1. /\ k \in References /\ Types /\ Entry(k)
      /\ JobFits(AtStripe, work[w], ledger[k], stripe[k], chain[k], age[k])
  BY DEF RInv, SavePrepared, Fits
<1>2. to \in Job /\ to.at = "reread" /\ to.key = k /\ Turns(w, to)
  BY <1>1 DEF SavePrepared, Goes, Types, Job, Advancing, TempoPlaces
<1>3. work[w].got \in Bytes /\ ~AtStripe /\ work[w].op.reference = Nothing
  BY <1>1 DEF SavePrepared, JobFits, TempoPlaces
<1>4. Told("prepared", stripe[k], chain[k])
  BY DEF Told, Lost
<1>5. work[w].at \in Advancing /\ "prepared" \in States
  BY DEF SavePrepared, Advancing, TempoPlaces, States
<1>6. UNCHANGED <<payment, age, queue, rails>> /\ Write(k, work[w].op, "prepared", work[w].got)
  BY DEF SavePrepared
<1>7. work[w].at = "save"
  BY DEF SavePrepared
<1>. HIDE DEF k, to
<1>8. k = work[w].key /\ to = [work[w] EXCEPT !.at = "reread"]
  BY DEF k, to
<1>. QED
  BY <1>1, <1>2, <1>3, <1>4, <1>5, <1>6, <1>7, <1>8, WriteTurn

LEMMA WriteAnswerFits ==
    ASSUME RInv, NEW w \in Workers, WriteAnswer(w) PROVE RInv'
<1>. DEFINE k == work[w].key
            got == work[w].got
<1>1. /\ k \in References /\ Types /\ Entry(k)
      /\ JobFits(AtStripe, work[w], ledger[k], stripe[k], chain[k], age[k])
  BY DEF RInv, WriteAnswer, Fits
<1>2. /\ work[w].at = "write" /\ work[w].at \in Advancing
      /\ Write(k, work[w].op, got.state, got.reference) /\ Turns(w, Over(w))
      /\ UNCHANGED <<payment, age, queue, rails>>
  BY DEF WriteAnswer, Advancing
<1>3. /\ got \in Said /\ got.state # "none" /\ Told(got.state, stripe[k], chain[k])
      /\ Read(work[w], ledger[k])
      /\ IF AtStripe THEN got.reference = 1 /\ stripe[k] # <<>>
         ELSE got.reference \in Bytes /\ got.reference = work[w].op.reference
  BY <1>1, <1>2 DEF JobFits
<1>4. got.state \in States /\ got.reference \in {1} \cup Bytes
  BY <1>3 DEF Said
<1>5. work[w].op.reference \in {Nothing, got.reference}
  <2>1. AtStripe => ledger[k].reference \in {Nothing, 1}
    BY <1>1 DEF Entry, EntryFits
  <2>. QED
    BY <1>3, <2>1 DEF Read
<1>6. /\ Over(w) \in Job /\ Over(w).at \in {"idle", "finish"}
      /\ Over(w).at # "idle" => Over(w).key = k
  BY <1>1, JobsAreTyped
<1>7. k = work[w].key
  OBVIOUS
<1>. HIDE DEF k, got
<1>. QED
  BY <1>1, <1>2, <1>3, <1>4, <1>5, <1>6, <1>7, WriteTurn

(***************************************************************************)
(* Requests and what they take up                                          *)
(***************************************************************************)
LEMMA LoadFits ==
    ASSUME RInv, NEW w \in Workers, Load(w) PROVE RInv'
<1>. DEFINE k == work[w].key
<1>1. k \in References /\ work[w].at = "load" /\ UNCHANGED <<payment, ledger, age, queue, rails>>
  BY DEF RInv, Load, Fits
<1>2. CASE ledger[k].state = "none" \/ ledger[k].amount # work[w].amount
  BY <1>1, <1>2, OverTurn DEF Load
<1>3. CASE ~(ledger[k].state = "none" \/ ledger[k].amount # work[w].amount)
  BY <1>1, <1>3, TakesUp DEF Load
<1>. QED
  BY <1>2, <1>3

LEMMA GetFits ==
    ASSUME RInv, NEW w \in Workers, Get(w) PROVE RInv'
<1>. DEFINE k == work[w].key
<1>1. k \in References /\ work[w].at = "get" /\ UNCHANGED <<payment, ledger, age, queue, rails>>
  BY DEF RInv, Get, Fits
<1>2. CASE ledger[k].state \in Open
  BY <1>1, <1>2, TakesUp DEF Get, Open
<1>3. CASE ledger[k].state \notin Open
  BY <1>1, <1>3, OverTurn DEF Get
<1>. QED
  BY <1>2, <1>3

\* A worker that only goes on to another place of its turn.
LEMMA GoFits ==
    ASSUME RInv, NEW w \in Workers, work[w].at \in Advancing, NEW at \in Advancing,
           NEW got \in {Nothing} \cup Bytes \cup Said,
           Turns(w, [work[w] EXCEPT !.at = at, !.got = got]),
           UNCHANGED <<payment, ledger, age, queue, rails>>,
           LET k == work[w].key  to == [work[w] EXCEPT !.at = at, !.got = got] IN
              JobFits(AtStripe, work[w], ledger[k], stripe[k], chain[k], age[k])
                => JobFits(AtStripe, to, ledger[k], stripe[k], chain[k], age[k])
    PROVE  RInv'
<1>. DEFINE to == [work[w] EXCEPT !.at = at, !.got = got]
<1>1. work[w].key \in References /\ work[w] \in Job /\ queue' \in [References -> Place]
      /\ JobFits(AtStripe, work[w], ledger[work[w].key], stripe[work[w].key],
                 chain[work[w].key], age[work[w].key])
  BY DEF RInv, Types, Fits, Advancing, StripePlaces, TempoPlaces
<1>2. to \in Job /\ to.key = work[w].key
  BY <1>1 DEF Job
<1>3. to.at # "idle" =>
          /\ to.key \in References
          /\ JobFits(AtStripe, to, ledger[to.key], stripe[to.key], chain[to.key], age[to.key])
  BY <1>1, <1>2
<1>4. Turns(w, to)
  OBVIOUS
<1>. HIDE DEF to
<1>. QED
  BY <1>1, <1>2, <1>3, <1>4, TurnFits

\* What Stripe says of a refund that it has.
LEMMA FirstRefund ==
    ASSUME NEW r \in Refunds, r # <<>>
    PROVE  /\ 1 \in 1 .. Len(r)
           /\ r[1].now \in {"pending", "requires_action", "succeeded", "failed", "canceled"}
           /\ r[1].first \in {"pending", "succeeded"}
<1>1. Len(r) \in Nat \ {0}
  BY EmptySeq DEF Refunds
<1>2. 1 \in 1 .. Len(r)
  BY <1>1
<1>3. r[1] \in StripeRefund
  BY <1>2, ElementOfSeq DEF Refunds
<1>. QED
  BY <1>2, <1>3 DEF StripeRefund

LEMMA StripeRetrievesFits ==
    ASSUME RInv, NEW w \in Workers, StripeRetrieves(w) PROVE RInv'
<1>. DEFINE k == work[w].key
            id == work[w].op.reference
            got == [reference |-> id, state |-> stripe[k][id].now]
            to == [work[w] EXCEPT !.at = "write", !.got = got]
<1>1. /\ k \in References /\ Types /\ Entry(k) /\ work[w] \in Job /\ work[w].at = "retrieve"
      /\ JobFits(AtStripe, work[w], ledger[k], stripe[k], chain[k], age[k])
  BY DEF RInv, StripeRetrieves, Fits, Types
<1>2. AtStripe /\ id = 1 /\ stripe[k] # <<>> /\ Read(work[w], ledger[k])
  BY <1>1 DEF JobFits, StripePlaces, TempoPlaces, Advancing, Read, Entry, EntryFits
<1>3. stripe[k][1].now \in States \ {"none"}
  BY <1>1, <1>2, FirstRefund DEF Types, States
<1>4. got \in Said /\ got.state # "none" /\ got.reference = 1
  BY <1>2, <1>3 DEF Said
<1>5. Told(got.state, stripe[k], chain[k])
  BY <1>2, <1>3 DEF Told
<1>6. to.at = "write" /\ to.got = got /\ to.op = work[w].op
  BY <1>1 DEF Job
<1>7. Read(to, ledger[k])
  BY <1>2, <1>6 DEF Read
<1>8. Turns(w, to) /\ UNCHANGED <<payment, ledger, age, queue, rails>>
  BY DEF StripeRetrieves, Gets
<1>. HIDE DEF got, to
<1>9. JobFits(AtStripe, to, ledger[k], stripe[k], chain[k], age[k])
  BY <1>2, <1>4, <1>5, <1>6, <1>7 DEF JobFits, TempoPlaces, StripePlaces
<1>10. to = [work[w] EXCEPT !.at = "write", !.got = got]
  BY DEF to
<1>. QED
  BY <1>1, <1>4, <1>8, <1>9, <1>10, GoFits DEF Advancing, StripePlaces

LEMMA PrepareFits ==
    ASSUME RInv, NEW w \in Workers, NEW bytes \in Bytes, Prepare(w, bytes) PROVE RInv'
<1>. DEFINE to == [work[w] EXCEPT !.at = "save", !.got = bytes]
<1>1. work[w] \in Job /\ work[w].at = "prepare" /\ Turns(w, to)
      /\ UNCHANGED <<payment, ledger, age, queue, rails>>
  BY DEF RInv, Types, Prepare, Gets
<1>2. to.at = "save" /\ to.got = bytes /\ to.op = work[w].op
  BY <1>1 DEF Job
<1>. HIDE DEF to
<1>3. ASSUME NEW s, NEW op, NEW entries, NEW lane, NEW old,
             JobFits(s, work[w], op, entries, lane, old)
      PROVE  JobFits(s, to, op, entries, lane, old)
  BY <1>1, <1>2, <1>3 DEF JobFits, Read, Advancing, StripePlaces, TempoPlaces
<1>4. to = [work[w] EXCEPT !.at = "save", !.got = bytes]
  BY DEF to
<1>. QED
  BY <1>1, <1>3, <1>4, GoFits DEF Advancing, TempoPlaces

LEMMA NoReceiptFits ==
    ASSUME RInv, NEW w \in Workers, NoReceipt(w) PROVE RInv'
<1>. DEFINE to == [work[w] EXCEPT !.at = "broadcast"]
<1>1. work[w] \in Job /\ work[w].at # "idle" /\ UNCHANGED <<payment, ledger, age, queue, rails>>
      /\ Types /\ Fits(w)
  BY DEF RInv, Types, NoReceipt
<1>2. CASE work[w].at = "receipt" /\ Goes(w, "broadcast")
  <2>1. to \in Job /\ to.at = "broadcast" /\ to.got = work[w].got /\ to.op = work[w].op
        /\ to.key = work[w].key
    BY <1>1, <1>2 DEF Job, Advancing, TempoPlaces
  <2>2. ASSUME NEW s, NEW op, NEW entries, NEW lane, NEW old,
               JobFits(s, work[w], op, entries, lane, old)
        PROVE  JobFits(s, to, op, entries, lane, old)
    BY <1>1, <1>2, <2>1, <2>2 DEF JobFits, Read, Advancing, StripePlaces, TempoPlaces
  <2>3. Turns(w, to) /\ queue' \in [References -> Place]
    BY <1>1, <1>2 DEF Goes, Types
  <2>. HIDE DEF to
  <2>. QED
    BY <1>1, <1>2, <2>1, <2>2, <2>3, TurnFits DEF Fits
<1>3. CASE work[w].at = "receipt again" /\ Turns(w, Over(w))
  BY <1>1, <1>3, OverTurn
<1>. QED
  BY <1>2, <1>3 DEF NoReceipt

LEMMA RereadFits ==
    ASSUME RInv, NEW w \in Workers, Reread(w) PROVE RInv'
<1>. DEFINE k == work[w].key
            to == [work[w] EXCEPT !.at = "receipt", !.op = ledger[k]]
<1>1. /\ k \in References /\ Types /\ Entry(k) /\ work[w] \in Job /\ work[w].at = "reread"
      /\ JobFits(AtStripe, work[w], ledger[k], stripe[k], chain[k], age[k])
      /\ ledger[k] \in Operation
  BY DEF RInv, Reread, Fits, Types
<1>2. to \in Job /\ to.at = "receipt" /\ to.op = ledger[k] /\ to.key = k
  BY <1>1 DEF Job, Advancing, TempoPlaces
<1>3. Turns(w, to) /\ UNCHANGED <<payment, ledger, age, queue, rails>>
      /\ queue' \in [References -> Place]
  BY <1>1 DEF Reread, Types
<1>. HIDE DEF to
<1>4. ~AtStripe /\ ledger[k].version > 0
  BY <1>1 DEF JobFits, TempoPlaces
<1>5. ledger[k].reference # Nothing /\ ledger[k].state # "none"
  BY <1>1, <1>4 DEF Entry, EntryFits, Operation
<1>6. Read(to, ledger[k])
  BY <1>1, <1>2, <1>5 DEF Read, Operation
<1>7. JobFits(AtStripe, to, ledger[k], stripe[k], chain[k], age[k])
  BY <1>2, <1>4, <1>5, <1>6 DEF JobFits, StripePlaces
<1>. QED
  BY <1>1, <1>2, <1>3, <1>7, TurnFits

LEMMA ConfirmedFits ==
    ASSUME RInv, NEW w \in Workers, Confirmed(w) PROVE RInv'
<1>. DEFINE k == work[w].key
            id == work[w].op.reference
            got == [reference |-> id, state |-> Outcome(chain[k].status)]
            to == [work[w] EXCEPT !.at = "write", !.got = got]
<1>1. /\ k \in References /\ Types /\ Entry(k) /\ work[w] \in Job
      /\ work[w].at \in {"receipt", "receipt again"} /\ chain[k].mined = id
      /\ JobFits(AtStripe, work[w], ledger[k], stripe[k], chain[k], age[k])
      /\ chain[k] \in Lane
  BY DEF RInv, Confirmed, Fits, Types
<1>2. ~AtStripe /\ id # Nothing /\ Read(work[w], ledger[k])
  BY <1>1 DEF JobFits, StripePlaces, TempoPlaces, Advancing
<1>3. id \in Bytes /\ chain[k].status \in {"success", "reverted", "other"}
  BY <1>1, <1>2 DEF Entry, EntryFits, Lane
<1>4. /\ Outcome(chain[k].status) \in {"succeeded", "failed", "review_required"}
      /\ Outcome(chain[k].status) = "succeeded" => chain[k].status = "success"
      /\ Outcome(chain[k].status) = "failed" => chain[k].status = "reverted"
  BY <1>3 DEF Outcome
<1>5. got \in Said /\ got.state # "none" /\ got.reference = id
  BY <1>3, <1>4 DEF Said, States
<1>6. Told(got.state, stripe[k], chain[k])
  BY <1>4 DEF Told, Lost
<1>7. to.at = "write" /\ to.got = got /\ to.op = work[w].op
  BY <1>1 DEF Job
<1>8. Read(to, ledger[k])
  BY <1>2, <1>7 DEF Read
<1>9. Turns(w, to) /\ UNCHANGED <<payment, ledger, age, queue, rails>>
  BY DEF Confirmed, Gets
<1>. HIDE DEF got, to
<1>10. JobFits(AtStripe, to, ledger[k], stripe[k], chain[k], age[k])
  BY <1>2, <1>3, <1>5, <1>6, <1>7, <1>8 DEF JobFits, TempoPlaces, StripePlaces
<1>11. to = [work[w] EXCEPT !.at = "write", !.got = got]
  BY DEF to
<1>. QED
  BY <1>1, <1>5, <1>9, <1>10, <1>11, GoFits DEF Advancing, TempoPlaces

(***************************************************************************)
(* Reservations                                                            *)
(***************************************************************************)
\* A worker that has read an operation has read one that was reserved.
LEMMA ReserveFits ==
    ASSUME RInv, NEW w \in Workers, NEW r \in payment.requests, Reserve(w, r.key, r.amount)
    PROVE  RInv'
<1>. DEFINE k == r.key
            new == [NoOperation EXCEPT !.state = "reserved", !.amount = r.amount]
            to == [NotWorking EXCEPT !.at = "load", !.key = k, !.amount = r.amount]
<1>1. /\ k \in References /\ r.amount \in Nat /\ Types /\ ledger[k] \in Operation /\ Entry(k)
      /\ \A v \in Workers : work[v] \in Job /\ Fits(v)
  BY DEF RInv, Types
<1>2. /\ new \in Operation /\ new.version = 0 /\ new.reference = Nothing
      /\ new.state = "reserved"
  BY <1>1 DEF NoOperation, Operation, States
<1>3. to \in Job /\ to.at = "load" /\ to.key = k
  BY <1>1, JobsAreTyped DEF NotWorking, Job
<1>4. Turns(w, to) /\ UNCHANGED <<payment, age, queue, rails>>
  BY DEF Reserve
<1>5. /\ work' \in [Workers -> Job]
      /\ \A v \in Workers : work'[v] = IF v = w THEN to ELSE work[v]
  BY <1>1, <1>3, <1>4 DEF Types, Turns
<1>6. \/ ledger' = ledger
      \/ ledger' = [ledger EXCEPT ![k] = new] /\ ledger[k].state = "none"
  BY DEF Reserve
<1>. HIDE DEF new, to
<1>7. CASE ledger' = ledger
  BY <1>1, <1>3, <1>4, <1>7, RestTurn DEF Types
<1>8. CASE ledger' = [ledger EXCEPT ![k] = new] /\ ledger[k].state = "none"
  <2>1. /\ ledger' \in [References -> Operation] /\ ledger'[k] = new
        /\ \A j \in References \ {k} : ledger'[j] = ledger[j]
    BY <1>1, <1>2, <1>8 DEF Types
  <2>2. Types'
    BY <1>1, <1>4, <1>5, <2>1 DEF Types, rails
  <2>3. ledger[k].version = 0 /\ ledger[k].reference = Nothing
    BY <1>1, <1>8 DEF Entry, EntryFits
  <2>4. Told("reserved", stripe[k], chain[k])
    BY DEF Told, Lost
  <2>5. EntryFits(AtStripe, new, stripe[k], chain[k])
    BY <1>1, <1>2, <2>3, <2>4 DEF Entry, EntryFits
  <2>6. ASSUME NEW j \in References PROVE Entry(j)'
    BY <1>4, <2>1, <2>5, <2>6 DEF RInv, Entry, AtStripe, rails
  <2>7. ASSUME NEW v \in Workers, v # w PROVE Fits(v)'
    <3>1. CASE work[v].key = k /\ work[v].at # "idle"
      <4>1. JobFits(AtStripe, work[v], ledger[k], stripe[k], chain[k], age[k])
            /\ work[v].op \in Operation
        BY <1>1, <3>1 DEF Fits, Job
      <4>2. ~Read(work[v], ledger[k])
        BY <1>1, <1>8, <2>3, <4>1 DEF Read, Operation
      <4>3. work[v].at \in {"load", "get", "finish"}
        BY <1>1, <3>1, <4>1, <4>2 DEF JobFits, Job
      <4>4. JobFits(AtStripe, work[v], new, stripe[k], chain[k], age[k])
        BY <4>3, RestingFits
      <4>. QED
        BY <1>1, <1>4, <1>5, <2>1, <2>7, <3>1, <4>4 DEF Fits, AtStripe, rails
    <3>2. CASE work[v].key # k \/ work[v].at = "idle"
      BY <1>1, <1>4, <1>5, <2>1, <2>7, <3>2 DEF Fits, AtStripe, rails
    <3>. QED
      BY <3>1, <3>2
  <2>8. Fits(w)'
    <3>1. JobFits(AtStripe, to, new, stripe[k], chain[k], age[k])
      BY <1>3, RestingFits
    <3>. QED
      BY <1>1, <1>3, <1>4, <1>5, <2>1, <3>1 DEF Fits, AtStripe, rails
  <2>. QED
    BY <2>2, <2>6, <2>7, <2>8 DEF RInv
<1>. QED
  BY <1>6, <1>7, <1>8

(***************************************************************************)
(* The rails                                                               *)
(***************************************************************************)
\* What a rail has told of an operation stays true while the rail goes on.
LEMMA FitsAlong ==
    ASSUME NEW s, NEW job, NEW op, NEW entries, NEW lane, NEW old, NEW more, NEW longer, NEW older,
           JobFits(s, job, op, entries, lane, old),
           \A state : Told(state, entries, lane) => Told(state, more, longer),
           entries # <<>> => more # <<>>,
           job.at = "create" => older # "forgotten"
    PROVE  JobFits(s, job, op, more, longer, older)
  BY DEF JobFits

\* A rail goes on with one operation; the ledger and the other operations stay.
LEMMA RailTurn ==
    ASSUME RInv, NEW k \in References, UNCHANGED <<payment, ledger, age, queue>>,
           NEW entries \in Refunds, NEW lane \in Lane,
           stripe' = [stripe EXCEPT ![k] = entries], chain' = [chain EXCEPT ![k] = lane],
           EntryFits(AtStripe, ledger[k], entries, lane),
           \A state : Told(state, stripe[k], chain[k]) => Told(state, entries, lane),
           stripe[k] # <<>> => entries # <<>>,
           work' \in [Workers -> Job],
           \A v \in Workers : work'[v] = work[v] \/ Fits(v)'
    PROVE  RInv'
<1>1. /\ stripe' \in [References -> Refunds] /\ stripe'[k] = entries
      /\ chain' \in [References -> Lane] /\ chain'[k] = lane
      /\ \A j \in References \ {k} : stripe'[j] = stripe[j] /\ chain'[j] = chain[j]
  BY DEF RInv, Types
<1>2. Types'
  BY <1>1 DEF RInv, Types
<1>3. ASSUME NEW j \in References PROVE Entry(j)'
  BY <1>1, <1>3 DEF RInv, Entry, AtStripe
<1>4. ASSUME NEW v \in Workers, work'[v] = work[v] PROVE Fits(v)'
  <2>1. CASE work[v].key = k /\ work[v].at # "idle"
    <3>1. JobFits(AtStripe, work[v], ledger[k], stripe[k], chain[k], age[k])
      BY <2>1 DEF RInv, Fits
    <3>2. work[v].at = "create" => age[k] # "forgotten"
      BY <3>1 DEF JobFits
    <3>3. JobFits(AtStripe, work[v], ledger[k], entries, lane, age[k])
      BY <3>1, <3>2, FitsAlong
    <3>. QED
      BY <1>1, <1>4, <2>1, <3>3 DEF Fits, AtStripe
  <2>2. CASE work[v].key # k \/ work[v].at = "idle"
    BY <1>1, <1>4, <2>2 DEF RInv, Fits, AtStripe
  <2>. QED
    BY <2>1, <2>2
<1>. QED
  BY <1>2, <1>3, <1>4 DEF RInv

LEMMA StripeMovesFits ==
    ASSUME RInv, NEW k \in References, NEW i \in 1 .. Len(stripe[k]),
           NEW outcome \in {"requires_action", "succeeded", "failed", "canceled"},
           StripeMoves(k, i, outcome)
    PROVE  RInv'
<1>. DEFINE entries == [stripe[k] EXCEPT ![i].now = outcome]
<1>1. /\ Types /\ stripe[k] \in Refunds /\ chain[k] \in Lane /\ Entry(k)
      /\ Len(stripe[k]) \in Nat /\ Len(stripe[k]) <= 1
  BY DEF RInv, Types, Entry, EntryFits, Refunds
<1>2. i = 1 /\ Len(stripe[k]) = 1 /\ stripe[k] # <<>>
  <2>1. i \in Nat /\ 1 <= i /\ i <= Len(stripe[k])
    BY <1>1
  <2>2. Len(stripe[k]) # 0
    BY <1>1, <2>1
  <2>3. stripe[k] # <<>>
    BY <2>2
  <2>4. \A n \in Nat, j \in Nat : 1 <= j /\ j <= n /\ n <= 1 => j = 1 /\ n = 1
    OBVIOUS
  <2>. QED
    BY <1>1, <2>1, <2>3, <2>4
<1>3. stripe[k][1] \in StripeRefund
  BY <1>1, <1>2, ElementOfSeq DEF Refunds
<1>4. [stripe[k][1] EXCEPT !.now = outcome] \in StripeRefund
  BY <1>3 DEF StripeRefund
<1>5. entries = [stripe[k] EXCEPT ![1] = [stripe[k][1] EXCEPT !.now = outcome]]
  BY <1>2
<1>6. entries \in Refunds /\ Len(entries) = 1 /\ entries[1] = [stripe[k][1] EXCEPT !.now = outcome]
  BY <1>1, <1>2, <1>4, <1>5, ExceptSeq DEF Refunds
<1>7. /\ entries[1].now = outcome /\ entries[1].first = stripe[k][1].first
      /\ entries # <<>>
  BY <1>3, <1>6, EmptySeq DEF StripeRefund, Refunds
<1>8. /\ stripe' = [stripe EXCEPT ![k] = entries] /\ chain' = [chain EXCEPT ![k] = chain[k]]
      /\ stripe[k][1].now \in {"pending", "requires_action"}
      /\ UNCHANGED <<payment, ledger, age, queue, work>>
  BY <1>1, <1>2 DEF StripeMoves, Types
<1>. HIDE DEF entries
<1>9. \A state : Told(state, stripe[k], chain[k]) => Told(state, entries, chain[k])
  BY <1>7, <1>8 DEF Told, Lost
<1>10. EntryFits(AtStripe, ledger[k], entries, chain[k])
  <2>1. stripe[k][1].first # "succeeded"
    BY <1>1, <1>2, <1>8 DEF Entry, EntryFits
  <2>2. Told(ledger[k].state, entries, chain[k])
    BY <1>1, <1>9 DEF Entry, EntryFits
  <2>3. AtStripe
    BY <1>1, <1>2 DEF Entry, EntryFits
  <2>. QED
    BY <1>1, <1>2, <1>6, <1>7, <2>1, <2>2, <2>3 DEF Entry, EntryFits
<1>11. work' \in [Workers -> Job] /\ \A v \in Workers : work'[v] = work[v]
  BY <1>1, <1>8 DEF Types
<1>. QED
  BY <1>1, <1>6, <1>7, <1>8, <1>9, <1>10, <1>11, RailTurn

LEMMA ChainMinesFits ==
    ASSUME RInv, NEW k \in References, NEW bytes \in Bytes,
           NEW outcome \in {"success", "reverted", "other"}, ChainMines(k, bytes, outcome)
    PROVE  RInv'
<1>. DEFINE lane == [chain[k] EXCEPT !.mined = bytes, !.status = outcome]
<1>1. Types /\ stripe[k] \in Refunds /\ chain[k] \in Lane /\ Entry(k)
  BY DEF RInv, Types
<1>2. lane \in Lane /\ lane.mined = bytes /\ lane.status = outcome /\ lane.sent = chain[k].sent
  BY <1>1 DEF Lane
<1>3. /\ stripe' = [stripe EXCEPT ![k] = stripe[k]] /\ chain' = [chain EXCEPT ![k] = lane]
      /\ bytes \in chain[k].sent /\ chain[k].mined = Nothing
      /\ UNCHANGED <<payment, ledger, age, queue, work>>
  BY <1>1 DEF ChainMines, Types
<1>. HIDE DEF lane
<1>4. chain[k].status = "none"
  BY <1>1, <1>3 DEF Entry, EntryFits
<1>5. \A state : Told(state, stripe[k], chain[k]) => Told(state, stripe[k], lane)
  BY <1>4 DEF Told
<1>6. EntryFits(AtStripe, ledger[k], stripe[k], lane)
  <2>1. Told(ledger[k].state, stripe[k], lane)
    BY <1>1, <1>5 DEF Entry, EntryFits
  <2>. QED
    BY <1>1, <1>2, <1>3, <2>1 DEF Entry, EntryFits
<1>7. work' \in [Workers -> Job] /\ \A v \in Workers : work'[v] = work[v]
  BY <1>1, <1>3 DEF Types
<1>. QED
  BY <1>1, <1>2, <1>3, <1>5, <1>6, <1>7, RailTurn

LEMMA BroadcastFits ==
    ASSUME RInv, NEW w \in Workers, Broadcast(w) PROVE RInv'
<1>. DEFINE k == work[w].key
            id == work[w].op.reference
            lane == [chain[k] EXCEPT !.sent = @ \cup {id}]
            to == [work[w] EXCEPT !.at = "receipt again"]
<1>1. /\ k \in References /\ Types /\ Entry(k) /\ work[w] \in Job /\ work[w].at = "broadcast"
      /\ JobFits(AtStripe, work[w], ledger[k], stripe[k], chain[k], age[k])
      /\ chain[k] \in Lane /\ stripe[k] \in Refunds
  BY DEF RInv, Broadcast, Fits, Types
<1>2. ~AtStripe /\ id # Nothing /\ Read(work[w], ledger[k])
  BY <1>1 DEF JobFits, StripePlaces, TempoPlaces, Advancing
<1>3. id = ledger[k].reference /\ id \in Bytes
  BY <1>1, <1>2 DEF Read, Entry, EntryFits
<1>4. lane \in Lane /\ lane.sent = chain[k].sent \cup {id} /\ lane.mined = chain[k].mined
      /\ lane.status = chain[k].status
  BY <1>1, <1>3 DEF Lane
<1>5. /\ to \in Job /\ to.at = "receipt again" /\ to.op = work[w].op /\ to.key = k
      /\ to.got = work[w].got
  BY <1>1 DEF Job, Advancing, TempoPlaces
<1>6. /\ Turns(w, to) /\ UNCHANGED <<payment, ledger, age, queue, stripe>>
      /\ chain' = [chain EXCEPT ![k] = lane] \/ chain' = chain
  BY DEF Broadcast, Goes
<1>. HIDE DEF lane, to
<1>7. ASSUME NEW entries, NEW longer, NEW old,
             JobFits(AtStripe, work[w], ledger[k], entries, longer, old)
      PROVE  JobFits(AtStripe, to, ledger[k], entries, longer, old)
  BY <1>1, <1>2, <1>5, <1>7 DEF JobFits, Read, StripePlaces, TempoPlaces, Advancing
<1>8. CASE chain' = chain
  <2>1. UNCHANGED rails /\ queue' \in [References -> Place]
    BY <1>1, <1>6, <1>8 DEF rails, Types
  <2>. QED
    BY <1>1, <1>5, <1>6, <1>7, <2>1, TurnFits
<1>9. CASE chain' = [chain EXCEPT ![k] = lane]
  <2>1. \A state : Told(state, stripe[k], chain[k]) => Told(state, stripe[k], lane)
    BY <1>4 DEF Told
  <2>2. EntryFits(AtStripe, ledger[k], stripe[k], lane)
    <3>1. Told(ledger[k].state, stripe[k], lane)
      BY <1>1, <2>1 DEF Entry, EntryFits
    <3>. QED
      BY <1>1, <1>2, <1>3, <1>4, <3>1 DEF Entry, EntryFits
  <2>3. work' \in [Workers -> Job] /\ \A v \in Workers : work'[v] = IF v = w THEN to ELSE work[v]
    BY <1>1, <1>5, <1>6 DEF Types, Turns
  <2>4. JobFits(AtStripe, work[w], ledger[k], stripe[k], lane, age[k])
    BY <1>1, <2>1, FitsAlong
  <2>5. Fits(w)'
    <3>1. JobFits(AtStripe, to, ledger[k], stripe[k], lane, age[k])
      BY <1>7, <2>4
    <3>2. chain'[k] = lane /\ work'[w] = to /\ UNCHANGED <<payment, ledger, age, stripe>>
      BY <1>1, <1>6, <1>9, <2>3 DEF Types
    <3>. QED
      BY <1>1, <1>5, <3>1, <3>2 DEF Fits, AtStripe
  <2>6. stripe' = [stripe EXCEPT ![k] = stripe[k]]
    BY <1>1, <1>6 DEF Types
  <2>. QED
    BY <1>1, <1>4, <1>6, <1>9, <2>1, <2>2, <2>3, <2>5, <2>6, RailTurn
<1>. QED
  BY <1>6, <1>8, <1>9

LEMMA StripeCreatesFits ==
    ASSUME RInv, NEW w \in Workers, NEW outcome \in {"pending", "succeeded"},
           StripeCreates(w, outcome)
    PROVE  RInv'
<1>. DEFINE k == work[w].key
            made == [first |-> outcome, now |-> outcome]
            known == stripe[k] # <<>> /\ age[k] # "forgotten"
            entries == IF known THEN stripe[k] ELSE Append(stripe[k], made)
            got == [reference |-> Len(entries), state |-> entries[Len(entries)].first]
            to == [work[w] EXCEPT !.at = "write", !.got = got]
<1>1. /\ k \in References /\ Types /\ Entry(k) /\ work[w] \in Job /\ work[w].at = "create"
      /\ JobFits(AtStripe, work[w], ledger[k], stripe[k], chain[k], age[k])
      /\ stripe[k] \in Refunds /\ chain[k] \in Lane /\ ledger[k] \in Operation
  BY DEF RInv, StripeCreates, Fits, Types
<1>2. AtStripe /\ age[k] # "forgotten" /\ Read(work[w], ledger[k])
  BY <1>1 DEF JobFits, TempoPlaces, StripePlaces, Advancing
<1>3. made \in StripeRefund /\ made.first = outcome /\ made.now = outcome
  BY DEF StripeRefund
<1>4. /\ entries \in Refunds /\ entries # <<>> /\ Len(entries) = 1
      /\ entries[1].first = "succeeded" => entries[1].now = "succeeded"
      /\ stripe[k] # <<>> => entries = stripe[k]
  <2>1. CASE known
    <3>1. Len(stripe[k]) \in Nat \ {0} /\ Len(stripe[k]) <= 1
      BY <1>1, <2>1, EmptySeq DEF Entry, EntryFits, Refunds
    <3>2. \A n \in Nat \ {0} : n <= 1 => n = 1
      OBVIOUS
    <3>3. entries = stripe[k]
      BY <2>1
    <3>4. Len(entries) = 1
      BY <3>1, <3>2, <3>3
    <3>. QED
      BY <1>1, <2>1, <3>3, <3>4 DEF Entry, EntryFits
  <2>2. CASE ~known
    <3>1. stripe[k] = <<>> /\ entries = Append(stripe[k], made)
      BY <1>2, <2>2
    <3>2. entries = <<made>>
      BY <3>1
    <3>3. entries \in Refunds /\ entries # <<>>
      BY <1>1, <1>3, <3>1, AppendProperties DEF Refunds
    <3>. QED
      BY <1>3, <3>1, <3>2, <3>3
  <2>. QED
    BY <2>1, <2>2
<1>5. entries[1].first \in {"pending", "succeeded"}
  BY <1>4, FirstRefund
<1>6. got = [reference |-> 1, state |-> entries[1].first]
  BY <1>4
<1>7. /\ stripe' = [stripe EXCEPT ![k] = entries] /\ Turns(w, to)
      /\ UNCHANGED <<payment, ledger, age, queue, chain>>
  <2>1. stripe' = [stripe EXCEPT ![k] = entries]
    BY <1>1 DEF StripeCreates, Types
  <2>2. stripe'[k] = entries
    BY <1>1, <2>1 DEF Types
  <2>3. Turns(w, to)
    BY <2>2 DEF StripeCreates, Gets
  <2>. QED
    BY <2>1, <2>3 DEF StripeCreates
<1>8. chain' = [chain EXCEPT ![k] = chain[k]]
  BY <1>1, <1>7 DEF Types
<1>. HIDE DEF made, entries
<1>9. got \in Said /\ got.state \in {"pending", "succeeded"} /\ got.reference = 1
      /\ got.state = entries[1].first
  BY <1>5, <1>6 DEF Said, States
<1>. HIDE DEF got
<1>10. /\ to \in Job /\ to.at = "write" /\ to.got = got /\ to.op = work[w].op /\ to.key = k
  BY <1>1, <1>9 DEF Job, Advancing
<1>. HIDE DEF to
<1>11. \A state : Told(state, stripe[k], chain[k]) => Told(state, entries, chain[k])
  BY <1>4 DEF Told
<1>12. Told(got.state, entries, chain[k])
  BY <1>4, <1>9 DEF Told, Lost
<1>13. EntryFits(AtStripe, ledger[k], entries, chain[k])
  <2>1. Told(ledger[k].state, entries, chain[k])
    BY <1>1, <1>11 DEF Entry, EntryFits
  <2>. QED
    BY <1>1, <1>2, <1>4, <2>1 DEF Entry, EntryFits
<1>14. JobFits(AtStripe, to, ledger[k], entries, chain[k], age[k])
  <2>1. Read(to, ledger[k])
    BY <1>2, <1>10 DEF Read
  <2>. QED
    BY <1>2, <1>4, <1>9, <1>10, <1>12, <2>1 DEF JobFits, TempoPlaces
<1>15. work' \in [Workers -> Job] /\ \A v \in Workers : work'[v] = IF v = w THEN to ELSE work[v]
  BY <1>1, <1>7, <1>10 DEF Types, Turns
<1>16. Fits(w)'
  <2>1. stripe'[k] = entries /\ work'[w] = to
    BY <1>1, <1>7, <1>15 DEF Types
  <2>. QED
    BY <1>1, <1>7, <1>10, <1>14, <2>1 DEF Fits, AtStripe
<1>17. \A v \in Workers : work'[v] = work[v] \/ Fits(v)'
  BY <1>15, <1>16
<1>18. stripe[k] # <<>> => entries # <<>>
  BY <1>4
<1>19. work' \in [Workers -> Job] /\ UNCHANGED <<payment, ledger, age, queue>>
  BY <1>7, <1>15
<1>20. entries \in Refunds
  BY <1>4
<1>21. stripe' = [stripe EXCEPT ![k] = entries]
  BY <1>7
<1>. HIDE DEF k
<1>. QED
  BY <1>1, <1>8, <1>11, <1>13, <1>17, <1>18, <1>19, <1>20, <1>21, RailTurn

(***************************************************************************)
(* The reconciler, and time                                                *)
(***************************************************************************)
LEMMA ReconcilerFits ==
    ASSUME RInv, NEW w \in Workers, (\E k \in References : Claim(w, k)) \/ Finish(w)
    PROVE  RInv'
<1>1. Types /\ NotWorking \in Job
  BY JobsAreTyped DEF RInv
<1>2. ASSUME NEW k \in References, Claim(w, k) PROVE RInv'
  <2>. DEFINE n == queue[k].attempts + 1
              to == [NotWorking EXCEPT !.at = "get", !.key = k, !.lease = n]
  <2>1. queue[k] \in Place /\ n \in Nat
    BY <1>1 DEF Types, Place
  <2>2. to \in Job /\ to.at = "get" /\ to.key = k
    <3>1. NotWorking.amount \in Nat /\ NotWorking.op \in Operation /\ NotWorking.got = Nothing
          /\ NotWorking.late = FALSE
      BY <1>1 DEF NotWorking, Job
    <3>. HIDE DEF n
    <3>. QED
      BY <1>1, <2>1, <3>1 DEF NotWorking, Job
  <2>3. queue' \in [References -> Place]
    <3>1. [queue[k] EXCEPT !.attempts = n, !.lease = n, !.live = TRUE] \in Place
      <4>. HIDE DEF n
      <4>. QED
        BY <2>1 DEF Place
    <3>2. queue' = [queue EXCEPT ![k] = [queue[k] EXCEPT !.attempts = n, !.lease = n, !.live = TRUE]]
      BY <1>2 DEF Claim
    <3>. QED
      BY <1>1, <3>1, <3>2 DEF Types
  <2>4. Turns(w, to) /\ UNCHANGED <<payment, ledger, age, rails>>
    BY <1>2 DEF Claim
  <2>. HIDE DEF to
  <2>. QED
    BY <2>2, <2>3, <2>4, RestTurn
<1>3. CASE Finish(w)
  <2>1. queue' \in [References -> Place]
    BY <1>1, <1>3 DEF Finish, Types, Place
  <2>2. Turns(w, NotWorking) /\ UNCHANGED <<payment, ledger, age, rails>> /\ NotWorking.at = "idle"
    BY <1>3 DEF Finish, NotWorking
  <2>. QED
    BY <1>1, <2>1, <2>2, RestTurn
<1>. QED
  BY <1>2, <1>3

LEMMA TimeFits ==
    ASSUME RInv, NEW k \in References, ComesDue(k) \/ LeaseRunsOut(k) \/ OperationAges(k)
    PROVE  RInv'
<1>1. Types
  BY DEF RInv
<1>2. CASE ComesDue(k)
  <2>1. queue' \in [References -> Place]
    BY <1>1, <1>2 DEF ComesDue, Types, Place
  <2>. QED
    BY <1>2, <2>1 DEF ComesDue, RInv, Types, Entry, Fits, AtStripe, rails
<1>3. CASE LeaseRunsOut(k)
  <2>1. queue' \in [References -> Place]
    BY <1>1, <1>3 DEF LeaseRunsOut, Types, Place
  <2>2. ASSUME NEW v \in Workers
        PROVE  work'[v] = work[v] \/ work'[v] = [work[v] EXCEPT !.late = TRUE]
    BY <1>3 DEF LeaseRunsOut
  <2>3. ASSUME NEW v \in Workers
        PROVE  /\ work'[v] \in Job /\ work'[v].at = work[v].at /\ work'[v].op = work[v].op
               /\ work'[v].key = work[v].key /\ work'[v].got = work[v].got
    <3>1. work[v] \in Job
      BY <1>1 DEF Types
    <3>2. CASE work'[v] = work[v]
      BY <3>1, <3>2
    <3>3. CASE work'[v] = [work[v] EXCEPT !.late = TRUE]
      <4>1. [work[v] EXCEPT !.late = TRUE] \in Job
        BY <3>1 DEF Job
      <4>. QED
        BY <3>1, <3>3, <4>1 DEF Job
    <3>. QED
      BY <2>2, <3>2, <3>3
  <2>4. work' \in [Workers -> Job]
    BY <1>3, <2>3 DEF LeaseRunsOut
  <2>5. UNCHANGED <<payment, ledger, age, stripe, chain>>
    BY <1>3 DEF LeaseRunsOut, rails
  <2>6. ASSUME NEW v \in Workers PROVE Fits(v)'
    BY <2>3, <2>5, <2>6 DEF RInv, Fits, JobFits, Read, AtStripe
  <2>7. ASSUME NEW j \in References PROVE Entry(j)'
    BY <2>5, <2>7 DEF RInv, Entry, AtStripe
  <2>. QED
    BY <1>1, <2>1, <2>4, <2>5, <2>6, <2>7 DEF RInv, Types
<1>4. CASE OperationAges(k)
  <2>1. /\ age' \in [References -> {"fresh", "old", "forgotten"}]
        /\ \A j \in References : age'[j] = "forgotten" /\ age[j] # "forgotten" =>
              j = k /\ \A v \in Workers : work[v].key = k => work[v].at # "create"
    BY <1>1, <1>4 DEF OperationAges, Types
  <2>2. UNCHANGED <<payment, ledger, queue, work, stripe, chain>>
    BY <1>4 DEF OperationAges, rails
  <2>3. ASSUME NEW v \in Workers, work[v].at # "idle" PROVE Fits(v)'
    <3>. DEFINE j == work[v].key
    <3>1. j \in References /\ JobFits(AtStripe, work[v], ledger[j], stripe[j], chain[j], age[j])
      BY <2>3 DEF RInv, Fits
    <3>2. work[v].at = "create" => age'[j] # "forgotten"
      BY <2>1, <3>1 DEF JobFits
    <3>3. JobFits(AtStripe, work[v], ledger[j], stripe[j], chain[j], age'[j])
      BY <3>1, <3>2, FitsAlong
    <3>. QED
      BY <2>2, <3>1, <3>3 DEF Fits, AtStripe
  <2>4. ASSUME NEW v \in Workers, work[v].at = "idle" PROVE Fits(v)'
    BY <2>2, <2>4 DEF Fits
  <2>5. ASSUME NEW j \in References PROVE Entry(j)'
    BY <2>2, <2>5 DEF RInv, Entry, AtStripe
  <2>. QED
    BY <1>1, <2>1, <2>2, <2>3, <2>4, <2>5 DEF RInv, Types
<1>. QED
  BY <1>2, <1>3, <1>4

(***************************************************************************)
(* Leases                                                                  *)
(***************************************************************************)
\* A worker keeps its lease for the length of its turn, or gives it up.
Carries(w, to) ==
    \/ to.lease = 0
    \/ to.key = work[w].key /\ to.lease = work[w].lease /\ to.late = work[w].late

LEMMA TurnLeased ==
    ASSUME Types, LInv, NEW w \in Workers, NEW to, Turns(w, to), Carries(w, to), UNCHANGED queue
    PROVE  LInv'
<1>1. \A v \in Workers : work'[v] = (IF v = w THEN to ELSE work[v]) /\ work[v] \in Job
  BY DEF Types, Turns
<1>2. \A v \in Workers : work[v].lease \in Nat
  BY <1>1 DEF Job
<1>3. ASSUME NEW v \in Workers PROVE Leased(v)'
  BY <1>1, <1>2, <1>3 DEF Carries, LInv, Leased
<1>. QED
  BY <1>3 DEF LInv

\* Every step of a turn but its first and its last.
LEMMA StepLeased ==
    ASSUME Types, LInv, NEW w \in Workers,
           \/ Load(w) \/ Get(w) \/ \E outcome \in {"pending", "succeeded"} : StripeCreates(w, outcome)
           \/ StripeRetrieves(w) \/ WriteAnswer(w) \/ \E bytes \in Bytes : Prepare(w, bytes)
           \/ SavePrepared(w) \/ Reread(w) \/ Confirmed(w) \/ NoReceipt(w) \/ Broadcast(w)
           \/ CallFails(w) \/ WorkerDies(w)
    PROVE  LInv'
<1>1. work[w] \in Job
  BY DEF Types
<1>2. NotWorking.lease = 0 /\ Carries(w, NotWorking) /\ Carries(w, Over(w))
  BY <1>1 DEF NotWorking, Carries, Over, Job
<1>3. ASSUME NEW at PROVE Carries(w, [work[w] EXCEPT !.at = at])
  BY <1>1 DEF Carries, Job
<1>4. ASSUME NEW at, NEW got PROVE Carries(w, [work[w] EXCEPT !.at = at, !.got = got])
  BY <1>1 DEF Carries, Job
<1>5. ASSUME NEW at, NEW op PROVE Carries(w, [work[w] EXCEPT !.at = at, !.op = op])
  BY <1>1 DEF Carries, Job
<1>6. ASSUME NEW to, Turns(w, to), Carries(w, to), UNCHANGED queue PROVE LInv'
  BY <1>6, TurnLeased
<1>7. ASSUME NEW k, NEW op, Takes(w, k, op), UNCHANGED queue PROVE LInv'
  <2>1. CASE Turn(k, op) = "over"
    BY <1>2, <1>6, <1>7, <2>1 DEF Takes
  <2>2. CASE Turn(k, op) # "over"
    BY <1>5, <1>6, <1>7, <2>2 DEF Takes
  <2>. QED
    BY <2>1, <2>2
<1>8. CASE Load(w)
  BY <1>2, <1>6, <1>7, <1>8 DEF Load
<1>9. CASE Get(w)
  BY <1>2, <1>6, <1>7, <1>9 DEF Get
<1>10. CASE \E outcome \in {"pending", "succeeded"} : StripeCreates(w, outcome)
  BY <1>4, <1>6, <1>10 DEF StripeCreates, Gets
<1>11. CASE StripeRetrieves(w) \/ (\E bytes \in Bytes : Prepare(w, bytes)) \/ Confirmed(w)
  BY <1>4, <1>6, <1>11 DEF StripeRetrieves, Prepare, Confirmed, Gets
<1>12. CASE WriteAnswer(w) \/ CallFails(w) \/ WorkerDies(w)
  BY <1>2, <1>6, <1>12 DEF WriteAnswer, CallFails, WorkerDies
<1>13. CASE SavePrepared(w) \/ NoReceipt(w) \/ Broadcast(w)
  BY <1>2, <1>3, <1>6, <1>13 DEF SavePrepared, NoReceipt, Broadcast, Goes
<1>14. CASE Reread(w)
  BY <1>5, <1>6, <1>14 DEF Reread
<1>. QED
  BY <1>8, <1>9, <1>10, <1>11, <1>12, <1>13, <1>14

LEMMA ReserveLeased ==
    ASSUME Types, LInv, NEW w \in Workers, NEW k, NEW amount, Reserve(w, k, amount)
    PROVE  LInv'
<1>. DEFINE to == [NotWorking EXCEPT !.at = "load", !.key = k, !.amount = amount]
<1>1. Turns(w, to) /\ to.lease = 0 /\ UNCHANGED queue
  BY DEF Reserve, NotWorking
<1>. QED
  BY <1>1, TurnLeased DEF Carries

\* A new lease has a number that nobody had, and only who was late still works.
LEMMA ClaimLeased ==
    ASSUME Types, LInv, NEW w \in Workers, NEW k \in References, Claim(w, k)
    PROVE  LInv'
<1>. DEFINE n == queue[k].attempts + 1
            to == [NotWorking EXCEPT !.at = "get", !.key = k, !.lease = n]
<1>1. queue[k] \in Place /\ n \in Nat /\ ~queue[k].live
  BY DEF Types, Place, Claim
<1>2. to.key = k /\ to.lease = n /\ to.late = FALSE
  BY DEF NotWorking
<1>3. /\ \A v \in Workers : work'[v] = IF v = w THEN to ELSE work[v]
      /\ \A v \in Workers : work[v] \in Job /\ work[v].lease \in Nat
  BY DEF Types, Claim, Turns, Job
<1>4. /\ queue'[k].attempts = n /\ queue'[k].lease = n /\ queue'[k].live
      /\ \A j \in References \ {k} : queue'[j] = queue[j]
  BY <1>1 DEF Types, Claim, Place
<1>5. ASSUME NEW v \in Workers, v # w, work[v].lease > 0, work[v].key = k
      PROVE  work[v].lease <= queue[k].attempts /\ work[v].late
  BY <1>1, <1>3, <1>5 DEF LInv, Leased, Job
<1>6. queue[k].attempts \in Nat /\ queue[k].attempts < n
  BY <1>1 DEF Place
<1>. HIDE DEF n, to
<1>7. Leased(w)'
  <2>1. \A v \in Workers : work'[v].key = k /\ work'[v].lease = n => v = w
    BY <1>1, <1>3, <1>5, <1>6
  <2>. QED
    BY <1>1, <1>2, <1>3, <1>4, <2>1 DEF Leased
<1>8. ASSUME NEW v \in Workers, v # w PROVE Leased(v)'
  <2>1. CASE work[v].key = k /\ work[v].lease > 0
    <3>1. work[v].lease # n /\ work[v].lease <= n /\ work[v].late
      BY <1>1, <1>3, <1>5, <1>6, <1>8, <2>1
    <3>2. \A u \in Workers : work'[u].key = k /\ work'[u].lease = work[v].lease => u = v
      BY <1>2, <1>3, <2>1, <3>1 DEF LInv, Leased
    <3>. QED
      BY <1>3, <1>4, <1>8, <2>1, <3>1, <3>2 DEF Leased
  <2>2. CASE work[v].key # k /\ work[v].lease > 0
    BY <1>2, <1>3, <1>4, <1>8, <2>2 DEF LInv, Leased
  <2>3. CASE ~(work[v].lease > 0)
    BY <1>3, <1>8, <2>3 DEF Leased
  <2>. QED
    BY <2>1, <2>2, <2>3
<1>. QED
  BY <1>7, <1>8 DEF LInv

LEMMA FinishLeased ==
    ASSUME Types, LInv, NEW w \in Workers, Finish(w), work[w].key \in References
    PROVE  LInv'
<1>. DEFINE k == work[w].key
<1>1. /\ \A v \in Workers : work'[v] = IF v = w THEN NotWorking ELSE work[v]
      /\ \A v \in Workers : work[v] \in Job /\ work[v].lease \in Nat
      /\ queue[k] \in Place /\ NotWorking.lease = 0
  BY DEF Types, Finish, Turns, Job, NotWorking
<1>2. /\ \A j \in References : queue'[j].attempts = queue[j].attempts
      /\ \A j \in References \ {k} : queue'[j] = queue[j]
      /\ queue[k].lease # work[w].lease => queue'[k] = queue[k]
  BY <1>1 DEF Types, Finish, Place
<1>3. ASSUME NEW v \in Workers, v # w, work[v].lease > 0 PROVE Leased(v)'
  <2>1. \A u \in Workers : work'[u].key = work[v].key /\ work'[u].lease = work[v].lease => u = v
    BY <1>1, <1>3 DEF LInv, Leased
  <2>2. work[v].key = k => work[w].lease # work[v].lease
    BY <1>3 DEF LInv, Leased
  <2>3. work[v].key \in References /\ work[v].lease <= queue[work[v].key].attempts
        /\ (~work[v].late => queue[work[v].key].lease = work[v].lease /\ queue[work[v].key].live)
    BY <1>3 DEF LInv, Leased
  <2>4. ~work[v].late => queue'[work[v].key] = queue[work[v].key]
    BY <1>2, <2>2, <2>3
  <2>. QED
    BY <1>1, <1>2, <1>3, <2>1, <2>3, <2>4 DEF Leased
<1>4. ASSUME NEW v \in Workers, v = w \/ ~(work[v].lease > 0) PROVE Leased(v)'
  BY <1>1, <1>4 DEF Leased
<1>. QED
  BY <1>3, <1>4 DEF LInv

LEMMA TimeLeased ==
    ASSUME Types, LInv, NEW k \in References,
           ComesDue(k) \/ LeaseRunsOut(k) \/ OperationAges(k) \/ RailStep(k)
    PROVE  LInv'
<1>1. \A v \in Workers : work[v] \in Job /\ work[v].lease \in Nat
  BY DEF Types, Job
<1>2. CASE ComesDue(k)
  <2>1. \A j \in References : /\ queue'[j].lease = queue[j].lease /\ queue'[j].live = queue[j].live
                              /\ queue'[j].attempts = queue[j].attempts
    BY <1>2 DEF ComesDue, Types, Place
  <2>2. UNCHANGED work
    BY <1>2 DEF ComesDue
  <2>. QED
    BY <2>1, <2>2 DEF LInv, Leased
<1>3. CASE LeaseRunsOut(k)
  <2>1. \A j \in References : /\ queue'[j].lease = queue[j].lease
                              /\ j # k => queue'[j].live = queue[j].live
                              /\ queue'[j].attempts = queue[j].attempts
    BY <1>3 DEF LeaseRunsOut, Types, Place
  <2>2. ASSUME NEW v \in Workers
        PROVE  /\ work'[v].key = work[v].key /\ work'[v].lease = work[v].lease
               /\ work'[v].late = (work[v].late \/ (work[v].key = k /\ work[v].lease = queue[k].lease))
    <3>1. work'[v] = IF work[v].key = k /\ work[v].lease = queue[k].lease
                     THEN [work[v] EXCEPT !.late = TRUE] ELSE work[v]
      BY <1>3 DEF LeaseRunsOut
    <3>2. work[v].late \in BOOLEAN
      BY <1>1 DEF Job
    <3>. QED
      BY <1>1, <3>1, <3>2 DEF Job
  <2>3. ASSUME NEW v \in Workers, work[v].lease > 0 PROVE Leased(v)'
    <3>1. \A u \in Workers : work'[u].key = work[v].key /\ work'[u].lease = work[v].lease => u = v
      BY <2>2, <2>3 DEF LInv, Leased
    <3>2. work[v].key \in References /\ work[v].lease <= queue[work[v].key].attempts
          /\ (~work[v].late => queue[work[v].key].lease = work[v].lease /\ queue[work[v].key].live)
      BY <2>3 DEF LInv, Leased
    <3>3. ~work'[v].late => ~work[v].late /\ work[v].key # k
      BY <2>2, <3>2
    <3>. QED
      BY <2>1, <2>2, <2>3, <3>1, <3>2, <3>3 DEF Leased
  <2>4. ASSUME NEW v \in Workers, ~(work[v].lease > 0) PROVE Leased(v)'
    BY <2>2, <2>4 DEF Leased
  <2>. QED
    BY <2>3, <2>4 DEF LInv
<1>4. CASE OperationAges(k) \/ RailStep(k)
  <2>1. UNCHANGED <<queue, work>>
    BY <1>4 DEF OperationAges, RailStep, StripeMoves, ChainMines
  <2>. QED
    BY <2>1 DEF LInv, Leased
<1>. QED
  BY <1>2, <1>3, <1>4

(***************************************************************************)
(* The ledger                                                              *)
(***************************************************************************)
LEMMA LedgerStarts == LedgerInit => IInv
<1>. SUFFICES ASSUME LedgerInit PROVE IInv
  OBVIOUS
<1>1. NoOperation \in Operation /\ NotWorking \in Job /\ NotWorking.at = "idle"
      /\ NotWorking.lease = 0 /\ NoOperation.state = "none" /\ NoOperation.version = 0
      /\ NoOperation.reference = Nothing
  BY DEF NoOperation, NotWorking, Operation, Job, States
<1>2. <<>> \in Refunds /\ Len(<<>>) = 0
  BY EmptySeq DEF Refunds
<1>3. Types
  BY <1>1, <1>2 DEF LedgerInit, Types, Place, Lane
<1>4. ASSUME NEW k \in References PROVE Entry(k)
  BY <1>1, <1>2, <1>4 DEF LedgerInit, Entry, EntryFits, Told, Lost
<1>5. ASSUME NEW w \in Workers PROVE Fits(w) /\ Leased(w)
  BY <1>1, <1>5 DEF LedgerInit, Fits, Leased
<1>. QED
  BY <1>3, <1>4, <1>5 DEF IInv, RInv, LInv

LEMMA LedgerGoesOn == IInv /\ [LedgerNext]_refunding => IInv'
<1>. SUFFICES ASSUME IInv, [LedgerNext]_refunding PROVE IInv'
  OBVIOUS
<1>1. RInv /\ LInv /\ Types
  BY DEF IInv, RInv
<1>2. CASE UNCHANGED refunding
  BY <1>1, <1>2 DEF refunding, rails, IInv, RInv, LInv, Types, Entry, Fits, Leased, AtStripe
<1>3. ASSUME NEW w \in Workers, WorkStep(w) PROVE IInv'
  <2>1. CASE Finish(w)
    <3>1. work[w].key \in References
      BY <1>1, <2>1 DEF RInv, Fits, Finish
    <3>. QED
      BY <1>1, <2>1, <3>1, ReconcilerFits, FinishLeased DEF IInv
  <2>2. CASE ~Finish(w)
    <3>1. LInv'
      BY <1>1, <1>3, <2>2, StepLeased DEF WorkStep
    <3>2. RInv'
      BY <1>1, <1>3, <2>2, LoadFits, GetFits, StripeCreatesFits, StripeRetrievesFits,
         WriteAnswerFits, PrepareFits, SavePreparedFits, RereadFits, ConfirmedFits,
         NoReceiptFits, BroadcastFits DEF WorkStep
    <3>. QED
      BY <3>1, <3>2 DEF IInv
  <2>. QED
    BY <2>1, <2>2
<1>4. ASSUME NEW w \in Workers, CallFails(w) \/ WorkerDies(w) PROVE IInv'
  <2>1. /\ work[w].at # "idle" /\ UNCHANGED <<payment, ledger, age, queue, rails>>
        /\ Turns(w, Over(w)) \/ Turns(w, NotWorking)
    BY <1>4 DEF CallFails, WorkerDies
  <2>. QED
    BY <1>1, <1>4, <2>1, OverTurn, StepLeased DEF IInv
<1>5. ASSUME NEW w \in Workers, NEW r \in payment.requests, Reserve(w, r.key, r.amount)
      PROVE  IInv'
  BY <1>1, <1>5, ReserveFits, ReserveLeased DEF IInv
<1>6. ASSUME NEW k \in References, Reconciles(k) PROVE IInv'
  BY <1>1, <1>6, ReconcilerFits, ClaimLeased DEF Reconciles, IInv
<1>7. ASSUME NEW k \in References, RailStep(k) PROVE IInv'
  <2>1. RInv'
    BY <1>1, <1>7, StripeMovesFits, ChainMinesFits DEF RailStep
  <2>. QED
    BY <1>1, <1>7, <2>1, TimeLeased DEF IInv
<1>8. ASSUME NEW k \in References, ComesDue(k) \/ LeaseRunsOut(k) \/ OperationAges(k) PROVE IInv'
  BY <1>1, <1>8, TimeFits, TimeLeased DEF IInv
<1>. QED
  BY <1>2, <1>3, <1>4, <1>5, <1>6, <1>7, <1>8 DEF LedgerNext

(***************************************************************************)
(* Balances                                                                *)
(***************************************************************************)
\* What an operation holds of the payment.
Share(op) == IF op.state \in Lost \cup {"none"} THEN 0 ELSE op.amount

\* An answer that gives a share back does so for good.
Settles(atStripe, job, lane) ==
    /\ atStripe /\ job.at \in Advancing => job.op.state \notin Lost
    /\ ~atStripe /\ job.at = "write" =>
          lane.status # "none" /\ job.got.state = Outcome(lane.status)

BInv ==
    /\ \A k \in References : ledger[k].state = "none" => ledger[k].amount = 0
    /\ payment.legacy # 0 => \A k \in References : ledger[k].state = "none"
    /\ payment.legacy = 0 => Held <= Paid
    /\ \A w \in Workers :
          work[w].at # "idle" => Settles(AtStripe, work[w], chain[work[w].key])

Shares == [k \in References |-> Share(ledger[k])]

LEMMA HeldIsOfShares ==
    ASSUME Types
    PROVE  Held = SumFunction(Shares) /\ Shares \in [References -> Nat] /\ Held \in Nat
<1>1. Held = SumFunction(Shares)
  BY DEF Held, Shares, Share
<1>2. Shares \in [References -> Nat]
  BY DEF Shares, Share, Types, Operation
<1>3. SumFunction(Shares) \in Nat
  BY <1>2, PaymentsAreOfCents, SumOfNaturals
<1>. QED
  BY <1>1, <1>2, <1>3

\* The balance is as it was where no share grows.
LEMMA HeldIsKept ==
    ASSUME Types, Types', \A k \in References : Share(ledger'[k]) <= Share(ledger[k])
    PROVE  Held' <= Held
<1>1. /\ Held = SumFunction(Shares) /\ Shares \in [References -> Nat]
      /\ Held' = SumFunction(Shares') /\ Shares' \in [References -> Nat]
  <2>1. Held' = SumFunction(Shares')
    BY DEF Held, Shares, Share
  <2>2. Shares' \in [References -> Nat]
    BY DEF Shares, Share, Types, Operation
  <2>. QED
    BY <2>1, <2>2, HeldIsOfShares
<1>2. \A k \in References : Shares'[k] <= Shares[k]
  BY DEF Shares
<1>3. /\ Shares' \in [References -> Int] /\ Shares \in [References -> Int]
  BY <1>1
<1>4. SumFunctionOnSet(Shares', References) <= SumFunctionOnSet(Shares, References)
  BY <1>2, <1>3, PaymentsAreOfCents, SumsAreMonotone
<1>. QED
  BY <1>1, <1>3, <1>4, PaymentsAreOfCents, SumType

\* What a rail pays back for an operation is what the operation holds.
LEMMA RailsPayShares ==
    ASSUME RInv, NEW k \in References, ledger[k].state = "none" => ledger[k].amount = 0
    PROVE  AtRail(k) \in Nat /\ AtRail(k) <= Share(ledger[k])
<1>. DEFINE alive == {i \in 1 .. Len(stripe[k]) : stripe[k][i].now \notin Lost}
            mined == IF chain[k].status = "success" THEN 1 ELSE 0
<1>1. /\ Entry(k) /\ ledger[k] \in Operation /\ stripe[k] \in Refunds /\ chain[k] \in Lane
      /\ Len(stripe[k]) \in Nat /\ Len(stripe[k]) <= 1
  BY DEF RInv, Types, Entry, EntryFits, Refunds
<1>2. CASE alive = {}
  <2>1. Cardinality(alive) = 0
    BY <1>2, FS_EmptySet
  <2>2. AtRail(k) = ledger[k].amount * (0 + mined)
    BY <2>1 DEF AtRail
  <2>3. chain[k].status = "success" => ledger[k].state \notin Lost
    <3>1. chain[k].status = "success" => chain[k].mined \in {ledger[k].reference} /\ chain[k].mined # Nothing
      BY <1>1 DEF Entry, EntryFits
    <3>2. chain[k].status = "success" => ~AtStripe
      BY <1>1 DEF Entry, EntryFits
    <3>. QED
      BY <1>1, <3>1, <3>2 DEF Entry, EntryFits, Told
  <2>4. ledger[k].amount \in Nat
    BY <1>1 DEF Operation
  <2>. HIDE DEF alive
  <2>5. CASE chain[k].status = "success"
    <3>1. AtRail(k) = ledger[k].amount
      BY <2>2, <2>4, <2>5
    <3>. QED
      BY <2>3, <2>4, <2>5, <3>1 DEF Share
  <2>6. CASE chain[k].status # "success"
    <3>1. AtRail(k) = 0
      BY <2>2, <2>4, <2>6
    <3>. QED
      BY <2>4, <3>1 DEF Share
  <2>. QED
    BY <2>5, <2>6
<1>3. CASE alive # {}
  <2>1. Len(stripe[k]) = 1 /\ alive = {1} /\ stripe[k][1].now \notin Lost
    <3>1. PICK i \in 1 .. Len(stripe[k]) : stripe[k][i].now \notin Lost
      BY <1>3
    <3>2. i = 1 /\ Len(stripe[k]) = 1
      <4>1. i \in Nat /\ 1 <= i /\ i <= Len(stripe[k])
        BY <3>1
      <4>2. \A n \in Nat, j \in Nat : 1 <= j /\ j <= n /\ n <= 1 => j = 1 /\ n = 1
        OBVIOUS
      <4>. QED
        BY <1>1, <4>1, <4>2
    <3>3. 1 .. 1 = {1}
      OBVIOUS
    <3>. QED
      BY <3>1, <3>2, <3>3
  <2>2. Cardinality(alive) = 1
    BY <2>1, FS_Singleton
  <2>3. stripe[k] # <<>>
    BY <2>1
  <2>4. AtStripe /\ chain[k].status = "none"
    BY <1>1, <2>3 DEF Entry, EntryFits
  <2>5. ledger[k].state \notin Lost
    BY <1>1, <2>1, <2>4 DEF Entry, EntryFits, Told
  <2>6. AtRail(k) = ledger[k].amount * (1 + 0) /\ ledger[k].amount \in Nat
    BY <1>1, <2>2, <2>4 DEF AtRail, Operation
  <2>7. AtRail(k) = ledger[k].amount
    BY <2>6
  <2>. QED
    BY <2>5, <2>6, <2>7 DEF Share
<1>. QED
  BY <1>2, <1>3

LEMMA BalanceSuffices == RInv /\ BInv => NeverOverRefunded
<1>. SUFFICES ASSUME RInv, BInv PROVE NeverOverRefunded
  OBVIOUS
<1>. DEFINE paid == [k \in References |-> AtRail(k)]
<1>1. \A k \in References : AtRail(k) \in Nat /\ AtRail(k) <= Share(ledger[k])
  BY RailsPayShares DEF BInv
<1>2. /\ paid \in [References -> Int] /\ Shares \in [References -> Int]
      /\ \A k \in References : paid[k] <= Shares[k]
      /\ Held = SumFunction(Shares)
  BY <1>1, HeldIsOfShares DEF RInv, Shares
<1>3. payment.legacy \in 0 .. Paid /\ Paid \in Nat /\ IsFiniteSet(References)
  BY PaymentsAreOfCents DEF RInv, Types
<1>. HIDE DEF paid
<1>4. SumFunction(paid) <= SumFunction(Shares) /\ SumFunction(paid) \in Int
      /\ SumFunction(Shares) \in Int
  <2>1. SumFunctionOnSet(paid, References) <= SumFunctionOnSet(Shares, References)
    BY <1>2, <1>3, SumsAreMonotone
  <2>. QED
    BY <1>2, <1>3, <2>1, SumType
<1>5. CASE payment.legacy = 0
  BY <1>2, <1>3, <1>4, <1>5 DEF BInv, NeverOverRefunded, paid
<1>6. CASE payment.legacy # 0
  <2>1. \A k \in References : Shares[k] = 0
    BY <1>6 DEF BInv, Shares, Share
  <2>2. SumFunction(Shares) = 0
    BY <1>2, <1>3, <2>1, SumOfZeros
  <2>. QED
    BY <1>3, <1>4, <2>2 DEF NeverOverRefunded, paid
<1>. QED
  BY <1>5, <1>6

(***************************************************************************)
(* Steps                                                                   *)
(***************************************************************************)
\* A step that writes nothing, of one worker.
LEMMA TurnBalances ==
    ASSUME RInv, BInv, NEW w \in Workers, NEW to, Turns(w, to),
           UNCHANGED <<payment, ledger, chain>>,
           to.at # "idle" => Settles(AtStripe, to, chain[to.key])
    PROVE  BInv'
<1>1. \A v \in Workers : work'[v] = IF v = w THEN to ELSE work[v]
  BY DEF RInv, Types, Turns
<1>2. Held' = Held
  BY DEF Held
<1>3. ASSUME NEW v \in Workers, work'[v].at # "idle"
      PROVE  Settles(AtStripe, work[v], chain[work[v].key])'
  BY <1>1, <1>3 DEF BInv, Settles, AtStripe
<1>. QED
  BY <1>2, <1>3 DEF BInv

LEMMA RestBalances ==
    ASSUME RInv, BInv, NEW w \in Workers, NEW to, Turns(w, to),
           UNCHANGED <<payment, ledger, chain>>,
           to.at \notin Advancing
    PROVE  BInv'
<1>1. Settles(AtStripe, to, chain[to.key])
  BY DEF Settles, Advancing
<1>. QED
  BY <1>1, TurnBalances

\* A write gives no share back but for good, and takes none again.
LEMMA WriteBalances ==
    ASSUME RInv, RInv', BInv, NEW w \in Workers, work[w].at \in Advancing,
           NEW k \in References, k = work[w].key,
           NEW state \in States, NEW reference \in {1} \cup Bytes,
           Write(k, work[w].op, state, reference), state # "none",
           work[w].op = ledger[k] /\ ledger[k].state \in Lost => state \in Lost,
           NEW to, Turns(w, to), to.at # "idle" => Settles(AtStripe, to, chain[to.key]),
           UNCHANGED <<payment, chain>>
    PROVE  BInv'
<1>. DEFINE op == ledger[k]
            new == [op EXCEPT !.state = state, !.reference = reference, !.version = @ + 1]
<1>1. op \in Operation /\ Read(work[w], op) /\ Types
  BY DEF RInv, Types, Fits, JobFits, Advancing, StripePlaces, TempoPlaces
<1>2. new.state = state /\ new.amount = op.amount
  BY <1>1 DEF Operation
<1>3. CASE ledger' = ledger
  BY <1>3, TurnBalances
<1>4. CASE ledger' # ledger
  <2>1. op.version = work[w].op.version /\ ledger' = [ledger EXCEPT ![k] = new]
    BY <1>4 DEF Write
  <2>2. work[w].op = op /\ op.state # "none"
    BY <1>1, <2>1 DEF Read
  <2>. HIDE DEF new
  <2>3. ledger'[k] = new /\ \A j \in References \ {k} : ledger'[j] = ledger[j]
    BY <1>1, <2>1 DEF Types
  <2>4. op.amount \in Nat /\ Share(new) <= Share(op)
    BY <1>1, <1>2, <2>2 DEF Share, Operation, Lost
  <2>5. ASSUME NEW j \in References PROVE Share(ledger'[j]) <= Share(ledger[j])
    <3>1. Share(ledger[j]) \in Nat
      BY <1>1 DEF Types, Operation, Share
    <3>. QED
      BY <2>3, <2>4, <3>1
  <2>6. Held' <= Held /\ Held \in Nat /\ Held' \in Int
    <3>1. Held' \in Nat
      <4>1. Shares' \in [References -> Nat] /\ Held' = SumFunction(Shares')
        BY DEF Shares, Share, Types, Operation, RInv, Held
      <4>. QED
        BY <4>1, PaymentsAreOfCents, SumOfNaturals
    <3>. QED
      BY <2>5, <3>1, HeldIsKept, HeldIsOfShares DEF RInv
  <2>7. payment.legacy = 0
    BY <2>2 DEF BInv
  <2>8. \A j \in References : ledger'[j].state = "none" => ledger'[j].amount = 0
    BY <1>2, <2>3 DEF BInv
  <2>9. \A v \in Workers : work'[v] = IF v = w THEN to ELSE work[v]
    BY <1>1 DEF Types, Turns
  <2>10. ASSUME NEW v \in Workers, work'[v].at # "idle"
         PROVE  Settles(AtStripe, work[v], chain[work[v].key])'
    BY <2>9, <2>10 DEF BInv, Settles, AtStripe
  <2>11. Held' <= Paid
    BY <2>6, <2>7, PaymentsAreOfCents DEF BInv
  <2>. QED
    BY <2>7, <2>8, <2>10, <2>11 DEF BInv
<1>. QED
  BY <1>3, <1>4

LEMMA WriteAnswerBalances ==
    ASSUME RInv, RInv', BInv, NEW w \in Workers, WriteAnswer(w) PROVE BInv'
<1>. DEFINE k == work[w].key
            got == work[w].got
<1>1. /\ k \in References /\ Types /\ Entry(k) /\ work[w].at = "write"
      /\ JobFits(AtStripe, work[w], ledger[k], stripe[k], chain[k], age[k])
      /\ Settles(AtStripe, work[w], chain[k])
  BY DEF RInv, BInv, WriteAnswer, Fits
<1>2. /\ work[w].at \in Advancing /\ UNCHANGED <<payment, chain>>
      /\ Write(k, work[w].op, got.state, got.reference) /\ Turns(w, Over(w))
  BY <1>1 DEF WriteAnswer, Advancing, rails
<1>3. got \in Said /\ got.state # "none"
  BY <1>1 DEF JobFits
<1>4. got.state \in States /\ got.reference \in {1} \cup Bytes
  BY <1>3 DEF Said
<1>5. work[w].op = ledger[k] /\ ledger[k].state \in Lost => got.state \in Lost
  <2>1. CASE AtStripe
    BY <1>1, <1>2, <2>1 DEF Settles
  <2>2. CASE ~AtStripe
    <3>1. stripe[k] = <<>> /\ Told(ledger[k].state, stripe[k], chain[k])
      BY <1>1, <2>2 DEF Entry, EntryFits
    <3>2. ledger[k].state \in Lost => chain[k].status = "reverted"
      BY <3>1 DEF Told
    <3>3. got.state = Outcome(chain[k].status)
      BY <1>1, <2>2 DEF Settles
    <3>. QED
      BY <3>2, <3>3 DEF Outcome, Lost
  <2>. QED
    BY <2>1, <2>2
<1>6. Over(w).at \in {"idle", "finish"}
  BY <1>1, JobsAreTyped
<1>7. Settles(AtStripe, Over(w), chain[Over(w).key])
  BY <1>6 DEF Settles, Advancing, StripePlaces, TempoPlaces
<1>. HIDE DEF got
<1>. QED
  BY <1>1, <1>2, <1>3, <1>4, <1>5, <1>7, WriteBalances

LEMMA SavePreparedBalances ==
    ASSUME RInv, RInv', BInv, NEW w \in Workers, SavePrepared(w) PROVE BInv'
<1>. DEFINE k == work[w].key
            to == [work[w] EXCEPT !.at = "reread"]
<1>1. /\ k \in References /\ Types /\ Entry(k) /\ work[w].at = "save"
      /\ JobFits(AtStripe, work[w], ledger[k], stripe[k], chain[k], age[k])
      /\ ledger[k] \in Operation /\ chain[k] \in Lane
  BY DEF RInv, SavePrepared, Fits, Types
<1>2. /\ to.at = "reread" /\ to.key = k /\ Turns(w, to)
      /\ UNCHANGED <<payment, chain>> /\ work[w].at \in Advancing
      /\ Write(k, work[w].op, "prepared", work[w].got)
  BY <1>1 DEF SavePrepared, Goes, Types, Job, Advancing, TempoPlaces, rails
<1>3. work[w].got \in Bytes /\ ~AtStripe /\ work[w].op.reference = Nothing
  BY <1>1 DEF JobFits, TempoPlaces
<1>4. ~(work[w].op = ledger[k] /\ ledger[k].state \in Lost)
  <2>. SUFFICES ASSUME ledger[k].reference = Nothing, ledger[k].state \in Lost PROVE FALSE
    BY <1>3
  <2>1. stripe[k] = <<>> /\ Told(ledger[k].state, stripe[k], chain[k])
    BY <1>1, <1>3 DEF Entry, EntryFits
  <2>2. chain[k].status = "reverted"
    BY <2>1 DEF Told
  <2>3. chain[k].mined \in {Nothing} /\ chain[k].mined # Nothing
    BY <1>1, <2>2 DEF Entry, EntryFits
  <2>. QED
    BY <2>3
<1>5. Settles(AtStripe, to, chain[to.key])
  BY <1>2, <1>3 DEF Settles
<1>6. "prepared" \in States
  BY DEF States
<1>. HIDE DEF to
<1>. QED
  BY <1>1, <1>2, <1>3, <1>4, <1>5, <1>6, WriteBalances

\* A reservation is within what is left.
LEMMA ReserveBalances ==
    ASSUME RInv, RInv', BInv, NEW w \in Workers, NEW r \in payment.requests,
           Reserve(w, r.key, r.amount)
    PROVE  BInv'
<1>. DEFINE k == r.key
            new == [NoOperation EXCEPT !.state = "reserved", !.amount = r.amount]
            to == [NotWorking EXCEPT !.at = "load", !.key = k, !.amount = r.amount]
<1>1. /\ k \in References /\ r.amount \in Nat /\ Types /\ ledger[k] \in Operation
      /\ Turns(w, to) /\ UNCHANGED <<payment, chain>> /\ to.at = "load"
  BY DEF RInv, Types, Reserve, rails, NotWorking
<1>2. new.state = "reserved" /\ new.amount = r.amount
  BY DEF NoOperation
<1>3. CASE ledger' = ledger
  <2>1. to.at \notin Advancing
    BY <1>1 DEF Advancing, StripePlaces, TempoPlaces
  <2>. QED
    BY <1>1, <1>3, <2>1, RestBalances
<1>4. CASE ledger' # ledger
  <2>1. /\ ledger[k].state = "none" /\ payment.legacy = 0 /\ r.amount + Held <= Paid
        /\ ledger' = [ledger EXCEPT ![k] = new]
    BY <1>4 DEF Reserve
  <2>. HIDE DEF new, to
  <2>2. ledger'[k] = new /\ \A j \in References \ {k} : ledger'[j] = ledger[j]
    BY <1>1, <2>1 DEF Types
  <2>3. Share(ledger[k]) = 0 /\ Share(new) = r.amount
    BY <1>2, <2>1 DEF Share, Lost
  <2>4. Shares' = [Shares EXCEPT ![k] = r.amount] /\ Shares[k] = 0
    BY <1>1, <2>2, <2>3 DEF Shares
  <2>5. Held = SumFunction(Shares) /\ Shares \in [References -> Int] /\ Held \in Nat
    BY <1>1, HeldIsOfShares
  <2>6. Held' = SumFunction(Shares')
    BY DEF Held, Shares, Share
  <2>7. Held' = Held + r.amount
    <3>1. /\ Shares' \in [References -> Int] /\ Shares'[k] = r.amount
          /\ \A j \in References : j # k => Shares'[j] = Shares[j]
      BY <1>1, <2>4, <2>5
    <3>2. SumFunction(Shares') = SumFunction(Shares) - Shares[k] + Shares'[k]
      BY <1>1, <2>5, <3>1, PaymentsAreOfCents, SumOfUpdate
    <3>. QED
      BY <1>1, <2>4, <2>5, <2>6, <3>1, <3>2
  <2>8. Held' <= Paid
    BY <1>1, <2>1, <2>5, <2>7, PaymentsAreOfCents
  <2>9. ASSUME NEW v \in Workers, work'[v].at # "idle"
        PROVE  Settles(AtStripe, work[v], chain[work[v].key])'
    <3>1. work'[v] = IF v = w THEN to ELSE work[v]
      BY <1>1 DEF Types, Turns
    <3>. QED
      BY <1>1, <2>9, <3>1 DEF BInv, Settles, AtStripe, Advancing, StripePlaces, TempoPlaces
  <2>10. \A j \in References : ledger'[j].state = "none" => ledger'[j].amount = 0
    BY <1>2, <2>2 DEF BInv
  <2>. QED
    BY <1>1, <2>1, <2>8, <2>9, <2>10 DEF BInv
<1>. QED
  BY <1>3, <1>4

\* Turns that write nothing.
LEMMA TakesBalances ==
    ASSUME RInv, BInv, NEW w \in Workers, NEW k \in References,
           k = work[w].key, Takes(w, k, ledger[k]), UNCHANGED <<payment, ledger, chain>>
    PROVE  BInv'
<1>. DEFINE op == ledger[k]
            to == [work[w] EXCEPT !.at = Turn(k, op), !.op = op]
<1>1. work[w] \in Job /\ Types
  BY DEF RInv, Types
<1>2. CASE Turn(k, op) = "over"
  <2>1. Turns(w, Over(w)) /\ Over(w).at \in {"idle", "finish"}
    BY <1>1, <1>2, JobsAreTyped DEF Takes
  <2>2. Over(w).at \notin Advancing
    BY <2>1 DEF Advancing, StripePlaces, TempoPlaces
  <2>. QED
    BY <2>1, <2>2, RestBalances
<1>3. CASE Turn(k, op) # "over"
  <2>1. Turns(w, to) /\ to.op = op /\ to.at = Turn(k, op) /\ to.key = k
    BY <1>1, <1>3 DEF Takes, Job
  <2>2. /\ AtStripe => op.state \notin Lost
        /\ Turn(k, op) # "write"
    BY <1>3 DEF Turn, AtStripe, Lost
  <2>3. Settles(AtStripe, to, chain[to.key])
    BY <2>1, <2>2 DEF Settles
  <2>. HIDE DEF to
  <2>. QED
    BY <2>1, <2>3, TurnBalances
<1>. QED
  BY <1>2, <1>3

LEMMA GoBalances ==
    ASSUME RInv, BInv, NEW w \in Workers,
           \/ StripeRetrieves(w) \/ Confirmed(w) \/ NoReceipt(w) \/ Reread(w)
           \/ \E outcome \in {"pending", "succeeded"} : StripeCreates(w, outcome)
           \/ \E bytes \in Bytes : Prepare(w, bytes)
    PROVE  BInv'
<1>. DEFINE k == work[w].key
<1>1. /\ work[w].at # "idle" /\ UNCHANGED <<payment, ledger, chain>> /\ work[w].at \in Advancing
  BY DEF StripeRetrieves, Confirmed, NoReceipt, Reread, StripeCreates, Prepare, rails,
         Advancing, StripePlaces, TempoPlaces
<1>2. /\ k \in References /\ Types /\ Entry(k) /\ work[w] \in Job /\ chain[k] \in Lane
      /\ JobFits(AtStripe, work[w], ledger[k], stripe[k], chain[k], age[k])
      /\ Settles(AtStripe, work[w], chain[k])
  BY <1>1 DEF RInv, BInv, Fits, Types
<1>3. ASSUME NEW at, NEW got,
             \/ at # "write"
             \/ AtStripe
             \/ chain[k].status # "none" /\ got.state = Outcome(chain[k].status),
             Turns(w, [work[w] EXCEPT !.at = at, !.got = got])
      PROVE  BInv'
  <2>. DEFINE to == [work[w] EXCEPT !.at = at, !.got = got]
  <2>1. to.at = at /\ to.got = got /\ to.op = work[w].op /\ to.key = k /\ Turns(w, to)
    BY <1>2, <1>3 DEF Job
  <2>. HIDE DEF to
  <2>2. Settles(AtStripe, to, chain[to.key])
    BY <1>1, <1>2, <1>3, <2>1 DEF Settles
  <2>. QED
    BY <1>1, <2>1, <2>2, TurnBalances
<1>4. CASE StripeRetrieves(w) \/ \E outcome \in {"pending", "succeeded"} : StripeCreates(w, outcome)
  <2>1. AtStripe
    BY <1>2, <1>4 DEF StripeRetrieves, StripeCreates, JobFits, StripePlaces
  <2>2. PICK got : Turns(w, [work[w] EXCEPT !.at = "write", !.got = got])
    BY <1>4 DEF StripeRetrieves, StripeCreates, Gets
  <2>. DEFINE to == [work[w] EXCEPT !.at = "write", !.got = got]
  <2>3. Turns(w, to) /\ to.op = work[w].op /\ to.key = k /\ to.at = "write"
    BY <1>2, <2>2 DEF Job
  <2>. HIDE DEF to
  <2>4. Settles(AtStripe, to, chain[to.key])
    BY <1>1, <1>2, <2>1, <2>3 DEF Settles
  <2>. QED
    BY <1>1, <2>3, <2>4, TurnBalances
<1>5. CASE \E bytes \in Bytes : Prepare(w, bytes)
  BY <1>3, <1>5 DEF Prepare, Gets
<1>6. CASE Confirmed(w)
  <2>1. chain[k].mined # Nothing /\ chain[k].status # "none"
    BY <1>2, <1>6 DEF Confirmed, JobFits, Entry, EntryFits
  <2>2. Turns(w, [work[w] EXCEPT !.at = "write",
                                 !.got = [reference |-> work[w].op.reference,
                                          state |-> Outcome(chain[k].status)]])
    BY <1>6 DEF Confirmed, Gets
  <2>. QED
    BY <1>3, <2>1, <2>2
<1>7. CASE NoReceipt(w)
  <2>1. CASE Turns(w, Over(w))
    <3>1. Over(w).at \notin Advancing
      BY <1>2, JobsAreTyped DEF Advancing, StripePlaces, TempoPlaces
    <3>. QED
      BY <1>1, <2>1, <3>1, RestBalances
  <2>2. CASE Goes(w, "broadcast") /\ work[w].at = "receipt"
    <3>1. ~AtStripe
      BY <1>2, <2>2 DEF JobFits, TempoPlaces
    <3>. DEFINE to == [work[w] EXCEPT !.at = "broadcast"]
    <3>2. to.at = "broadcast" /\ Turns(w, to)
      BY <1>2, <2>2 DEF Goes, Job
    <3>. HIDE DEF to
    <3>3. Settles(AtStripe, to, chain[to.key])
      BY <3>1, <3>2 DEF Settles
    <3>. QED
      BY <1>1, <3>2, <3>3, TurnBalances
  <2>. QED
    BY <1>7, <2>1, <2>2 DEF NoReceipt
<1>8. CASE Reread(w)
  <2>1. ~AtStripe
    BY <1>2, <1>8 DEF Reread, JobFits, TempoPlaces
  <2>. DEFINE to == [work[w] EXCEPT !.at = "receipt", !.op = ledger[k]]
  <2>2. to.at = "receipt" /\ Turns(w, to)
    BY <1>2, <1>8 DEF Reread, Job
  <2>. HIDE DEF to
  <2>3. Settles(AtStripe, to, chain[to.key])
    BY <2>1, <2>2 DEF Settles
  <2>. QED
    BY <1>1, <2>2, <2>3, TurnBalances
<1>. QED
  BY <1>4, <1>5, <1>6, <1>7, <1>8

\* The rails, the reconciler and time.
LEMMA RailsBalance ==
    ASSUME RInv, BInv, NEW k \in References,
           UNCHANGED <<payment, ledger>>,
           \A j \in References : chain[j].status # "none" => chain'[j].status = chain[j].status,
           \A v \in Workers : /\ work'[v].at = work[v].at /\ work'[v].key = work[v].key
                              /\ work'[v].op = work[v].op /\ work'[v].got = work[v].got
    PROVE  BInv'
<1>1. Held' = Held
  BY DEF Held
<1>2. ASSUME NEW v \in Workers, work'[v].at # "idle"
      PROVE  Settles(AtStripe, work[v], chain[work[v].key])'
  <2>1. work[v].key \in References /\ Settles(AtStripe, work[v], chain[work[v].key])
    BY <1>2 DEF RInv, Fits, BInv
  <2>. QED
    BY <2>1 DEF Settles, AtStripe
<1>. QED
  BY <1>1, <1>2 DEF BInv

LEMMA OthersBalance ==
    ASSUME RInv, BInv, NEW k \in References,
           RailStep(k) \/ ComesDue(k) \/ LeaseRunsOut(k) \/ OperationAges(k)
    PROVE  BInv'
<1>1. \A v \in Workers : work[v] \in Job
  BY DEF RInv, Types
<1>2. UNCHANGED <<payment, ledger>>
  BY DEF RailStep, StripeMoves, ChainMines, ComesDue, LeaseRunsOut, OperationAges
<1>3. \A v \in Workers : /\ work'[v].at = work[v].at /\ work'[v].key = work[v].key
                         /\ work'[v].op = work[v].op /\ work'[v].got = work[v].got
  <2>1. CASE LeaseRunsOut(k)
    BY <1>1, <2>1 DEF LeaseRunsOut, Job
  <2>2. CASE ~LeaseRunsOut(k)
    BY <2>2 DEF RailStep, StripeMoves, ChainMines, ComesDue, OperationAges
  <2>. QED
    BY <2>1, <2>2
<1>4. \A j \in References : chain[j].status # "none" => chain'[j].status = chain[j].status
  <2>1. CASE \E bytes \in Bytes, outcome \in {"success", "reverted", "other"} :
                ChainMines(k, bytes, outcome)
    <3>1. chain[k].status = "none"
      BY <2>1 DEF ChainMines, RInv, Entry, EntryFits
    <3>2. \A j \in References \ {k} : chain'[j] = chain[j]
      BY <2>1 DEF ChainMines, RInv, Types
    <3>. QED
      BY <3>1, <3>2
  <2>2. CASE chain' = chain
    BY <2>2
  <2>. QED
    BY <2>1, <2>2 DEF RailStep, StripeMoves, ComesDue, LeaseRunsOut, OperationAges, rails
<1>. QED
  BY <1>2, <1>3, <1>4, RailsBalance

LEMMA BroadcastBalances ==
    ASSUME RInv, BInv, NEW w \in Workers, Broadcast(w) PROVE BInv'
<1>. DEFINE k == work[w].key
            to == [work[w] EXCEPT !.at = "receipt again"]
<1>1. /\ k \in References /\ Types /\ work[w] \in Job /\ ~AtStripe
      /\ UNCHANGED <<payment, ledger>>
  BY DEF RInv, Broadcast, Fits, Types, JobFits, TempoPlaces
<1>2. \A j \in References : chain'[j].status = chain[j].status
  <2>. DEFINE lane == [chain[k] EXCEPT !.sent = @ \cup {work[w].op.reference}]
  <2>1. lane.status = chain[k].status
    BY <1>1 DEF Types, Lane
  <2>2. chain' = [chain EXCEPT ![k] = lane] \/ chain' = chain
    BY DEF Broadcast
  <2>. HIDE DEF lane
  <2>. QED
    BY <1>1, <2>1, <2>2 DEF Types
<1>3. Turns(w, to) /\ to.at = "receipt again"
  BY <1>1 DEF Broadcast, Goes, Job
<1>. HIDE DEF to
<1>4. \A v \in Workers : work'[v] = IF v = w THEN to ELSE work[v]
  BY <1>1, <1>3 DEF Types, Turns
<1>5. Held' = Held
  BY <1>1 DEF Held
<1>6. ASSUME NEW v \in Workers, work'[v].at # "idle"
      PROVE  Settles(AtStripe, work[v], chain[work[v].key])'
  <2>1. CASE v = w
    BY <1>1, <1>3, <1>4, <2>1 DEF Settles, AtStripe
  <2>2. CASE v # w
    <3>1. work[v].key \in References /\ Settles(AtStripe, work[v], chain[work[v].key])
      BY <1>4, <1>6, <2>2 DEF RInv, Fits, BInv
    <3>. QED
      BY <1>1, <1>2, <1>4, <2>2, <3>1 DEF Settles, AtStripe
  <2>. QED
    BY <2>1, <2>2
<1>. QED
  BY <1>1, <1>5, <1>6 DEF BInv

LEMMA RestsBalance ==
    ASSUME RInv, BInv, NEW w \in Workers,
           Finish(w) \/ CallFails(w) \/ WorkerDies(w) \/ \E k \in References : Claim(w, k)
    PROVE  BInv'
<1>1. /\ NotWorking.at \notin Advancing /\ Over(w).at \notin Advancing
      /\ UNCHANGED <<payment, ledger, chain>>
  BY JobsAreTyped DEF NotWorking, Advancing, StripePlaces, TempoPlaces, Finish, CallFails,
     WorkerDies, Claim, rails, RInv
<1>2. CASE Turns(w, NotWorking) \/ Turns(w, Over(w))
  BY <1>1, <1>2, RestBalances
<1>3. ASSUME NEW k \in References, Claim(w, k) PROVE BInv'
  <2>. DEFINE to == [NotWorking EXCEPT !.at = "get", !.key = k, !.lease = queue[k].attempts + 1]
  <2>1. Turns(w, to) /\ to.at = "get"
    BY <1>3 DEF Claim, NotWorking
  <2>. HIDE DEF to
  <2>2. to.at \notin Advancing
    BY <2>1 DEF Advancing, StripePlaces, TempoPlaces
  <2>. QED
    BY <1>1, <2>1, <2>2, RestBalances
<1>. QED
  BY <1>2, <1>3 DEF Finish, CallFails, WorkerDies

LEMMA LoadAndGetBalance ==
    ASSUME RInv, BInv, NEW w \in Workers, Load(w) \/ Get(w) PROVE BInv'
<1>. DEFINE k == work[w].key
<1>1. k \in References /\ UNCHANGED <<payment, ledger, chain>> /\ Types
  BY DEF RInv, Load, Get, Fits, rails
<1>2. NotWorking.at \notin Advancing /\ Over(w).at \notin Advancing
  BY <1>1, JobsAreTyped DEF NotWorking, Advancing, StripePlaces, TempoPlaces
<1>3. CASE Turns(w, NotWorking) \/ Turns(w, Over(w))
  BY <1>1, <1>2, <1>3, RestBalances
<1>4. CASE Takes(w, k, ledger[k])
  BY <1>1, <1>4, TakesBalances
<1>. QED
  BY <1>3, <1>4 DEF Load, Get

LEMMA BalanceStarts == LedgerInit => BInv
<1>. SUFFICES ASSUME LedgerInit PROVE BInv
  OBVIOUS
<1>1. Types
  BY LedgerStarts DEF IInv, RInv
<1>2. \A k \in References : ledger[k].state = "none" /\ ledger[k].amount = 0
  BY DEF LedgerInit, NoOperation
<1>3. Held = SumFunction(Shares) /\ Shares \in [References -> Int] /\ \A k \in References : Shares[k] = 0
  BY <1>1, <1>2, HeldIsOfShares DEF Shares, Share
<1>4. Held = 0
  BY <1>3, PaymentsAreOfCents, SumOfZeros
<1>5. \A w \in Workers : work[w].at = "idle"
  BY DEF LedgerInit, NotWorking
<1>. QED
  BY <1>2, <1>4, <1>5, PaymentsAreOfCents DEF BInv

LEMMA BalanceGoesOn == IInv /\ BInv /\ [LedgerNext]_refunding => BInv'
<1>. SUFFICES ASSUME IInv, BInv, [LedgerNext]_refunding PROVE BInv'
  OBVIOUS
<1>1. RInv /\ RInv' /\ Types
  BY LedgerGoesOn DEF IInv, RInv
<1>2. CASE UNCHANGED refunding
  BY <1>2 DEF refunding, rails, BInv, Held, AtStripe, Settles
<1>3. ASSUME NEW w \in Workers, WorkStep(w) PROVE BInv'
  <2>1. CASE Finish(w)
    BY <1>1, <2>1, RestsBalance
  <2>2. CASE Load(w) \/ Get(w)
    BY <1>1, <2>2, LoadAndGetBalance
  <2>3. CASE WriteAnswer(w)
    BY <1>1, <2>3, WriteAnswerBalances
  <2>4. CASE SavePrepared(w)
    BY <1>1, <2>4, SavePreparedBalances
  <2>5. CASE Broadcast(w)
    BY <1>1, <2>5, BroadcastBalances
  <2>6. CASE \/ StripeRetrieves(w) \/ Confirmed(w) \/ NoReceipt(w) \/ Reread(w)
             \/ \E outcome \in {"pending", "succeeded"} : StripeCreates(w, outcome)
             \/ \E bytes \in Bytes : Prepare(w, bytes)
    BY <1>1, <2>6, GoBalances
  <2>. QED
    BY <1>3, <2>1, <2>2, <2>3, <2>4, <2>5, <2>6 DEF WorkStep
<1>4. ASSUME NEW w \in Workers, CallFails(w) \/ WorkerDies(w) PROVE BInv'
  BY <1>1, <1>4, RestsBalance
<1>5. ASSUME NEW w \in Workers, NEW r \in payment.requests, Reserve(w, r.key, r.amount)
      PROVE  BInv'
  BY <1>1, <1>5, ReserveBalances
<1>6. ASSUME NEW k \in References, Reconciles(k) PROVE BInv'
  BY <1>1, <1>6, RestsBalance DEF Reconciles
<1>7. ASSUME NEW k \in References,
             RailStep(k) \/ ComesDue(k) \/ LeaseRunsOut(k) \/ OperationAges(k)
      PROVE  BInv'
  BY <1>1, <1>7, OthersBalance
<1>. QED
  BY <1>2, <1>3, <1>4, <1>5, <1>6, <1>7 DEF LedgerNext

\* The invariants say what the ledger promises.
LEMMA LedgerSuffices == IInv /\ BInv => LedgerIsTrue
<1>. SUFFICES ASSUME IInv, BInv PROVE LedgerIsTrue
  OBVIOUS
<1>1. ASSUME NEW k \in References
      PROVE  LET op == ledger[k] IN
             /\ Len(stripe[k]) <= 1
             /\ chain[k].mined # Nothing => chain[k].mined = op.reference
             /\ Told(op.state, stripe[k], chain[k])
  BY <1>1 DEF IInv, RInv, Entry, EntryFits
<1>2. LedgerIsTheRails
  BY <1>1 DEF LedgerIsTheRails, Told
<1>3. LeasesAreKept
  BY DEF IInv, LInv, Leased, LeasesAreKept
<1>4. NeverOverRefunded
  BY BalanceSuffices DEF IInv
<1>. QED
  BY <1>2, <1>3, <1>4 DEF LedgerIsTrue

\* For any workers, references and payments, whatever calls fail and however late
\* workers are, no operation is refunded twice, what the ledger says of it is what
\* its rail did, a reconciler keeps its lease until its time is over, and the rails
\* never pay back more than was paid (reserve, update, advanceStripeRefund,
\* advanceTempoRefund, claim, finish).
THEOREM LedgerHolds == LedgerSpec => []LedgerIsTrue
<1>1. LedgerInit => IInv /\ BInv
  BY LedgerStarts, BalanceStarts
<1>2. IInv /\ BInv /\ [LedgerNext]_refunding => IInv' /\ BInv'
  BY LedgerGoesOn, BalanceGoesOn
<1>3. IInv /\ BInv => LedgerIsTrue
  BY LedgerSuffices
<1>. QED
  BY <1>1, <1>2, <1>3, PTL DEF LedgerSpec

(***************************************************************************)
(* Refunds of the gateway                                                  *)
(***************************************************************************)
Recorded == [key : Keys, amount : 1 .. Total]

Answers == [total : {Total}, refunded : 0 .. Total, status : Statuses, tracking : Trackings,
            verified : BOOLEAN]

Places == {"idle", "asking", "refunded", "status"}
Call == [at : Places, request : Requests \cup {None}, amount : 0 .. Total,
         status : Answers \cup {None}]

RefundTypes ==
    /\ scene \in Scenes
    /\ refunds \in Seq(Recorded)
    /\ bound \in [Keys -> Requests \cup {None}]
    /\ view \in Answers \cup {None}
    /\ call \in [Threads -> Call]
    /\ pending \in [Keys -> 0 .. Total]
    /\ given \in [Keys -> 0 .. Total]
    /\ otherwise \in 0 .. Total
    /\ status \in Statuses /\ tracking \in Trackings

\* A call that has its request, and what it knows of the merchant.
Asks(c) == c.at \in {"asking", "refunded"}

CallFits(c, t, mine, books) ==
    /\ c # Idle => t \in mine.threads
    /\ Asks(c) => c.request \in Requests /\ c.amount \in 1 .. Total
    /\ c.at = "refunded" /\ mine.plugin => books[c.request.key] = c.amount

\* What the merchant gave, by the keys that the gateway has on record.
OnRecord == [k \in Keys |-> IF bound[k] = None THEN 0 ELSE given[k]]

\* One request at a time: its key is new, and it is for what remains.
Alone ==
    /\ \A t \in Threads : Asks(call[t]) =>
          bound[call[t].request.key] = None /\ Sum(refunds) + call[t].amount <= Total
    /\ Sum(refunds) <= Total
    /\ \A i \in 1 .. Len(refunds) : bound[refunds[i].key] # None
    /\ \A i, j \in 1 .. Len(refunds) : refunds[i].key = refunds[j].key => i = j
    /\ scene.plugin => Sum(refunds) = SumFunction(OnRecord)

\* An answer is not more than what happened.
IsTrue(answer, back, events, ok) ==
    /\ answer.refunded <= back
    /\ answer.status = "cancelled" => "cancelled" \in events
    /\ answer.tracking = "exception" => "exception" \in events
    /\ answer.verified => ok

Verified == scene.verifier /\ \E k \in Keys : given[k] > 0

GInv ==
    /\ RefundTypes
    /\ \A t \in Threads : CallFits(call[t], t, scene, given)
    /\ scene.plugin =>
          /\ \A i \in 1 .. Len(refunds) : given[refunds[i].key] = refunds[i].amount
          /\ PaidBack <= Total
    /\ OneAtATime => Alone

TInv ==
    /\ status = "cancelled" => "cancelled" \in happened
    /\ tracking = "exception" => "exception" \in happened
    /\ \A t \in Threads :
          call[t].status # None => IsTrue(call[t].status, PaidBack, happened, Verified)
    /\ view # None => IsTrue(view, PaidBack, happened, Verified)

(***************************************************************************)
(* Sums of what is on record                                               *)
(***************************************************************************)
Amounts(s) == [i \in 1 .. Len(s) |-> s[i].amount]

LEMMA KeysAreFinite == IsFiniteSet(Keys)
<1>1. IsFiniteSet(Requests)
  BY RequestsAreRecords
<1>. DEFINE keyOf == [r \in Requests |-> r.key]
<1>2. keyOf \in Surjection(Requests, Keys)
  BY DEF Surjection, Keys
<1>. QED
  BY <1>1, <1>2, FS_Surjection

LEMMA SumOfRecorded ==
    ASSUME NEW s \in Seq(Recorded)
    PROVE  Sum(s) \in Nat /\ Sum(s) = SumFunction(Amounts(s))
<1>1. Len(s) \in Nat /\ \A i \in 1 .. Len(s) : s[i] \in Recorded
  BY ElementOfSeq
<1>2. Amounts(s) \in [1 .. Len(s) -> Nat]
  <2>1. \A i \in 1 .. Len(s) : s[i].amount \in Nat
    BY <1>1 DEF Recorded
  <2>. QED
    BY <2>1 DEF Amounts
<1>3. IsFiniteSet(1 .. Len(s))
  BY <1>1, FS_Interval
<1>4. SumFunction(Amounts(s)) \in Nat
  BY <1>2, <1>3, SumOfNaturals
<1>. QED
  BY <1>4 DEF Sum, Amounts

LEMMA SumOfOneMore ==
    ASSUME NEW s \in Seq(Recorded), NEW r \in Recorded
    PROVE  /\ Append(s, r) \in Seq(Recorded)
           /\ Len(Append(s, r)) = Len(s) + 1
           /\ Append(s, r)[Len(s) + 1] = r
           /\ \A i \in 1 .. Len(s) : Append(s, r)[i] = s[i]
           /\ Sum(Append(s, r)) = Sum(s) + r.amount
<1>. DEFINE n == Len(s)
            more == Append(s, r)
<1>1. /\ more \in Seq(Recorded) /\ Len(more) = n + 1 /\ more[n + 1] = r /\ n \in Nat
      /\ \A i \in 1 .. n : more[i] = s[i]
  BY AppendProperties
<1>. HIDE DEF more
<1>. HIDE DEF n
<1>. DEFINE S == 1 .. n
            T == 1 .. (n + 1)
<1>2. n + 1 \in T /\ S = T \ {n + 1} /\ IsFiniteSet(S)
  <2>1. IsFiniteSet(S)
    BY <1>1, FS_Interval
  <2>. QED
    BY <1>1, <2>1
<1>3. \A i \in T : more[i].amount \in Nat
  <2>1. \A i \in T : more[i] \in Recorded
    BY <1>1, ElementOfSeq
  <2>. QED
    BY <2>1 DEF Recorded
<1>4. Amounts(s) \in [S -> Int] /\ Amounts(more) \in [T -> Int]
  BY <1>1, <1>2, <1>3 DEF Amounts, n
<1>5. \A i \in S : Amounts(more)[i] = Amounts(s)[i]
  BY <1>1, <1>2 DEF Amounts, n
<1>. HIDE DEF S, T
<1>6. SumFunction(Amounts(more)) = SumFunction(Amounts(s)) + Amounts(more)[n + 1]
  BY <1>2, <1>4, <1>5, SumOfExtension
<1>7. Amounts(more)[n + 1] = r.amount
  BY <1>1, <1>2 DEF Amounts, T
<1>8. Sum(more) = Sum(s) + r.amount
  BY <1>6, <1>7 DEF Sum, Amounts
<1>. QED
  BY <1>1, <1>8 DEF more, n

LEMMA SumOfNone == Sum(<<>>) = 0
<1>1. SumFunction(Amounts(<<>>)) = SumFunctionOnSet(Amounts(<<>>), {})
  <2>1. IsFiniteSet({}) /\ Amounts(<<>>) \in [{} -> Int]
    BY FS_EmptySet DEF Amounts
  <2>. QED
    BY <2>1, SumType
<1>. QED
  BY <1>1, SumOfNothing DEF Sum, Amounts

LEMMA SumOfGiven ==
    ASSUME NEW books \in [Keys -> 0 .. Total]
    PROVE  SumFunction(books) \in Nat
<1>1. books \in [Keys -> Nat]
  BY TotalIsPositive
<1>. QED
  BY <1>1, KeysAreFinite, SumOfNaturals

LEMMA SumOfGift ==
    ASSUME NEW books \in [Keys -> 0 .. Total], NEW k \in Keys, NEW amount \in 0 .. Total
    PROVE  LET more == [books EXCEPT ![k] = amount] IN
           /\ more \in [Keys -> 0 .. Total] /\ more[k] = amount
           /\ \A j \in Keys : j # k => more[j] = books[j]
           /\ SumFunction(more) = SumFunction(books) - books[k] + amount
<1>. DEFINE more == [books EXCEPT ![k] = amount]
<1>1. /\ more \in [Keys -> 0 .. Total] /\ more[k] = amount
      /\ \A j \in Keys : j # k => more[j] = books[j]
  OBVIOUS
<1>. HIDE DEF more
<1>2. more \in [Keys -> Int] /\ books \in [Keys -> Int]
  BY <1>1, TotalIsPositive
<1>3. SumFunction(more) = SumFunction(books) - books[k] + more[k]
  BY <1>1, <1>2, KeysAreFinite, SumOfUpdate
<1>. QED
  BY <1>1, <1>3 DEF more

(***************************************************************************)
(* What stays so                                                           *)
(***************************************************************************)
LEMMA PaidBackIsNat ==
    ASSUME RefundTypes PROVE SumFunction(given) \in Nat /\ PaidBack \in Nat /\ Sum(refunds) \in Nat
  BY SumOfGiven, SumOfRecorded, TotalIsPositive DEF RefundTypes, PaidBack

\* What was true of the order is true of what follows.
LEMMA StaysTrue ==
    ASSUME RefundTypes, TInv,
           NEW back \in Nat, PaidBack <= back, PaidBack' = back,
           happened \subseteq happened', Verified => Verified',
           status' = "cancelled" => status = "cancelled" \/ "cancelled" \in happened',
           tracking' = "exception" => tracking = "exception" \/ "exception" \in happened',
           \A t \in Threads :
              \/ call'[t].status = call[t].status \/ call'[t].status = None
              \/ IsTrue(call'[t].status, back, happened', Verified'),
           \/ view' = view
           \/ \E t \in Threads : view' = call[t].status
    PROVE  TInv'
<1>1. PaidBack \in Nat /\ \A t \in Threads : call[t] \in Call
  BY PaidBackIsNat DEF RefundTypes
<1>2. ASSUME NEW a \in Answers, IsTrue(a, PaidBack, happened, Verified)
      PROVE  IsTrue(a, back, happened', Verified')
  BY <1>1, <1>2 DEF IsTrue, Answers
<1>3. ASSUME NEW t \in Threads, call'[t].status # None
      PROVE  IsTrue(call'[t].status, back, happened', Verified')
  <2>1. CASE call'[t].status = call[t].status
    <3>1. call[t].status \in Answers /\ IsTrue(call[t].status, PaidBack, happened, Verified)
      BY <1>1, <1>3, <2>1 DEF Call, TInv
    <3>. QED
      BY <1>2, <2>1, <3>1
  <2>. QED
    BY <1>3, <2>1
<1>4. ASSUME view' # None PROVE IsTrue(view', back, happened', Verified')
  <2>1. view' \in Answers /\ IsTrue(view', PaidBack, happened, Verified)
    BY <1>1, <1>4 DEF TInv, RefundTypes, Call
  <2>. QED
    BY <1>2, <2>1
<1>. QED
  BY <1>3, <1>4 DEF TInv

\* Nobody but one thread moves, and the merchant's books and what is on record
\* stay, whatever is reserved.
LEMMA CallMoves ==
    ASSUME GInv, TInv, NEW t \in scene.threads, NEW c \in Call, Becomes(t, c),
           UNCHANGED <<scene, refunds, bound, view, shop>>,
           pending' \in [Keys -> 0 .. Total],
           CallFits(c, t, scene, given),
           OneAtATime /\ Asks(c) =>
              bound[c.request.key] = None /\ Sum(refunds) + c.amount <= Total,
           \/ c.status = None
           \/ IsTrue(c.status, PaidBack, happened, Verified)
    PROVE  GInv' /\ TInv'
<1>1. t \in Threads /\ RefundTypes
  BY ScenesAreScenes DEF GInv, RefundTypes
<1>2. /\ call' \in [Threads -> Call]
      /\ \A u \in Threads : call'[u] = IF u = t THEN c ELSE call[u]
  BY <1>1 DEF Becomes, RefundTypes
<1>3. RefundTypes'
  BY <1>1, <1>2 DEF RefundTypes, shop
<1>4. PaidBack' = PaidBack /\ (Verified' <=> Verified) /\ PaidBack \in Nat
  BY <1>1, PaidBackIsNat DEF PaidBack, Verified, shop
<1>5. TInv'
  <2>1. UNCHANGED <<status, tracking, happened, view>>
    BY DEF shop
  <2>2. c.status # None => IsTrue(c.status, PaidBack, happened', Verified')
    BY <1>4, <2>1 DEF IsTrue
  <2>3. ASSUME NEW u \in Threads
        PROVE  \/ call'[u].status = call[u].status \/ call'[u].status = None
               \/ IsTrue(call'[u].status, PaidBack, happened', Verified')
    BY <1>2, <2>2, <2>3
  <2>. QED
    BY <1>1, <1>4, <2>1, <2>3, StaysTrue
<1>6. \A u \in Threads : CallFits(call'[u], u, scene', given')
  BY <1>2 DEF GInv, shop
<1>7. OneAtATime /\ Alone => Alone'
  BY <1>2 DEF Alone, OnRecord, shop
<1>. QED
  BY <1>3, <1>4, <1>5, <1>6, <1>7 DEF GInv, OneAtATime, shop

(***************************************************************************)
(* Steps                                                                   *)
(***************************************************************************)
LEMMA RestingCall ==
    ASSUME NEW t, NEW mine, NEW books
    PROVE  Idle \in Call /\ CallFits(Idle, t, mine, books) /\ ~Asks(Idle) /\ Idle.status = None
<1>1. Idle \in Call /\ ~Asks(Idle) /\ Idle.status = None /\ Idle.at = "idle"
  BY TotalIsPositive DEF Idle, Call, Places, Asks
<1>. QED
  BY <1>1 DEF CallFits

LEMMA ReservationsStay ==
    ASSUME GInv, UNCHANGED pending PROVE pending' \in [Keys -> 0 .. Total]
  BY DEF GInv, RefundTypes

LEMMA StartRefundFits ==
    ASSUME GInv, TInv, NEW t \in scene.threads, NEW r \in scene.requests, StartRefund(t, r)
    PROVE  GInv' /\ TInv'
<1>. DEFINE amount == IF r.amount = 0 THEN Remaining ELSE r.amount
            c == [Idle EXCEPT !.at = "asking", !.request = r, !.amount = amount]
<1>1. r \in Requests /\ RefundTypes /\ r.amount \in 0 .. Total
  BY ScenesAreScenes, RequestsAreRecords DEF GInv, RefundTypes
<1>2. Remaining > 0 /\ amount <= Remaining /\ bound[r.key] = None /\ Becomes(t, c)
  BY DEF StartRefund
<1>3. Sum(refunds) \in Nat /\ Total \in Nat
  BY <1>1, PaidBackIsNat, TotalIsPositive
<1>4. Remaining \in 1 .. Total /\ Remaining + Sum(refunds) = Total
  BY <1>2, <1>3 DEF Remaining
<1>5. amount \in 1 .. Total /\ Sum(refunds) + amount <= Total
  BY <1>1, <1>2, <1>3, <1>4
<1>6. /\ c.at = "asking" /\ c.request = r /\ c.amount = amount /\ c.status = None
      /\ DOMAIN c = {"at", "request", "amount", "status"}
  BY DEF Idle
<1>. HIDE DEF amount
<1>7. c \in Call
  <2>1. amount \in 0 .. Total
    BY <1>3, <1>5
  <2>. QED
    BY <1>1, <2>1 DEF Call, Places, Idle
<1>. HIDE DEF c
<1>8. CallFits(c, t, scene, given)
  BY <1>1, <1>5, <1>6 DEF CallFits
<1>9. UNCHANGED <<scene, refunds, bound, view, pending, shop>>
  BY DEF StartRefund
<1>. QED
  BY <1>2, <1>5, <1>6, <1>7, <1>8, <1>9, CallMoves, ReservationsStay

LEMMA EndsFit ==
    ASSUME GInv, TInv, NEW t \in scene.threads, RefundFails(t)
    PROVE  GInv' /\ TInv'
<1>1. Becomes(t, Idle) /\ UNCHANGED <<scene, refunds, bound, view, pending, shop>>
  BY DEF RefundFails
<1>. QED
  BY <1>1, RestingCall, CallMoves, ReservationsStay

LEMMA MerchantReservesFits ==
    ASSUME GInv, TInv, NEW t \in scene.threads, MerchantReserves(t)
    PROVE  GInv' /\ TInv'
<1>1. t \in Threads /\ CallFits(call[t], t, scene, given) /\ Asks(call[t]) /\ RefundTypes
  BY ScenesAreScenes DEF GInv, RefundTypes, MerchantReserves, Asks
<1>2. call[t].amount \in 0 .. Total
  BY <1>1 DEF CallFits
<1>3. pending' \in [Keys -> 0 .. Total]
  <2>1. PICK reserved \in {0, call[t].amount} :
             pending' = [pending EXCEPT ![call[t].request.key] = reserved]
    BY DEF MerchantReserves
  <2>2. reserved \in 0 .. Total /\ pending \in [Keys -> 0 .. Total]
    BY <1>1, <1>2, TotalIsPositive DEF RefundTypes
  <2>. QED
    BY <2>1, <2>2
<1>4. Becomes(t, Idle) /\ UNCHANGED <<scene, refunds, bound, view, shop>>
  BY DEF MerchantReserves
<1>. QED
  BY <1>3, <1>4, RestingCall, CallMoves

LEMMA MerchantReplaysFits ==
    ASSUME GInv, TInv, NEW t \in scene.threads, MerchantReplays(t)
    PROVE  GInv' /\ TInv'
<1>. DEFINE c == [call[t] EXCEPT !.at = "refunded"]
<1>1. t \in Threads /\ call[t] \in Call /\ CallFits(call[t], t, scene, given)
      /\ Asks(call[t])
  BY ScenesAreScenes DEF GInv, RefundTypes, MerchantReplays, Asks
<1>2. /\ c \in Call /\ c.at = "refunded" /\ c.request = call[t].request
      /\ c.amount = call[t].amount /\ c.status = call[t].status
  BY <1>1 DEF Call, Places
<1>3. Becomes(t, c) /\ given[c.request.key] = c.amount
      /\ UNCHANGED <<scene, refunds, bound, view, pending, shop>>
  BY <1>2 DEF MerchantReplays
<1>. HIDE DEF c
<1>4. CallFits(c, t, scene, given) /\ Asks(c)
  BY <1>1, <1>2, <1>3 DEF CallFits, Asks
<1>5. OneAtATime =>
         bound[c.request.key] = None /\ Sum(refunds) + c.amount <= Total
  BY <1>1, <1>2 DEF GInv, Alone
<1>6. c.status = None \/ IsTrue(c.status, PaidBack, happened, Verified)
  BY <1>1, <1>2 DEF TInv
<1>. QED
  BY <1>2, <1>3, <1>4, <1>5, <1>6, CallMoves, ReservationsStay

LEMMA MerchantRefundsFits ==
    ASSUME GInv, TInv, NEW t \in scene.threads, MerchantRefunds(t)
    PROVE  GInv' /\ TInv'
<1>. DEFINE k == call[t].request.key
            amount == call[t].amount
            c == [call[t] EXCEPT !.at = "refunded"]
<1>1. /\ t \in Threads /\ call[t] \in Call /\ CallFits(call[t], t, scene, given)
      /\ Asks(call[t]) /\ RefundTypes /\ scene.plugin \in BOOLEAN
  BY ScenesAreScenes DEF GInv, RefundTypes, MerchantRefunds, Asks
<1>2. /\ c \in Call /\ c.at = "refunded" /\ c.request = call[t].request
      /\ c.amount = amount /\ c.status = call[t].status /\ Asks(c) /\ c # Idle
  BY <1>1 DEF Call, Places, Asks, Idle
<1>3. /\ Becomes(t, c) /\ Refundable(k, amount)
      /\ UNCHANGED <<scene, refunds, bound, view, otherwise, tracking, happened>>
  BY DEF MerchantRefunds
<1>4. k \in Keys /\ amount \in 1 .. Total /\ t \in scene.threads /\ amount \in 0 .. Total
  BY <1>1, TotalIsPositive DEF CallFits, Keys
<1>5. OneAtATime => bound[k] = None /\ Sum(refunds) + amount <= Total
  BY <1>1 DEF GInv, Alone
<1>6. CASE ~scene.plugin
  <2>1. CallFits(c, t, scene, given)
    BY <1>1, <1>2, <1>6 DEF CallFits
  <2>2. c.status = None \/ IsTrue(c.status, PaidBack, happened, Verified)
    BY <1>1, <1>2 DEF TInv
  <2>3. UNCHANGED <<scene, refunds, bound, view, pending, shop>>
    BY <1>3, <1>6 DEF MerchantRefunds, shop
  <2>. HIDE DEF c
  <2>. QED
    BY <1>2, <1>3, <1>5, <2>1, <2>2, <2>3, CallMoves, ReservationsStay
<1>7. CASE scene.plugin
  <2>0. ReservedBeside(k) \in Nat /\ [pending EXCEPT ![k] = 0] \in [Keys -> 0 .. Total]
    <3>1. [pending EXCEPT ![k] = 0] \in [Keys -> 0 .. Total]
      BY <1>1, <1>4, TotalIsPositive DEF RefundTypes
    <3>. QED
      BY <3>1, SumOfGiven DEF ReservedBeside
  <2>1. /\ given[k] = 0 /\ PaidBack + amount <= Total
        /\ given' = [given EXCEPT ![k] = amount] /\ status' \in {status, "refunded"}
        /\ pending' \in [Keys -> 0 .. Total]
    <3>1. given[k] = 0 /\ PaidBack + ReservedBeside(k) + amount <= Total
      BY <1>3, <1>7 DEF Refundable
    <3>2. PaidBack \in Nat /\ Total \in Nat
      BY <1>1, PaidBackIsNat, TotalIsPositive
    <3>3. PaidBack + amount <= Total
      BY <1>4, <2>0, <3>1, <3>2
    <3>. QED
      BY <1>7, <2>0, <3>1, <3>3 DEF MerchantRefunds, PaysBack
  <2>2. /\ given' \in [Keys -> 0 .. Total] /\ given'[k] = amount
        /\ \A j \in Keys : j # k => given'[j] = given[j]
        /\ SumFunction(given') = SumFunction(given) - given[k] + amount
    <3>1. given \in [Keys -> 0 .. Total]
      BY <1>1 DEF RefundTypes
    <3>. HIDE DEF k, amount
    <3>2. LET more == [given EXCEPT ![k] = amount] IN
           /\ more \in [Keys -> 0 .. Total] /\ more[k] = amount
           /\ \A j \in Keys : j # k => more[j] = given[j]
           /\ SumFunction(more) = SumFunction(given) - given[k] + amount
      BY <1>4, <3>1, SumOfGift
    <3>. QED
      BY <2>1, <3>2
  <2>. HIDE DEF amount, k, c
  <2>3. /\ call' \in [Threads -> Call]
        /\ \A u \in Threads : call'[u] = IF u = t THEN c ELSE call[u]
    BY <1>1, <1>2, <1>3 DEF Becomes, RefundTypes
  <2>4. RefundTypes'
    BY <1>1, <1>3, <2>1, <2>2, <2>3 DEF RefundTypes, Statuses
  <2>5. /\ PaidBack' = PaidBack + amount /\ PaidBack' \in Nat /\ PaidBack <= PaidBack'
        /\ PaidBack' <= Total
    <3>1. SumFunction(given) \in Nat /\ PaidBack \in Nat /\ otherwise \in Nat
      BY <1>1, PaidBackIsNat, TotalIsPositive DEF RefundTypes
    <3>. QED
      BY <1>3, <1>4, <2>1, <2>2, <3>1 DEF PaidBack
  <2>6. Verified => Verified'
    BY <1>3, <2>1, <2>2 DEF Verified
  <2>7. TInv'
    <3>1. \A u \in Threads : call'[u].status = call[u].status
      BY <1>2, <2>3
    <3>2. /\ status' = "cancelled" => status = "cancelled"
          /\ UNCHANGED <<tracking, happened, view>>
      BY <1>3, <2>1
    <3>. QED
      BY <1>1, <2>5, <2>6, <3>1, <3>2, StaysTrue
  <2>8. ASSUME NEW u \in Threads PROVE CallFits(call'[u], u, scene', given')
    <3>1. CASE u = t
      BY <1>1, <1>2, <1>3, <1>4, <2>2, <2>3, <3>1 DEF CallFits, k
    <3>2. CASE u # t
      <4>1. CallFits(call[u], u, scene, given) /\ call'[u] = call[u] /\ scene' = scene
        BY <1>3, <2>3, <3>2 DEF GInv
      <4>2. call[u].at = "refunded" => given'[call[u].request.key] = call[u].amount
        <5>. SUFFICES ASSUME call[u].at = "refunded"
                      PROVE  given'[call[u].request.key] = call[u].amount
          OBVIOUS
        <5>1. call[u].request.key \in Keys /\ call[u].amount \in 1 .. Total
              /\ given[call[u].request.key] = call[u].amount
          BY <1>7, <4>1 DEF CallFits, Asks, Keys
        <5>2. call[u].request.key # k
          BY <2>1, <5>1
        <5>. QED
          BY <2>2, <5>1, <5>2
      <4>. QED
        BY <4>1, <4>2 DEF CallFits
    <3>. QED
      BY <3>1, <3>2
  <2>9. ASSUME NEW i \in 1 .. Len(refunds) PROVE given'[refunds[i].key] = refunds[i].amount
    <3>1. refunds[i] \in Recorded
      BY <1>1, ElementOfSeq DEF RefundTypes
    <3>2. refunds[i].key \in Keys /\ refunds[i].amount \in 1 .. Total
          /\ given[refunds[i].key] = refunds[i].amount
      BY <1>7, <3>1 DEF Recorded, GInv
    <3>. QED
      BY <2>1, <2>2, <3>2
  <2>10. OneAtATime => Alone'
    <3>. SUFFICES ASSUME OneAtATime PROVE Alone'
      OBVIOUS
    <3>1. Alone
      BY DEF GInv
    <3>2. OnRecord' = OnRecord
      BY <1>3, <1>5, <2>2 DEF OnRecord
    <3>3. \A u \in Threads : Asks(call'[u]) =>
             bound[call'[u].request.key] = None /\ Sum(refunds) + call'[u].amount <= Total
      BY <1>2, <1>5, <2>3, <3>1 DEF Alone, k
    <3>. QED
      BY <1>3, <3>1, <3>2, <3>3 DEF Alone
  <2>11. OneAtATime' <=> OneAtATime
    BY <1>3 DEF OneAtATime
  <2>. QED
    BY <1>3, <2>4, <2>5, <2>7, <2>8, <2>9, <2>10, <2>11 DEF GInv
<1>. QED
  BY <1>1, <1>6, <1>7

LEMMA RecordRefundFits ==
    ASSUME GInv, TInv, NEW t \in scene.threads, RecordRefund(t)
    PROVE  GInv' /\ TInv'
<1>. DEFINE r == call[t].request
            k == r.key
            amount == call[t].amount
            new == [key |-> k, amount |-> amount]
            n == Len(refunds)
<1>1. /\ t \in Threads /\ call[t] \in Call /\ CallFits(call[t], t, scene, given)
      /\ Asks(call[t]) /\ RefundTypes /\ call[t].at = "refunded"
  BY ScenesAreScenes DEF GInv, RefundTypes, RecordRefund, Asks
<1>2. /\ r \in Requests /\ k \in Keys /\ amount \in 1 .. Total /\ new \in Recorded /\ r # None
      /\ scene.plugin => given[k] = amount
  BY <1>1, RequestsAreRecords DEF CallFits, Keys, Recorded
<1>3. /\ refunds' = Append(refunds, new) /\ bound' = [bound EXCEPT ![k] = r]
      /\ Becomes(t, Idle) /\ UNCHANGED <<scene, view, pending, shop>>
  BY DEF RecordRefund
<1>4. /\ refunds' \in Seq(Recorded) /\ Len(refunds') = n + 1 /\ refunds'[n + 1] = new
      /\ \A i \in 1 .. n : refunds'[i] = refunds[i]
      /\ Sum(refunds') = Sum(refunds) + amount /\ n \in Nat
      /\ refunds \in Seq(Recorded)
  <2>1. refunds \in Seq(Recorded)
    BY <1>1 DEF RefundTypes
  <2>2. new.amount = amount
    OBVIOUS
  <2>. HIDE DEF new
  <2>. QED
    BY <1>2, <1>3, <2>1, <2>2, SumOfOneMore, LenProperties
<1>5. /\ call' \in [Threads -> Call]
      /\ \A u \in Threads : call'[u] = IF u = t THEN Idle ELSE call[u]
  BY <1>1, <1>3, RestingCall DEF Becomes, RefundTypes
<1>6. bound' \in [Keys -> Requests \cup {None}] /\ bound'[k] = r
      /\ \A j \in Keys : j # k => bound'[j] = bound[j]
  BY <1>1, <1>2, <1>3 DEF RefundTypes
<1>7. new.key = k /\ new.amount = amount
  OBVIOUS
<1>. HIDE DEF r, k, amount, new, n
<1>8. RefundTypes'
  BY <1>1, <1>3, <1>4, <1>5, <1>6 DEF RefundTypes, shop
<1>9. PaidBack' = PaidBack /\ (Verified => Verified') /\ PaidBack \in Nat
  BY <1>1, <1>3, PaidBackIsNat DEF PaidBack, Verified, shop
<1>10. TInv'
  <2>1. \A u \in Threads : call'[u].status = call[u].status \/ call'[u].status = None
    BY <1>5, RestingCall
  <2>2. UNCHANGED <<status, tracking, happened, view>>
    BY <1>3 DEF shop
  <2>. QED
    BY <1>1, <1>9, <2>1, <2>2, StaysTrue
<1>11. \A u \in Threads : CallFits(call'[u], u, scene', given')
  BY <1>3, <1>5, RestingCall DEF GInv, shop
<1>12. ASSUME NEW i \in 1 .. n + 1 PROVE i \in 1 .. n \/ i = n + 1
  BY <1>4, <1>12
<1>13. scene.plugin =>
          \A i \in 1 .. Len(refunds') : given'[refunds'[i].key] = refunds'[i].amount
  BY <1>2, <1>3, <1>4, <1>7, <1>12 DEF GInv, shop, n
<1>14. ASSUME OneAtATime PROVE Alone'
  <2>1. Alone /\ bound[k] = None /\ Sum(refunds) + amount <= Total
    BY <1>1, <1>14 DEF GInv, Alone, k, r, amount
  <2>2. \A u \in Threads : ~Asks(call'[u])
    <3>1. \A u \in Threads : u # t => call[u] = Idle
      BY <1>14 DEF OneAtATime, GInv, CallFits
    <3>. QED
      BY <1>5, <3>1, RestingCall
  <2>3. \A i \in 1 .. n : /\ refunds[i].key \in Keys /\ bound[refunds[i].key] # None
                          /\ refunds[i].key # k
    <3>1. \A i \in 1 .. n : refunds[i] \in Recorded
      BY <1>4, ElementOfSeq DEF n
    <3>. QED
      BY <2>1, <3>1 DEF Alone, Recorded, n
  <2>4. \A i \in 1 .. Len(refunds') : bound'[refunds'[i].key] # None
    BY <1>2, <1>4, <1>6, <1>7, <1>12, <2>3
  <2>5. ASSUME NEW i \in 1 .. Len(refunds'), NEW j \in 1 .. Len(refunds'),
               refunds'[i].key = refunds'[j].key
        PROVE  i = j
    <3>1. CASE i \in 1 .. n /\ j \in 1 .. n
      BY <1>4, <2>1, <2>5, <3>1 DEF Alone, n
    <3>2. CASE i = n + 1 \/ j = n + 1
      BY <1>4, <1>7, <1>12, <2>3, <2>5, <3>2
    <3>. QED
      BY <1>4, <1>12, <2>5, <3>1, <3>2
  <2>6. scene.plugin => Sum(refunds') = SumFunction(OnRecord')
    <3>. SUFFICES ASSUME scene.plugin PROVE Sum(refunds') = SumFunction(OnRecord')
      OBVIOUS
    <3>1. OnRecord \in [Keys -> 0 .. Total] /\ OnRecord[k] = 0 /\ amount \in 0 .. Total
      BY <1>1, <1>2, <2>1, TotalIsPositive DEF OnRecord, RefundTypes
    <3>2. given' = given /\ given[k] = amount
      BY <1>2, <1>3 DEF shop
    <3>3. /\ OnRecord' \in [Keys -> Int] /\ OnRecord \in [Keys -> Int] /\ OnRecord'[k] = amount
          /\ \A j \in Keys : j # k => OnRecord'[j] = OnRecord[j]
      BY <1>2, <1>6, <3>1, <3>2, TotalIsPositive DEF OnRecord
    <3>4. SumFunction(OnRecord') = SumFunction(OnRecord) - OnRecord[k] + OnRecord'[k]
      BY <1>2, <3>3, KeysAreFinite, SumOfUpdate
    <3>5. Sum(refunds) = SumFunction(OnRecord) /\ Sum(refunds) \in Nat
      BY <1>1, <2>1, PaidBackIsNat DEF Alone
    <3>. QED
      BY <1>2, <1>4, <3>1, <3>3, <3>4, <3>5
  <2>7. Sum(refunds') <= Total
    BY <1>4, <2>1
  <2>. QED
    BY <1>3, <2>2, <2>4, <2>5, <2>6, <2>7 DEF Alone
<1>15. (OneAtATime' <=> OneAtATime) /\ scene' = scene
  BY <1>3 DEF OneAtATime
<1>. QED
  BY <1>8, <1>9, <1>10, <1>11, <1>13, <1>14, <1>15 DEF GInv

LEMMA AnswersAreTrue ==
    ASSUME GInv, TInv, scene.plugin
    PROVE  Answer \in Answers /\ IsTrue(Answer, PaidBack, happened, Verified)
<1>1. RefundTypes /\ PaidBack \in Nat /\ PaidBack <= Total /\ Total \in Nat
  BY PaidBackIsNat, TotalIsPositive DEF GInv
<1>2. scene.verifier \in BOOLEAN
  BY <1>1, ScenesAreScenes DEF RefundTypes
<1>3. /\ Answer.total = Total /\ Answer.refunded = PaidBack /\ Answer.status = status
      /\ Answer.tracking = tracking /\ (Answer.verified <=> Verified)
  BY DEF Answer, Verified
<1>4. Answer \in Answers
  BY <1>1, <1>2 DEF Answer, Answers, RefundTypes
<1>. QED
  BY <1>1, <1>3, <1>4 DEF IsTrue, TInv

LEMMA AskStatusFits ==
    ASSUME GInv, TInv, NEW t \in scene.threads, AskStatus(t)
    PROVE  GInv' /\ TInv'
<1>. DEFINE c == [Idle EXCEPT !.at = "status", !.status = Answer]
<1>1. Answer \in Answers /\ IsTrue(Answer, PaidBack, happened, Verified)
  BY AnswersAreTrue DEF AskStatus
<1>2. Idle \in Call
  BY RestingCall
<1>3. c \in Call /\ c.at = "status" /\ c.status = Answer /\ ~Asks(c)
  BY <1>1, <1>2 DEF Call, Places, Asks
<1>4. Becomes(t, c) /\ UNCHANGED <<scene, refunds, bound, view, pending, shop>>
  BY DEF AskStatus
<1>. HIDE DEF c
<1>5. CallFits(c, t, scene, given)
  BY <1>3 DEF CallFits
<1>. QED
  BY <1>1, <1>3, <1>4, <1>5, CallMoves, ReservationsStay

LEMMA ApplyStatusFits ==
    ASSUME GInv, TInv, NEW t \in scene.threads, ApplyStatus(t)
    PROVE  GInv' /\ TInv'
<1>1. t \in Threads /\ RefundTypes /\ call[t] \in Call
  BY ScenesAreScenes DEF GInv, RefundTypes
<1>2. /\ view' = call[t].status /\ Becomes(t, Idle)
      /\ UNCHANGED <<scene, refunds, bound, pending, shop>>
  BY DEF ApplyStatus
<1>3. /\ call' \in [Threads -> Call]
      /\ \A u \in Threads : call'[u] = IF u = t THEN Idle ELSE call[u]
  BY <1>1, <1>2, RestingCall DEF Becomes, RefundTypes
<1>4. RefundTypes'
  BY <1>1, <1>2, <1>3 DEF RefundTypes, Call, shop
<1>5. PaidBack' = PaidBack /\ (Verified => Verified') /\ PaidBack \in Nat
  BY <1>1, <1>2, PaidBackIsNat DEF PaidBack, Verified, shop
<1>6. TInv'
  <2>1. \A u \in Threads : call'[u].status = call[u].status \/ call'[u].status = None
    BY <1>3, RestingCall
  <2>2. UNCHANGED <<status, tracking, happened>>
    BY <1>2 DEF shop
  <2>. QED
    BY <1>1, <1>2, <1>5, <2>1, <2>2, StaysTrue
<1>7. \A u \in Threads : CallFits(call'[u], u, scene', given')
  BY <1>2, <1>3, RestingCall DEF GInv, shop
<1>8. OneAtATime /\ Alone => Alone'
  BY <1>2, <1>3, RestingCall DEF Alone, OnRecord, shop
<1>. QED
  BY <1>2, <1>4, <1>5, <1>7, <1>8, <1>6 DEF GInv, OneAtATime, shop

\* The merchant on its own.
LEMMA MerchantMoves ==
    ASSUME GInv, TInv, UNCHANGED <<scene, refunds, bound, view, call, pending, given>>,
           otherwise' \in 0 .. Total, status' \in Statuses, tracking' \in Trackings,
           otherwise <= otherwise', scene.plugin => PaidBack' <= Total,
           happened \subseteq happened',
           status' = "cancelled" => status = "cancelled" \/ "cancelled" \in happened',
           tracking' = "exception" => tracking = "exception" \/ "exception" \in happened'
    PROVE  GInv' /\ TInv'
<1>1. RefundTypes /\ RefundTypes'
  BY DEF GInv, RefundTypes
<1>2. SumFunction(given) \in Nat /\ PaidBack \in Nat /\ otherwise \in Nat /\ otherwise' \in Nat
  BY <1>1, PaidBackIsNat, TotalIsPositive DEF RefundTypes
<1>3. PaidBack' \in Nat /\ PaidBack <= PaidBack'
  BY <1>2 DEF PaidBack
<1>4. Verified => Verified'
  BY DEF Verified
<1>5. TInv'
  BY <1>1, <1>3, <1>4, StaysTrue
<1>6. OneAtATime /\ Alone => Alone'
  BY DEF Alone, OnRecord
<1>. QED
  BY <1>1, <1>5, <1>6 DEF GInv, OneAtATime

LEMMA MerchantPaysBackFits ==
    ASSUME GInv, TInv, MerchantPaysBack PROVE GInv' /\ TInv'
<1>1. RefundTypes /\ PaidBack \in Nat /\ SumFunction(given) \in Nat /\ Total \in Nat
  BY PaidBackIsNat, TotalIsPositive DEF GInv
<1>2. /\ PaidBack < Total /\ otherwise' = otherwise + 1 /\ status' \in {status, "refunded"}
      /\ UNCHANGED <<scene, refunds, bound, view, call, pending, given, tracking, happened>>
  BY DEF MerchantPaysBack, PaysBack
<1>3. otherwise \in Nat /\ otherwise < Total /\ otherwise' \in 0 .. Total /\ otherwise <= otherwise'
  BY <1>1, <1>2 DEF RefundTypes, PaidBack
<1>4. PaidBack' <= Total
  BY <1>1, <1>2, <1>3 DEF PaidBack
<1>5. status' \in Statuses /\ tracking' \in Trackings
  BY <1>1, <1>2 DEF RefundTypes, Statuses
<1>. QED
  BY <1>2, <1>3, <1>4, <1>5, MerchantMoves

LEMMA MerchantCancelsFits ==
    ASSUME GInv, TInv, MerchantCancels PROVE GInv' /\ TInv'
<1>1. RefundTypes
  BY DEF GInv
<1>2. /\ status' = "cancelled" /\ happened' = happened \cup {"cancelled"}
      /\ UNCHANGED <<scene, refunds, bound, view, call, pending, given, otherwise, tracking>>
  BY DEF MerchantCancels
<1>3. otherwise \in Nat /\ otherwise' \in 0 .. Total
  BY <1>1, <1>2, TotalIsPositive DEF RefundTypes
<1>4. scene.plugin => PaidBack' <= Total
  BY <1>2 DEF GInv, PaidBack
<1>5. status' \in Statuses /\ tracking' \in Trackings
  BY <1>1, <1>2 DEF RefundTypes, Statuses
<1>. QED
  BY <1>2, <1>3, <1>4, <1>5, MerchantMoves

LEMMA ParcelMovesFits ==
    ASSUME GInv, TInv, NEW to \in Trackings, ParcelMoves(to) PROVE GInv' /\ TInv'
<1>1. RefundTypes
  BY DEF GInv
<1>2. /\ status = "processing" /\ tracking' = to /\ happened' = happened \cup {to}
      /\ status' \in {"completed", "processing"}
      /\ UNCHANGED <<scene, refunds, bound, view, call, pending, given, otherwise>>
  BY DEF ParcelMoves
<1>3. otherwise \in Nat /\ otherwise' \in 0 .. Total
  BY <1>1, <1>2, TotalIsPositive DEF RefundTypes
<1>4. scene.plugin => PaidBack' <= Total
  BY <1>2 DEF GInv, PaidBack
<1>5. status' \in Statuses /\ tracking' \in Trackings
  BY <1>2 DEF Statuses
<1>. QED
  BY <1>2, <1>3, <1>4, <1>5, MerchantMoves

LEMMA RefundsStart == Init => GInv /\ TInv
<1>. SUFFICES ASSUME Init PROVE GInv /\ TInv
  OBVIOUS
<1>1. \A t \in Threads : call[t] = Idle
  BY DEF Init
<1>2. <<>> \in Seq(Recorded) /\ Len(<<>>) = 0
  BY EmptySeq
<1>3. call \in [Threads -> Call]
  BY RestingCall DEF Init
<1>4. 0 \in 0 .. Total /\ Total \in Nat
  BY TotalIsPositive
<1>5. RefundTypes
  BY <1>2, <1>3, <1>4 DEF Init, RefundTypes, Statuses, Trackings
<1>6. SumFunction(given) = 0
  <2>1. given \in [Keys -> Int] /\ \A k \in Keys : given[k] = 0
    BY DEF Init
  <2>. QED
    BY <2>1, KeysAreFinite, SumOfZeros
<1>7. SumFunction(OnRecord) = 0
  <2>1. OnRecord \in [Keys -> Int] /\ \A k \in Keys : OnRecord[k] = 0
    BY DEF Init, OnRecord
  <2>. QED
    BY <2>1, KeysAreFinite, SumOfZeros
<1>8. PaidBack = 0 /\ Sum(refunds) = 0
  BY <1>6, SumOfNone DEF PaidBack, Init
<1>9. \A t \in Threads : ~Asks(call[t]) /\ CallFits(call[t], t, scene, given)
                         /\ call[t].status = None
  BY <1>1, RestingCall
<1>10. Len(refunds) = 0
  BY <1>2 DEF Init
<1>11. Alone
  BY <1>4, <1>7, <1>8, <1>9, <1>10 DEF Alone
<1>12. GInv
  BY <1>4, <1>5, <1>8, <1>9, <1>10, <1>11 DEF GInv
<1>13. TInv
  BY <1>9 DEF TInv, Init
<1>. QED
  BY <1>12, <1>13

LEMMA RefundsGoOn == GInv /\ TInv /\ [Next]_vars => GInv' /\ TInv'
<1>. SUFFICES ASSUME GInv, TInv, [Next]_vars PROVE GInv' /\ TInv'
  OBVIOUS
<1>1. CASE UNCHANGED vars
  BY <1>1 DEF vars, shop, GInv, TInv, RefundTypes, Alone, OnRecord, OneAtATime, PaidBack, Verified
<1>2. ASSUME NEW t \in scene.threads, NEW r \in scene.requests, StartRefund(t, r)
      PROVE  GInv' /\ TInv'
  BY <1>2, StartRefundFits
<1>3. ASSUME NEW t \in scene.threads,
             \/ MerchantRefunds(t) \/ MerchantReserves(t) \/ MerchantReplays(t) \/ RefundFails(t)
             \/ RecordRefund(t) \/ AskStatus(t) \/ ApplyStatus(t)
      PROVE  GInv' /\ TInv'
  BY <1>3, MerchantRefundsFits, MerchantReservesFits, MerchantReplaysFits, EndsFit,
     RecordRefundFits, AskStatusFits, ApplyStatusFits
<1>4. CASE MerchantPaysBack \/ MerchantCancels \/ \E to \in Trackings : ParcelMoves(to)
  BY <1>4, MerchantPaysBackFits, MerchantCancelsFits, ParcelMovesFits
<1>. QED
  BY <1>1, <1>2, <1>3, <1>4 DEF Next

LEMMA RefundsSuffice == GInv => RefundsAreRight
<1>. SUFFICES ASSUME GInv PROVE RefundsAreRight
  OBVIOUS
<1>1. OneAtATime => Alone
  BY DEF GInv
<1>. QED
  BY <1>1 DEF GInv, Alone, RefundsAreRight, RefundsWithinTotal, RefundsAreTheMerchants

(***************************************************************************)
(* What is said about them                                                 *)
(***************************************************************************)
\* The states of an order follow from its progress.
LEMMA ProgressSays ==
    ASSUME NEW p \in Answers, NEW c
    PROVE  /\ Remains(p) \in Nat /\ Remains(p) = Total - p.refunded
           /\ Full(p) <=> p.refunded = Total
           /\ LifecycleState(p, c) \in Cancelled => p.status = "cancelled"
           /\ (RefundState(p) = "refunded") <=> Full(p)
           /\ LifecycleState(p, c) = "cancelled_refunded" => Full(p)
<1>1. p.total = Total /\ p.refunded \in Nat /\ p.refunded <= Total /\ Total \in Nat /\ Total > 0
  BY TotalIsPositive DEF Answers
<1>2. Remains(p) \in Nat /\ Remains(p) = Total - p.refunded
  BY <1>1 DEF Remains
<1>3. Full(p) <=> p.refunded = Total
  BY <1>1, <1>2 DEF Full
<1>4. /\ p.refunded = 0 <=> (~Full(p) /\ ~Partial(p))
      /\ ~(Full(p) /\ Partial(p)) /\ ~(Full(p) /\ Required(p))
  BY <1>1, <1>2 DEF Full, Partial, Required
<1>5. CancelledState(p) = "cancelled_refunded" => Full(p)
  BY DEF CancelledState
<1>6. LifecycleState(p, c) \in Cancelled => p.status = "cancelled"
  <2>. SUFFICES ASSUME p.status # "cancelled" PROVE LifecycleState(p, c) \notin Cancelled
    OBVIOUS
  <2>1. CASE Full(p)
    BY <1>4, <2>1 DEF LifecycleState, Cancelled
  <2>2. CASE Partial(p)
    BY <1>4, <2>2 DEF LifecycleState, Cancelled
  <2>3. CASE ~Full(p) /\ ~Partial(p)
    BY <1>4, <2>3 DEF LifecycleState, Cancelled
  <2>. QED
    BY <2>1, <2>2, <2>3
<1>7. (RefundState(p) = "refunded") <=> Full(p)
  <2>1. CASE Full(p)
    BY <1>4, <2>1 DEF RefundState
  <2>2. CASE ~Full(p) /\ Required(p)
    BY <1>4, <2>2 DEF RefundState
  <2>3. CASE ~Full(p) /\ ~Required(p) /\ Partial(p)
    BY <1>4, <2>3 DEF RefundState
  <2>4. CASE ~Full(p) /\ ~Required(p) /\ ~Partial(p)
    BY <1>4, <2>4 DEF RefundState
  <2>. QED
    BY <2>1, <2>2, <2>3, <2>4
<1>8. LifecycleState(p, c) = "cancelled_refunded" => Full(p)
  <2>. SUFFICES ASSUME LifecycleState(p, c) = "cancelled_refunded" PROVE Full(p)
    OBVIOUS
  <2>1. p.status = "cancelled"
    BY <1>6 DEF Cancelled
  <2>2. LifecycleState(p, c) = CancelledState(p)
    BY <2>1 DEF LifecycleState
  <2>. QED
    BY <1>5, <2>2
<1>. QED
  BY <1>2, <1>3, <1>6, <1>7, <1>8

\* Claims about a progress, with whatever is said of its cancellation.
Says(p, c, attention) ==
    Claims(p, [refund |-> RefundState(p), cancellation |-> c, lifecycle |-> LifecycleState(p, c),
               remaining |-> Remains(p), required |-> Required(p), attention |-> attention])

LEMMA ClaimsSay ==
    ASSUME NEW p \in Answers, NEW c, NEW attention
    PROVE  /\ Says(p, c, attention).orderCancelled => p.status = "cancelled"
           /\ Says(p, c, attention).refundRecorded => p.refunded > 0
           /\ Says(p, c, attention).refundExecuted => p.verified
           /\ Says(p, c, attention).allRefunded => p.refunded = Total
           /\ Says(p, c, attention).carrierException => attention
           /\ Says(p, c, attention).refundStillRequired => Required(p)
  BY ProgressSays DEF Says, Claims

\* What the skill offers.
LEMMA SkillOffers ==
    ASSUME NEW a \in Answers
    PROVE  /\ "request_refund" \in SkillActions(a) <=> Remains(a) > 0
           /\ "request_cancellation" \in SkillActions(a) <=> Eligible(a)
           /\ Required(a) => "complete_verified_refund" \in SkillActions(a)
  BY DEF SkillActions, SkillEligible

\* What the gateway offers.
LEMMA GatewayOffers ==
    ASSUME NEW p \in Answers, NEW c, NEW attention
    PROVE  LET offers == NextActions(p, RefundState(p), c, attention) IN
           /\ Full(p) => "request_refund" \notin offers
           /\ Required(p) => "complete_verified_refund" \in offers
<1>1. Full(p) => RefundState(p) = "refunded"
  BY ProgressSays
<1>. QED
  BY <1>1 DEF NextActions

\* What is said of an answer that is true is true.
LEMMA TruthIsSaid ==
    ASSUME GInv, scene.plugin, NEW p \in Answers, IsTrue(p, PaidBack, happened, Verified), NEW c
    PROVE  LET claims == Says(p, c, p.tracking = "exception") IN
           /\ claims.orderCancelled => "cancelled" \in happened
           /\ claims.refundRecorded => PaidBack > 0
           /\ claims.refundExecuted => Answer.verified
           /\ claims.allRefunded => PaidBack = Total
           /\ claims.carrierException => "exception" \in happened
           /\ claims.allRefunded => p.refunded = Total
           /\ claims.refundStillRequired => Required(p)
<1>1. PaidBack \in Nat /\ PaidBack <= Total /\ Total \in Nat /\ p.refunded \in Nat
  BY PaidBackIsNat, TotalIsPositive DEF GInv, Answers
<1>2. Answer.verified <=> Verified
  BY DEF Answer, Verified
<1>3. p.refunded > 0 => PaidBack > 0
  BY <1>1 DEF IsTrue
<1>4. p.refunded = Total => PaidBack = Total
  BY <1>1 DEF IsTrue
<1>. QED
  BY <1>2, <1>3, <1>4, ClaimsSay DEF IsTrue

\* A refund on record that the verifier checks is one that the merchant gave.
LEMMA RefundsAreVerified ==
    ASSUME GInv, scene.plugin
    PROVE  /\ (scene.verifier /\ refunds # <<>>) \in BOOLEAN
           /\ scene.verifier /\ refunds # <<>> => Verified
<1>1. RefundTypes
  BY DEF GInv
<1>2. ASSUME refunds # <<>> PROVE \E k \in Keys : given[k] > 0
  <2>1. 1 \in 1 .. Len(refunds) /\ refunds \in Seq(Recorded)
    <3>1. refunds \in Seq(Recorded)
      BY <1>1 DEF RefundTypes
    <3>2. Len(refunds) \in Nat \ {0}
      BY <1>2, <3>1, EmptySeq, LenProperties
    <3>. QED
      BY <3>1, <3>2
  <2>2. refunds[1] \in Recorded
    BY <2>1, ElementOfSeq
  <2>3. refunds[1].key \in Keys /\ given[refunds[1].key] > 0
    BY <2>1, <2>2 DEF GInv, Recorded
  <2>. QED
    BY <2>3
<1>. QED
  BY <1>2 DEF Verified

\* The gateway's own progress is of answers too, and true, one request at a time.
LEMMA OwnIsTrue ==
    ASSUME GInv, TInv, scene.plugin, OneAtATime
    PROVE  OwnProgress \in Answers /\ IsTrue(OwnProgress, PaidBack, happened, Verified)
<1>1. RefundTypes /\ Alone /\ Sum(refunds) \in Nat /\ SumFunction(given) \in Nat
      /\ Total \in Nat /\ otherwise \in Nat /\ scene.verifier \in BOOLEAN
  BY PaidBackIsNat, TotalIsPositive, ScenesAreScenes DEF GInv, RefundTypes
<1>2. OwnProgress \in Answers
  BY <1>1 DEF OwnProgress, Answers, Alone, Statuses, Trackings
<1>3. Sum(refunds) <= PaidBack
  <2>1. OnRecord \in [Keys -> Int] /\ given \in [Keys -> Int]
        /\ \A k \in Keys : OnRecord[k] <= given[k]
    BY <1>1, TotalIsPositive DEF RefundTypes, OnRecord
  <2>2. SumFunctionOnSet(OnRecord, Keys) <= SumFunctionOnSet(given, Keys)
    BY <2>1, KeysAreFinite, SumsAreMonotone
  <2>3. SumFunction(OnRecord) <= SumFunction(given)
    BY <2>1, <2>2, KeysAreFinite, SumType
  <2>4. Sum(refunds) = SumFunction(OnRecord)
    BY <1>1 DEF Alone
  <2>. QED
    BY <1>1, <2>3, <2>4 DEF PaidBack
<1>4. OwnProgress.verified => Verified
  BY RefundsAreVerified DEF OwnProgress
<1>5. /\ OwnProgress.refunded = Sum(refunds) /\ OwnProgress.status = "processing"
      /\ OwnProgress.tracking = "none"
  BY DEF OwnProgress
<1>. QED
  BY <1>2, <1>3, <1>4, <1>5 DEF IsTrue

\* What the gateway has on record of a merchant was paid back by it.
LEMMA RecordedIsPaidBack ==
    ASSUME GInv, scene.plugin, OwnProgress.refunded > 0 PROVE PaidBack > 0
<1>1. RefundTypes /\ SumFunction(given) \in Nat /\ otherwise \in Nat
  BY PaidBackIsNat, TotalIsPositive DEF GInv, RefundTypes
<1>2. refunds # <<>>
  BY SumOfNone DEF OwnProgress
<1>3. 1 \in 1 .. Len(refunds) /\ refunds \in Seq(Recorded)
  <2>1. refunds \in Seq(Recorded)
    BY <1>1 DEF RefundTypes
  <2>2. Len(refunds) \in Nat \ {0}
    BY <1>2, <2>1, EmptySeq, LenProperties
  <2>. QED
    BY <2>1, <2>2
<1>4. PICK k \in Keys : given[k] > 0
  <2>1. refunds[1] \in Recorded
    BY <1>3, ElementOfSeq
  <2>. QED
    BY <1>3, <2>1 DEF GInv, Recorded
<1>5. given \in [Keys -> 0 .. Total] /\ given[k] \in 0 .. Total /\ 0 \in 0 .. Total
  BY <1>1, TotalIsPositive DEF RefundTypes
<1>. DEFINE less == [given EXCEPT ![k] = 0]
<1>6. /\ less \in [Keys -> 0 .. Total] /\ less \in [Keys -> Int] /\ given \in [Keys -> Int]
      /\ less[k] = 0 /\ \A j \in Keys : j # k => less[j] = given[j]
  BY <1>5, TotalIsPositive
<1>. HIDE DEF less
<1>7. SumFunction(less) \in Nat /\ SumFunction(less) = SumFunction(given) - given[k] + less[k]
  BY <1>6, SumOfGiven, KeysAreFinite, SumOfUpdate
<1>8. SumFunction(given) > 0
  BY <1>1, <1>4, <1>5, <1>6, <1>7
<1>. QED
  BY <1>1, <1>8 DEF PaidBack

LEMMA ClaimsSuffice == GInv /\ TInv => ClaimsAreTrue
<1>. SUFFICES ASSUME GInv, TInv, scene.plugin PROVE ClaimsAreTrue
  BY DEF ClaimsAreTrue
<1>. DEFINE gateway == [claims  |-> GatewayClaims(OwnProgress, view),
                        actions |-> GatewayActions(OwnProgress, view)]
            skill(answer) == [claims |-> SkillClaims(answer), actions |-> SkillActions(answer)]
            Right(s) ==
              /\ s.claims.orderCancelled => "cancelled" \in happened
              /\ s.claims.refundRecorded => PaidBack > 0
              /\ s.claims.refundExecuted => Answer.verified
              /\ s.claims.allRefunded => PaidBack = Total
              /\ s.claims.carrierException => "exception" \in happened
              /\ s.claims.allRefunded => "request_refund" \notin s.actions
              /\ s.claims.refundStillRequired => "complete_verified_refund" \in s.actions
<1>1. ASSUME NEW answer \in SkillAnswers
      PROVE  answer \in Answers /\ IsTrue(answer, PaidBack, happened, Verified)
  BY <1>1 DEF SkillAnswers, GInv, TInv, RefundTypes, Call
<1>2. ASSUME NEW answer \in SkillAnswers PROVE Right(skill(answer))
  <2>1. answer \in Answers /\ IsTrue(answer, PaidBack, happened, Verified)
    BY <1>1, <1>2
  <2>2. SkillClaims(answer) =
            Says(answer, MerchantCancellation(answer), answer.tracking = "exception")
    BY DEF SkillClaims, SkillState, MerchantState, Says
  <2>3. answer.refunded = Total => ~(Remains(answer) > 0)
    BY <2>1, ProgressSays DEF Answers
  <2>. QED
    BY <2>1, <2>2, <2>3, TruthIsSaid, SkillOffers
<1>3. ASSUME NEW answer \in SkillAnswers
      PROVE  /\ \A asked \in 0 .. Total + 1 :
                   "request_refund" \in SkillActions(answer) =>
                       RefundDraft(answer, asked) \in 1 .. Remains(answer)
             /\ CancellationDraft(answer).eligible <=>
                   "request_cancellation" \in SkillActions(answer)
             /\ CancellationDraft(answer).separateRefund => answer.refunded < Total
  <2>1. /\ answer \in Answers /\ Remains(answer) \in Nat
        /\ Remains(answer) = Total - answer.refunded /\ answer.refunded \in Nat
        /\ Total \in Nat
    BY <1>1, <1>3, ProgressSays, TotalIsPositive DEF Answers
  <2>2. ASSUME NEW asked \in 0 .. Total + 1, Remains(answer) > 0
        PROVE  RefundDraft(answer, asked) \in 1 .. Remains(answer)
    BY <2>1, <2>2 DEF RefundDraft
  <2>3. "request_refund" \in SkillActions(answer) => Remains(answer) > 0
    BY <2>1, SkillOffers
  <2>4. CancellationDraft(answer).eligible <=> "request_cancellation" \in SkillActions(answer)
    BY <2>1, SkillOffers DEF CancellationDraft, SkillEligible
  <2>5. CancellationDraft(answer).separateRefund => answer.refunded < Total
    <3>1. \A m \in Nat, n \in Nat, r \in Nat : r = m - n /\ r > 0 => n < m
      OBVIOUS
    <3>2. Remains(answer) > 0 => answer.refunded < Total
      BY <2>1, <3>1
    <3>. QED
      BY <3>2 DEF CancellationDraft
  <2>. QED
    BY <2>2, <2>3, <2>4, <2>5
<1>4. ASSUME OneAtATime \/ view # None PROVE Right(gateway)
  <2>. DEFINE p == GatewayProgress(OwnProgress, view)
              c == GatewayCancellation(OwnProgress, view)
  <2>1. p \in Answers /\ IsTrue(p, PaidBack, happened, Verified)
    <3>1. CASE view = None
      BY <1>4, <3>1, OwnIsTrue DEF GatewayProgress
    <3>2. CASE view # None
      <4>1. view \in Answers /\ IsTrue(view, PaidBack, happened, Verified)
        BY <3>2 DEF GInv, TInv, RefundTypes
      <4>2. OwnProgress.verified \in BOOLEAN /\ (OwnProgress.verified => Verified)
        BY RefundsAreVerified DEF OwnProgress
      <4>3. p = [view EXCEPT !.verified = OwnProgress.verified]
        BY <3>2 DEF GatewayProgress
      <4>4. /\ p \in Answers /\ p.refunded = view.refunded /\ p.status = view.status
            /\ p.tracking = view.tracking /\ p.verified = OwnProgress.verified
        BY <4>1, <4>2, <4>3 DEF Answers
      <4>. QED
        BY <4>1, <4>2, <4>4 DEF IsTrue
    <3>. QED
      BY <3>1, <3>2
  <2>2. /\ GatewayActions(OwnProgress, view)
              = NextActions(p, RefundState(p), c, p.tracking = "exception")
        /\ LET claims == GatewayClaims(OwnProgress, view)
                says == Says(p, c, p.tracking = "exception")
            IN  /\ claims.orderCancelled = says.orderCancelled
                /\ claims.refundExecuted = says.refundExecuted
                /\ claims.allRefunded = says.allRefunded
                /\ claims.carrierException = says.carrierException
                /\ claims.refundStillRequired = says.refundStillRequired
    BY <2>1 DEF GatewayClaims, GatewayActions, GatewayState, Says, Claims, Answers
  <2>4. GatewayClaims(OwnProgress, view).refundRecorded => PaidBack > 0
    <3>1. GatewayClaims(OwnProgress, view).refundRecorded =>
              p.refunded > 0 \/ OwnProgress.refunded > 0
      BY <2>1 DEF GatewayClaims, Claims, Answers
    <3>2. PaidBack \in Nat /\ p.refunded \in Nat
      BY <2>1, PaidBackIsNat, TotalIsPositive DEF GInv, Answers
    <3>3. p.refunded > 0 => PaidBack > 0
      BY <2>1, <3>2 DEF IsTrue
    <3>. QED
      BY <3>1, <3>3, RecordedIsPaidBack
  <2>. HIDE DEF p, c
  <2>3. Full(p) <=> p.refunded = Total
    BY <2>1, ProgressSays
  <2>. QED
    BY <2>1, <2>2, <2>3, <2>4, TruthIsSaid, GatewayOffers
<1>. QED
  BY <1>2, <1>3, <1>4 DEF ClaimsAreTrue

(***************************************************************************)
(* The theorems                                                            *)
(***************************************************************************)
\* For any threads, requests and totals, against a store of either kind: one
\* request at a time, the gateway records no more than the order's total and no
\* key twice; and whatever runs concurrently, what it records of a ShopBridge
\* store is what that store gave (refund_order).
THEOREM RefundsHold == Spec => []RefundsAreRight
<1>1. Init => GInv /\ TInv
  BY RefundsStart
<1>2. GInv /\ TInv /\ [Next]_vars => GInv' /\ TInv'
  BY RefundsGoOn
<1>3. GInv => RefundsAreRight
  BY RefundsSuffice
<1>. QED
  BY <1>1, <1>2, <1>3, PTL DEF Spec

\* Whatever runs concurrently and however old the answers are, no agent claims more
\* than happened, and offers what its claims call for (aftercare_state and
\* buyer_aftercare_messages of the gateway, and of the skill).
THEOREM ClaimsHold == Spec => []ClaimsAreTrue
<1>1. Init => GInv /\ TInv
  BY RefundsStart
<1>2. GInv /\ TInv /\ [Next]_vars => GInv' /\ TInv'
  BY RefundsGoOn
<1>3. GInv /\ TInv => ClaimsAreTrue
  BY ClaimsSuffice
<1>. QED
  BY <1>1, <1>2, <1>3, PTL DEF Spec
=============================================================================
