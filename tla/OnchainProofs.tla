---------------------------- MODULE OnchainProofs ----------------------------
(***************************************************************************)
(* Theorems about the buyer's direct scan of a registry, for every chain,  *)
(* every size of a page and number of workers, any number of processes     *)
(* that share the checkpoint, and every order of candidates: what is       *)
(* served was active, the checkpoint has the logs of the chain, and the    *)
(* projection accepts the document of every scan.                          *)
(*                                                                         *)
(* What is filtered, flattened or retried is computed by functions that    *)
(* are recursive on numbers.  That they exist, and what they compute, is   *)
(* shown by way of the least number for which it would be wrong.           *)
(***************************************************************************)
EXTENDS OnchainScan, FiniteSetTheorems, SequenceTheorems, WellFoundedInduction, TLAPS

LEMMA LeastNumber ==
    ASSUME NEW N \in SUBSET Nat, N # {}
    PROVE  \E m \in N : \A k \in N : m <= k
<1>1. PICK m \in N : \A k \in N : <<k, m>> \notin OpToRel(<, Nat)
  BY WFMin, NatLessThanWellFounded, Zenon
<1>2. \A k \in N : ~(k < m)
  BY <1>1, Zenon DEF OpToRel
<1>. QED
  BY <1>2

(***************************************************************************)
(* Sequences, and the sets of their elements                               *)
(***************************************************************************)
LEMMA OnlyElement == \A x : The({x}) = x
BY DEF The

LEMMA ElementsOf ==
    ASSUME NEW S, NEW s \in Seq(S)
    PROVE  /\ ToSet(s) = {s[i] : i \in 1 .. Len(s)}
           /\ \A e \in ToSet(s) : e \in S
           /\ IsInjective(s) <=> \A i, j \in 1 .. Len(s) : s[i] = s[j] => i = j
<1>1. DOMAIN s = 1 .. Len(s) /\ \A i \in 1 .. Len(s) : s[i] \in S
  BY LenProperties, ElementOfSeq
<1>. QED
  BY <1>1 DEF ToSet, IsInjective

LEMMA ElementsOfNothing == ToSet(<<>>) = {} /\ IsInjective(<<>>)
BY DEF ToSet, IsInjective

LEMMA ElementsOfConcat ==
    ASSUME NEW S, NEW s \in Seq(S), NEW t \in Seq(S)
    PROVE  /\ s \o t \in Seq(S)
           /\ ToSet(s \o t) = ToSet(s) \cup ToSet(t)
           /\ IsInjective(s \o t) <=> IsInjective(s) /\ IsInjective(t) /\ ToSet(s) \cap ToSet(t) = {}
<1>. DEFINE m == Len(s)
            n == Len(t)
            st == s \o t
<1>1. /\ st \in Seq(S) /\ Len(st) = m + n /\ m \in Nat /\ n \in Nat
      /\ \A i \in 1 .. m + n : st[i] = IF i <= m THEN s[i] ELSE t[i - m]
  BY ConcatProperties, LenProperties
<1>2. /\ ToSet(s) = {s[i] : i \in 1 .. m} /\ ToSet(t) = {t[i] : i \in 1 .. n}
      /\ IsInjective(s) <=> \A i, j \in 1 .. m : s[i] = s[j] => i = j
      /\ IsInjective(t) <=> \A i, j \in 1 .. n : t[i] = t[j] => i = j
  BY ElementsOf
<1>3. /\ ToSet(st) = {st[i] : i \in 1 .. m + n}
      /\ IsInjective(st) <=> \A i, j \in 1 .. m + n : st[i] = st[j] => i = j
  BY <1>1, ElementsOf
<1>. HIDE DEF m, n, st
<1>4. /\ \A i \in 1 .. m : i \in 1 .. m + n /\ st[i] = s[i]
      /\ \A i \in 1 .. n : i + m \in 1 .. m + n /\ st[i + m] = t[i]
      /\ \A i \in 1 .. m + n : i \in 1 .. m \/ i - m \in 1 .. n
      /\ \A i \in 1 .. m + n : i <= m => i \in 1 .. m /\ st[i] = s[i]
      /\ \A i \in 1 .. m + n : ~(i <= m) => i - m \in 1 .. n /\ st[i] = t[i - m]
  BY <1>1
<1>5. ToSet(st) = ToSet(s) \cup ToSet(t)
  BY <1>2, <1>3, <1>4
<1>6. ASSUME IsInjective(st)
      PROVE  IsInjective(s) /\ IsInjective(t) /\ ToSet(s) \cap ToSet(t) = {}
  <2>1. IsInjective(s)
    BY <1>2, <1>3, <1>4, <1>6
  <2>2. \A i, j \in 1 .. n : t[i] = t[j] => i + m = j + m
    BY <1>3, <1>4, <1>6
  <2>3. IsInjective(t)
    BY <1>1, <1>2, <2>2
  <2>4. \A i \in 1 .. m, j \in 1 .. n : s[i] = t[j] => i = j + m
    BY <1>3, <1>4, <1>6
  <2>5. \A i \in 1 .. m, j \in 1 .. n : i # j + m
    BY <1>1
  <2>6. \A i \in 1 .. m, j \in 1 .. n : s[i] # t[j]
    BY <2>4, <2>5
  <2>. QED
    BY <1>2, <2>1, <2>3, <2>6
<1>7. ASSUME IsInjective(s), IsInjective(t), ToSet(s) \cap ToSet(t) = {}
      PROVE  IsInjective(st)
  <2>. SUFFICES ASSUME NEW i \in 1 .. m + n, NEW j \in 1 .. m + n, st[i] = st[j] PROVE i = j
    BY <1>3
  <2>1. CASE i <= m /\ j <= m
    BY <1>2, <1>4, <1>7, <2>1
  <2>2. CASE ~(i <= m) /\ ~(j <= m)
    <3>1. i - m = j - m
      BY <1>2, <1>4, <1>7, <2>2
    <3>. QED
      BY <1>1, <3>1
  <2>0. /\ \A k \in 1 .. m + n : k <= m => st[k] \in ToSet(s)
        /\ \A k \in 1 .. m + n : ~(k <= m) => st[k] \in ToSet(t)
    BY <1>2, <1>4
  <2>3. CASE i <= m /\ ~(j <= m)
    BY <2>0, <1>7, <2>3
  <2>4. CASE ~(i <= m) /\ j <= m
    BY <2>0, <1>7, <2>4
  <2>. QED
    BY <2>1, <2>2, <2>3, <2>4
<1>. QED
  BY <1>1, <1>5, <1>6, <1>7 DEF st

LEMMA ElementsOfAppend ==
    ASSUME NEW S, NEW s \in Seq(S), NEW e \in S
    PROVE  /\ Append(s, e) \in Seq(S)
           /\ ToSet(Append(s, e)) = ToSet(s) \cup {e}
           /\ IsInjective(s) /\ e \notin ToSet(s) => IsInjective(Append(s, e))
<1>1. Append(s, e) = s \o <<e>> /\ <<e>> \in Seq(S)
  BY AppendIsConcat
<1>2. ToSet(<<e>>) = {e} /\ IsInjective(<<e>>)
  BY DEF ToSet, IsInjective
<1>3. /\ ToSet(s \o <<e>>) = ToSet(s) \cup {e} /\ s \o <<e>> \in Seq(S)
      /\ IsInjective(s \o <<e>>) <=> IsInjective(s) /\ ToSet(s) \cap {e} = {}
  BY <1>1, <1>2, ElementsOfConcat, Zenon
<1>. QED
  BY <1>1, <1>3

\* A sequence that repeats nothing is as long as its elements are many.
LEMMA InjectiveLength ==
    ASSUME NEW S, NEW s \in Seq(S), IsInjective(s)
    PROVE  IsFiniteSet(ToSet(s)) /\ Cardinality(ToSet(s)) = Len(s)
<1>. DEFINE n == Len(s)
<1>1. n \in Nat /\ s \in [1 .. n -> S] /\ DOMAIN s = 1 .. n
  BY LenProperties
<1>2. ToSet(s) = {s[i] : i \in 1 .. n} /\ DOMAIN s = 1 .. n
  BY <1>1, ElementsOf
<1>. HIDE DEF n
<1>3. s \in [1 .. n -> ToSet(s)]
  BY <1>1, <1>2
<1>4. s \in Surjection(1 .. n, ToSet(s))
  BY <1>2, <1>3 DEF Surjection
<1>5. s \in Injection(1 .. n, ToSet(s))
  BY <1>3 DEF Injection
<1>6. IsFiniteSet(1 .. n) /\ Cardinality(1 .. n) = n
  <2>1. 1 \in Int /\ n \in Int
    BY <1>1
  <2>2. IsFiniteSet(1 .. n) /\ Cardinality(1 .. n) = IF 1 > n THEN 0 ELSE n - 1 + 1
    BY <2>1, FS_Interval
  <2>. QED
    BY <1>1, <2>2
<1>. QED
  BY <1>4, <1>5, <1>6, FS_Surjection DEF n

LEMMA LeastOf ==
    ASSUME NEW m \in Int, NEW n \in Int
    PROVE  /\ Least(m, n) \in Int /\ Least(m, n) <= m /\ Least(m, n) <= n
           /\ Least(m, n) = m \/ Least(m, n) = n
BY DEF Least

\* A sequence is cut in two.
LEMMA CutInTwo ==
    ASSUME NEW S, NEW s \in Seq(S), NEW n \in 0 .. Len(s)
    PROVE  /\ SubSeq(s, 1, n) \in Seq(S) /\ SubSeq(s, n + 1, Len(s)) \in Seq(S)
           /\ s = SubSeq(s, 1, n) \o SubSeq(s, n + 1, Len(s))
           /\ Len(SubSeq(s, 1, n)) = n
           /\ \A i \in 1 .. n : SubSeq(s, 1, n)[i] = s[i]
<1>. DEFINE m == Len(s)
<1>1. m \in Nat /\ \A i \in 1 .. m : s[i] \in S
  BY LenProperties, ElementOfSeq
<1>2. n \in Nat /\ n <= m
  BY <1>1
<1>3. /\ SubSeq(s, 1, n) \in Seq(S) /\ Len(SubSeq(s, 1, n)) = IF 1 <= n THEN n - 1 + 1 ELSE 0
      /\ \A i \in 1 .. n - 1 + 1 : SubSeq(s, 1, n)[i] = s[1 + i - 1]
  <2>1. 1 \in Int /\ n \in Int /\ \A i \in 1 .. n : s[i] \in S
    BY <1>1, <1>2
  <2>. QED
    BY <2>1, SubSeqProperties
<1>4. SubSeq(s, n + 1, m) \in Seq(S)
  <2>1. n + 1 \in Int /\ m \in Int /\ \A i \in n + 1 .. m : s[i] \in S
    BY <1>1, <1>2
  <2>. QED
    BY <2>1, SubSeqProperties
<1>5. SubSeq(s, 1, n) \o SubSeq(s, n + 1, m) = SubSeq(s, 1, m)
  <2>1. 1 \in 1 .. Len(s) + 1 /\ n \in 1 - 1 .. Len(s) /\ m \in n .. Len(s)
    BY <1>1, <1>2
  <2>. QED
    BY <2>1, ConcatAdjacentSubSeq
<1>6. SubSeq(s, 1, m) = s
  BY SubSeqFull
<1>7. /\ Len(SubSeq(s, 1, n)) = n
      /\ \A i \in 1 .. n : SubSeq(s, 1, n)[i] = s[i]
  <2>1. n - 1 + 1 = n /\ \A i \in 1 .. n : 1 + i - 1 = i
    BY <1>2
  <2>. QED
    BY <1>2, <1>3, <2>1
<1>. QED
  BY <1>3, <1>4, <1>5, <1>6, <1>7

(***************************************************************************)
(* Filters                                                                 *)
(***************************************************************************)
\* k keeps, of the first m elements of s, those in a set.
Keeps(k, s, set, m) ==
    k = [n \in 0 .. m |->
            IF n = 0 THEN <<>>
            ELSE IF s[n] \in set THEN Append(k[n - 1], s[n]) ELSE k[n - 1]]

LEMMA FilteredKeeps ==
    ASSUME NEW s, NEW set
    PROVE  Filtered(s, set) = (CHOOSE k : Keeps(k, s, set, Len(s)))[Len(s)]
BY DEF Filtered, Keeps

LEMMA KeepsExist ==
    ASSUME NEW s, NEW set, NEW n \in Nat
    PROVE  \E k : Keeps(k, s, set, n)
<1>. DEFINE Bad == {m \in Nat : ~\E k : Keeps(k, s, set, m)}
<1>. SUFFICES ASSUME Bad # {} PROVE FALSE
  OBVIOUS
<1>1. PICK m \in Bad : \A k \in Bad : m <= k
  BY LeastNumber
<1>2. CASE m = 0
  <2>1. Keeps([i \in 0 .. 0 |-> <<>>], s, set, 0)
    BY DEF Keeps
  <2>. QED
    BY <1>2, <2>1
<1>3. CASE m # 0
  <2>1. m - 1 \in Nat /\ m - 1 \notin Bad
    BY <1>1, <1>3
  <2>2. PICK k : Keeps(k, s, set, m - 1)
    BY <2>1
  <2>. DEFINE At(f, i) == IF i = 0 THEN <<>>
                          ELSE IF s[i] \in set THEN Append(f[i - 1], s[i]) ELSE f[i - 1]
              h == [i \in 0 .. m |-> At(k, i)]
  <2>3. \A i \in 0 .. m - 1 : k[i] = At(k, i)
    BY <2>2 DEF Keeps
  <2>. HIDE DEF At
  <2>4. \A i \in 0 .. m - 1 : h[i] = k[i]
    BY <2>1, <2>3
  <2>5. \A i \in 0 .. m : i # 0 => h[i - 1] = k[i - 1]
    BY <2>1, <2>4
  <2>6. \A i \in 0 .. m : At(k, i) = At(h, i)
    BY <2>5 DEF At
  <2>7. h = [i \in 0 .. m |-> At(h, i)]
    BY <2>6
  <2>8. Keeps(h, s, set, m)
    BY <2>7 DEF Keeps, At
  <2>. QED
    BY <2>8
<1>. QED
  BY <1>2, <1>3

\* A filter keeps the elements in the set, in a sequence.
LEMMA FilteredIs ==
    ASSUME NEW S, NEW s \in Seq(S), NEW set
    PROVE  /\ Filtered(s, set) \in Seq(S)
           /\ ToSet(Filtered(s, set)) = ToSet(s) \cap set
           /\ IsInjective(s) => IsInjective(Filtered(s, set))
<1>. DEFINE m == Len(s)
            k == CHOOSE f : Keeps(f, s, set, m)
            To(n) == {s[i] : i \in 1 .. n}
            Good(n) == /\ k[n] \in Seq(S)
                       /\ ToSet(k[n]) = To(n) \cap set
                       /\ IsInjective(s) => IsInjective(k[n])
            Bad == {n \in 0 .. m : ~Good(n)}
<1>1. m \in Nat /\ DOMAIN s = 1 .. m /\ \A i \in 1 .. m : s[i] \in S
  BY LenProperties, ElementOfSeq
<1>2. Keeps(k, s, set, m)
  BY <1>1, KeepsExist
<1>. HIDE DEF m, k
<1>3. k[0] = <<>> /\ \A n \in 1 .. m : k[n] = IF s[n] \in set THEN Append(k[n - 1], s[n]) ELSE k[n - 1]
  <2>1. 0 \in 0 .. m /\ \A n \in 1 .. m : n \in 0 .. m /\ n # 0
    BY <1>1
  <2>. QED
    BY <1>2, <2>1 DEF Keeps
<1>4. IsInjective(s) => \A i, j \in 1 .. m : s[i] = s[j] => i = j
  BY <1>1 DEF IsInjective
<1>5. Bad = {}
  <2>. SUFFICES ASSUME Bad # {} PROVE FALSE
    OBVIOUS
  <2>1. Bad \in SUBSET Nat
    BY <1>1
  <2>. HIDE DEF Bad
  <2>2. PICK n \in Bad : \A i \in Bad : n <= i
    BY <2>1, LeastNumber
  <2>3. n \in 0 .. m /\ ~Good(n)
    BY <2>2 DEF Bad
  <2>4. n # 0
    <3>1. To(0) = {} /\ <<>> \in Seq(S)
      BY EmptySeq
    <3>2. Good(0)
      BY <1>3, <3>1, ElementsOfNothing
    <3>. QED
      BY <2>3, <3>2
  <2>5. n \in 1 .. m /\ n - 1 \in 0 .. m /\ ~(n <= n - 1)
    BY <1>1, <2>3, <2>4
  <2>6. Good(n - 1)
    BY <2>2, <2>5 DEF Bad
  <2>7. To(n) = To(n - 1) \cup {s[n]}
    <3>1. \A i \in 1 .. n : i \in 1 .. n - 1 \/ i = n
      BY <2>5
    <3>2. \A i \in 1 .. n - 1 : i \in 1 .. n
      BY <2>5
    <3>3. n \in 1 .. n
      BY <2>5
    <3>. QED
      BY <3>1, <3>2, <3>3
  <2>8. CASE s[n] \in set
    <3>1. k[n] = Append(k[n - 1], s[n])
      BY <1>3, <2>5, <2>8
    <3>2. s[n] \in S
      BY <1>1, <2>5
    <3>3. /\ k[n] \in Seq(S) /\ ToSet(k[n]) = ToSet(k[n - 1]) \cup {s[n]}
          /\ IsInjective(k[n - 1]) /\ s[n] \notin ToSet(k[n - 1]) => IsInjective(k[n])
      BY <2>6, <3>1, <3>2, ElementsOfAppend
    <3>4. ToSet(k[n]) = To(n) \cap set
      BY <2>6, <2>7, <2>8, <3>3
    <3>5. ASSUME IsInjective(s) PROVE s[n] \notin To(n - 1)
      <4>1. \A i \in 1 .. n - 1 : i \in 1 .. m /\ i # n
        BY <2>5, <1>1
      <4>2. \A i \in 1 .. n - 1 : s[i] # s[n]
        BY <1>4, <2>5, <3>5, <4>1
      <4>. QED
        BY <4>2
    <3>. QED
      BY <2>3, <2>6, <3>3, <3>4, <3>5
  <2>9. CASE s[n] \notin set
    <3>1. k[n] = k[n - 1]
      BY <1>3, <2>5, <2>9
    <3>2. ToSet(k[n]) = To(n) \cap set
      BY <2>6, <2>7, <2>9, <3>1
    <3>. QED
      BY <2>3, <2>6, <3>1, <3>2
  <2>. QED
    BY <2>8, <2>9
<1>6. m \in 0 .. m
  BY <1>1
<1>7. Good(m)
  BY <1>5, <1>6
<1>8. ToSet(s) = To(m)
  BY <1>1 DEF ToSet
<1>9. Filtered(s, set) = k[m]
  BY FilteredKeeps DEF k, m
<1>. QED
  BY <1>7, <1>8, <1>9

LEMMA AmongIs ==
    ASSUME NEW S, NEW s \in Seq(S), NEW set
    PROVE  /\ Among(s, set) \in Seq(S)
           /\ ToSet(Among(s, set)) = ToSet(s) \cap set
           /\ IsInjective(s) => IsInjective(Among(s, set))
<1>. DEFINE all == {Filtered(t, x) : t \in {s}, x \in {set}}
<1>1. all = {Filtered(s, set)}
  OBVIOUS
<1>2. Among(s, set) = The(all)
  BY DEF Among
<1>. HIDE DEF all
<1>3. Among(s, set) = Filtered(s, set)
  BY <1>1, <1>2, OnlyElement
<1>. QED
  BY <1>3, FilteredIs

LEMMA OthersIs ==
    ASSUME NEW S, NEW s \in Seq(S), NEW set
    PROVE  /\ Others(s, set) \in Seq(S)
           /\ ToSet(Others(s, set)) = ToSet(s) \ set
           /\ IsInjective(s) => IsInjective(Others(s, set))
<1>1. ToSet(s) \cap (ToSet(s) \ set) = ToSet(s) \ set
  OBVIOUS
<1>. QED
  BY <1>1, AmongIs DEF Others

\* The first of a sequence without repetitions, and what is left.
LEMMA UptoIs ==
    ASSUME NEW S, NEW s \in Seq(S), NEW n \in Nat
    PROVE  /\ Upto(s, n) \in Seq(S)
           /\ Len(Upto(s, n)) = Least(n, Len(s))
           /\ ToSet(Upto(s, n)) \subseteq ToSet(s)
           /\ IsInjective(s) => IsInjective(Upto(s, n))
           /\ \A i \in 1 .. Len(Upto(s, n)) : Upto(s, n)[i] = s[i]
<1>. DEFINE m == Least(n, Len(s))
            rest == SubSeq(s, m + 1, Len(s))
<1>1. Len(s) \in Nat
  BY LenProperties
<1>2. m \in 0 .. Len(s)
  BY <1>1 DEF Least
<1>. HIDE DEF m
<1>3. /\ Upto(s, n) \in Seq(S) /\ rest \in Seq(S) /\ s = Upto(s, n) \o rest
      /\ Len(Upto(s, n)) = m /\ \A i \in 1 .. m : Upto(s, n)[i] = s[i]
  BY <1>2, CutInTwo DEF Upto, m
<1>. HIDE DEF rest
<1>4. /\ ToSet(s) = ToSet(Upto(s, n)) \cup ToSet(rest)
      /\ IsInjective(s) => IsInjective(Upto(s, n))
  <2>. DEFINE u == Upto(s, n)
  <2>1. u \in Seq(S) /\ s = u \o rest
    BY <1>3
  <2>. HIDE DEF u
  <2>2. /\ ToSet(u \o rest) = ToSet(u) \cup ToSet(rest)
        /\ IsInjective(u \o rest) => IsInjective(u)
    BY <1>3, <2>1, ElementsOfConcat
  <2>. QED
    BY <2>1, <2>2 DEF u
<1>. QED
  BY <1>3, <1>4 DEF m

(***************************************************************************)
(* The first candidates                                                    *)
(***************************************************************************)
\* A choice of candidates from some, none of them twice.
ChosenFrom(c, S, set) == c \in Seq(S) /\ IsInjective(c) /\ ToSet(c) \subseteq set

LEMMA UptoIsChosen ==
    ASSUME NEW S, NEW set, NEW c, ChosenFrom(c, S, set), NEW n \in Nat
    PROVE  /\ ChosenFrom(Upto(c, n), S, set)
           /\ Len(Upto(c, n)) \in Nat /\ Len(Upto(c, n)) <= n
           /\ n # 0 /\ c # <<>> => Len(Upto(c, n)) # 0 /\ Upto(c, n)[1] = c[1]
<1>1. c \in Seq(S) /\ IsInjective(c) /\ ToSet(c) \subseteq set /\ Len(c) \in Nat
  BY LenProperties DEF ChosenFrom
<1>. DEFINE u == Upto(c, n)
<1>2. /\ u \in Seq(S) /\ Len(u) = Least(n, Len(c)) /\ ToSet(u) \subseteq ToSet(c) /\ IsInjective(u)
      /\ \A i \in 1 .. Len(u) : u[i] = c[i]
  BY <1>1, UptoIs
<1>. HIDE DEF u
<1>3. Len(u) \in Nat /\ Len(u) <= n
  BY <1>1, <1>2, LeastOf
<1>4. ASSUME n # 0, c # <<>> PROVE Len(u) # 0 /\ u[1] = c[1]
  <2>1. Len(c) # 0
    BY <1>1, <1>4, EmptySeq
  <2>2. Len(u) # 0
    BY <1>1, <1>2, <1>4, <2>1 DEF Least
  <2>3. 1 \in 1 .. Len(u)
    BY <1>3, <2>2
  <2>. QED
    BY <1>2, <2>2, <2>3
<1>. QED
  BY <1>1, <1>2, <1>3, <1>4 DEF ChosenFrom, u

LEMMA HintedFirstIs ==
    ASSUME NEW S, NEW A, NEW B, A \cap B = {}, NEW hints, NEW others,
           ChosenFrom(hints, S, A), ChosenFrom(others, S, B), hints # <<>>,
           NEW limit \in Nat \ {0}
    PROVE  /\ ChosenFrom(HintedFirst(hints, others, limit), S, A \cup B)
           /\ Len(HintedFirst(hints, others, limit)) # 0
           /\ HintedFirst(hints, others, limit)[1] \in A
<1>. DEFINE budget   == IF limit = 1 THEN limit ELSE limit - 1
            first    == Upto(hints, budget)
            fallback == Upto(others, limit - Len(first))
            chosen   == first \o fallback
            rest     == Others(hints, ToSet(first))
            last     == Upto(rest, limit - Len(chosen))
<1>1. budget \in Nat /\ budget # 0 /\ budget <= limit
  OBVIOUS
<1>. HIDE DEF budget
<1>2. /\ ChosenFrom(first, S, A) /\ Len(first) \in Nat /\ Len(first) <= budget
      /\ Len(first) # 0 /\ first[1] = hints[1]
  BY <1>1, UptoIsChosen
<1>. HIDE DEF first
<1>3. limit - Len(first) \in Nat
  BY <1>1, <1>2
<1>4. ChosenFrom(fallback, S, B) /\ Len(fallback) \in Nat /\ Len(fallback) <= limit - Len(first)
  BY <1>3, UptoIsChosen
<1>. HIDE DEF fallback
<1>5. /\ chosen \in Seq(S) /\ Len(chosen) = Len(first) + Len(fallback)
      /\ chosen[1] = first[1] /\ IsInjective(chosen) /\ ToSet(chosen) = ToSet(first) \cup ToSet(fallback)
  <2>1. /\ first \in Seq(S) /\ fallback \in Seq(S) /\ IsInjective(first) /\ IsInjective(fallback)
        /\ ToSet(first) \cap ToSet(fallback) = {}
    BY <1>2, <1>4 DEF ChosenFrom
  <2>2. 1 \in 1 .. Len(first) + Len(fallback) /\ 1 <= Len(first)
    BY <1>2, <1>4
  <2>3. chosen[1] = first[1] /\ Len(chosen) = Len(first) + Len(fallback)
    BY <2>1, <2>2, ConcatProperties
  <2>. QED
    BY <2>1, <2>3, ElementsOfConcat
<1>. HIDE DEF chosen
<1>6. limit - Len(chosen) \in Nat
  BY <1>2, <1>4, <1>5
<1>7. ChosenFrom(rest, S, ToSet(hints) \ ToSet(first))
  BY OthersIs DEF ChosenFrom
<1>. HIDE DEF rest
<1>8. ChosenFrom(last, S, ToSet(hints) \ ToSet(first)) /\ Len(last) \in Nat
  BY <1>6, <1>7, UptoIsChosen
<1>. HIDE DEF last
<1>9. ToSet(chosen) \cap ToSet(last) = {}
  BY <1>2, <1>4, <1>5, <1>8 DEF ChosenFrom
<1>10. /\ chosen \o last \in Seq(S) /\ IsInjective(chosen \o last)
       /\ ToSet(chosen \o last) = ToSet(chosen) \cup ToSet(last)
       /\ Len(chosen \o last) = Len(chosen) + Len(last) /\ (chosen \o last)[1] = chosen[1]
  <2>1. last \in Seq(S) /\ IsInjective(last)
    BY <1>8 DEF ChosenFrom
  <2>2. 1 \in 1 .. Len(chosen) + Len(last) /\ 1 <= Len(chosen)
    BY <1>2, <1>4, <1>5, <1>8
  <2>3. (chosen \o last)[1] = chosen[1] /\ Len(chosen \o last) = Len(chosen) + Len(last)
    <3>1. /\ Len(chosen \o last) = Len(chosen) + Len(last)
          /\ \A i \in 1 .. Len(chosen) + Len(last) :
                (chosen \o last)[i] = IF i <= Len(chosen) THEN chosen[i] ELSE last[i - Len(chosen)]
      BY <1>5, <2>1, ConcatProperties
    <3>. QED
      BY <2>2, <3>1
  <2>. QED
    BY <1>5, <1>9, <2>1, <2>3, ElementsOfConcat
<1>11. HintedFirst(hints, others, limit) = chosen \o last
  BY DEF HintedFirst, chosen, last, rest, fallback, first, budget
<1>12. hints[1] \in A
  <2>1. hints \in Seq(S) /\ Len(hints) \in Nat \ {0}
    BY EmptySeq DEF ChosenFrom
  <2>2. 1 \in 1 .. Len(hints)
    BY <2>1
  <2>3. hints[1] \in ToSet(hints)
    BY <2>1, <2>2, ElementsOf
  <2>. QED
    BY <2>3 DEF ChosenFrom
<1>13. Len(chosen) + Len(last) # 0
  BY <1>2, <1>4, <1>5, <1>8
<1>14. ToSet(chosen) \cup ToSet(last) \subseteq A \cup B
  BY <1>2, <1>4, <1>5, <1>8 DEF ChosenFrom
<1>. QED
  BY <1>2, <1>5, <1>10, <1>11, <1>12, <1>13, <1>14 DEF ChosenFrom

\* Hints are followed at once, unless the records were named exactly.
Followed(order, hinted, exact) == hinted # {} /\ ~exact /\ Among(order, hinted) # <<>>

LEMMA FirstCandidatesAre ==
    ASSUME NEW S, NEW order, ChosenFrom(order, S, ToSet(order)), NEW hinted, NEW exact,
           NEW limit \in Nat \ {0}
    PROVE  LET c == FirstCandidates(order, hinted, exact, limit)
           IN  /\ ChosenFrom(c, S, ToSet(order))
               /\ Followed(order, hinted, exact) => Len(c) # 0 /\ c[1] \in hinted
<1>. DEFINE c  == FirstCandidates(order, hinted, exact, limit)
            hs == Among(order, hinted)
            os == Others(order, hinted)
<1>0. order \in Seq(S) /\ IsInjective(order)
  BY DEF ChosenFrom
<1>1. CASE Followed(order, hinted, exact)
  <2>1. ChosenFrom(hs, S, ToSet(order) \cap hinted) /\ ChosenFrom(os, S, ToSet(order) \ hinted)
    BY <1>0, AmongIs, OthersIs DEF ChosenFrom
  <2>. DEFINE all == {HintedFirst(hints, others, limit) :
                        hints \in {Among(order, hinted)}, others \in {Others(order, hinted)}}
  <2>2. c = The(all)
    BY <1>1 DEF FirstCandidates, Followed
  <2>3. all = {HintedFirst(hs, os, limit)}
    OBVIOUS
  <2>. HIDE DEF all, c
  <2>4. c = HintedFirst(hs, os, limit)
    BY <2>2, <2>3, OnlyElement
  <2>5. hs # <<>>
    BY <1>1 DEF Followed
  <2>. HIDE DEF hs, os
  <2>. DEFINE A == ToSet(order) \cap hinted
              B == ToSet(order) \ hinted
  <2>6. A \cap B = {} /\ A \cup B = ToSet(order) /\ A \subseteq hinted
    OBVIOUS
  <2>. HIDE DEF A, B
  <2>7. ChosenFrom(hs, S, A) /\ ChosenFrom(os, S, B)
    BY <2>1 DEF A, B
  <2>8. /\ ChosenFrom(HintedFirst(hs, os, limit), S, A \cup B)
        /\ Len(HintedFirst(hs, os, limit)) # 0 /\ HintedFirst(hs, os, limit)[1] \in A
    BY <2>5, <2>6, <2>7, HintedFirstIs
  <2>9. ChosenFrom(c, S, ToSet(order)) /\ Len(c) # 0 /\ c[1] \in hinted
    BY <2>4, <2>6, <2>8
  <2>. QED
    BY <2>9 DEF c
<1>2. CASE ~Followed(order, hinted, exact)
  <2>1. c = Upto(order, limit)
    BY <1>2 DEF FirstCandidates, Followed
  <2>. QED
    BY <1>2, <2>1, UptoIsChosen
<1>. QED
  BY <1>1, <1>2

(***************************************************************************)
(* Waves                                                                   *)
(***************************************************************************)
\* ws are sets of one wave, for each number up to m.
WavesTo(ws, first, reserves, failing, target, limit, m) ==
    ws = [n \in 0 .. m |->
            IF n = 0 THEN {FirstWave(first, reserves)}
            ELSE {NextWave(w, failing, target, limit) : w \in ws[n - 1]}]

LEMMA LastWaveIs ==
    ASSUME NEW first, NEW reserves, NEW failing, NEW target, NEW limit
    PROVE  LastWave(first, reserves, failing, target, limit) =
             The((CHOOSE ws : WavesTo(ws, first, reserves, failing, target, limit,
                                      Len(first) + Len(reserves) + 1))
                 [Len(first) + Len(reserves) + 1])
BY DEF LastWave, WavesTo

LEMMA WavesExist ==
    ASSUME NEW first, NEW reserves, NEW failing, NEW target, NEW limit, NEW n \in Nat
    PROVE  \E ws : WavesTo(ws, first, reserves, failing, target, limit, n)
<1>. DEFINE Waves(ws, m) == WavesTo(ws, first, reserves, failing, target, limit, m)
            Bad == {m \in Nat : ~\E ws : Waves(ws, m)}
<1>. SUFFICES ASSUME Bad # {} PROVE FALSE
  OBVIOUS
<1>1. PICK m \in Bad : \A k \in Bad : m <= k
  BY LeastNumber
<1>2. CASE m = 0
  <2>1. Waves([i \in 0 .. 0 |-> {FirstWave(first, reserves)}], 0)
    BY DEF WavesTo
  <2>. QED
    BY <1>2, <2>1
<1>3. CASE m # 0
  <2>1. m - 1 \in Nat /\ m - 1 \notin Bad
    BY <1>1, <1>3
  <2>2. PICK k : Waves(k, m - 1)
    BY <2>1
  <2>. DEFINE At(f, i) == IF i = 0 THEN {FirstWave(first, reserves)}
                          ELSE {NextWave(w, failing, target, limit) : w \in f[i - 1]}
              h == [i \in 0 .. m |-> At(k, i)]
  <2>3. \A i \in 0 .. m - 1 : k[i] = At(k, i)
    BY <2>2 DEF WavesTo
  <2>. HIDE DEF At
  <2>4. \A i \in 0 .. m - 1 : h[i] = k[i]
    BY <2>1, <2>3
  <2>5. \A i \in 0 .. m : i # 0 => h[i - 1] = k[i - 1]
    <3>1. \A i \in 0 .. m : i # 0 => i - 1 \in 0 .. m - 1
      BY <2>1
    <3>. HIDE DEF h
    <3>. QED
      BY <2>4, <3>1
  <2>6. \A i \in 0 .. m : At(k, i) = At(h, i)
    BY <2>5 DEF At
  <2>7. h = [i \in 0 .. m |-> At(h, i)]
    BY <2>6
  <2>8. Waves(h, m)
    BY <2>7 DEF WavesTo, At
  <2>. QED
    BY <2>8
<1>. QED
  BY <1>2, <1>3

\* Whatever fails, the waves take from all the candidates in one order, no more
\* than the limit, and hs, the first of them, at once.
WaveOK(w, S, all, limit, hs) ==
    /\ w.attempted \in Seq(S) /\ w.wave \in Seq(S) /\ w.reserves \in Seq(S)
    /\ (w.attempted \o w.wave) \o w.reserves = all
    /\ Len(w.attempted) + Len(w.wave) <= limit
    /\ w.resolved \in Nat
    /\ hs \subseteq ToSet(w.attempted) \cup ToSet(w.wave)

LEMMA MissingCount ==
    ASSUME NEW r \in Nat, NEW t \in Nat, NEW l \in Nat, NEW limit \in Nat, l <= limit
    PROVE  LET count == IF r >= t \/ l >= limit THEN 0 ELSE Least(t - r, limit - l)
           IN  count \in Nat /\ l + count <= limit
BY DEF Least

LEMMA LessFits ==
    ASSUME NEW l \in Int, NEW m \in Int, NEW n \in Int, NEW limit \in Int,
           l + n <= limit, m <= n
    PROVE  l + m <= limit
OBVIOUS

LEMMA NextWaveIsOK ==
    ASSUME NEW S, NEW all, NEW limit \in Nat, NEW target \in Nat, NEW hs, NEW w,
           WaveOK(w, S, all, limit, hs), NEW failing
    PROVE  WaveOK(NextWave(w, failing, target, limit), S, all, limit, hs)
<1>. DEFINE tried    == w.attempted \o w.wave
            resolved == w.resolved + Cardinality({i \in DOMAIN w.wave : w.wave[i] \notin failing})
            count    == IF resolved >= target \/ Len(tried) >= limit THEN 0
                        ELSE Least(target - resolved, limit - Len(tried))
            wave     == Upto(w.reserves, count)
            rest     == SubSeq(w.reserves, Least(count, Len(w.reserves)) + 1, Len(w.reserves))
            next     == [attempted |-> tried, wave |-> wave, reserves |-> rest, resolved |-> resolved]
<1>1. /\ w.attempted \in Seq(S) /\ w.wave \in Seq(S) /\ w.reserves \in Seq(S)
      /\ tried \o w.reserves = all /\ w.resolved \in Nat
      /\ Len(w.attempted) + Len(w.wave) <= limit
      /\ hs \subseteq ToSet(w.attempted) \cup ToSet(w.wave)
  BY DEF WaveOK
<1>2. CASE w.wave = <<>> \/ Len(w.attempted) >= limit
  BY <1>2 DEF NextWave
<1>3. CASE ~(w.wave = <<>> \/ Len(w.attempted) >= limit)
  <2>1. NextWave(w, failing, target, limit) = next
    BY <1>3 DEF NextWave
  <2>2. tried \in Seq(S) /\ ToSet(tried) = ToSet(w.attempted) \cup ToSet(w.wave)
    BY <1>1, ElementsOfConcat
  <2>3. Len(tried) \in Nat /\ Len(tried) <= limit
    <3>1. Len(tried) = Len(w.attempted) + Len(w.wave)
      BY <1>1, ConcatProperties
    <3>2. Len(tried) \in Nat
      BY <2>2, LenProperties
    <3>. QED
      BY <1>1, <3>1, <3>2
  <2>4. resolved \in Nat
    <3>. DEFINE good == {i \in DOMAIN w.wave : w.wave[i] \notin failing}
    <3>1. DOMAIN w.wave = 1 .. Len(w.wave) /\ Len(w.wave) \in Nat
      BY <1>1, LenProperties
    <3>2. IsFiniteSet(1 .. Len(w.wave)) /\ good \in SUBSET (1 .. Len(w.wave))
      BY <3>1, FS_Interval
    <3>. HIDE DEF good
    <3>3. Cardinality(good) \in Nat
      BY <3>2, FS_Subset, FS_CardinalityType
    <3>. QED
      BY <1>1, <3>3 DEF good
  <2>. HIDE DEF resolved, tried
  <2>5. count \in Nat /\ Len(tried) + count <= limit
    BY <2>3, <2>4, MissingCount
  <2>. HIDE DEF count
  <2>6. Len(w.reserves) \in Nat
    BY <1>1, LenProperties
  <2>7. /\ wave \in Seq(S) /\ rest \in Seq(S) /\ w.reserves = wave \o rest
        /\ Len(wave) = Least(count, Len(w.reserves))
    <3>. DEFINE m == Least(count, Len(w.reserves))
    <3>1. m \in 0 .. Len(w.reserves)
      BY <2>5, <2>6 DEF Least
    <3>. HIDE DEF m
    <3>2. /\ SubSeq(w.reserves, 1, m) \in Seq(S) /\ SubSeq(w.reserves, m + 1, Len(w.reserves)) \in Seq(S)
          /\ w.reserves = SubSeq(w.reserves, 1, m) \o SubSeq(w.reserves, m + 1, Len(w.reserves))
          /\ Len(SubSeq(w.reserves, 1, m)) = m
      BY <1>1, <3>1, CutInTwo
    <3>. QED
      BY <3>2 DEF m, Upto
  <2>8. Len(wave) <= count
    <3>1. Least(count, Len(w.reserves)) <= count
      BY <2>5, <2>6 DEF Least
    <3>. QED
      BY <2>7, <3>1
  <2>9. Len(wave) \in Nat
    BY <2>7, LenProperties
  <2>. HIDE DEF wave, rest
  <2>10. Len(tried) + Len(wave) <= limit
    <3>1. /\ Len(tried) \in Int /\ Len(wave) \in Int /\ count \in Int /\ limit \in Int
          /\ Len(tried) + count <= limit
      BY <2>3, <2>5, <2>9
    <3>. QED
      BY <2>8, <3>1, LessFits
  <2>11. (tried \o wave) \o rest = all
    <3>1. tried \o w.reserves = all
      BY <1>1
    <3>2. (tried \o wave) \o rest = tried \o (wave \o rest)
      BY <2>2, <2>7, ConcatAssociative
    <3>. QED
      BY <2>7, <3>1, <3>2
  <2>12. WaveOK(next, S, all, limit, hs)
    BY <1>1, <2>2, <2>4, <2>7, <2>10, <2>11 DEF WaveOK
  <2>. QED
    BY <2>1, <2>12
<1>. QED
  BY <1>2, <1>3

LEMMA Regrouped == \A S : \A s, t, u \in Seq(S) : (s \o t) \o u = s \o (t \o u)
BY ConcatAssociative

\* What is attempted is a beginning of all the candidates, with the first of them.
Begins(a, S, first, reserves, limit) ==
    /\ a \in Seq(S) /\ Len(a) <= limit
    /\ ToSet(first) \subseteq ToSet(a)
    /\ \E t \in Seq(S) : first \o reserves = a \o t

LEMMA AttemptedIs ==
    ASSUME NEW S, NEW first \in Seq(S), NEW reserves \in Seq(S), NEW failing,
           NEW target \in Nat, NEW limit \in Nat \ {0}, Len(first) <= limit
    PROVE  Begins(Attempted(first, reserves, failing, target, limit), S, first, reserves, limit)
<1>. DEFINE N == Len(first) + Len(reserves) + 1
            ws == CHOOSE f : WavesTo(f, first, reserves, failing, target, limit, N)
            all == first \o reserves
            hs == ToSet(first)
            One(n) == \E w : ws[n] = {w} /\ WaveOK(w, S, all, limit, hs) /\ (n # 0 => hs \subseteq ToSet(w.attempted))
            Bad == {n \in 0 .. N : ~One(n)}
<1>1. Len(first) \in Nat /\ N \in Nat /\ N # 0
  BY LenProperties
<1>2. WavesTo(ws, first, reserves, failing, target, limit, N)
  BY <1>1, WavesExist
<1>. HIDE DEF N, ws
<1>3. /\ ws[0] = {FirstWave(first, reserves)}
      /\ \A n \in 1 .. N : ws[n] = {NextWave(w, failing, target, limit) : w \in ws[n - 1]}
  <2>1. 0 \in 0 .. N /\ \A n \in 1 .. N : n \in 0 .. N /\ n # 0
    BY <1>1
  <2>. QED
    BY <1>2, <2>1 DEF WavesTo
<1>4. WaveOK(FirstWave(first, reserves), S, all, limit, hs)
  <2>1. <<>> \in Seq(S) /\ Len(<<>>) = 0 /\ <<>> \o first = first
    BY EmptySeq, ConcatEmptySeq
  <2>. QED
    BY <1>1, <2>1, ElementsOfNothing DEF WaveOK, FirstWave
<1>5. Bad = {}
  <2>. SUFFICES ASSUME Bad # {} PROVE FALSE
    OBVIOUS
  <2>1. Bad \in SUBSET Nat
    BY <1>1
  <2>. HIDE DEF Bad
  <2>2. PICK n \in Bad : \A i \in Bad : n <= i
    BY <2>1, LeastNumber
  <2>3. n \in 0 .. N /\ ~One(n)
    BY <2>2 DEF Bad
  <2>4. n # 0
    BY <1>3, <1>4, <2>3
  <2>5. n \in 1 .. N /\ n - 1 \in 0 .. N /\ ~(n <= n - 1)
    BY <1>1, <2>3, <2>4
  <2>6. PICK w : /\ ws[n - 1] = {w} /\ WaveOK(w, S, all, limit, hs)
                 /\ n - 1 # 0 => hs \subseteq ToSet(w.attempted)
    BY <2>2, <2>5 DEF Bad
  <2>7. ws[n] = {NextWave(w, failing, target, limit)}
    BY <1>3, <2>5, <2>6
  <2>8. WaveOK(NextWave(w, failing, target, limit), S, all, limit, hs)
    BY <2>6, NextWaveIsOK
  <2>9. hs \subseteq ToSet(NextWave(w, failing, target, limit).attempted)
    <3>1. CASE w.wave = <<>> \/ Len(w.attempted) >= limit
      <4>1. NextWave(w, failing, target, limit) = w
        BY <3>1 DEF NextWave
      <4>2. ASSUME n - 1 = 0 PROVE hs = {}
        <5>1. w = FirstWave(first, reserves)
          BY <1>3, <2>6, <4>2
        <5>2. w.wave = first /\ Len(w.attempted) = 0
          BY <5>1, EmptySeq DEF FirstWave
        <5>. QED
          BY <3>1, <5>2, ElementsOfNothing
      <4>. QED
        BY <2>6, <4>1, <4>2
    <3>2. CASE ~(w.wave = <<>> \/ Len(w.attempted) >= limit)
      <4>1. NextWave(w, failing, target, limit).attempted = w.attempted \o w.wave
        BY <3>2 DEF NextWave
      <4>2. w.attempted \in Seq(S) /\ w.wave \in Seq(S) /\ hs \subseteq ToSet(w.attempted) \cup ToSet(w.wave)
        BY <2>6 DEF WaveOK
      <4>. QED
        BY <4>1, <4>2, ElementsOfConcat
    <3>. QED
      BY <3>1, <3>2
  <2>. QED
    BY <2>3, <2>7, <2>8, <2>9
<1>6. N \in 0 .. N
  BY <1>1
<1>7. PICK w : ws[N] = {w} /\ WaveOK(w, S, all, limit, hs) /\ (N # 0 => hs \subseteq ToSet(w.attempted))
  BY <1>5, <1>6
<1>8. Attempted(first, reserves, failing, target, limit) = w.attempted
  <2>1. LastWave(first, reserves, failing, target, limit) = The(ws[N])
    BY LastWaveIs DEF ws, N
  <2>. QED
    BY <1>7, <2>1, OnlyElement DEF Attempted
<1>9. /\ w.attempted \in Seq(S) /\ w.wave \in Seq(S) /\ w.reserves \in Seq(S)
      /\ (w.attempted \o w.wave) \o w.reserves = all /\ Len(w.attempted) + Len(w.wave) <= limit
  BY <1>7 DEF WaveOK
<1>10. Len(w.attempted) <= limit /\ \E t \in Seq(S) : all = w.attempted \o t
  <2>. DEFINE a == w.attempted
              v == w.wave
              u == w.reserves
  <2>1. /\ a \in Seq(S) /\ v \in Seq(S) /\ u \in Seq(S) /\ (a \o v) \o u = all
        /\ Len(a) + Len(v) <= limit /\ limit \in Nat
    BY <1>9
  <2>. HIDE DEF a, v, u, all
  <2>2. a \o (v \o u) = all
    <3>1. a \in Seq(S) /\ v \in Seq(S) /\ u \in Seq(S)
      BY <2>1
    <3>2. (a \o v) \o u = a \o (v \o u)
      BY <3>1, Regrouped
    <3>. QED
      BY <2>1, <3>2
  <2>3. v \o u \in Seq(S)
    BY <2>1, ConcatProperties
  <2>4. Len(a) \in Nat /\ Len(v) \in Nat
    BY <2>1, LenProperties
  <2>5. Len(a) <= limit
    BY <2>1, <2>4
  <2>. QED
    BY <2>2, <2>3, <2>5 DEF a
<1>. QED
  BY <1>1, <1>7, <1>8, <1>9, <1>10 DEF Begins

(***************************************************************************)
(* The document                                                            *)
(***************************************************************************)
\* How many documents are wanted, and how many are tried at most.
Wanted(limit) == Least(limit, MaxCandidates)

Tries(limit) == Least(MaxCandidates, Wanted(limit) * 3)

LEMMA TriesSuffice ==
    ASSUME NEW limit \in Nat \ {0}
    PROVE  /\ Wanted(limit) \in Nat \ {0} /\ Tries(limit) \in Nat \ {0}
           /\ Wanted(limit) <= Tries(limit)
BY CandidatesAreWanted DEF Wanted, Tries, Least

\* What is selected is some of the records in order, and one that was hinted at
\* if hints are followed.
LEMMA SelectedIs ==
    ASSUME NEW S, NEW order, ChosenFrom(order, S, ToSet(order)), NEW hinted, NEW exact,
           NEW limit \in Nat \ {0}, NEW failing
    PROVE  LET sel == Selected(order, hinted, exact, limit, failing, Tries(limit))
           IN  /\ ChosenFrom(sel, S, ToSet(order)) /\ Len(sel) <= Tries(limit)
               /\ Followed(order, hinted, exact) => ToSet(sel) \cap hinted # {}
<1>. DEFINE sel      == Selected(order, hinted, exact, limit, failing, Tries(limit))
            target   == Wanted(limit)
            tries    == Tries(limit)
            first    == Upto(FirstCandidates(order, hinted, exact, limit), target)
            Tried(f) == Attempted(f, Others(order, ToSet(f)), failing, target, tries)
            reserves == Others(order, ToSet(first))
            all      == {Tried(f) : f \in {first}}
<1>1. sel = The(all)
  BY DEF Selected, Wanted
<1>2. all = {Tried(first)}
  OBVIOUS
<1>. HIDE DEF all, sel
<1>3. sel = Attempted(first, reserves, failing, target, tries)
  BY <1>1, <1>2, OnlyElement
<1>4. target \in Nat \ {0} /\ tries \in Nat \ {0} /\ target <= tries
  BY TriesSuffice
<1>. HIDE DEF target, tries
<1>5. /\ ChosenFrom(first, S, ToSet(order)) /\ Len(first) \in Nat /\ Len(first) <= target
      /\ Followed(order, hinted, exact) => Len(first) # 0 /\ first[1] \in hinted
  <2>. DEFINE c == FirstCandidates(order, hinted, exact, limit)
  <2>1. /\ ChosenFrom(c, S, ToSet(order))
        /\ Followed(order, hinted, exact) => Len(c) # 0 /\ c[1] \in hinted
    BY FirstCandidatesAre
  <2>. HIDE DEF c
  <2>2. /\ ChosenFrom(Upto(c, target), S, ToSet(order))
        /\ Len(Upto(c, target)) \in Nat /\ Len(Upto(c, target)) <= target
        /\ target # 0 /\ c # <<>> => Len(Upto(c, target)) # 0 /\ Upto(c, target)[1] = c[1]
    BY <1>4, <2>1, UptoIsChosen
  <2>3. Len(c) # 0 => c # <<>>
    BY EmptySeq
  <2>. QED
    BY <1>4, <2>1, <2>2, <2>3 DEF c
<1>. HIDE DEF first
<1>6. order \in Seq(S) /\ first \in Seq(S) /\ IsInjective(order)
  BY <1>5 DEF ChosenFrom
<1>7. /\ reserves \in Seq(S) /\ ToSet(reserves) = ToSet(order) \ ToSet(first)
      /\ IsInjective(reserves)
  BY <1>6, OthersIs
<1>. HIDE DEF reserves
<1>8. Len(first) <= tries
  BY <1>4, <1>5
<1>9. /\ sel \in Seq(S) /\ Len(sel) <= tries /\ ToSet(first) \subseteq ToSet(sel)
      /\ \E t \in Seq(S) : first \o reserves = sel \o t
  <2>1. target \in Nat
    BY <1>4
  <2>2. Begins(Attempted(first, reserves, failing, target, tries), S, first, reserves, tries)
    BY <1>4, <1>6, <1>7, <1>8, <2>1, AttemptedIs
  <2>. QED
    BY <1>3, <2>2 DEF Begins
<1>10. PICK t \in Seq(S) : first \o reserves = sel \o t
  BY <1>9
<1>11. IsInjective(first \o reserves) /\ ToSet(first \o reserves) \subseteq ToSet(order)
  <2>1. IsInjective(first) /\ ToSet(first) \subseteq ToSet(order)
    BY <1>5 DEF ChosenFrom
  <2>2. ToSet(first) \cap ToSet(reserves) = {}
    BY <1>7
  <2>3. /\ ToSet(first \o reserves) = ToSet(first) \cup ToSet(reserves)
        /\ IsInjective(first) /\ IsInjective(reserves) /\ ToSet(first) \cap ToSet(reserves) = {} =>
              IsInjective(first \o reserves)
    BY <1>6, <1>7, ElementsOfConcat
  <2>. QED
    BY <1>7, <2>1, <2>2, <2>3
<1>12. IsInjective(sel) /\ ToSet(sel) \subseteq ToSet(order)
  <2>1. /\ ToSet(sel \o t) = ToSet(sel) \cup ToSet(t)
        /\ IsInjective(sel \o t) => IsInjective(sel)
    BY <1>9, <1>10, ElementsOfConcat
  <2>. QED
    BY <1>10, <1>11, <2>1
<1>13. ASSUME Followed(order, hinted, exact) PROVE ToSet(sel) \cap hinted # {}
  <2>1. 1 \in 1 .. Len(first)
    BY <1>5, <1>13
  <2>2. first[1] \in ToSet(first)
    BY <1>6, <2>1, ElementsOf
  <2>. QED
    BY <1>5, <1>9, <1>13, <2>2
<1>14. ChosenFrom(sel, S, ToSet(order)) /\ Len(sel) <= Tries(limit)
  BY <1>9, <1>12 DEF ChosenFrom, tries
<1>. QED
  BY <1>13, <1>14 DEF sel

HasFields(doc, sel, order, hinted, exact, limit, active, counted, mismatched, unloadable) ==
    /\ doc.selected = sel
    /\ doc.active = active
    /\ doc.counted = counted
    /\ doc.scope = Len(order)
    /\ doc.limit = Tries(limit)
    /\ doc.mode = IF exact THEN "exact" ELSE IF hinted = {} THEN "sample"
                  ELSE IF Among(order, hinted) # <<>> THEN "hinted" ELSE "no match"
    /\ doc.hinted = hinted
    /\ doc.matches = IF exact THEN 0 ELSE Len(Among(order, hinted))
    /\ doc.matched = ToSet(sel) \ (ToSet(sel) \cap mismatched)
    /\ doc.excluded = ToSet(sel) \cap mismatched
    /\ doc.status = IF ToSet(sel) \cap mismatched = {} THEN "matched" ELSE "excluded_mismatched_records"
    /\ doc.failed = ToSet(sel) \cap (mismatched \cup unloadable)

LEMMA DocumentFields ==
    ASSUME NEW order, NEW hinted, NEW exact, NEW limit, NEW active, NEW counted,
           NEW mismatched, NEW unloadable
    PROVE  HasFields(Document(order, hinted, exact, limit, active, counted, mismatched, unloadable),
                     Selected(order, hinted, exact, limit, mismatched \cup unloadable, Tries(limit)),
                     order, hinted, exact, limit, active, counted, mismatched, unloadable)
<1>. DEFINE doc == Document(order, hinted, exact, limit, active, counted, mismatched, unloadable)
            sel == Selected(order, hinted, exact, limit, mismatched \cup unloadable, Tries(limit))
            Of(s, excluded) ==
                [selected |-> s, active |-> active, counted |-> counted, scope |-> Len(order),
                 limit |-> Tries(limit),
                 mode |-> IF exact THEN "exact" ELSE IF hinted = {} THEN "sample"
                          ELSE IF Among(order, hinted) # <<>> THEN "hinted" ELSE "no match",
                 hinted |-> hinted,
                 matches |-> IF exact THEN 0 ELSE Len(Among(order, hinted)),
                 matched |-> ToSet(s) \ excluded, excluded |-> excluded,
                 status |-> IF excluded = {} THEN "matched" ELSE "excluded_mismatched_records",
                 failed |-> ToSet(s) \cap (mismatched \cup unloadable)]
            all == {Of(s, ToSet(s) \cap mismatched) : s \in {sel}}
<1>1. doc = The(all)
  BY DEF Document, Tries, Wanted
<1>2. all = {Of(sel, ToSet(sel) \cap mismatched)}
  OBVIOUS
<1>. HIDE DEF all, sel, doc
<1>3. doc = Of(sel, ToSet(sel) \cap mismatched)
  BY <1>1, <1>2, OnlyElement
<1>4. HasFields(doc, sel, order, hinted, exact, limit, active, counted, mismatched, unloadable)
  BY <1>3 DEF HasFields
<1>. QED
  BY <1>4 DEF doc, sel

\* The document of a scan is one that the projection accepts, and what it serves
\* was in order and did not differ from storage.
LEMMA DocumentIsFine ==
    ASSUME NEW S, NEW order, ChosenFrom(order, S, ToSet(order)), NEW hinted, IsFiniteSet(hinted),
           NEW exact, NEW limit \in Nat \ {0}, NEW active, NEW counted, NEW mismatched, NEW unloadable
    PROVE  LET doc == Document(order, hinted, exact, limit, active, counted, mismatched, unloadable)
           IN  /\ Served(doc) \subseteq ToSet(order) \ mismatched
               /\ ToSet(order) \subseteq active /\ counted \in Nat /\ Len(order) <= counted =>
                     Acceptable(doc)
<1>. DEFINE doc == Document(order, hinted, exact, limit, active, counted, mismatched, unloadable)
            sel == Selected(order, hinted, exact, limit, mismatched \cup unloadable, Tries(limit))
            hints == Among(order, hinted)
            picked == Among(sel, hinted)
<1>1. /\ ChosenFrom(sel, S, ToSet(order)) /\ Len(sel) <= Tries(limit)
      /\ Followed(order, hinted, exact) => ToSet(sel) \cap hinted # {}
  BY SelectedIs
<1>2. /\ doc.selected = sel
      /\ doc.active = active /\ doc.counted = counted /\ doc.scope = Len(order)
      /\ doc.limit = Tries(limit)
      /\ doc.mode = IF exact THEN "exact" ELSE IF hinted = {} THEN "sample"
                    ELSE IF hints # <<>> THEN "hinted" ELSE "no match"
      /\ doc.hinted = hinted
      /\ doc.matches = IF exact THEN 0 ELSE Len(hints)
      /\ doc.matched = ToSet(sel) \ (ToSet(sel) \cap mismatched)
      /\ doc.excluded = ToSet(sel) \cap mismatched
      /\ doc.status = IF doc.excluded = {} THEN "matched" ELSE "excluded_mismatched_records"
      /\ doc.failed = ToSet(sel) \cap (mismatched \cup unloadable)
  <2>1. HasFields(doc, sel, order, hinted, exact, limit, active, counted, mismatched, unloadable)
    BY DocumentFields
  <2>. HIDE DEF doc, sel, hints
  <2>. QED
    BY <2>1 DEF HasFields, hints
<1>3. picked = Among(doc.selected, doc.hinted)
  BY <1>2
<1>. HIDE DEF doc, sel
<1>4. /\ sel \in Seq(S) /\ IsInjective(sel) /\ ToSet(sel) \subseteq ToSet(order)
      /\ order \in Seq(S) /\ IsInjective(order)
  BY <1>1 DEF ChosenFrom
<1>5. /\ hints \in Seq(S) /\ IsInjective(hints) /\ ToSet(hints) = ToSet(order) \cap hinted
      /\ picked \in Seq(S) /\ IsInjective(picked) /\ ToSet(picked) = ToSet(sel) \cap hinted
  BY <1>4, AmongIs
<1>6. Served(doc) \subseteq ToSet(order) \ mismatched
  BY <1>2, <1>4 DEF Served
<1>. HIDE DEF hints, picked
<1>7. /\ IsFiniteSet(ToSet(order)) /\ Cardinality(ToSet(order)) = Len(order)
      /\ IsFiniteSet(ToSet(sel)) /\ Cardinality(ToSet(sel)) = Len(sel)
      /\ IsFiniteSet(ToSet(hints)) /\ Cardinality(ToSet(hints)) = Len(hints)
      /\ IsFiniteSet(ToSet(picked)) /\ Cardinality(ToSet(picked)) = Len(picked)
  BY <1>4, <1>5, InjectiveLength
<1>8. Len(order) \in Nat /\ Len(sel) \in Nat /\ Len(hints) \in Nat /\ Len(picked) \in Nat
  BY <1>4, <1>5, LenProperties
<1>. DEFINE nh == Len(hints)
            np == Len(picked)
            ns == Len(sel)
<1>9. /\ Len(sel) <= Len(order) /\ Len(hints) <= Len(order) /\ Len(picked) <= Len(hints)
      /\ Len(hints) <= Cardinality(hinted)
  <2>1. \A T, U : IsFiniteSet(U) /\ T \subseteq U => Cardinality(T) <= Cardinality(U)
    BY FS_Subset
  <2>. QED
    BY <1>4, <1>5, <1>7, <2>1
<1>10. /\ nh \in Nat /\ np \in Nat /\ ns \in Nat /\ np <= nh
       /\ nh <= Cardinality(hinted) /\ nh <= Len(order)
  BY <1>8, <1>9
<1>11. np + (ns - np) = ns /\ (np # 0 <=> np > 0) /\ (nh # 0 <=> nh > 0) /\ (np > 0 => nh > 0)
  <2>. HIDE DEF np, ns, nh
  <2>. QED
    BY <1>10
<1>. HIDE DEF np, ns, nh
<1>12. hints # <<>> <=> nh > 0
  <2>1. \A s \in Seq(S) : s # <<>> => Len(s) \in Nat \ {0}
    BY EmptySeq
  <2>2. hints # <<>> => nh # 0
    BY <1>5, <2>1 DEF nh
  <2>3. hints = <<>> => nh = 0
    BY EmptySeq DEF nh
  <2>. QED
    BY <1>11, <2>2, <2>3, Zenon
<1>13. Followed(order, hinted, exact) => np > 0
  <2>1. Followed(order, hinted, exact) => ToSet(picked) # {}
    BY <1>1, <1>5
  <2>2. np = 0 => ToSet(picked) = {}
    BY <1>7, FS_EmptySet DEF np
  <2>. QED
    BY <1>11, <2>1, <2>2, Zenon
<1>14. ASSUME ToSet(order) \subseteq active, counted \in Nat, Len(order) <= counted
       PROVE  Acceptable(doc)
  <2>1. SelectionIsValid(doc)
    <3>1. Len(sel) <= counted
      BY <1>8, <1>9, <1>14
    <3>. QED
      BY <1>1, <1>2, <1>4, <1>9, <1>14, <3>1 DEF SelectionIsValid
  <2>2. StorageIsCovered(doc)
    BY <1>2 DEF StorageIsCovered, Served
  <2>3. HintsAreCounted(doc)
    <3>. SUFFICES ASSUME doc.mode \in {"hinted", "no match"}
                  PROVE  /\ doc.hinted # {} /\ doc.matches <= Cardinality(doc.hinted)
                         /\ doc.matches <= doc.scope /\ Len(picked) <= doc.matches
                         /\ Len(picked) + (Len(doc.selected) - Len(picked)) = Len(doc.selected)
                         /\ doc.mode = "hinted" <=> doc.matches > 0
                         /\ doc.mode = "hinted" <=> Len(picked) > 0
      BY <1>3, Zenon DEF HintsAreCounted
    <3>1. /\ ~exact /\ hinted # {} /\ doc.matches = nh /\ (doc.mode = "hinted" <=> hints # <<>>)
          /\ Len(doc.selected) = ns /\ Len(picked) = np
          /\ doc.hinted = hinted /\ doc.scope = Len(order)
      BY <1>2 DEF nh, ns, np
    <3>2. Followed(order, hinted, exact) <=> hints # <<>>
      BY <3>1 DEF Followed, hints
    <3>. QED
      BY <1>10, <1>11, <1>12, <1>13, <3>1, <3>2, Zenon
  <2>. QED
    BY <2>1, <2>2, <2>3 DEF Acceptable
<1>. QED
  BY <1>6, <1>14 DEF doc

(***************************************************************************)
(* Sequences that are joined                                               *)
(***************************************************************************)
\* f[i] is what the first i sequences of g are joined.
Joins(f, g, n) == f = [i \in 1 .. n |-> IF i = 1 THEN g[i] ELSE f[i - 1] \o g[i]]

LEMMA FlattenJoins ==
    ASSUME NEW g, Len(g) # 0
    PROVE  FlattenSeq(g) = (CHOOSE f : Joins(f, g, Len(g)))[Len(g)]
BY DEF FlattenSeq, Joins

LEMMA JoinsExist ==
    ASSUME NEW g, NEW n \in Nat
    PROVE  \E f : Joins(f, g, n)
<1>. DEFINE Bad == {m \in Nat : ~\E f : Joins(f, g, m)}
<1>. SUFFICES ASSUME Bad # {} PROVE FALSE
  OBVIOUS
<1>1. PICK m \in Bad : \A i \in Bad : m <= i
  BY LeastNumber
<1>2. CASE m = 0
  <2>1. \A i \in 1 .. 0 : FALSE
    OBVIOUS
  <2>2. Joins([i \in 1 .. 0 |-> <<>>], g, 0)
    BY <2>1 DEF Joins
  <2>. QED
    BY <1>2, <2>2
<1>3. CASE m # 0
  <2>1. m - 1 \in Nat /\ m - 1 \notin Bad
    BY <1>1, <1>3
  <2>2. PICK f : Joins(f, g, m - 1)
    BY <2>1
  <2>. DEFINE At(k, i) == IF i = 1 THEN g[i] ELSE k[i - 1] \o g[i]
              h == [i \in 1 .. m |-> At(f, i)]
  <2>3. \A i \in 1 .. m - 1 : f[i] = At(f, i)
    BY <2>2 DEF Joins
  <2>. HIDE DEF At
  <2>4. \A i \in 1 .. m - 1 : h[i] = f[i]
    BY <2>1, <2>3
  <2>5. \A i \in 1 .. m : i # 1 => h[i - 1] = f[i - 1]
    BY <2>1, <2>4
  <2>6. \A i \in 1 .. m : At(f, i) = At(h, i)
    BY <2>5 DEF At
  <2>7. h = [i \in 1 .. m |-> At(h, i)]
    BY <2>6
  <2>8. Joins(h, g, m)
    BY <2>7 DEF Joins, At
  <2>. QED
    BY <2>8
<1>. QED
  BY <1>2, <1>3

\* The first k of the sequences of g are joined, one after the other.
Flat(g, k) == FlattenSeq([i \in 1 .. k |-> g[i]])

JoinedInTurn(g, E, m) ==
    /\ Flat(g, 0) = <<>>
    /\ \A k \in 0 .. m : Flat(g, k) \in Seq(E)
    /\ \A k \in 1 .. m : Flat(g, k) = Flat(g, k - 1) \o g[k]

LEMMA FlattenIs ==
    ASSUME NEW E, NEW m \in Nat, NEW g \in [1 .. m -> Seq(E)]
    PROVE  JoinedInTurn(g, E, m)
<1>. DEFINE F(k) == Flat(g, k)
            f == CHOOSE x : Joins(x, g, m)
            of(k) == IF k = 0 THEN <<>> ELSE f[k]
<1>1. Joins(f, g, m)
  BY JoinsExist
<1>. HIDE DEF f
<1>2. /\ 1 \in 1 .. m => f[1] = g[1]
      /\ \A k \in 1 .. m : k # 1 => f[k] = f[k - 1] \o g[k]
  BY <1>1 DEF Joins
<1>3. \A k \in 0 .. m : of(k) \in Seq(E) /\ (k # 0 => of(k) = of(k - 1) \o g[k])
  <2>. DEFINE Good(k) == of(k) \in Seq(E) /\ (k # 0 => of(k) = of(k - 1) \o g[k])
              Bad == {k \in 0 .. m : ~Good(k)}
  <2>. SUFFICES ASSUME Bad # {} PROVE FALSE
    OBVIOUS
  <2>1. Bad \in SUBSET Nat
    <3>. HIDE DEF Good
    <3>. QED
      OBVIOUS
  <2>. HIDE DEF Bad
  <2>2. PICK k \in Bad : \A i \in Bad : k <= i
    BY <2>1, LeastNumber
  <2>3. k \in 0 .. m /\ ~Good(k)
    BY <2>2 DEF Bad
  <2>4. k # 0
    BY <2>3, EmptySeq
  <2>5. k \in 1 .. m /\ k - 1 \in 0 .. m /\ ~(k <= k - 1)
    BY <2>3, <2>4
  <2>6. of(k - 1) \in Seq(E)
    BY <2>2, <2>5 DEF Bad
  <2>7. g[k] \in Seq(E)
    BY <2>5
  <2>8. of(k) = of(k - 1) \o g[k]
    <3>1. CASE k = 1
      <4>1. of(k) = g[k] /\ of(k - 1) = <<>>
        BY <1>2, <2>5, <3>1
      <4>2. <<>> \o g[k] = g[k]
        BY <2>7, ConcatEmptySeq
      <4>. QED
        BY <4>1, <4>2
    <3>2. CASE k # 1
      <4>1. k # 0 /\ k - 1 # 0
        BY <2>5, <3>2
      <4>2. of(k) = f[k] /\ of(k - 1) = f[k - 1]
        BY <4>1, Zenon
      <4>3. f[k] = f[k - 1] \o g[k]
        BY <1>2, <2>5, <3>2
      <4>. QED
        BY <4>2, <4>3, Zenon
    <3>. QED
      BY <3>1, <3>2
  <2>. HIDE DEF of
  <2>9. of(k - 1) \o g[k] \in Seq(E)
    BY <2>6, <2>7, ConcatProperties
  <2>. QED
    BY <2>3, <2>8, <2>9
<1>4. \A k \in 0 .. m : F(k) = of(k)
  <2>. SUFFICES ASSUME NEW k \in 0 .. m PROVE F(k) = of(k)
    OBVIOUS
  <2>. DEFINE p == [i \in 1 .. k |-> g[i]]
              h == CHOOSE x : Joins(x, p, k)
  <2>1. p \in Seq(Seq(E)) /\ Len(p) = k
    <3>1. k \in Nat /\ \A i \in 1 .. k : i \in 1 .. m
      OBVIOUS
    <3>. QED
      BY <3>1
  <2>2. CASE k = 0
    <3>1. p = <<>> /\ F(k) = p
      BY <2>1, <2>2, EmptySeq DEF FlattenSeq, Flat
    <3>. QED
      BY <2>2, <3>1
  <2>3. CASE k # 0
    <3>1. F(k) = h[k]
      BY <2>1, <2>3, FlattenJoins DEF Flat
    <3>2. Joins(h, p, k)
      <4>. HIDE DEF p
      <4>1. k \in Nat
        OBVIOUS
      <4>. QED
        BY <4>1, JoinsExist
    <3>. HIDE DEF h
    <3>3. \A i \in 1 .. k : h[i] = IF i = 1 THEN g[i] ELSE h[i - 1] \o g[i]
      BY <3>2 DEF Joins
    <3>. DEFINE Bad == {i \in 1 .. k : h[i] # f[i]}
    <3>4. Bad = {}
      <4>. SUFFICES ASSUME Bad # {} PROVE FALSE
        OBVIOUS
      <4>1. Bad \in SUBSET Nat
        OBVIOUS
      <4>. HIDE DEF Bad
      <4>2. PICK i \in Bad : \A j \in Bad : i <= j
        BY <4>1, LeastNumber
      <4>3. i \in 1 .. k /\ h[i] # f[i] /\ i \in 1 .. m
        BY <4>2 DEF Bad
      <4>4. i # 1
        BY <1>2, <3>3, <4>3
      <4>5. i - 1 \in 1 .. k /\ ~(i <= i - 1)
        BY <4>3, <4>4
      <4>6. h[i - 1] = f[i - 1]
        BY <4>2, <4>5 DEF Bad
      <4>. QED
        BY <1>2, <3>3, <4>3, <4>4, <4>6
    <3>5. k \in 1 .. k
      BY <2>3
    <3>6. h[k] = f[k]
      BY <3>4, <3>5
    <3>. QED
      BY <2>3, <3>1, <3>6
  <2>. QED
    BY <2>2, <2>3
<1>. HIDE DEF F, of
<1>5. F(0) = <<>> /\ (\A k \in 0 .. m : F(k) \in Seq(E)) /\ \A k \in 1 .. m : F(k) = F(k - 1) \o g[k]
  <2>1. 0 \in 0 .. m /\ \A k \in 1 .. m : k \in 0 .. m /\ k - 1 \in 0 .. m /\ k # 0
    OBVIOUS
  <2>2. of(0) = <<>>
    BY DEF of
  <2>. QED
    BY <1>3, <1>4, <2>1, <2>2
<1>. QED
  BY <1>5 DEF F, JoinedInTurn
(***************************************************************************)
(* The invariant                                                           *)
(***************************************************************************)
\* What the chain has, and what the providers know of it.
ChainOK ==
    /\ scene \in Scenes
    /\ final \in Nat /\ head \in Nat /\ 1 <= final /\ final <= head /\ head <= LastBlock
    /\ reported \in [Providers -> Nat]
    /\ \A p \in Providers : reported[p] <= final

\* A scan is a record of these fields.
Fields == {"at", "target", "from", "logs", "fetched", "pending", "next", "done", "failure",
           "heads", "attempts", "doc", "hashes"}

Shape(r) == r = [f \in Fields |-> r[f]]

\* The last block of the first n pages of a scan.
EndAt(r, n) == IF n = 0 THEN r.from - 1 ELSE LastOf(r, n)

\* Every page submitted was taken, has arrived or is on its way, unless one failed.
PagesFit(r) ==
    /\ r.target \in Nat /\ r.target <= LastBlock /\ r.from \in 1 .. r.target + 1
    /\ r.pending \subseteq 1 .. PageCount(r)
    /\ r.next \in 0 .. PageCount(r) /\ r.done \in 0 .. PageCount(r)
    /\ r.fetched = [i \in 1 .. LastBlock |-> r.fetched[i]]
    /\ \A i \in 1 .. LastBlock : r.fetched[i] # None => i \in 1 .. PageCount(r)
    /\ r.failure = None =>
          \A i \in 1 .. r.next : i <= r.done \/ i \in r.pending \/ r.fetched[i] # None

\* The page that the logs wait for has not arrived.
PagesOK(r) ==
    /\ PagesFit(r)
    /\ r.done + 1 \in 1 .. LastBlock => r.fetched[r.done + 1] = None

\* Something is on its way until all is, unless a page failed.
KeptBusy(r) == r.failure = None /\ r.pending = {} => r.next = PageCount(r)

\* What was taken and what has arrived is what the chain has.
PagesTrue(r) ==
    /\ r.logs = Logs(1, EndAt(r, r.done))
    /\ \A i \in 1 .. LastBlock : r.fetched[i] # None => r.fetched[i] = Logs(FirstOf(r, i), LastOf(r, i))

\* The head that an honest provider reports is final.
HeadsOK(heads) ==
    /\ heads \in [Providers -> {None} \cup [number : Nat, real : BOOLEAN]]
    /\ \A p \in Providers \ scene.liars : heads[p] # None => heads[p].number <= final

WasActive(x, r, b) ==
    /\ Storage(b)[x].status = "active"
    /\ Storage(b)[x].hash = r.hashes[x]
    /\ scene.profile = "v2" => Storage(b)[x].eligible

ServesActive(r) ==
    \A x \in Served(r.doc) :
        \E b \in r.target .. (IF scene.profile = "myotis" THEN head ELSE r.target) : WasActive(x, r, b)

IsAccepted(r) ==
    LET state == Storage(r.target)
    IN  \/ scene.profile = "v2" /\ \E x \in Records : state[x].eligible /\ ~state[x].indexed
        \/ Acceptable(r.doc)

ScanFits(r) ==
    /\ Shape(r)
    /\ r.target \in Nat /\ r.target <= final
    /\ HeadsOK(r.heads)
    /\ r.at = "heads" => scene.profile = "v2"
    /\ r.at = "pages" => PagesOK(r) /\ KeptBusy(r)
    /\ r.at # "done" => r.doc = NoDocument
    /\ r.at = "done" => IsAccepted(r)
    /\ ServesActive(r)

\* Of a scan whose answers missed nothing
ScanTrue(r) ==
    /\ r.at = "pages" => PagesTrue(r)
    /\ r.at = "select" /\ scene.profile # "v2" => r.logs = Logs(1, r.target)

CheckpointFits ==
    checkpoint # None =>
        /\ checkpoint.block \in Nat
        /\ ~missed => checkpoint.logs = Logs(1, checkpoint.block)

ScanInv ==
    /\ ChainOK
    /\ scan = [s \in Scanners |-> scan[s]]
    /\ CheckpointFits
    /\ \A r \in {scan[s] : s \in Scanners} : ScanFits(r) /\ (~missed => ScanTrue(r))

(***************************************************************************)
(* The logs of a range of blocks                                           *)
(***************************************************************************)
LEMMA SceneIs ==
    ASSUME scene \in Scenes
    PROVE  /\ scene.profile \in {"v1", "myotis", "v2"}
           /\ scene.chain \in Seq(Seq(EventsOf(scene))) /\ scene.chain # <<>>
           /\ None \notin Seq(EventsOf(scene))
           /\ scene.page \in Nat \ {0} /\ scene.workers \in Nat \ {0} /\ scene.limit \in Nat \ {0}
           /\ scene.hinted \subseteq Records /\ scene.preferred \subseteq Records
           /\ scene.liars \subseteq Providers /\ scene.liars # Providers
           /\ None \notin scene.failures
           /\ LastBlock \in Nat \ {0}
<1>1. /\ scene.profile \in {"v1", "myotis", "v2"}
      /\ scene.chain \in Seq(Seq(EventsOf(scene))) /\ scene.chain # <<>>
      /\ None \notin Seq(EventsOf(scene))
      /\ scene.page \in Nat \ {0} /\ scene.workers \in Nat \ {0} /\ scene.limit \in Nat \ {0}
      /\ scene.hinted \subseteq Records /\ scene.preferred \subseteq Records
      /\ scene.liars \subseteq Providers /\ scene.liars # Providers
      /\ None \notin scene.failures
  BY ScenesAreScans
<1>2. LastBlock \in Nat \ {0}
  BY <1>1, EmptySeq, LenProperties DEF LastBlock
<1>. QED
  BY <1>1, <1>2

LEMMA BlockLogsTyped ==
    ASSUME scene \in Scenes, NEW b \in 1 .. LastBlock
    PROVE  BlockLogs(b) \in Seq(EventsOf(scene))
<1>1. scene.chain[b] \in Seq(EventsOf(scene))
  BY SceneIs, ElementOfSeq DEF LastBlock
<1>. QED
  BY <1>1, AmongIs DEF BlockLogs

LEMMA LogsIs ==
    ASSUME scene \in Scenes, NEW from \in Nat \ {0}, NEW to \in Nat, from <= to + 1, to <= LastBlock
    PROVE  /\ Logs(from, to) \in Seq(EventsOf(scene))
           /\ Logs(from, from - 1) = <<>>
           /\ from <= to => Logs(from, to) = Logs(from, to - 1) \o BlockLogs(to)
<1>. DEFINE E == EventsOf(scene)
            m == to - from + 1
            g == [n \in 1 .. m |-> BlockLogs(from + n - 1)]
            F(k) == Flat(g, k)
<1>1. m \in Nat
  OBVIOUS
<1>2. g \in [1 .. m -> Seq(E)]
  <2>1. \A n \in 1 .. m : from + n - 1 \in 1 .. LastBlock
    BY SceneIs
  <2>. QED
    BY <2>1, BlockLogsTyped
<1>. HIDE DEF E
<1>3. ASSUME NEW k \in 0 .. m, NEW t \in Int, t - from + 1 = k PROVE Logs(from, t) = F(k)
  <2>1. \A i \in 1 .. k : i \in 1 .. m
    BY <1>1
  <2>2. [n \in 1 .. k |-> BlockLogs(from + n - 1)] = [i \in 1 .. k |-> g[i]]
    BY <2>1
  <2>3. Logs(from, t) = FlattenSeq([n \in 1 .. k |-> BlockLogs(from + n - 1)])
    BY <1>3 DEF Logs
  <2>. QED
    BY <2>2, <2>3 DEF Flat
<1>. HIDE DEF g
<1>4. /\ F(0) = <<>>
      /\ \A k \in 0 .. m : F(k) \in Seq(E)
      /\ \A k \in 1 .. m : F(k) = F(k - 1) \o g[k]
  <2>. HIDE DEF m
  <2>. QED
    BY <1>1, <1>2, FlattenIs DEF JoinedInTurn
<1>5. Logs(from, to) = F(m) /\ Logs(from, from - 1) = F(0)
  <2>1. m \in 0 .. m /\ to \in Int /\ 0 \in 0 .. m /\ from - 1 \in Int /\ from - 1 - from + 1 = 0
    BY <1>1
  <2>. HIDE DEF F
  <2>. QED
    BY <1>3, <2>1
<1>6. ASSUME from <= to PROVE Logs(from, to - 1) = F(m - 1) /\ m \in 1 .. m /\ g[m] = BlockLogs(to)
  <2>1. m - 1 \in 0 .. m /\ to - 1 \in Int /\ to - 1 - from + 1 = m - 1 /\ m \in 1 .. m /\ from + m - 1 = to
    BY <1>6
  <2>2. g[m] = BlockLogs(to)
    BY <2>1 DEF g
  <2>. HIDE DEF F
  <2>3. Logs(from, to - 1) = F(m - 1)
    BY <1>3, <2>1
  <2>. QED
    BY <2>1, <2>2, <2>3
<1>7. m \in 0 .. m
  BY <1>1
<1>. HIDE DEF F, m
<1>8. Logs(from, to) \in Seq(E) /\ Logs(from, from - 1) = <<>>
  BY <1>4, <1>5, <1>7
<1>9. ASSUME from <= to PROVE Logs(from, to) = Logs(from, to - 1) \o BlockLogs(to)
  BY <1>4, <1>5, <1>6, <1>9
<1>. QED
  BY <1>8, <1>9 DEF E

\* The logs of two ranges that follow each other are those of both.
LEMMA LogsJoin ==
    ASSUME scene \in Scenes, NEW from \in Nat \ {0}, NEW mid \in Nat, NEW to \in Nat,
           from <= mid + 1, mid <= to, to <= LastBlock
    PROVE  Logs(from, mid) \o Logs(mid + 1, to) = Logs(from, to)
<1>. DEFINE E == EventsOf(scene)
            Good(c) == Logs(from, mid) \o Logs(mid + 1, c) = Logs(from, c)
            Bad == {c \in mid .. to : ~Good(c)}
<1>1. Bad = {}
  <2>. SUFFICES ASSUME Bad # {} PROVE FALSE
    OBVIOUS
  <2>. HIDE DEF Good
  <2>1. Bad \in SUBSET Nat
    OBVIOUS
  <2>. HIDE DEF Bad
  <2>2. PICK c \in Bad : \A k \in Bad : c <= k
    BY <2>1, LeastNumber
  <2>3. c \in mid .. to /\ ~Good(c) /\ c \in Nat /\ c <= LastBlock
    <3>1. c \in mid .. to /\ ~Good(c)
      BY <2>2 DEF Bad
    <3>. QED
      BY <3>1, SceneIs
  <2>4. mid <= LastBlock /\ mid + 1 \in Nat \ {0} /\ from <= c + 1 /\ mid + 1 <= c + 1
    BY <2>3, SceneIs
  <2>5. Logs(from, mid) \in Seq(E)
    BY <2>4, LogsIs
  <2>6. CASE c = mid
    <3>1. Logs(mid + 1, mid) = <<>>
      <4>1. mid + 1 - 1 = mid
        OBVIOUS
      <4>2. Logs(mid + 1, mid + 1 - 1) = <<>>
        BY <2>3, <2>4, LogsIs
      <4>. QED
        BY <4>1, <4>2
    <3>2. Logs(from, mid) \o <<>> = Logs(from, mid)
      BY <2>5, ConcatEmptySeq
    <3>. QED
      BY <2>3, <2>6, <3>1, <3>2 DEF Good
  <2>7. CASE c # mid
    <3>1. /\ c - 1 \in mid .. to /\ ~(c <= c - 1) /\ c - 1 \in Nat /\ from <= c /\ mid + 1 <= c
          /\ mid + 1 <= c - 1 + 1 /\ c - 1 <= LastBlock /\ c \in 1 .. LastBlock
      BY <2>3, <2>7, SceneIs
    <3>2. Good(c - 1)
      BY <2>2, <3>1 DEF Bad
    <3>3. Logs(from, c) = Logs(from, c - 1) \o BlockLogs(c)
      BY <2>3, <2>4, <3>1, LogsIs
    <3>4. Logs(mid + 1, c) = Logs(mid + 1, c - 1) \o BlockLogs(c)
      BY <2>3, <2>4, <3>1, LogsIs
    <3>5. Logs(mid + 1, c - 1) \in Seq(E)
      BY <2>4, <3>1, LogsIs
    <3>6. BlockLogs(c) \in Seq(E)
      BY <3>1, BlockLogsTyped
    <3>7. (Logs(from, mid) \o Logs(mid + 1, c - 1)) \o BlockLogs(c)
            = Logs(from, mid) \o (Logs(mid + 1, c - 1) \o BlockLogs(c))
      BY <2>5, <3>5, <3>6, Regrouped
    <3>. QED
      BY <2>3, <3>2, <3>3, <3>4, <3>7 DEF Good
  <2>. QED
    BY <2>6, <2>7
<1>2. to \in mid .. to
  OBVIOUS
<1>. QED
  BY <1>1, <1>2

(***************************************************************************)
(* Pages                                                                   *)
(***************************************************************************)
LEMMA Products ==
    ASSUME NEW i \in Nat, NEW j \in Nat, NEW p \in Nat \ {0}, i <= j
    PROVE  i * p <= j * p /\ i <= i * p
<1>1. j * p - i * p = (j - i) * p /\ j - i \in Nat
  OBVIOUS
<1>2. (j - i) * p >= 0 /\ i * (p - 1) >= 0
  BY <1>1
<1>3. i * p = i * (p - 1) + i
  OBVIOUS
<1>. QED
  BY <1>1, <1>2, <1>3

LEMMA Quotient ==
    ASSUME NEW n \in Nat, NEW p \in Nat \ {0}
    PROVE  /\ n \div p \in Nat
           /\ (n \div p) * p <= n
           /\ n < (n \div p) * p + p
OBVIOUS

LEMMA PageBounds ==
    ASSUME NEW from \in Nat \ {0}, NEW target \in Nat, NEW page \in Nat \ {0}, NEW q \in Nat,
           q * page <= target - from, target - from < q * page + page,
           NEW i \in 1 .. q + 1, NEW first, first = from + (i - 1) * page
    PROVE  /\ first \in Nat \ {0} /\ from <= first /\ first <= target
           /\ i = q + 1 => ~(first + page - 1 < target)
           /\ i <= q => first + page - 1 < target
           /\ from + i * page = first + page
<1>1. i - 1 \in Nat /\ i - 1 <= q /\ i \in Nat
  OBVIOUS
<1>2. (i - 1) * page <= q * page /\ i - 1 <= (i - 1) * page
  BY <1>1, Products
<1>3. (i - 1) * page \in Nat /\ q * page \in Nat /\ i * page \in Nat
  BY <1>1
<1>4. i * page = (i - 1) * page + page
  BY <1>1
<1>5. i <= q => i * page <= q * page
  BY <1>1, Products
<1>6. i = q + 1 => (i - 1) * page = q * page
  OBVIOUS
<1>. DEFINE x == (i - 1) * page
            y == q * page
            z == i * page
<1>7. /\ x \in Nat /\ y \in Nat /\ z \in Nat /\ x <= y /\ z = x + page
      /\ i <= q => z <= y
      /\ i = q + 1 => x = y
      /\ y <= target - from /\ target - from < y + page /\ first = from + x
  BY <1>1, <1>2, <1>3, <1>4, <1>5, <1>6
<1>. HIDE DEF x, y, z
<1>8. /\ first \in Nat \ {0} /\ from <= first /\ first <= target
      /\ i = q + 1 => ~(first + page - 1 < target)
      /\ i <= q => first + page - 1 < target
      /\ from + z = first + page
  BY <1>7
<1>. QED
  BY <1>8 DEF z

\* The pages of a scan follow each other from its first block to its last.
LEMMA PagesAre ==
    ASSUME scene \in Scenes, NEW r, r.target \in Nat, r.target <= LastBlock,
           r.from \in 1 .. r.target + 1
    PROVE  /\ PageCount(r) \in Nat /\ PageCount(r) <= LastBlock
           /\ PageCount(r) = 0 => r.from = r.target + 1
           /\ PageCount(r) # 0 => FirstOf(r, 1) = r.from /\ LastOf(r, PageCount(r)) = r.target
           /\ \A i \in 1 .. PageCount(r) :
                 /\ FirstOf(r, i) \in Nat \ {0} /\ LastOf(r, i) \in Nat
                 /\ FirstOf(r, i) <= LastOf(r, i) /\ LastOf(r, i) <= r.target
                 /\ i # PageCount(r) => FirstOf(r, i + 1) = LastOf(r, i) + 1
<1>. DEFINE from   == r.from
            target == r.target
            page   == scene.page
            M      == PageCount(r)
<1>1. from \in Nat \ {0} /\ target \in Nat /\ from <= target + 1 /\ page \in Nat \ {0}
  BY SceneIs
<1>2. target <= LastBlock /\ LastBlock \in Nat
  BY SceneIs
<1>3. M = IF from > target THEN 0 ELSE (target - from) \div page + 1
  BY DEF PageCount
<1>4. /\ \A i : FirstOf(r, i) = from + (i - 1) * page
      /\ \A i : LastOf(r, i) = IF FirstOf(r, i) + page - 1 < target THEN FirstOf(r, i) + page - 1 ELSE target
  BY DEF FirstOf, LastOf
<1>. HIDE DEF from, target, page, M
<1>5. CASE from > target
  <2>1. M = 0 /\ from = target + 1 /\ \A i \in 1 .. M : FALSE
    BY <1>1, <1>3, <1>5
  <2>. QED
    BY <1>2, <2>1 DEF M, from, target
<1>6. CASE ~(from > target)
  <2>. DEFINE q == (target - from) \div page
              first(i) == from + (i - 1) * page
  <2>0. target - from \in Nat
    BY <1>1, <1>6
  <2>1. q \in Nat /\ q * page <= target - from /\ target - from < q * page + page
    BY <1>1, <2>0, Quotient
  <2>2. M = q + 1
    BY <1>3, <1>6
  <2>. HIDE DEF q
  <2>3. M \in Nat /\ M <= target /\ M # 0 /\ 1 \in 1 .. M /\ M \in 1 .. M
    <3>1. q <= q * page
      BY <1>1, <2>1, Products
    <3>2. q * page \in Nat
      BY <1>1, <2>1
    <3>. QED
      BY <1>1, <2>0, <2>1, <2>2, <3>1, <3>2
  <2>4. \A i \in 1 .. M :
           /\ first(i) \in Nat \ {0} /\ from <= first(i) /\ first(i) <= target
           /\ i = M => ~(first(i) + page - 1 < target)
           /\ i <= q => first(i) + page - 1 < target
           /\ from + i * page = first(i) + page
    <3>. SUFFICES ASSUME NEW i \in 1 .. q + 1
                  PROVE  /\ first(i) \in Nat \ {0} /\ from <= first(i) /\ first(i) <= target
                         /\ i = q + 1 => ~(first(i) + page - 1 < target)
                         /\ i <= q => first(i) + page - 1 < target
                         /\ from + i * page = first(i) + page
      BY <2>2
    <3>. QED
      BY <1>1, <2>1, PageBounds
  <2>5. first(1) = from
    BY <1>1
  <2>6. \A i \in 1 .. M : i # M => i <= q /\ i + 1 - 1 = i
    BY <2>1, <2>2
  <2>7. /\ \A i : FirstOf(r, i) = first(i)
        /\ \A i : LastOf(r, i) = IF first(i) + page - 1 < target THEN first(i) + page - 1 ELSE target
    BY <1>4
  <2>8. \A i \in 1 .. M : i # M => first(i + 1) = first(i) + page
    BY <2>4, <2>6
  <2>. HIDE DEF first
  <2>9. \A i \in 1 .. M :
           /\ FirstOf(r, i) \in Nat \ {0} /\ LastOf(r, i) \in Nat
           /\ FirstOf(r, i) <= LastOf(r, i) /\ LastOf(r, i) <= target
           /\ i # M => FirstOf(r, i + 1) = LastOf(r, i) + 1
    <3>. SUFFICES ASSUME NEW i \in 1 .. M
                  PROVE  /\ FirstOf(r, i) \in Nat \ {0} /\ LastOf(r, i) \in Nat
                         /\ FirstOf(r, i) <= LastOf(r, i) /\ LastOf(r, i) <= target
                         /\ i # M => FirstOf(r, i + 1) = LastOf(r, i) + 1
      OBVIOUS
    <3>. DEFINE f == first(i)
                n == FirstOf(r, i)
                l == LastOf(r, i)
    <3>1. /\ f \in Nat \ {0} /\ f <= target /\ n = f
          /\ l = IF f + page - 1 < target THEN f + page - 1 ELSE target
          /\ i # M => f + page - 1 < target
      BY <2>4, <2>6, <2>7
    <3>2. i # M => FirstOf(r, i + 1) = f + page
      BY <2>7, <2>8
    <3>. HIDE DEF f, n, l
    <3>3. /\ n \in Nat \ {0} /\ l \in Nat /\ n <= l /\ l <= target
          /\ i # M => f + page = l + 1
      BY <1>1, <3>1
    <3>. QED
      BY <3>2, <3>3 DEF n, l
  <2>10. FirstOf(r, 1) = from /\ LastOf(r, M) = target
    BY <2>3, <2>4, <2>5, <2>7
  <2>11. M <= LastBlock
    BY <1>1, <1>2, <2>3
  <2>. QED
    BY <2>3, <2>9, <2>10, <2>11 DEF M, from, target
<1>. QED
  BY <1>5, <1>6

\* The blocks of the first pages.
LEMMA EndIs ==
    ASSUME scene \in Scenes, NEW r, r.target \in Nat, r.target <= LastBlock,
           r.from \in 1 .. r.target + 1, NEW n \in 0 .. PageCount(r)
    PROVE  /\ EndAt(r, n) \in Nat /\ EndAt(r, n) <= LastBlock
           /\ n = PageCount(r) => EndAt(r, n) = r.target
           /\ n # PageCount(r) =>
                 /\ n + 1 \in 1 .. PageCount(r) /\ FirstOf(r, n + 1) = EndAt(r, n) + 1
                 /\ EndAt(r, n + 1) = LastOf(r, n + 1) /\ EndAt(r, n) <= LastOf(r, n + 1)
<1>. DEFINE M == PageCount(r)
<1>2. /\ M \in Nat /\ M <= LastBlock
      /\ M = 0 => r.from = r.target + 1
      /\ M # 0 => FirstOf(r, 1) = r.from /\ LastOf(r, M) = r.target
      /\ \A i \in 1 .. M : /\ FirstOf(r, i) \in Nat /\ LastOf(r, i) \in Nat
                           /\ FirstOf(r, i) <= LastOf(r, i) /\ LastOf(r, i) <= r.target
                           /\ i # M => FirstOf(r, i + 1) = LastOf(r, i) + 1
  BY PagesAre
<1>3. LastBlock \in Nat
  BY SceneIs
<1>4. n \in 0 .. M
  OBVIOUS
<1>. HIDE DEF M
<1>5. CASE n = 0
  <2>1. r.from \in Nat \ {0} /\ r.from - 1 + 1 = r.from /\ r.from - 1 <= r.target
    OBVIOUS
  <2>2. n # M => n + 1 = 1 /\ 1 \in 1 .. M /\ M # 0
    BY <1>2, <1>5
  <2>3. EndAt(r, n) = r.from - 1
    BY <1>5 DEF EndAt
  <2>4. n = M => EndAt(r, n) = r.target
    <3>1. r.target + 1 - 1 = r.target
      OBVIOUS
    <3>2. n = M => r.from = r.target + 1
      BY <1>2, <1>5, Zenon
    <3>. QED
      BY <2>3, <3>1, <3>2
  <2>5. EndAt(r, n) \in Nat /\ EndAt(r, n) <= LastBlock
    BY <1>3, <2>1, <2>3
  <2>. QED
    BY <1>2, <2>1, <2>2, <2>3, <2>4, <2>5 DEF M, EndAt
<1>6. CASE n # 0
  <2>1. n \in 1 .. M /\ M # 0
    BY <1>2, <1>4, <1>6
  <2>2. n # M => n + 1 \in 1 .. M /\ n + 1 # 0
    BY <1>2, <2>1
  <2>3. EndAt(r, n) = LastOf(r, n)
    BY <1>6 DEF EndAt
  <2>4. EndAt(r, n) \in Nat /\ EndAt(r, n) <= LastBlock
    <3>1. EndAt(r, n) \in Nat /\ EndAt(r, n) <= r.target
      BY <1>2, <2>1, <2>3
    <3>. QED
      BY <1>3, <3>1
  <2>5. n # M => EndAt(r, n + 1) = LastOf(r, n + 1) /\ EndAt(r, n) <= LastOf(r, n + 1)
    <3>. SUFFICES ASSUME n # M PROVE EndAt(r, n + 1) = LastOf(r, n + 1) /\ EndAt(r, n) <= LastOf(r, n + 1)
      OBVIOUS
    <3>. DEFINE f == FirstOf(r, n + 1)
                l == LastOf(r, n + 1)
                e == LastOf(r, n)
    <3>1. EndAt(r, n + 1) = l
      BY <2>2 DEF EndAt
    <3>2. f \in Nat /\ l \in Nat /\ f <= l /\ e \in Nat /\ f = e + 1
      BY <1>2, <2>1, <2>2
    <3>. HIDE DEF f, l, e
    <3>3. e <= l
      BY <3>2
    <3>. QED
      BY <2>3, <3>1, <3>3 DEF l, e
  <2>. QED
    BY <1>2, <2>1, <2>2, <2>3, <2>4, <2>5 DEF M
<1>. QED
  BY <1>5, <1>6

(***************************************************************************)
(* What the handlers make of a scan                                        *)
(***************************************************************************)
\* Two states of a scan that differ in its pages only.
Kin(q, r) ==
    /\ Shape(q)
    /\ q.at = r.at /\ q.target = r.target /\ q.from = r.from
    /\ q.heads = r.heads /\ q.doc = r.doc /\ q.hashes = r.hashes

LEMMA KinPages ==
    ASSUME NEW q, NEW r, Kin(q, r)
    PROVE  /\ PageCount(q) = PageCount(r)
           /\ \A i : FirstOf(q, i) = FirstOf(r, i) /\ LastOf(q, i) = LastOf(r, i)
           /\ \A i : EndAt(q, i) = EndAt(r, i)
<1>1. q.target = r.target /\ q.from = r.from
  BY DEF Kin
<1>2. PageCount(q) = PageCount(r)
  BY <1>1 DEF PageCount
<1>3. \A i : FirstOf(q, i) = FirstOf(r, i)
  BY <1>1 DEF FirstOf
<1>4. \A i : LastOf(q, i) = LastOf(r, i)
  BY <1>1, <1>3 DEF LastOf
<1>5. \A i : EndAt(q, i) = EndAt(r, i)
  BY <1>1, <1>4 DEF EndAt
<1>. QED
  BY <1>2, <1>3, <1>4, <1>5

\* The pages that are submitted when there is room for some.
NewPages(next, room, M) == {i \in next + 1 .. next + room : i <= M}

LEMMA FillRange ==
    ASSUME NEW next \in Nat, NEW M \in Nat, next <= M, NEW room \in Int
    PROVE  \E u \in next .. M :
              /\ NewPages(next, room, M) = next + 1 .. u
              /\ Cardinality(NewPages(next, room, M)) = u - next
              /\ room >= 1 /\ NewPages(next, room, M) = {} => u = M
<1>. DEFINE new == NewPages(next, room, M)
            u == IF room <= 0 THEN next ELSE IF next + room <= M THEN next + room ELSE M
<1>1. u \in next .. M /\ (room >= 1 /\ u = next => u = M)
  OBVIOUS
<1>2. new = next + 1 .. u
  BY DEF NewPages
<1>. HIDE DEF u
<1>3. Cardinality(next + 1 .. u) = u - next
  <2>1. next + 1 \in Int /\ u \in Int
    BY <1>1
  <2>2. Cardinality(next + 1 .. u) = IF next + 1 > u THEN 0 ELSE u - (next + 1) + 1
    BY <2>1, FS_Interval
  <2>. QED
    BY <1>1, <2>2
<1>4. new = {} => u = next
  <2>1. u # next => u \in next + 1 .. u
    BY <1>1
  <2>. QED
    BY <1>2, <2>1
<1>. QED
  BY <1>1, <1>2, <1>3, <1>4

\* The pages that continue what was taken are the ones up to a gap.
Ready(d, L, f) == {n \in d + 1 .. L : \A i \in d + 1 .. n : f[i] # None}

ReadyUpto(d, L, f) == IF Ready(d, L, f) = {} THEN d ELSE d + Cardinality(Ready(d, L, f))

LEMMA ReadyRange ==
    ASSUME NEW d \in Nat, NEW L \in Nat, d <= L, NEW f
    PROVE  /\ ReadyUpto(d, L, f) \in d .. L
           /\ \A i \in d + 1 .. ReadyUpto(d, L, f) : f[i] # None
           /\ ReadyUpto(d, L, f) + 1 \in 1 .. L => f[ReadyUpto(d, L, f) + 1] = None
<1>. DEFINE ready == Ready(d, L, f)
            upto  == ReadyUpto(d, L, f)
            Gaps   == {n \in d + 1 .. L + 1 : n = L + 1 \/ f[n] = None}
<1>1. Gaps \in SUBSET Nat /\ L + 1 \in Gaps
  OBVIOUS
<1>. HIDE DEF Gaps
<1>2. PICK g \in Gaps : \A n \in Gaps : g <= n
  BY <1>1, LeastNumber
<1>. DEFINE u == g - 1
<1>3. g \in d + 1 .. L + 1 /\ (g = L + 1 \/ f[g] = None)
  BY <1>2 DEF Gaps
<1>4. \A i \in d + 1 .. u : f[i] # None
  <2>1. \A i \in d + 1 .. u : i \in d + 1 .. L + 1 /\ ~(g <= i)
    BY <1>3
  <2>. QED
    BY <1>2, <2>1 DEF Gaps
<1>5. u \in d .. L /\ u + 1 = g
  BY <1>3
<1>6. ready = d + 1 .. u
  <2>1. \A n \in d + 1 .. u : n \in d + 1 .. L /\ \A i \in d + 1 .. n : i \in d + 1 .. u
    BY <1>5
  <2>2. \A n \in d + 1 .. L : n \in d + 1 .. u \/ g \in d + 1 .. n
    BY <1>3, <1>5
  <2>3. \A n \in d + 1 .. L : g \in d + 1 .. n => g # L + 1
    OBVIOUS
  <2>. HIDE DEF u
  <2>. QED
    BY <1>3, <1>4, <2>1, <2>2, <2>3 DEF Ready
<1>. HIDE DEF u
<1>7. Cardinality(d + 1 .. u) = u - d
  <2>1. d + 1 \in Int /\ u \in Int
    BY <1>5
  <2>2. Cardinality(d + 1 .. u) = IF d + 1 > u THEN 0 ELSE u - (d + 1) + 1
    BY <2>1, FS_Interval
  <2>. QED
    BY <1>5, <2>2
<1>8. upto = u
  <2>1. ready = {} => u = d
    <3>1. u # d => u \in d + 1 .. u
      BY <1>5
    <3>. QED
      BY <1>6, <3>1
  <2>2. d + (u - d) = u
    BY <1>5
  <2>. QED
    BY <1>6, <1>7, <2>1, <2>2 DEF ReadyUpto
<1>9. u + 1 \in 1 .. L => f[u + 1] = None
  <2>1. u + 1 \in 1 .. L => g # L + 1
    BY <1>5
  <2>. QED
    BY <1>3, <1>5, <2>1
<1>. QED
  BY <1>4, <1>5, <1>8, <1>9

LEMMA FilledIs ==
    ASSUME scene \in Scenes, NEW r, Shape(r), PagesOK(r)
    PROVE  /\ Kin(Filled(r), r) /\ PagesOK(Filled(r)) /\ KeptBusy(Filled(r))
           /\ PagesTrue(r) => PagesTrue(Filled(r))
<1>1. CASE r.failure # None
  <2>1. Filled(r) = r
    BY <1>1 DEF Filled
  <2>2. KeptBusy(r)
    BY <1>1 DEF KeptBusy
  <2>. QED
    BY <2>1, <2>2 DEF Kin
<1>2. CASE r.failure = None
  <2>. DEFINE M == PageCount(r)
              room == scene.workers - Cardinality(r.pending)
              new == {i \in r.next + 1 .. r.next + room : i <= M}
              q == [r EXCEPT !.pending = r.pending \cup new, !.next = r.next + Cardinality(new)]
  <2>1. Filled(r) = q
    BY <1>2 DEF Filled
  <2>2. /\ r.target \in Nat /\ r.target <= LastBlock /\ r.from \in 1 .. r.target + 1
        /\ r.pending \subseteq 1 .. M /\ r.next \in 0 .. M /\ r.done \in 0 .. M
        /\ r.fetched = [i \in 1 .. LastBlock |-> r.fetched[i]]
        /\ \A i \in 1 .. LastBlock : r.fetched[i] # None => i \in 1 .. M
        /\ r.done + 1 \in 1 .. LastBlock => r.fetched[r.done + 1] = None
        /\ \A i \in 1 .. r.next : i <= r.done \/ i \in r.pending \/ r.fetched[i] # None
    BY <1>2 DEF PagesOK, PagesFit
  <2>3. M \in Nat
    BY <2>2, PagesAre
  <2>4. IsFiniteSet(r.pending) /\ Cardinality(r.pending) \in Nat
    <3>1. IsFiniteSet(1 .. M)
      BY <2>3, FS_Interval
    <3>. HIDE DEF M
    <3>. QED
      BY <2>2, <3>1, FS_Subset, FS_CardinalityType
  <2>5. room \in Int
    BY <2>4, SceneIs
  <2>6. \E u \in r.next .. M :
            /\ new = r.next + 1 .. u /\ Cardinality(new) = u - r.next
            /\ room >= 1 /\ new = {} => u = M
    <3>. DEFINE n == r.next
    <3>1. n \in Nat /\ n <= M
      BY <2>2, <2>3
    <3>2. new = NewPages(n, room, M)
      BY DEF NewPages
    <3>. HIDE DEF M, room, new, n
    <3>3. \E u \in n .. M :
              /\ new = n + 1 .. u /\ Cardinality(new) = u - n
              /\ room >= 1 /\ new = {} => u = M
      BY <2>3, <2>5, <3>1, <3>2, FillRange
    <3>. QED
      BY <3>3 DEF n
  <2>. HIDE DEF new, room
  <2>7. PICK u \in r.next .. M : /\ new = r.next + 1 .. u /\ Cardinality(new) = u - r.next
                                 /\ room >= 1 /\ new = {} => u = M
    BY <2>6
  <2>8. /\ Kin(q, r) /\ q.logs = r.logs /\ q.fetched = r.fetched /\ q.done = r.done
        /\ q.failure = r.failure /\ q.pending = r.pending \cup new /\ q.next = r.next + Cardinality(new)
    <3>1. q = [r EXCEPT !.pending = r.pending \cup new, !.next = r.next + Cardinality(new)]
      OBVIOUS
    <3>. HIDE DEF q
    <3>. QED
      BY <3>1 DEF Shape, Kin, Fields
  <2>. HIDE DEF q
  <2>9. r.next + (u - r.next) = u /\ u \in 0 .. M /\ new \subseteq 1 .. M
    <3>1. r.next \in Nat
      BY <2>2, <2>3
    <3>. QED
      BY <2>3, <2>7, <3>1
  <2>10. q.next = u
    BY <2>7, <2>8, <2>9
  <2>11. q.target = r.target /\ q.from = r.from
    BY <2>8 DEF Kin
  <2>12. /\ PageCount(q) = M
         /\ \A i : FirstOf(q, i) = FirstOf(r, i) /\ LastOf(q, i) = LastOf(r, i)
         /\ \A i : EndAt(q, i) = EndAt(r, i)
    BY <2>8, KinPages
  <2>. HIDE DEF M
  <2>13. \A i \in 1 .. u : i \in 1 .. r.next \/ i \in new
    <3>1. r.next \in Nat
      BY <2>2, <2>3
    <3>. QED
      BY <2>7, <3>1
  <2>14. PagesFit(q)
    <3>1. \A i \in 1 .. q.next : i <= q.done \/ i \in q.pending \/ q.fetched[i] # None
      BY <2>2, <2>8, <2>10, <2>13
    <3>2. q.pending \subseteq 1 .. M /\ q.next \in 0 .. M
      BY <2>2, <2>8, <2>9, <2>10
    <3>. QED
      BY <2>2, <2>8, <2>11, <2>12, <3>1, <3>2 DEF PagesFit
  <2>15. PagesOK(q)
    BY <2>2, <2>8, <2>14 DEF PagesOK
  <2>16. KeptBusy(q)
    <3>. SUFFICES ASSUME q.pending = {} PROVE q.next = M
      BY <2>12 DEF KeptBusy
    <3>1. r.pending = {} /\ new = {}
      BY <2>8
    <3>2. room >= 1
      <4>1. Cardinality(r.pending) = 0
        BY <3>1, FS_EmptySet
      <4>. QED
        BY <4>1, SceneIs DEF room
    <3>. QED
      BY <2>7, <2>10, <3>1, <3>2
  <2>17. PagesTrue(r) => PagesTrue(q)
    BY <2>8, <2>12 DEF PagesTrue
  <2>. QED
    BY <2>1, <2>8, <2>15, <2>16, <2>17
<1>. QED
  BY <1>1, <1>2

\* Pages that follow each other bring the logs to the end of the last of them.
PageLogs(r, d, n) == [i \in 1 .. n |-> Logs(FirstOf(r, d + i), LastOf(r, d + i))]

LEMMA PagesJoin ==
    ASSUME scene \in Scenes, NEW r, r.target \in Nat, r.target <= LastBlock,
           r.from \in 1 .. r.target + 1, NEW d \in Nat, NEW n \in Nat, d + n <= PageCount(r)
    PROVE  Logs(1, EndAt(r, d)) \o FlattenSeq(PageLogs(r, d, n)) = Logs(1, EndAt(r, d + n))
<1>. DEFINE E == EventsOf(scene)
            logs == Logs(1, EndAt(r, d))
            g == PageLogs(r, d, n)
            M == PageCount(r)
            F(k) == Flat(g, k)
            Good(k) == logs \o F(k) = Logs(1, EndAt(r, d + k))
            Bad == {k \in 0 .. n : ~Good(k)}
<1>1. M \in Nat /\ LastBlock \in Nat
  BY PagesAre, SceneIs
<1>2. \A k \in 0 .. M :
          /\ EndAt(r, k) \in Nat /\ EndAt(r, k) <= LastBlock
          /\ k # M =>
                /\ k + 1 \in 1 .. M /\ FirstOf(r, k + 1) = EndAt(r, k) + 1
                /\ EndAt(r, k + 1) = LastOf(r, k + 1) /\ EndAt(r, k) <= LastOf(r, k + 1)
  BY EndIs
<1>3. \A k \in 0 .. n : d + k \in 0 .. M
  BY <1>1
<1>4. \A k \in 1 .. n : k - 1 \in 0 .. n /\ d + (k - 1) # M /\ d + (k - 1) + 1 = d + k
  BY <1>1
<1>. HIDE DEF M
<1>5. \A k \in 1 .. n :
          /\ FirstOf(r, d + k) = EndAt(r, d + (k - 1)) + 1
          /\ EndAt(r, d + k) = LastOf(r, d + k) /\ EndAt(r, d + (k - 1)) <= LastOf(r, d + k)
  BY <1>2, <1>3, <1>4
<1>6. \A k \in 0 .. n : Logs(1, EndAt(r, d + k)) \in Seq(E)
  <2>. SUFFICES ASSUME NEW k \in 0 .. n PROVE Logs(1, EndAt(r, d + k)) \in Seq(E)
    OBVIOUS
  <2>. DEFINE e == EndAt(r, d + k)
  <2>1. e \in Nat /\ e <= LastBlock
    BY <1>2, <1>3
  <2>. HIDE DEF e
  <2>2. 1 \in Nat \ {0} /\ 1 <= e + 1
    BY <2>1
  <2>3. Logs(1, e) \in Seq(E)
    BY <2>1, <2>2, LogsIs
  <2>. QED
    BY <2>3 DEF e
<1>7. \A k \in 1 .. n : /\ Logs(FirstOf(r, d + k), LastOf(r, d + k)) \in Seq(E)
                        /\ Logs(1, EndAt(r, d + (k - 1))) \o Logs(FirstOf(r, d + k), LastOf(r, d + k))
                             = Logs(1, EndAt(r, d + k))
  <2>. SUFFICES ASSUME NEW k \in 1 .. n
                PROVE  /\ Logs(FirstOf(r, d + k), LastOf(r, d + k)) \in Seq(E)
                       /\ Logs(1, EndAt(r, d + (k - 1))) \o Logs(FirstOf(r, d + k), LastOf(r, d + k))
                            = Logs(1, EndAt(r, d + k))
    OBVIOUS
  <2>. DEFINE e == EndAt(r, d + (k - 1))
              f == EndAt(r, d + k)
  <2>1. e \in Nat /\ f \in Nat /\ f <= LastBlock
    <3>1. k \in 0 .. n /\ k - 1 \in 0 .. n
      BY <1>4
    <3>2. d + k \in 0 .. M /\ d + (k - 1) \in 0 .. M
      BY <1>3, <3>1
    <3>. QED
      BY <1>2, <3>2
  <2>2. FirstOf(r, d + k) = e + 1 /\ LastOf(r, d + k) = f /\ e <= f
    BY <1>5
  <2>. HIDE DEF e, f
  <2>3. 1 \in Nat \ {0} /\ 1 <= e + 1 /\ e + 1 \in Nat \ {0} /\ e + 1 <= f + 1
    BY <2>1, <2>2
  <2>4. Logs(e + 1, f) \in Seq(E)
    BY <2>1, <2>3, LogsIs
  <2>5. Logs(1, e) \o Logs(e + 1, f) = Logs(1, f)
    BY <2>1, <2>2, <2>3, LogsJoin
  <2>. QED
    BY <2>2, <2>4, <2>5 DEF e, f
<1>8. /\ F(0) = <<>>
      /\ \A k \in 0 .. n : F(k) \in Seq(E)
      /\ \A k \in 1 .. n : F(k) = F(k - 1) \o g[k]
  <2>1. g \in [1 .. n -> Seq(E)]
    BY <1>7 DEF PageLogs
  <2>. HIDE DEF E, g
  <2>. QED
    BY <2>1, FlattenIs DEF JoinedInTurn
<1>. HIDE DEF F, E
<1>9. Bad = {}
  <2>. SUFFICES ASSUME Bad # {} PROVE FALSE
    OBVIOUS
  <2>. HIDE DEF Good
  <2>1. Bad \in SUBSET Nat
    OBVIOUS
  <2>. HIDE DEF Bad
  <2>2. PICK k \in Bad : \A i \in Bad : k <= i
    BY <2>1, LeastNumber
  <2>3. k \in 0 .. n /\ ~Good(k)
    BY <2>2 DEF Bad
  <2>4. k # 0
    <3>1. logs \o <<>> = logs
      <4>1. 0 \in 0 .. n /\ d + 0 = d
        OBVIOUS
      <4>2. logs \in Seq(E)
        BY <1>6, <4>1
      <4>. QED
        BY <4>2, ConcatEmptySeq
    <3>2. d + 0 = d
      OBVIOUS
    <3>3. Good(0)
      BY <1>8, <3>1, <3>2 DEF Good
    <3>. QED
      BY <2>3, <3>3
  <2>5. k \in 1 .. n /\ k - 1 \in 0 .. n /\ ~(k <= k - 1)
    BY <2>3, <2>4
  <2>6. Good(k - 1)
    BY <2>2, <2>5 DEF Bad
  <2>. DEFINE l == Logs(FirstOf(r, d + k), LastOf(r, d + k))
  <2>7. F(k) = F(k - 1) \o l
    BY <1>8, <2>5 DEF PageLogs
  <2>8. logs \in Seq(E) /\ F(k - 1) \in Seq(E) /\ l \in Seq(E)
    <3>1. 0 \in 0 .. n /\ d + 0 = d
      OBVIOUS
    <3>2. logs \in Seq(E)
      BY <1>6, <3>1
    <3>. QED
      BY <1>7, <1>8, <2>5, <3>2
  <2>9. Logs(1, EndAt(r, d + (k - 1))) \o l = Logs(1, EndAt(r, d + k))
    BY <1>7, <2>5
  <2>. HIDE DEF l, logs
  <2>10. (logs \o F(k - 1)) \o l = logs \o (F(k - 1) \o l)
    BY <2>8, Regrouped
  <2>. QED
    BY <2>3, <2>6, <2>7, <2>9, <2>10 DEF Good
<1>10. n \in 0 .. n
  OBVIOUS
<1>11. Good(n)
  BY <1>9, <1>10
<1>12. [i \in 1 .. n |-> g[i]] = g
  BY DEF PageLogs
<1>. QED
  BY <1>11, <1>12 DEF F, Flat

\* Taking the pages up to a gap keeps the pages in order.
LEMMA ContiguousIs ==
    ASSUME scene \in Scenes, NEW r, Shape(r), PagesFit(r)
    PROVE  /\ Kin(Contiguous(r), r) /\ PagesOK(Contiguous(r))
           /\ PagesTrue(r) => PagesTrue(Contiguous(r))
<1>. DEFINE M == PageCount(r)
            L == LastBlock
            d == r.done
            f == r.fetched
            u == ReadyUpto(d, L, f)
            n == u - d
            g == [i \in 1 .. n |-> f[d + i]]
            logs == r.logs \o FlattenSeq(g)
            q == [r EXCEPT !.logs = logs, !.done = u]
<1>1. Contiguous(r) = q
  BY DEF Contiguous, ReadyUpto, Ready
<1>2. /\ r.target \in Nat /\ r.target <= L /\ r.from \in 1 .. r.target + 1
      /\ r.pending \subseteq 1 .. M /\ r.next \in 0 .. M /\ d \in 0 .. M
      /\ f = [i \in 1 .. L |-> f[i]]
      /\ \A i \in 1 .. L : f[i] # None => i \in 1 .. M
      /\ r.failure = None => \A i \in 1 .. r.next : i <= d \/ i \in r.pending \/ f[i] # None
  BY DEF PagesFit
<1>3. M \in Nat /\ L \in Nat /\ M <= L
  BY <1>2, PagesAre, SceneIs
<1>4. d \in Nat /\ d <= L
  BY <1>2, <1>3
<1>5. /\ Kin(q, r) /\ q.logs = logs /\ q.fetched = f /\ q.done = u
      /\ q.failure = r.failure /\ q.pending = r.pending /\ q.next = r.next
  <2>1. q = [r EXCEPT !.logs = logs, !.done = u]
    OBVIOUS
  <2>. HIDE DEF q, logs, u
  <2>. QED
    BY <2>1 DEF Shape, Kin, Fields
<1>. HIDE DEF q, M, L
<1>6. PageCount(q) = M /\ (\A i : FirstOf(q, i) = FirstOf(r, i) /\ LastOf(q, i) = LastOf(r, i))
      /\ \A i : EndAt(q, i) = EndAt(r, i)
  BY <1>5, KinPages DEF M
<1>7. q.target = r.target /\ q.from = r.from
  BY <1>5 DEF Kin
<1>. HIDE DEF d, f
<1>8. u \in d .. L /\ (\A i \in d + 1 .. u : f[i] # None) /\ (u + 1 \in 1 .. L => f[u + 1] = None)
  BY <1>3, <1>4, ReadyRange
<1>. HIDE DEF u
<1>9. u \in 0 .. M /\ n \in Nat /\ d + n = u
  <2>1. u \in Nat /\ d <= u
    BY <1>4, <1>8
  <2>2. u # d => u \in d + 1 .. u /\ u \in 1 .. L
    BY <1>4, <1>8, <2>1
  <2>3. u # d => u \in 1 .. M
    BY <1>2, <1>8, <2>2
  <2>. QED
    BY <1>2, <1>4, <2>1, <2>3
<1>10. PagesFit(q)
  <2>1. \A i : i \in 1 .. r.next /\ i <= d => i <= u
    <3>1. r.next \in Nat
      BY <1>2, <1>3
    <3>. QED
      BY <1>4, <1>8, <3>1
  <2>2. q.failure = None => \A i \in 1 .. q.next : i <= q.done \/ i \in q.pending \/ q.fetched[i] # None
    BY <1>2, <1>5, <2>1
  <2>. QED
    BY <1>2, <1>5, <1>6, <1>7, <1>9, <2>2 DEF PagesFit, L
<1>11. PagesOK(q)
  BY <1>5, <1>8, <1>10 DEF PagesOK, L
<1>12. ASSUME PagesTrue(r) PROVE PagesTrue(q)
  <2>1. /\ r.logs = Logs(1, EndAt(r, d))
        /\ \A i \in 1 .. L : f[i] # None => f[i] = Logs(FirstOf(r, i), LastOf(r, i))
    BY <1>12 DEF PagesTrue, d, f, L
  <2>2. \A i \in 1 .. n : d + i \in 1 .. L /\ d + i \in d + 1 .. u
    <3>1. u \in Nat /\ u <= L /\ L \in Nat
      BY <1>3, <1>4, <1>8
    <3>. QED
      BY <1>4, <3>1
  <2>3. g = PageLogs(r, d, n)
    BY <1>8, <2>1, <2>2 DEF PageLogs
  <2>4. d + n <= M
    BY <1>3, <1>9
  <2>. HIDE DEF g, n
  <2>5. Logs(1, EndAt(r, d)) \o FlattenSeq(PageLogs(r, d, n)) = Logs(1, EndAt(r, d + n))
    <3>1. n \in Nat
      BY <1>9
    <3>. QED
      BY <1>2, <1>4, <2>4, <3>1, PagesJoin DEF L, M
  <2>6. q.logs = Logs(1, EndAt(q, q.done))
    BY <1>5, <1>6, <1>9, <2>1, <2>3, <2>5 DEF g
  <2>. QED
    BY <1>5, <1>6, <2>1, <2>6 DEF PagesTrue, L
<1>. QED
  BY <1>1, <1>5, <1>11, <1>12

(***************************************************************************)
(* Steps                                                                   *)
(***************************************************************************)
\* What depends on the scene only stays what it is.
LEMMA SceneStays ==
    ASSUME scene' = scene
    PROVE  /\ LastBlock' = LastBlock
           /\ \A a, b : Logs(a, b)' = Logs(a, b)
           /\ \A b : Storage(b)' = Storage(b)
           /\ \A r : PageCount(r)' = PageCount(r)
           /\ \A r, i : FirstOf(r, i)' = FirstOf(r, i) /\ LastOf(r, i)' = LastOf(r, i)
           /\ \A r, i : EndAt(r, i)' = EndAt(r, i)
<1>1. LastBlock' = LastBlock
  BY DEF LastBlock
<1>2. \A a, b : Logs(a, b)' = Logs(a, b)
  <2>1. \A b : BlockLogs(b)' = BlockLogs(b)
    BY DEF BlockLogs
  <2>. SUFFICES ASSUME NEW a, NEW b PROVE Logs(a, b)' = Logs(a, b)
    OBVIOUS
  <2>2. [n \in 1 .. b - a + 1 |-> BlockLogs(a + n - 1)'] = [n \in 1 .. b - a + 1 |-> BlockLogs(a + n - 1)]
    BY <2>1
  <2>. QED
    BY <2>2 DEF Logs
<1>3. \A b : Storage(b)' = Storage(b)
  BY DEF Storage, Events
<1>4. \A r : PageCount(r)' = PageCount(r)
  BY DEF PageCount
<1>5. \A r, i : FirstOf(r, i)' = FirstOf(r, i)
  BY DEF FirstOf
<1>6. \A r, i : LastOf(r, i)' = LastOf(r, i)
  BY <1>5 DEF LastOf
<1>7. \A r, i : EndAt(r, i)' = EndAt(r, i)
  BY <1>6 DEF EndAt
<1>. QED
  BY <1>1, <1>2, <1>3, <1>4, <1>5, <1>6, <1>7

LEMMA TruthStays ==
    ASSUME scene' = scene, NEW r
    PROVE  ScanTrue(r)' <=> ScanTrue(r)
<1>1. PagesTrue(r)' <=> PagesTrue(r)
  BY SceneStays DEF PagesTrue
<1>. QED
  BY <1>1, SceneStays DEF ScanTrue

\* The chain goes on, and what a scan found stays found.
LEMMA FitStays ==
    ASSUME scene' = scene, final \in Nat, final' \in Nat, head \in Nat, head' \in Nat,
           final <= final', head <= head', NEW r, ScanFits(r)
    PROVE  ScanFits(r)'
<1>1. /\ Shape(r)
      /\ r.target \in Nat /\ r.target <= final
      /\ HeadsOK(r.heads)
      /\ r.at = "heads" => scene.profile = "v2"
      /\ r.at = "pages" => PagesOK(r) /\ KeptBusy(r)
      /\ r.at # "done" => r.doc = NoDocument
      /\ r.at = "done" => IsAccepted(r)
      /\ ServesActive(r)
  BY DEF ScanFits
<1>2. r.target <= final'
  <2>. DEFINE t == r.target
  <2>1. t \in Nat /\ t <= final
    BY <1>1
  <2>. HIDE DEF t
  <2>2. t <= final'
    BY <2>1
  <2>. QED
    BY <2>2 DEF t
<1>3. HeadsOK(r.heads)'
  <2>. DEFINE hs == r.heads
  <2>1. /\ hs \in [Providers -> {None} \cup [number : Nat, real : BOOLEAN]]
        /\ \A p \in Providers \ scene.liars : hs[p] # None => hs[p].number <= final
    BY <1>1 DEF HeadsOK
  <2>. HIDE DEF hs
  <2>2. \A p \in Providers \ scene.liars : hs[p] # None => hs[p].number <= final'
    <3>. SUFFICES ASSUME NEW p \in Providers \ scene.liars, hs[p] # None PROVE hs[p].number <= final'
      OBVIOUS
    <3>. DEFINE n == hs[p].number
    <3>1. n \in Nat /\ n <= final
      BY <2>1
    <3>. HIDE DEF n
    <3>2. n <= final'
      BY <3>1
    <3>. QED
      BY <3>2 DEF n
  <2>3. HeadsOK(hs)'
    BY <2>1, <2>2 DEF HeadsOK
  <2>. QED
    BY <2>3 DEF hs
<1>4. PagesOK(r)' <=> PagesOK(r)
  <2>1. PagesFit(r)' <=> PagesFit(r)
    BY SceneStays DEF PagesFit
  <2>. QED
    BY <2>1, SceneStays DEF PagesOK
<1>5. KeptBusy(r)' <=> KeptBusy(r)
  BY SceneStays DEF KeptBusy
<1>6. IsAccepted(r)' <=> IsAccepted(r)
  BY SceneStays DEF IsAccepted
<1>7. ServesActive(r)'
  <2>1. \A x, b : WasActive(x, r, b)' <=> WasActive(x, r, b)
    BY SceneStays DEF WasActive
  <2>. DEFINE t == r.target
              top == IF scene.profile = "myotis" THEN head ELSE t
              later == IF scene.profile = "myotis" THEN head' ELSE t
  <2>2. \A b \in t .. top : b \in t .. later
    <3>1. t \in Nat
      BY <1>1
    <3>. HIDE DEF t
    <3>. QED
      BY <3>1
  <2>3. \A x \in Served(r.doc) : \E b \in t .. top : WasActive(x, r, b)
    BY <1>1 DEF ServesActive
  <2>. HIDE DEF t, top, later
  <2>4. \A x \in Served(r.doc) : \E b \in t .. later : WasActive(x, r, b)'
    BY <2>1, <2>2, <2>3
  <2>. QED
    BY <2>4 DEF t, later, ServesActive
<1>. QED
  BY <1>1, <1>2, <1>3, <1>4, <1>5, <1>6, <1>7 DEF ScanFits

\* A process that goes on.
LEMMA Stepping ==
    ASSUME ScanInv, UNCHANGED <<final, head, reported, scene>>, NEW s \in Scanners, NEW q,
           Becomes(s, q), ScanFits(q), missed => missed', ~missed' => ScanTrue(q),
           CheckpointFits'
    PROVE  ScanInv'
<1>1. /\ ChainOK /\ scan = [x \in Scanners |-> scan[x]]
      /\ \A r \in {scan[x] : x \in Scanners} : ScanFits(r) /\ (~missed => ScanTrue(r))
  BY DEF ScanInv
<1>2. ChainOK'
  BY <1>1 DEF ChainOK, LastBlock
<1>3. scan' = [x \in Scanners |-> IF x = s THEN q ELSE scan[x]]
  BY <1>1 DEF Becomes
<1>4. ASSUME NEW r, ScanFits(r) PROVE ScanFits(r)'
  <2>1. final \in Nat /\ head \in Nat
    BY <1>1 DEF ChainOK
  <2>2. final <= final' /\ head <= head'
    BY <2>1
  <2>. QED
    BY <1>4, <2>1, <2>2, FitStays
<1>5. \A r : ScanTrue(r)' <=> ScanTrue(r)
  BY TruthStays
<1>6. ASSUME NEW r \in {scan'[x] : x \in Scanners} PROVE ScanFits(r)' /\ (~missed' => ScanTrue(r)')
  <2>1. r = q \/ r \in {scan[x] : x \in Scanners}
    BY <1>3
  <2>2. ScanFits(r) /\ (~missed' => ScanTrue(r))
    BY <1>1, <2>1
  <2>. QED
    BY <1>4, <1>5, <2>2
<1>7. (\A r \in {scan[x] : x \in Scanners} : ScanFits(r) /\ (~missed => ScanTrue(r)))'
  BY <1>6
<1>8. scan' = [x \in Scanners |-> scan'[x]]
  BY <1>3
<1>. QED
  BY <1>2, <1>7, <1>8 DEF ScanInv

LEMMA CheckpointStays ==
    ASSUME ScanInv, checkpoint' = checkpoint, scene' = scene, missed => missed'
    PROVE  CheckpointFits'
BY SceneStays DEF ScanInv, CheckpointFits

\* A process that does nothing.
LEMMA RestingFits ==
    ASSUME ChainOK
    PROVE  ScanFits(Resting) /\ ScanTrue(Resting)
<1>1. /\ Resting.at = "idle" /\ Resting.target = 0 /\ Resting.doc = NoDocument
      /\ Resting.heads = [p \in Providers |-> None]
  BY DEF Resting
<1>2. Shape(Resting)
  BY DEF Resting, Shape, Fields
<1>3. HeadsOK(Resting.heads)
  BY <1>1 DEF HeadsOK
<1>4. Served(NoDocument) = {}
  BY ElementsOfNothing DEF Served, NoDocument
<1>5. ServesActive(Resting)
  BY <1>1, <1>4 DEF ServesActive
<1>6. 0 \in Nat /\ 0 <= final
  BY DEF ChainOK
<1>. QED
  BY <1>1, <1>2, <1>3, <1>5, <1>6 DEF ScanFits, ScanTrue

LEMMA ScanIs ==
    ASSUME ScanInv, NEW s \in Scanners
    PROVE  /\ ChainOK /\ scene \in Scenes
           /\ final \in Nat \ {0} /\ head \in Nat /\ final <= head /\ head <= LastBlock /\ final <= LastBlock
           /\ ScanFits(scan[s]) /\ (~missed => ScanTrue(scan[s]))
<1>1. /\ ChainOK
      /\ \A r \in {scan[x] : x \in Scanners} : ScanFits(r) /\ (~missed => ScanTrue(r))
  BY DEF ScanInv
<1>2. /\ scene \in Scenes /\ final \in Nat \ {0} /\ head \in Nat /\ final <= head /\ head <= LastBlock
  BY <1>1 DEF ChainOK
<1>3. LastBlock \in Nat
  BY <1>2, SceneIs
<1>4. final <= LastBlock
  BY <1>2, <1>3
<1>. QED
  BY <1>1, <1>2, <1>4

LEMMA ChainSteps ==
    ASSUME ScanInv, UNCHANGED <<checkpoint, scan, missed, scene>>, ChainOK',
           final <= final', head <= head'
    PROVE  ScanInv'
<1>1. /\ ChainOK /\ scan = [x \in Scanners |-> scan[x]]
      /\ \A r \in {scan[x] : x \in Scanners} : ScanFits(r) /\ (~missed => ScanTrue(r))
  BY DEF ScanInv
<1>2. final \in Nat /\ head \in Nat /\ final' \in Nat /\ head' \in Nat
  BY <1>1 DEF ChainOK
<1>3. ASSUME NEW r, ScanFits(r) PROVE ScanFits(r)'
  BY <1>2, <1>3, FitStays
<1>4. \A r : ScanTrue(r)' <=> ScanTrue(r)
  BY TruthStays
<1>5. ASSUME NEW r \in {scan'[x] : x \in Scanners} PROVE ScanFits(r)' /\ (~missed' => ScanTrue(r)')
  <2>1. ScanFits(r) /\ (~missed' => ScanTrue(r))
    BY <1>1
  <2>. QED
    BY <1>3, <1>4, <2>1
<1>6. (\A r \in {scan[x] : x \in Scanners} : ScanFits(r) /\ (~missed => ScanTrue(r)))'
  BY <1>5
<1>7. CheckpointFits'
  BY CheckpointStays
<1>8. (scan = [x \in Scanners |-> scan[x]])'
  BY <1>1
<1>. QED
  BY <1>6, <1>7, <1>8 DEF ScanInv

LEMMA MineStep ==
    ASSUME ScanInv, Mine PROVE ScanInv'
<1>1. ChainOK /\ LastBlock \in Nat
  BY SceneIs DEF ScanInv, ChainOK
<1>2. head < LastBlock /\ head' = head + 1 /\ UNCHANGED <<final, reported, checkpoint, scan, missed, scene>>
  BY DEF Mine
<1>3. head' \in Nat /\ final' \in Nat /\ 1 <= final' /\ final' <= head' /\ head' <= LastBlock
      /\ head <= head' /\ final <= final'
  BY <1>1, <1>2 DEF ChainOK
<1>4. LastBlock' = LastBlock
  BY <1>2 DEF LastBlock
<1>5. ChainOK'
  BY <1>1, <1>2, <1>3, <1>4 DEF ChainOK
<1>. QED
  BY <1>2, <1>3, <1>5, ChainSteps

LEMMA FinalizeStep ==
    ASSUME ScanInv, Finalize PROVE ScanInv'
<1>1. ChainOK /\ LastBlock \in Nat
  BY SceneIs DEF ScanInv, ChainOK
<1>2. final < head /\ final' = final + 1 /\ UNCHANGED <<head, reported, checkpoint, scan, missed, scene>>
  BY DEF Finalize
<1>3. final' \in Nat /\ head' \in Nat /\ 1 <= final' /\ final' <= head' /\ head <= head' /\ final <= final'
  BY <1>1, <1>2 DEF ChainOK
<1>4. LastBlock' = LastBlock
  BY <1>2 DEF LastBlock
<1>5. \A p \in Providers : reported[p] \in Nat /\ reported[p] <= final
  BY <1>1 DEF ChainOK
<1>6. \A n \in Nat : n <= final => n <= final'
  BY <1>1, <1>2 DEF ChainOK
<1>7. \A p \in Providers : reported'[p] <= final'
  BY <1>2, <1>5, <1>6
<1>8. ChainOK'
  BY <1>1, <1>2, <1>3, <1>4, <1>7 DEF ChainOK
<1>. QED
  BY <1>2, <1>3, <1>8, ChainSteps

LEMMA ReportStep ==
    ASSUME ScanInv, NEW p \in Providers, Report(p) PROVE ScanInv'
<1>1. ChainOK
  BY DEF ScanInv
<1>2. reported[p] < final /\ reported' = [reported EXCEPT ![p] = reported[p] + 1]
      /\ UNCHANGED <<final, head, checkpoint, scan, missed, scene>>
  BY DEF Report
<1>3. LastBlock' = LastBlock
  BY <1>2 DEF LastBlock
<1>4. reported' \in [Providers -> Nat] /\ \A x \in Providers : reported'[x] <= final
  <2>1. reported[p] \in Nat /\ reported[p] + 1 <= final /\ reported[p] + 1 \in Nat
    BY <1>1, <1>2 DEF ChainOK
  <2>2. \A x \in Providers : reported'[x] = IF x = p THEN reported[p] + 1 ELSE reported[x]
    BY <1>1, <1>2 DEF ChainOK
  <2>. QED
    BY <1>1, <1>2, <2>1, <2>2 DEF ChainOK
<1>5. ChainOK'
  BY <1>1, <1>2, <1>3, <1>4 DEF ChainOK
<1>6. final <= final' /\ head <= head'
  BY <1>1, <1>2 DEF ChainOK
<1>. QED
  BY <1>2, <1>5, <1>6, ChainSteps

(***************************************************************************)
(* Pages                                                                   *)
(***************************************************************************)
\* A scan that differs from one in its pages only.
LEMMA KinFits ==
    ASSUME NEW r, ScanFits(r), r.at = "pages", NEW q, Kin(q, r), PagesOK(q), KeptBusy(q)
    PROVE  ScanFits(q)
<1>1. /\ Shape(q) /\ q.at = "pages" /\ q.target = r.target
      /\ q.heads = r.heads /\ q.doc = r.doc /\ q.hashes = r.hashes
  BY DEF Kin
<1>2. ServesActive(q)
  BY <1>1 DEF ScanFits, ServesActive, WasActive
<1>. QED
  BY <1>1, <1>2 DEF ScanFits

LEMMA AnswersTyped ==
    ASSUME scene \in Scenes, NEW from \in Nat \ {0}, NEW to \in Nat, from <= to + 1, to <= LastBlock,
           NEW answer \in Answers(from, to)
    PROVE  answer # None
<1>. DEFINE E == EventsOf(scene)
            all == Logs(from, to)
<1>1. all \in Seq(E)
  BY LogsIs
<1>2. answer = all \/ \E k \in 1 .. Len(all) : answer = RemoveAt(all, k)
  BY DEF Answers
<1>. HIDE DEF all
<1>3. ASSUME NEW k \in 1 .. Len(all) PROVE RemoveAt(all, k) \in Seq(E)
  <2>1. k - 1 \in 0 .. Len(all) /\ k \in 0 .. Len(all)
    BY <1>1, LenProperties
  <2>2. SubSeq(all, 1, k - 1) \in Seq(E)
    BY <1>1, <2>1, CutInTwo
  <2>3. SubSeq(all, k + 1, Len(all)) \in Seq(E)
    BY <1>1, <2>1, CutInTwo
  <2>. QED
    BY <2>2, <2>3, ConcatProperties DEF RemoveAt
<1>4. answer \in Seq(E)
  BY <1>1, <1>2, <1>3
<1>. QED
  BY <1>4, SceneIs

\* A page that arrives.
LEMMA ArrivedFits ==
    ASSUME scene \in Scenes, NEW r, Shape(r), PagesOK(r), NEW i \in r.pending, NEW answer, answer # None,
           NEW q, q = [r EXCEPT !.pending = r.pending \ {i}, !.fetched[i] = answer]
    PROVE  /\ Kin(q, r) /\ PagesFit(q)
           /\ PagesTrue(r) /\ answer = Logs(FirstOf(r, i), LastOf(r, i)) => PagesTrue(q)
<1>. DEFINE M == PageCount(r)
            L == LastBlock
            f == r.fetched
<1>1. /\ r.target \in Nat /\ r.target <= L /\ r.from \in 1 .. r.target + 1
      /\ r.pending \subseteq 1 .. M /\ r.next \in 0 .. M /\ r.done \in 0 .. M
      /\ f = [j \in 1 .. L |-> f[j]]
      /\ \A j \in 1 .. L : f[j] # None => j \in 1 .. M
      /\ r.failure = None => \A j \in 1 .. r.next : j <= r.done \/ j \in r.pending \/ f[j] # None
  BY DEF PagesOK, PagesFit
<1>2. M \in Nat /\ L \in Nat /\ M <= L
  BY <1>1, PagesAre, SceneIs
<1>3. i \in 1 .. M /\ i \in 1 .. L
  <2>1. i \in 1 .. M
    BY <1>1
  <2>. QED
    BY <1>2, <2>1
<1>4. /\ Kin(q, r) /\ q.logs = r.logs /\ q.fetched = [f EXCEPT ![i] = answer] /\ q.done = r.done
      /\ q.failure = r.failure /\ q.pending = r.pending \ {i} /\ q.next = r.next
  <2>. HIDE DEF M, L
  <2>. QED
    BY DEF Shape, Kin, Fields
<1>5. PageCount(q) = M /\ (\A j : FirstOf(q, j) = FirstOf(r, j) /\ LastOf(q, j) = LastOf(r, j))
      /\ \A j : EndAt(q, j) = EndAt(r, j)
  BY <1>4, KinPages
<1>6. q.target = r.target /\ q.from = r.from
  BY <1>4 DEF Kin
<1>. HIDE DEF M, L
<1>7. /\ q.fetched = [j \in 1 .. L |-> q.fetched[j]]
      /\ \A j \in 1 .. L : q.fetched[j] = IF j = i THEN answer ELSE f[j]
  <2>. DEFINE g == [f EXCEPT ![i] = answer]
  <2>1. g = [j \in 1 .. L |-> g[j]] /\ \A j \in 1 .. L : g[j] = IF j = i THEN answer ELSE f[j]
    <3>. HIDE DEF f
    <3>. QED
      BY <1>1
  <2>. HIDE DEF g
  <2>2. q.fetched = g
    BY <1>4 DEF g
  <2>. QED
    BY <2>1, <2>2
<1>. HIDE DEF f
<1>8. PagesFit(q)
  <2>1. \A j \in 1 .. L : q.fetched[j] # None => j \in 1 .. M
    BY <1>1, <1>3, <1>7
  <2>2. \A j \in 1 .. r.next : j \in 1 .. L
    <3>1. r.next \in Nat /\ r.next <= L
      BY <1>1, <1>2
    <3>. QED
      BY <1>2, <3>1
  <2>3. q.failure = None => \A j \in 1 .. q.next : j <= q.done \/ j \in q.pending \/ q.fetched[j] # None
    BY <1>1, <1>4, <1>7, <2>2
  <2>. QED
    BY <1>1, <1>4, <1>5, <1>6, <1>7, <2>1, <2>3 DEF PagesFit, L
<1>9. ASSUME PagesTrue(r), answer = Logs(FirstOf(r, i), LastOf(r, i)) PROVE PagesTrue(q)
  <2>1. /\ r.logs = Logs(1, EndAt(r, r.done))
        /\ \A j \in 1 .. L : f[j] # None => f[j] = Logs(FirstOf(r, j), LastOf(r, j))
    BY <1>9 DEF PagesTrue, f, L
  <2>2. \A j \in 1 .. L : q.fetched[j] # None => q.fetched[j] = Logs(FirstOf(r, j), LastOf(r, j))
    BY <1>7, <1>9, <2>1
  <2>. QED
    BY <1>4, <1>5, <2>1, <2>2 DEF PagesTrue, L
<1>. QED
  BY <1>4, <1>8, <1>9

LEMMA PageArrivesStep ==
    ASSUME ScanInv, NEW s \in Scanners, NEW i, PageArrives(s, i) PROVE ScanInv'
<1>. DEFINE r == scan[s]
<1>1. /\ ScanFits(r) /\ (~missed => ScanTrue(r)) /\ scene \in Scenes /\ final <= LastBlock
  BY ScanIs
<1>2. /\ r.at = "pages" /\ i \in r.pending /\ UNCHANGED <<final, head, reported, checkpoint, scene>>
  BY DEF PageArrives
<1>3. PICK answer \in Answers(FirstOf(r, i), LastOf(r, i)) :
          /\ missed' = (missed \/ answer # Logs(FirstOf(r, i), LastOf(r, i)))
          /\ Becomes(s, Filled(Contiguous(
                [r EXCEPT !.pending = r.pending \ {i}, !.fetched[i] = answer])))
  BY DEF PageArrives
<1>. DEFINE q == [r EXCEPT !.pending = r.pending \ {i}, !.fetched[i] = answer]
<1>. HIDE DEF r
<1>4. Shape(r) /\ PagesOK(r) /\ (~missed => PagesTrue(r))
  BY <1>1, <1>2 DEF ScanFits, ScanTrue
<1>5. answer # None
  <2>1. /\ r.target \in Nat /\ r.target <= LastBlock /\ r.from \in 1 .. r.target + 1
        /\ i \in 1 .. PageCount(r)
    BY <1>2, <1>4 DEF PagesOK, PagesFit
  <2>. DEFINE f == FirstOf(r, i)
              l == LastOf(r, i)
              t == r.target
  <2>2. f \in Nat \ {0} /\ l \in Nat /\ f <= l /\ l <= t /\ t \in Nat /\ t <= LastBlock
    BY <1>1, <2>1, PagesAre
  <2>3. LastBlock \in Nat /\ answer \in Answers(f, l)
    BY <1>1, <1>3, SceneIs
  <2>. HIDE DEF f, l, t
  <2>4. f <= l + 1 /\ l <= LastBlock
    BY <2>2, <2>3
  <2>. QED
    BY <1>1, <2>2, <2>3, <2>4, AnswersTyped
<1>6. /\ Kin(q, r) /\ PagesFit(q)
      /\ PagesTrue(r) /\ answer = Logs(FirstOf(r, i), LastOf(r, i)) => PagesTrue(q)
  BY <1>1, <1>2, <1>4, <1>5, ArrivedFits
<1>. HIDE DEF q
<1>7. /\ Kin(Contiguous(q), q) /\ PagesOK(Contiguous(q))
      /\ PagesTrue(q) => PagesTrue(Contiguous(q))
  BY <1>1, <1>6, ContiguousIs DEF Kin
<1>. DEFINE c == Contiguous(q)
<1>. HIDE DEF c
<1>8. /\ Kin(Filled(c), c) /\ PagesOK(Filled(c)) /\ KeptBusy(Filled(c))
      /\ PagesTrue(c) => PagesTrue(Filled(c))
  BY <1>1, <1>7, FilledIs DEF Kin, c
<1>. DEFINE e == Filled(c)
<1>9. Becomes(s, e)
  BY <1>3 DEF c, q
<1>. HIDE DEF e
<1>10. Kin(e, r) /\ PagesOK(e) /\ KeptBusy(e)
  BY <1>6, <1>7, <1>8 DEF Kin, c, e
<1>11. ScanFits(e)
  BY <1>1, <1>2, <1>10, KinFits
<1>12. ~missed' => ScanTrue(e)
  <2>1. e.at = "pages"
    BY <1>2, <1>10 DEF Kin
  <2>2. ~missed' => PagesTrue(e)
    BY <1>3, <1>4, <1>6, <1>7, <1>8 DEF c, e
  <2>. QED
    BY <2>1, <2>2 DEF ScanTrue
<1>13. missed => missed'
  BY <1>3
<1>14. CheckpointFits'
  BY <1>2, <1>13, CheckpointStays
<1>. QED
  BY <1>2, <1>9, <1>11, <1>12, <1>13, <1>14, Stepping

LEMMA PageFailsStep ==
    ASSUME ScanInv, NEW s \in Scanners, NEW i, NEW failure, PageFails(s, i, failure) PROVE ScanInv'
<1>. DEFINE r == scan[s]
            g == IF r.failure \in {None, "incomplete"} THEN failure ELSE r.failure
            q == [r EXCEPT !.pending = r.pending \ {i}, !.failure = g]
<1>1. /\ ScanFits(r) /\ (~missed => ScanTrue(r)) /\ scene \in Scenes
  BY ScanIs
<1>2. /\ r.at = "pages" /\ i \in r.pending /\ failure \in scene.failures /\ Becomes(s, q)
      /\ UNCHANGED <<final, head, reported, checkpoint, missed, scene>>
  BY DEF PageFails
<1>3. g # None
  BY <1>1, <1>2, SceneIs
<1>. HIDE DEF r, g
<1>4. Shape(r) /\ PagesOK(r) /\ (~missed => PagesTrue(r))
  BY <1>1, <1>2 DEF ScanFits, ScanTrue
<1>5. /\ Kin(q, r) /\ q.logs = r.logs /\ q.fetched = r.fetched /\ q.done = r.done
      /\ q.failure = g /\ q.pending = r.pending \ {i} /\ q.next = r.next
  BY <1>4 DEF Shape, Kin, Fields
<1>. HIDE DEF q
<1>6. /\ PageCount(q) = PageCount(r)
      /\ \A j : FirstOf(q, j) = FirstOf(r, j) /\ LastOf(q, j) = LastOf(r, j)
      /\ \A j : EndAt(q, j) = EndAt(r, j)
      /\ q.target = r.target /\ q.from = r.from /\ q.at = r.at
  BY <1>5, KinPages DEF Kin
<1>7. PagesOK(q) /\ KeptBusy(q)
  BY <1>3, <1>4, <1>5, <1>6 DEF PagesOK, PagesFit, KeptBusy
<1>8. ScanFits(q)
  BY <1>1, <1>2, <1>5, <1>7, KinFits
<1>9. ~missed' => ScanTrue(q)
  BY <1>2, <1>4, <1>5, <1>6 DEF ScanTrue, PagesTrue
<1>10. CheckpointFits'
  BY <1>2, CheckpointStays
<1>. QED
  BY <1>2, <1>8, <1>9, <1>10, Stepping

\* A process that ends or gives up.
LEMMA RestStep ==
    ASSUME ScanInv, NEW s \in Scanners, Becomes(s, Resting),
           UNCHANGED <<final, head, reported, missed, scene>>, CheckpointFits'
    PROVE  ScanInv'
<1>1. ScanFits(Resting) /\ ScanTrue(Resting)
  BY RestingFits DEF ScanInv
<1>. QED
  BY <1>1, Stepping

LEMMA FailScanStep ==
    ASSUME ScanInv, NEW s \in Scanners, FailScan(s) PROVE ScanInv'
<1>. DEFINE r == scan[s]
            kept == r.failure = "incomplete" /\ r.done > 0 /\ scene.profile = "v1"
<1>1. /\ ScanFits(r) /\ (~missed => ScanTrue(r)) /\ scene \in Scenes
  BY ScanIs
<1>2. /\ r.at = "pages" /\ Becomes(s, Resting) /\ UNCHANGED <<final, head, reported, missed, scene>>
      /\ checkpoint' = IF kept THEN Written(LastOf(r, r.done), r.logs) ELSE checkpoint
  BY DEF FailScan
<1>. HIDE DEF r
<1>3. PagesOK(r) /\ (~missed => PagesTrue(r))
  BY <1>1, <1>2 DEF ScanFits, ScanTrue
<1>4. CASE kept
  <2>1. /\ r.target \in Nat /\ r.target <= LastBlock /\ r.from \in 1 .. r.target + 1
        /\ r.done \in 0 .. PageCount(r)
    BY <1>3 DEF PagesOK, PagesFit
  <2>2. r.done # 0
    BY <1>1, <1>4, <2>1, PagesAre
  <2>3. EndAt(r, r.done) = LastOf(r, r.done) /\ EndAt(r, r.done) \in Nat
    <3>1. EndAt(r, r.done) \in Nat
      BY <1>1, <2>1, EndIs
    <3>. QED
      BY <2>2, <3>1 DEF EndAt
  <2>4. checkpoint'.block = LastOf(r, r.done) /\ checkpoint'.logs = r.logs
    BY <1>2, <1>4 DEF Written
  <2>5. checkpoint'.block \in Nat /\ (~missed' => checkpoint'.logs = Logs(1, checkpoint'.block))
    BY <1>2, <1>3, <2>3, <2>4 DEF PagesTrue
  <2>6. \A a, b : Logs(a, b)' = Logs(a, b)
    BY <1>2, SceneStays
  <2>7. CheckpointFits'
    <3>. SUFFICES ASSUME NEW b, b = checkpoint'.block
                  PROVE  checkpoint'.block \in Nat /\ (~missed' => checkpoint'.logs = Logs(1, b)')
      BY DEF CheckpointFits
    <3>. QED
      BY <2>5, <2>6
  <2>. QED
    BY <1>2, <2>7, RestStep
<1>5. CASE ~kept
  <2>1. CheckpointFits'
    BY <1>2, <1>5, CheckpointStays
  <2>. QED
    BY <1>2, <2>1, RestStep
<1>. QED
  BY <1>4, <1>5

\* All pages are taken, and the logs go as far as the scan.
LEMMA EndPagesStep ==
    ASSUME ScanInv, NEW s \in Scanners, EndPages(s) PROVE ScanInv'
<1>. DEFINE r == scan[s]
            q == [r EXCEPT !.at = "select"]
<1>1. /\ ScanFits(r) /\ (~missed => ScanTrue(r)) /\ scene \in Scenes
  BY ScanIs
<1>2. /\ r.at = "pages" /\ r.pending = {} /\ r.failure = None
      /\ Becomes(s, q) \/ Becomes(s, Resting)
      /\ UNCHANGED <<final, head, reported, checkpoint, missed, scene>>
  BY DEF EndPages
<1>3. CheckpointFits'
  BY <1>2, CheckpointStays
<1>. HIDE DEF r
<1>4. Shape(r) /\ PagesOK(r) /\ KeptBusy(r) /\ (~missed => PagesTrue(r)) /\ r.doc = NoDocument
  BY <1>1, <1>2 DEF ScanFits, ScanTrue
<1>5. /\ Shape(q) /\ q.at = "select" /\ q.target = r.target /\ q.logs = r.logs
      /\ q.heads = r.heads /\ q.doc = r.doc /\ q.hashes = r.hashes
  BY <1>4 DEF Shape, Fields
<1>. HIDE DEF q
<1>6. ScanFits(q)
  <2>1. ServesActive(q)
    BY <1>1, <1>5 DEF ScanFits, ServesActive, WasActive
  <2>. QED
    BY <1>1, <1>4, <1>5, <2>1 DEF ScanFits
<1>7. r.done = PageCount(r)
  <2>. DEFINE M == PageCount(r)
              d == r.done
              L == LastBlock
  <2>1. /\ r.target \in Nat /\ r.target <= LastBlock /\ r.from \in 1 .. r.target + 1
        /\ d \in 0 .. M
        /\ d + 1 \in 1 .. L => r.fetched[d + 1] = None
        /\ \A i \in 1 .. M : i <= d \/ r.fetched[i] # None
    BY <1>2, <1>4 DEF PagesOK, PagesFit, KeptBusy
  <2>2. M \in Nat /\ L \in Nat /\ M <= L
    BY <1>1, <2>1, PagesAre, SceneIs
  <2>. HIDE DEF M, d, L
  <2>3. d # M => d + 1 \in 1 .. M /\ d + 1 \in 1 .. L /\ ~(d + 1 <= d)
    BY <2>1, <2>2
  <2>. QED
    BY <2>1, <2>3 DEF M, d
<1>8. ~missed' => ScanTrue(q)
  <2>1. EndAt(r, r.done) = r.target
    <3>1. /\ r.target \in Nat /\ r.target <= LastBlock /\ r.from \in 1 .. r.target + 1
          /\ r.done \in 0 .. PageCount(r)
      BY <1>4 DEF PagesOK, PagesFit
    <3>. QED
      BY <1>1, <1>7, <3>1, EndIs
  <2>. QED
    BY <1>2, <1>4, <1>5, <2>1 DEF ScanTrue, PagesTrue
<1>9. CASE Becomes(s, q)
  BY <1>2, <1>3, <1>6, <1>8, <1>9, Stepping
<1>10. CASE Becomes(s, Resting)
  BY <1>2, <1>3, <1>10, RestStep
<1>. QED
  BY <1>2, <1>9, <1>10

LEMMA StartScanStep ==
    ASSUME ScanInv, NEW s \in Scanners, StartScan(s) PROVE ScanInv'
<1>. DEFINE hit == scene.profile = "v1" /\ Usable(checkpoint, final)
            from == IF hit THEN checkpoint.block + 1 ELSE 1
            logs == IF hit THEN checkpoint.logs ELSE <<>>
            none == [i \in 1 .. LastBlock |-> None]
            r == [Resting EXCEPT !.at = "pages", !.target = final, !.from = from, !.logs = logs,
                                 !.fetched = none]
<1>1. /\ ChainOK /\ scene \in Scenes /\ final \in Nat \ {0} /\ final <= LastBlock
  BY ScanIs, SceneIs
<1>2. UNCHANGED <<final, head, reported, checkpoint, missed, scene>> /\ Becomes(s, Filled(r))
  BY DEF StartScan
<1>3. hit => /\ checkpoint.block \in Nat /\ checkpoint.block <= final
             /\ ~missed => checkpoint.logs = Logs(1, checkpoint.block)
  BY DEF ScanInv, CheckpointFits, Usable
<1>4. from \in 1 .. final + 1
  <2>. HIDE DEF hit
  <2>1. CASE hit
    <3>. DEFINE b == checkpoint.block
    <3>1. b \in Nat /\ b <= final
      BY <1>3, <2>1
    <3>. HIDE DEF b
    <3>2. b + 1 \in 1 .. final + 1
      BY <1>1, <3>1
    <3>. QED
      BY <2>1, <3>2 DEF b
  <2>2. CASE ~hit
    BY <1>1, <2>2
  <2>. QED
    BY <2>1, <2>2
<1>5. ~missed => logs = Logs(1, from - 1)
  <2>1. CASE hit
    <3>. DEFINE b == checkpoint.block
    <3>1. b \in Nat /\ (~missed => logs = Logs(1, b)) /\ from = b + 1
      BY <1>3, <2>1
    <3>. HIDE DEF b, from, logs
    <3>2. from - 1 = b
      BY <3>1
    <3>. QED
      BY <3>1, <3>2
  <2>2. CASE ~hit
    <3>1. from - 1 = 0 /\ logs = <<>> /\ from = 1
      BY <2>2
    <3>2. 1 \in Nat \ {0} /\ 0 \in Nat /\ 1 <= 0 + 1 /\ 0 <= LastBlock /\ 1 - 1 = 0
      BY <1>1, SceneIs
    <3>3. Logs(1, 1 - 1) = <<>>
      BY <1>1, <3>2, LogsIs
    <3>. QED
      BY <3>1, <3>2, <3>3
  <2>. QED
    BY <2>1, <2>2
<1>. HIDE DEF from, logs, none
<1>6. /\ Shape(r) /\ r.at = "pages" /\ r.target = final /\ r.from = from /\ r.logs = logs
      /\ r.fetched = none /\ r.pending = {} /\ r.next = 0 /\ r.done = 0 /\ r.failure = None
      /\ r.heads = [p \in Providers |-> None] /\ r.doc = NoDocument
  BY DEF Resting, Shape, Fields
<1>. HIDE DEF r
<1>7. PagesOK(r)
  <2>1. PageCount(r) \in Nat
    BY <1>1, <1>4, <1>6, PagesAre
  <2>2. 0 \in 0 .. PageCount(r) /\ \A i \in 1 .. 0 : FALSE
    BY <2>1
  <2>3. none = [i \in 1 .. LastBlock |-> none[i]] /\ \A i \in 1 .. LastBlock : none[i] = None
    BY DEF none
  <2>4. 0 + 1 \in 1 .. LastBlock => none[0 + 1] = None
    BY <2>3
  <2>5. final \in Nat
    BY <1>1
  <2>. QED
    BY <1>1, <1>4, <1>6, <2>2, <2>3, <2>4, <2>5 DEF PagesOK, PagesFit
<1>8. ~missed => PagesTrue(r)
  <2>1. EndAt(r, r.done) = from - 1
    BY <1>6 DEF EndAt
  <2>2. \A i \in 1 .. LastBlock : r.fetched[i] = None
    BY <1>6 DEF none
  <2>. QED
    BY <1>5, <1>6, <2>1, <2>2 DEF PagesTrue
<1>9. /\ Kin(Filled(r), r) /\ PagesOK(Filled(r)) /\ KeptBusy(Filled(r))
      /\ PagesTrue(r) => PagesTrue(Filled(r))
  BY <1>1, <1>6, <1>7, FilledIs
<1>. DEFINE q == Filled(r)
<1>10. Becomes(s, q)
  BY <1>2
<1>. HIDE DEF q
<1>11. /\ Shape(q) /\ q.at = "pages" /\ q.target = final /\ q.heads = [p \in Providers |-> None]
       /\ q.doc = NoDocument /\ PagesOK(q) /\ KeptBusy(q) /\ (~missed => PagesTrue(q))
  BY <1>6, <1>8, <1>9 DEF Kin, q
<1>12. ScanFits(q)
  <2>1. Served(NoDocument) = {}
    BY ElementsOfNothing DEF Served, NoDocument
  <2>2. ServesActive(q)
    BY <1>11, <2>1 DEF ServesActive
  <2>3. HeadsOK(q.heads)
    BY <1>11 DEF HeadsOK
  <2>4. final \in Nat /\ final <= final
    BY <1>1
  <2>. QED
    BY <1>11, <2>2, <2>3, <2>4 DEF ScanFits
<1>13. ~missed' => ScanTrue(q)
  BY <1>2, <1>11 DEF ScanTrue
<1>14. CheckpointFits'
  BY <1>2, CheckpointStays
<1>. QED
  BY <1>2, <1>10, <1>12, <1>13, <1>14, Stepping

(***************************************************************************)
(* Version 2: two providers                                                *)
(***************************************************************************)
\* A scan of version 2 that serves nothing yet.
LEMMA WitnessedFits ==
    ASSUME ChainOK, scene.profile = "v2", NEW q, Shape(q), q.at \in {"heads", "select"},
           q.target \in Nat, q.target <= final, HeadsOK(q.heads), q.doc = NoDocument
    PROVE  ScanFits(q) /\ ScanTrue(q)
<1>1. Served(NoDocument) = {}
  BY ElementsOfNothing DEF Served, NoDocument
<1>2. ServesActive(q)
  BY <1>1 DEF ServesActive
<1>. QED
  BY <1>2 DEF ScanFits, ScanTrue

LEMMA StartWitnessedStep ==
    ASSUME ScanInv, NEW s \in Scanners, StartWitnessed(s) PROVE ScanInv'
<1>. DEFINE q == [Resting EXCEPT !.at = "heads"]
<1>1. /\ scene.profile = "v2" /\ Becomes(s, q)
      /\ UNCHANGED <<final, head, reported, checkpoint, missed, scene>>
  BY DEF StartWitnessed
<1>2. ChainOK /\ 0 \in Nat /\ 0 <= final
  BY ScanIs
<1>3. /\ Shape(q) /\ q.at = "heads" /\ q.target = 0 /\ q.doc = NoDocument
      /\ q.heads = [p \in Providers |-> None]
  BY DEF Resting, Shape, Fields
<1>. HIDE DEF q
<1>4. HeadsOK(q.heads)
  BY <1>3 DEF HeadsOK
<1>5. ScanFits(q) /\ ScanTrue(q)
  BY <1>1, <1>2, <1>3, <1>4, WitnessedFits
<1>6. CheckpointFits'
  BY <1>1, CheckpointStays
<1>. QED
  BY <1>1, <1>5, <1>6, Stepping

LEMMA ReadHeadStep ==
    ASSUME ScanInv, NEW s \in Scanners, NEW p \in Providers, ReadHead(s, p) PROVE ScanInv'
<1>. DEFINE r == scan[s]
<1>1. ChainOK /\ scene \in Scenes /\ ScanFits(r)
  BY ScanIs
<1>2. r.at = "heads" /\ UNCHANGED <<final, head, reported, checkpoint, missed, scene>>
  BY DEF ReadHead
<1>3. PICK h \in {Header(reported[p], TRUE)} \cup
                (IF p \in scene.liars THEN [number : 1 .. LastBlock, real : BOOLEAN] ELSE {}) :
              Becomes(s, [r EXCEPT !.heads[p] = h])
  BY DEF ReadHead
<1>. DEFINE hs == [r.heads EXCEPT ![p] = h]
            q == [r EXCEPT !.heads = hs]
<1>4. h \in [number : Nat, real : BOOLEAN] /\ (p \notin scene.liars => h.number <= final)
  <2>1. reported[p] \in Nat /\ reported[p] <= final
    BY <1>1 DEF ChainOK
  <2>2. Header(reported[p], TRUE) \in [number : Nat, real : BOOLEAN]
        /\ Header(reported[p], TRUE).number = reported[p]
    BY <2>1 DEF Header
  <2>3. \A x \in [number : 1 .. LastBlock, real : BOOLEAN] : x \in [number : Nat, real : BOOLEAN]
    BY <1>1, SceneIs
  <2>. QED
    BY <1>3, <2>1, <2>2, <2>3
<1>. HIDE DEF r
<1>5. /\ Shape(r) /\ r.target \in Nat /\ r.target <= final /\ HeadsOK(r.heads)
      /\ scene.profile = "v2" /\ r.doc = NoDocument
  BY <1>1, <1>2 DEF ScanFits
<1>6. HeadsOK(hs)
  BY <1>4, <1>5 DEF HeadsOK
<1>. HIDE DEF hs
<1>7. /\ Shape(q) /\ q.at = r.at /\ q.target = r.target /\ q.heads = hs /\ q.doc = r.doc
  BY <1>5 DEF Shape, Fields
<1>8. Becomes(s, q)
  BY <1>3, <1>5 DEF hs, Shape, Fields
<1>. HIDE DEF q
<1>9. ScanFits(q) /\ ScanTrue(q)
  BY <1>1, <1>2, <1>5, <1>6, <1>7, WitnessedFits
<1>10. CheckpointFits'
  BY <1>2, CheckpointStays
<1>. QED
  BY <1>2, <1>8, <1>9, <1>10, Stepping

\* One of the two providers is honest, and the boundary is not above its head.
LEMMA BoundaryIsFinal ==
    ASSUME ChainOK, NEW heads, HeadsOK(heads), \A p \in Providers : heads[p] # None,
           NEW b \in Boundaries(heads)
    PROVE  b.number \in Nat /\ b.number <= final
<1>. DEFINE first == heads["primary"]
            second == heads["witness"]
            n == first.number
            m == second.number
            lower == IF n < m THEN first ELSE second
<1>1. first \in [number : Nat, real : BOOLEAN] /\ second \in [number : Nat, real : BOOLEAN]
  BY DEF HeadsOK, Providers
<1>2. n \in Nat /\ m \in Nat
  BY <1>1
<1>3. n <= final \/ m <= final
  <2>1. "primary" \notin scene.liars \/ "witness" \notin scene.liars
    BY SceneIs DEF ChainOK, Providers
  <2>. QED
    BY <2>1 DEF HeadsOK, Providers
<1>4. final \in Nat
  BY DEF ChainOK
<1>5. (b = first /\ first = second) \/ \E x \in BOOLEAN : b = [lower EXCEPT !.real = x]
  BY DEF Boundaries
<1>6. (b.number = n /\ n = m) \/ b.number = lower.number
  <2>1. lower \in [number : Nat, real : BOOLEAN]
    BY <1>1
  <2>. HIDE DEF lower
  <2>2. \A x : [lower EXCEPT !.real = x].number = lower.number
    BY <2>1
  <2>. QED
    BY <1>5, <2>2
<1>7. lower.number = IF n < m THEN n ELSE m
  OBVIOUS
<1>8. (b.number = n /\ n = m) \/ b.number = IF n < m THEN n ELSE m
  BY <1>6, <1>7
<1>. HIDE DEF n, m
<1>. DEFINE k == b.number
<1>. HIDE DEF k
<1>9. (k = n /\ n = m) \/ k = IF n < m THEN n ELSE m
  BY <1>8 DEF k
<1>10. k \in Nat /\ k <= final
  BY <1>2, <1>3, <1>4, <1>9
<1>. QED
  BY <1>10 DEF k

LEMMA AgreeOnBoundaryStep ==
    ASSUME ScanInv, NEW s \in Scanners, AgreeOnBoundary(s) PROVE ScanInv'
<1>. DEFINE r == scan[s]
<1>1. ChainOK /\ ScanFits(r)
  BY ScanIs
<1>2. /\ r.at = "heads" /\ \A p \in Providers : r.heads[p] # None
      /\ UNCHANGED <<final, head, reported, checkpoint, missed, scene>>
  BY DEF AgreeOnBoundary
<1>3. PICK b \in Boundaries(r.heads) : Becomes(s, [r EXCEPT !.at = "select", !.target = b.number])
  BY DEF AgreeOnBoundary
<1>. DEFINE n == b.number
            q == [r EXCEPT !.at = "select", !.target = n]
<1>. HIDE DEF r
<1>4. Shape(r) /\ HeadsOK(r.heads) /\ scene.profile = "v2" /\ r.doc = NoDocument
  BY <1>1, <1>2 DEF ScanFits
<1>5. n \in Nat /\ n <= final
  BY <1>1, <1>2, <1>3, <1>4, BoundaryIsFinal
<1>6. Becomes(s, q)
  BY <1>3
<1>. HIDE DEF n
<1>7. Shape(q) /\ q.at = "select" /\ q.target = n /\ q.heads = r.heads /\ q.doc = r.doc
  BY <1>4 DEF Shape, Fields
<1>. HIDE DEF q
<1>8. ScanFits(q) /\ ScanTrue(q)
  BY <1>1, <1>4, <1>5, <1>7, WitnessedFits
<1>9. CheckpointFits'
  BY <1>2, CheckpointStays
<1>. QED
  BY <1>2, <1>6, <1>8, <1>9, Stepping

LEMMA DisagreeOnBoundaryStep ==
    ASSUME ScanInv, NEW s \in Scanners, DisagreeOnBoundary(s) PROVE ScanInv'
<1>. DEFINE r == scan[s]
            n == r.attempts + 1
            q == [r EXCEPT !.attempts = n, !.heads = Resting.heads]
<1>1. ChainOK /\ ScanFits(r)
  BY ScanIs
<1>2. /\ r.at = "heads"
      /\ Becomes(s, q) \/ Becomes(s, Resting)
      /\ UNCHANGED <<final, head, reported, checkpoint, missed, scene>>
  BY DEF DisagreeOnBoundary
<1>3. CheckpointFits'
  BY <1>2, CheckpointStays
<1>. HIDE DEF r, n
<1>4. r.at = "heads"
  BY <1>2
<1>5. /\ Shape(r) /\ r.target \in Nat /\ r.target <= final
      /\ scene.profile = "v2" /\ r.doc = NoDocument
  BY <1>1, <1>4 DEF ScanFits
<1>6. Shape(q) /\ q.at = r.at /\ q.target = r.target /\ q.heads = Resting.heads /\ q.doc = r.doc
  BY <1>5 DEF Shape, Fields
<1>. HIDE DEF q
<1>7. HeadsOK(Resting.heads)
  BY DEF Resting, HeadsOK
<1>8. ScanFits(q) /\ ScanTrue(q)
  BY <1>1, <1>4, <1>5, <1>6, <1>7, WitnessedFits
<1>9. CASE Becomes(s, q)
  BY <1>2, <1>3, <1>8, <1>9, Stepping
<1>10. CASE Becomes(s, Resting)
  BY <1>2, <1>3, <1>10, RestStep
<1>. QED
  BY <1>2, <1>9, <1>10

LEMMA GivesUpStep ==
    ASSUME ScanInv, NEW s \in Scanners, CatchLiar(s) \/ SelectFails(s) \/ Crash(s) PROVE ScanInv'
<1>1. Becomes(s, Resting) /\ UNCHANGED <<final, head, reported, checkpoint, missed, scene>>
  BY DEF CatchLiar, SelectFails, Crash
<1>2. CheckpointFits'
  BY <1>1, CheckpointStays
<1>. QED
  BY <1>1, <1>2, RestStep

(***************************************************************************)
(* Selection                                                               *)
(***************************************************************************)
\* The orders of a finite set are sequences of its elements, each once.
LEMMA OrderIs ==
    ASSUME NEW T, IsFiniteSet(T), NEW order \in SetToSeqs(T)
    PROVE  ChosenFrom(order, T, ToSet(order)) /\ ToSet(order) \subseteq T /\ Len(order) = Cardinality(T)
<1>. DEFINE n == Cardinality(T)
<1>1. n \in Nat
  BY FS_CardinalityType
<1>2. order \in [1 .. n -> T] /\ \A i, j \in 1 .. n : i # j => order[i] # order[j]
  BY DEF SetToSeqs
<1>. HIDE DEF n
<1>3. order \in Seq(T) /\ Len(order) = n /\ DOMAIN order = 1 .. n
  BY <1>1, <1>2
<1>4. IsInjective(order)
  BY <1>2, <1>3 DEF IsInjective
<1>5. ToSet(order) \subseteq T
  BY <1>2, <1>3 DEF ToSet
<1>. QED
  BY <1>3, <1>4, <1>5 DEF ChosenFrom, n

\* A document of records in scope serves only such, and none that differ from
\* storage; and it is accepted when the scope is active and counted.
LEMMA ServedFrom ==
    ASSUME scene \in Scenes, NEW T, T \subseteq Records, NEW order \in Orders(T),
           NEW active, NEW counted, NEW mismatched
    PROVE  /\ Served(DocumentOf(order, active, counted, mismatched)) \subseteq T \ mismatched
           /\ T \subseteq active /\ counted \in Nat /\ Cardinality(T) <= counted =>
                 Acceptable(DocumentOf(order, active, counted, mismatched))
<1>. DEFINE doc == DocumentOf(order, active, counted, mismatched)
            X == IF Exact THEN T \cap scene.preferred ELSE T
<1>1. IsFiniteSet(T) /\ X \subseteq T /\ scene.limit \in Nat \ {0} /\ IsFiniteSet(scene.hinted)
  BY SceneIs, RecordsAreFinite, FS_Subset
<1>2. IsFiniteSet(X) /\ Cardinality(X) <= Cardinality(T) /\ Cardinality(X) \in Nat /\ Cardinality(T) \in Nat
  BY <1>1, FS_Subset, FS_CardinalityType
<1>3. order \in SetToSeqs(X)
  BY DEF Orders
<1>. HIDE DEF X
<1>4. ChosenFrom(order, X, ToSet(order)) /\ ToSet(order) \subseteq X /\ Len(order) = Cardinality(X)
  BY <1>2, <1>3, OrderIs
<1>5. doc = Document(order, scene.hinted, Exact, scene.limit, active, counted, mismatched, scene.unloadable)
  BY DEF DocumentOf
<1>. HIDE DEF doc
<1>6. /\ Served(doc) \subseteq ToSet(order) \ mismatched
      /\ ToSet(order) \subseteq active /\ counted \in Nat /\ Len(order) <= counted => Acceptable(doc)
  BY <1>1, <1>4, <1>5, DocumentIsFine
<1>7. Served(doc) \subseteq T \ mismatched
  BY <1>1, <1>4, <1>6
<1>8. ASSUME T \subseteq active, counted \in Nat, Cardinality(T) <= counted PROVE Acceptable(doc)
  <2>1. ToSet(order) \subseteq active
    BY <1>1, <1>4, <1>8
  <2>2. Len(order) <= counted
    BY <1>2, <1>4, <1>8
  <2>. QED
    BY <1>6, <1>8, <2>1, <2>2
<1>. QED
  BY <1>7, <1>8 DEF doc

\* What storage has of a record at a block, and what is served of it.
Found(x, state, b) ==
    /\ x \in Records
    /\ Storage(b)[x].status = "active"
    /\ Storage(b)[x].hash = state[x].hash
    /\ scene.profile = "v2" => Storage(b)[x].eligible

Uncounted(b) == scene.profile = "v2" /\ \E x \in Records : Storage(b)[x].eligible /\ ~Storage(b)[x].indexed

LEMMA DoneFits ==
    ASSUME ChainOK, NEW target \in Nat, target <= final, NEW state, NEW doc,
           \A x \in Served(doc) :
               \E b \in target .. (IF scene.profile = "myotis" THEN head ELSE target) : Found(x, state, b),
           Uncounted(target) \/ Acceptable(doc)
    PROVE  ScanFits(Done(target, state, doc)) /\ ScanTrue(Done(target, state, doc))
<1>. DEFINE hashes == [x \in Records |-> state[x].hash]
            q == Done(target, state, doc)
<1>1. \A x \in Records : hashes[x] = state[x].hash
  OBVIOUS
<1>2. q = [Resting EXCEPT !.at = "done", !.target = target, !.doc = doc, !.hashes = hashes]
  BY DEF Done
<1>. HIDE DEF hashes, q
<1>3. /\ Shape(q) /\ q.at = "done" /\ q.target = target /\ q.doc = doc /\ q.hashes = hashes
      /\ q.heads = [p \in Providers |-> None]
  BY <1>2 DEF Resting, Shape, Fields
<1>4. ServesActive(q)
  <2>1. \A x, b : Found(x, state, b) => WasActive(x, q, b)
    BY <1>1, <1>3 DEF Found, WasActive
  <2>2. \A x \in Served(doc) :
            \E b \in target .. (IF scene.profile = "myotis" THEN head ELSE target) : WasActive(x, q, b)
    BY <2>1
  <2>. QED
    BY <1>3, <2>2 DEF ServesActive
<1>5. IsAccepted(q)
  BY <1>3 DEF IsAccepted, Uncounted
<1>6. HeadsOK(q.heads)
  BY <1>3 DEF HeadsOK
<1>7. ScanFits(q) /\ ScanTrue(q)
  BY <1>3, <1>4, <1>5, <1>6 DEF ScanFits, ScanTrue
<1>. QED
  BY <1>7 DEF q

LEMMA SelectLoggedStep ==
    ASSUME ScanInv, NEW s \in Scanners, NEW unread, SelectLogged(s, unread) PROVE ScanInv'
<1>. DEFINE r          == scan[s]
            lifecycle  == Replay(r.logs)
            active     == {x \in Records : lifecycle[x].status = "active"}
            mismatched == {x \in active : x \in unread \/ ~Matches(lifecycle, Storage(r.target), x)}
<1>1. ChainOK /\ scene \in Scenes /\ ScanFits(r) /\ (~missed => ScanTrue(r))
  BY ScanIs
<1>2. /\ r.at = "select" /\ scene.profile = "v1" /\ UNCHANGED <<final, head, reported, missed, scene>>
      /\ \E order \in Orders(active) :
            LET doc == DocumentOf(order, active, Cardinality(active), mismatched)
            IN  /\ Becomes(s, Done(r.target, lifecycle, doc))
                /\ checkpoint' = IF doc.excluded = {} THEN Written(r.target, r.logs) ELSE checkpoint
  BY DEF SelectLogged
<1>3. PICK order \in Orders(active) :
          LET doc == DocumentOf(order, active, Cardinality(active), mismatched)
          IN  /\ Becomes(s, Done(r.target, lifecycle, doc))
              /\ checkpoint' = IF doc.excluded = {} THEN Written(r.target, r.logs) ELSE checkpoint
  BY <1>2
<1>. DEFINE doc == DocumentOf(order, active, Cardinality(active), mismatched)
            t   == r.target
<1>4. /\ Becomes(s, Done(t, lifecycle, doc))
      /\ checkpoint' = Written(t, r.logs) \/ checkpoint' = checkpoint
  BY <1>3
<1>5. active \subseteq Records /\ \A x \in active \ mismatched :
          /\ x \in Records /\ lifecycle[x].status = "active"
          /\ Matches(lifecycle, Storage(t), x)
  OBVIOUS
<1>. HIDE DEF r, lifecycle, active, mismatched
<1>6. t \in Nat /\ t <= final /\ (~missed => r.logs = Logs(1, t))
  BY <1>1, <1>2 DEF ScanFits, ScanTrue
<1>7. Served(doc) \subseteq active \ mismatched /\ Acceptable(doc)
  <2>1. Cardinality(active) \in Nat
    BY <1>5, RecordsAreFinite, FS_Subset, FS_CardinalityType
  <2>2. Cardinality(active) <= Cardinality(active) /\ active \subseteq active
    BY <2>1
  <2>. QED
    BY <1>1, <1>5, <2>1, <2>2, ServedFrom
<1>. HIDE DEF doc, t
<1>8. ScanFits(Done(t, lifecycle, doc)) /\ ScanTrue(Done(t, lifecycle, doc))
  <2>1. \A x \in Served(doc) : Found(x, lifecycle, t)
    BY <1>2, <1>5, <1>7 DEF Found, Matches
  <2>2. t \in t .. (IF scene.profile = "myotis" THEN head ELSE t)
    BY <1>2, <1>6
  <2>. QED
    BY <1>1, <1>6, <1>7, <2>1, <2>2, DoneFits
<1>9. CheckpointFits'
  <2>1. CASE checkpoint' = checkpoint
    BY <1>2, <2>1, CheckpointStays
  <2>2. CASE checkpoint' = Written(t, r.logs)
    <3>1. checkpoint'.block = t /\ checkpoint'.logs = r.logs
      BY <2>2 DEF Written
    <3>2. \A a, b : Logs(a, b)' = Logs(a, b)
      BY <1>2, SceneStays
    <3>. SUFFICES ASSUME NEW b, b = checkpoint'.block
                  PROVE  checkpoint'.block \in Nat /\ (~missed' => checkpoint'.logs = Logs(1, b)')
      BY DEF CheckpointFits
    <3>. QED
      BY <1>2, <1>6, <3>1, <3>2
  <2>. QED
    BY <1>4, <2>1, <2>2
<1>. QED
  BY <1>2, <1>4, <1>8, <1>9, Stepping

LEMMA SelectAtHeadStep ==
    ASSUME ScanInv, NEW s \in Scanners, SelectAtHead(s) PROVE ScanInv'
<1>. DEFINE r          == scan[s]
            lifecycle  == Replay(r.logs)
            active     == {x \in Records : lifecycle[x].status = "active"}
<1>1. ChainOK /\ scene \in Scenes /\ ScanFits(r) /\ final \in Nat /\ head \in Nat /\ final <= head
  BY ScanIs
<1>2. /\ scene.profile = "myotis" /\ UNCHANGED <<final, head, reported, checkpoint, missed, scene>>
      /\ \E order \in Orders(active) :
            LET doc == DocumentOf(order, active, Cardinality(active), {})
                same == \A x \in ToSet(doc.selected) : Matches(lifecycle, Storage(head), x)
            IN  Becomes(s, IF same THEN Done(r.target, lifecycle, doc) ELSE Resting)
  BY DEF SelectAtHead
<1>3. PICK order \in Orders(active) :
          LET doc == DocumentOf(order, active, Cardinality(active), {})
              same == \A x \in ToSet(doc.selected) : Matches(lifecycle, Storage(head), x)
          IN  Becomes(s, IF same THEN Done(r.target, lifecycle, doc) ELSE Resting)
  BY <1>2
<1>. DEFINE doc  == DocumentOf(order, active, Cardinality(active), {})
            same == \A x \in ToSet(doc.selected) : Matches(lifecycle, Storage(head), x)
            t    == r.target
<1>4. Becomes(s, IF same THEN Done(t, lifecycle, doc) ELSE Resting)
  BY <1>3
<1>5. active \subseteq Records /\ \A x \in active : x \in Records /\ lifecycle[x].status = "active"
  OBVIOUS
<1>6. CheckpointFits'
  BY <1>2, CheckpointStays
<1>. HIDE DEF r, lifecycle, active
<1>7. t \in Nat /\ t <= final
  BY <1>1 DEF ScanFits
<1>8. Served(doc) \subseteq active /\ Acceptable(doc)
  <2>1. Cardinality(active) \in Nat
    BY <1>5, RecordsAreFinite, FS_Subset, FS_CardinalityType
  <2>2. Cardinality(active) <= Cardinality(active) /\ active \subseteq active
    BY <2>1
  <2>3. Served(doc) \subseteq active \ {} /\ Acceptable(doc)
    BY <1>1, <1>5, <2>1, <2>2, ServedFrom
  <2>. QED
    BY <2>3
<1>9. Served(doc) \subseteq ToSet(doc.selected)
  BY DEF Served
<1>10. CASE same
  <2>. HIDE DEF doc, t
  <2>1. \A x \in Served(doc) : Found(x, lifecycle, head)
    BY <1>2, <1>5, <1>8, <1>9, <1>10 DEF Found, Matches
  <2>2. head \in t .. (IF scene.profile = "myotis" THEN head ELSE t)
    BY <1>1, <1>2, <1>7
  <2>3. ScanFits(Done(t, lifecycle, doc)) /\ ScanTrue(Done(t, lifecycle, doc))
    BY <1>1, <1>7, <1>8, <2>1, <2>2, DoneFits
  <2>4. Becomes(s, Done(t, lifecycle, doc))
    BY <1>4, <1>10
  <2>. QED
    BY <1>2, <1>6, <2>3, <2>4, Stepping
<1>11. CASE ~same
  <2>1. Becomes(s, Resting)
    BY <1>4, <1>11
  <2>. QED
    BY <1>2, <1>6, <2>1, RestStep
<1>. QED
  BY <1>10, <1>11

\* What is drawn are records, and what is in scope may be sold.
LEMMA ScopeIs ==
    ASSUME scene \in Scenes, NEW state, NEW drawn \in Draws(state), NEW scope \in OneOfEach(Eligible(state, drawn))
    PROVE  /\ scope \subseteq Records /\ scope \subseteq {x \in drawn : state[x].status = "active"}
           /\ \A x \in scope : state[x].status = "active" /\ state[x].eligible
<1>1. scene.preferred \subseteq Records /\ scene.hinted \subseteq Records
  BY SceneIs
<1>2. drawn \subseteq Records
  <2>1. drawn \in {scene.preferred} \/ drawn \in SUBSET ({x \in Records : state[x].indexed} \cup scene.hinted)
    BY DEF Draws
  <2>. QED
    BY <1>1, <2>1
<1>3. scope \subseteq Eligible(state, drawn)
  BY DEF OneOfEach
<1>. QED
  BY <1>2, <1>3 DEF Eligible

LEMMA SelectStoredStep ==
    ASSUME ScanInv, NEW s \in Scanners, NEW unread, SelectStored(s, unread) PROVE ScanInv'
<1>. DEFINE r       == scan[s]
            t       == r.target
            state   == Storage(t)
            indexed == {x \in Records : state[x].indexed}
            Active(drawn) == {x \in drawn : state[x].status = "active"}
            Odd(drawn) == {x \in Active(drawn) : x \in unread \/ ~Matches(state, state, x)}
<1>1. ChainOK /\ scene \in Scenes /\ ScanFits(r)
  BY ScanIs
<1>2. /\ scene.profile = "v2" /\ UNCHANGED <<final, head, reported, checkpoint, missed, scene>>
      /\ \E drawn \in Draws(state) : \E scope \in OneOfEach(Eligible(state, drawn)) :
            \E order \in Orders(scope) :
               Becomes(s, Done(t, state, DocumentOf(order, Active(drawn), Cardinality(indexed), Odd(drawn))))
  BY DEF SelectStored
<1>3. PICK drawn \in Draws(state) : \E scope \in OneOfEach(Eligible(state, drawn)) :
          \E order \in Orders(scope) :
             Becomes(s, Done(t, state, DocumentOf(order, Active(drawn), Cardinality(indexed), Odd(drawn))))
  BY <1>2
<1>4. PICK scope \in OneOfEach(Eligible(state, drawn)) : \E order \in Orders(scope) :
          Becomes(s, Done(t, state, DocumentOf(order, Active(drawn), Cardinality(indexed), Odd(drawn))))
  BY <1>3
<1>5. PICK order \in Orders(scope) :
          Becomes(s, Done(t, state, DocumentOf(order, Active(drawn), Cardinality(indexed), Odd(drawn))))
  BY <1>4
<1>. DEFINE active == Active(drawn)
            doc == DocumentOf(order, active, Cardinality(indexed), Odd(drawn))
<1>6. CheckpointFits'
  BY <1>2, CheckpointStays
<1>7. /\ scope \subseteq Records /\ scope \subseteq active
      /\ \A x \in scope : state[x].status = "active" /\ state[x].eligible
  BY <1>1, ScopeIs
<1>8. indexed \subseteq Records /\ \A x \in Records : state[x].indexed => x \in indexed
  OBVIOUS
<1>. HIDE DEF Active, Odd, r, indexed, active
<1>9. t \in Nat /\ t <= final
  BY <1>1 DEF ScanFits
<1>10. IsFiniteSet(indexed) /\ Cardinality(indexed) \in Nat
  BY <1>8, RecordsAreFinite, FS_Subset, FS_CardinalityType
<1>11. /\ Served(doc) \subseteq scope
       /\ Cardinality(scope) <= Cardinality(indexed) => Acceptable(doc)
  <2>1. /\ Served(doc) \subseteq scope \ Odd(drawn)
        /\ scope \subseteq active /\ Cardinality(indexed) \in Nat /\ Cardinality(scope) <= Cardinality(indexed)
              => Acceptable(doc)
    BY <1>1, <1>7, ServedFrom
  <2>. QED
    BY <1>7, <1>10, <2>1
<1>12. Uncounted(t) \/ scope \subseteq indexed
  BY <1>2, <1>7, <1>8 DEF Uncounted
<1>13. scope \subseteq indexed => Cardinality(scope) <= Cardinality(indexed)
  BY <1>10, FS_Subset
<1>. HIDE DEF doc, t
<1>14. \A x \in Served(doc) : Found(x, state, t)
  BY <1>7, <1>11 DEF Found
<1>. HIDE DEF state
<1>15. ScanFits(Done(t, state, doc)) /\ ScanTrue(Done(t, state, doc))
  <2>1. t \in t .. (IF scene.profile = "myotis" THEN head ELSE t)
    BY <1>2, <1>9
  <2>2. Uncounted(t) \/ Acceptable(doc)
    BY <1>11, <1>12, <1>13
  <2>. QED
    BY <1>1, <1>9, <1>14, <2>1, <2>2, DoneFits
<1>16. Becomes(s, Done(t, state, doc))
  BY <1>5 DEF doc, active
<1>. QED
  BY <1>2, <1>6, <1>15, <1>16, Stepping

(***************************************************************************)
(* The theorems                                                            *)
(***************************************************************************)
LEMMA InitFits == Init => ScanInv
<1>. SUFFICES ASSUME Init PROVE ScanInv
  OBVIOUS
<1>1. /\ scene \in Scenes /\ final = 1 /\ head = 1 /\ reported = [p \in Providers |-> 1]
      /\ checkpoint = None /\ scan = [s \in Scanners |-> Resting]
  BY DEF Init
<1>2. 1 <= LastBlock
  BY <1>1, SceneIs
<1>3. ChainOK
  BY <1>1, <1>2 DEF ChainOK
<1>4. CheckpointFits
  BY <1>1 DEF CheckpointFits
<1>5. ScanFits(Resting) /\ ScanTrue(Resting)
  BY <1>3, RestingFits
<1>6. \A r \in {scan[s] : s \in Scanners} : r = Resting
  BY <1>1
<1>. QED
  BY <1>1, <1>3, <1>4, <1>5, <1>6 DEF ScanInv

LEMMA NextFits == ScanInv /\ [Next]_vars => ScanInv'
<1>. SUFFICES ASSUME ScanInv, [Next]_vars PROVE ScanInv'
  OBVIOUS
<1>1. CASE UNCHANGED vars
  <2>1. UNCHANGED <<final, head, reported, checkpoint, scan, missed, scene>>
    BY <1>1 DEF vars
  <2>2. final \in Nat /\ head \in Nat /\ ChainOK'
    BY <2>1 DEF ScanInv, ChainOK, LastBlock
  <2>3. final <= final' /\ head <= head'
    BY <2>1, <2>2
  <2>. QED
    BY <2>1, <2>2, <2>3, ChainSteps
<1>2. CASE Mine \/ Finalize \/ \E p \in Providers : Report(p)
  BY <1>2, MineStep, FinalizeStep, ReportStep
<1>3. ASSUME NEW s \in Scanners, Proceeds(s) PROVE ScanInv'
  <2>1. CASE StartScan(s) \/ FailScan(s) \/ EndPages(s)
    BY <2>1, StartScanStep, FailScanStep, EndPagesStep
  <2>2. CASE \E i \in scan[s].pending : PageArrives(s, i) \/ \E f \in Failures : PageFails(s, i, f)
    BY <2>2, PageArrivesStep, PageFailsStep
  <2>3. CASE StartWitnessed(s) \/ (\E p \in Providers : ReadHead(s, p)) \/ AgreeOnBoundary(s)
                \/ DisagreeOnBoundary(s) \/ CatchLiar(s)
    BY <2>3, StartWitnessedStep, ReadHeadStep, AgreeOnBoundaryStep, DisagreeOnBoundaryStep, GivesUpStep
  <2>4. CASE SelectAtHead(s) \/ SelectFails(s)
    BY <2>4, SelectAtHeadStep, GivesUpStep
  <2>5. CASE \E unread \in Unread : SelectLogged(s, unread) \/ SelectStored(s, unread)
    BY <2>5, SelectLoggedStep, SelectStoredStep
  <2>. QED
    BY <1>3, <2>1, <2>2, <2>3, <2>4, <2>5 DEF Proceeds
<1>4. ASSUME NEW s \in Scanners, Crash(s) PROVE ScanInv'
  BY <1>4, GivesUpStep
<1>. QED
  BY <1>1, <1>2, <1>3, <1>4 DEF Next

LEMMA ScansFit == Spec => []ScanInv
<1>1. Init => ScanInv
  BY InitFits
<1>2. ScanInv /\ [Next]_vars => ScanInv'
  BY NextFits
<1>. QED
  BY <1>1, <1>2, PTL DEF Spec

(***************************************************************************)
(* A record is served only if the contract had it active, under the hash   *)
(* that is served, at the block of the scan (with Myotis: at one between   *)
(* it and the head), that block is final, and with version 2 the record    *)
(* was eligible there: whatever logs the answers missed, whichever pages   *)
(* came late or failed, and whatever one of two providers said             *)
(* (collect_finalized_events, _v2_witness, _verify_contract_storage).      *)
(***************************************************************************)
THEOREM ServedRecordsWereActive == Spec => []ServedWereActive
<1>1. ScanInv => ServedWereActive
  <2>. SUFFICES ASSUME ScanInv, NEW s \in Scanners
                PROVE  /\ scan[s].target <= final
                       /\ \A r \in Served(scan[s].doc) :
                             \E b \in scan[s].target .. (IF scene.profile = "myotis" THEN head
                                                          ELSE scan[s].target) :
                                 /\ Storage(b)[r].status = "active"
                                 /\ Storage(b)[r].hash = scan[s].hashes[r]
                                 /\ scene.profile = "v2" => Storage(b)[r].eligible
    BY DEF ServedWereActive
  <2>1. ScanFits(scan[s])
    BY ScanIs
  <2>. QED
    BY <2>1 DEF ScanFits, ServesActive, WasActive
<1>. QED
  BY <1>1, ScansFit, PTL

(***************************************************************************)
(* While no answer missed a log, the checkpoint has exactly the logs of    *)
(* the chain up to its block, whichever process wrote it, finished or not, *)
(* and however the pages arrived (_scan_finalized_history,                 *)
(* _write_checkpoint).                                                     *)
(***************************************************************************)
THEOREM CheckpointsAreTrue == Spec => []CheckpointIsTrue
<1>1. ScanInv => CheckpointIsTrue
  BY DEF ScanInv, CheckpointFits, CheckpointIsTrue
<1>. QED
  BY <1>1, ScansFit, PTL

(***************************************************************************)
(* finalized_document_errors accepts every document that a scan hands      *)
(* over: the waves of reserves stay within the attempts allowed, no record *)
(* is selected twice, the hinted records are counted as they were matched, *)
(* and the counts do not exceed the active records.  With version 2, while *)
(* every record that could be served is in the index.                      *)
(***************************************************************************)
THEOREM DocumentsAreAccepted == Spec => []DocumentIsAccepted
<1>1. ScanInv => DocumentIsAccepted
  <2>. SUFFICES ASSUME ScanInv, NEW s \in Scanners, scan[s].at = "done" PROVE IsAccepted(scan[s])
    BY DEF DocumentIsAccepted, IsAccepted
  <2>1. ScanFits(scan[s])
    BY ScanIs
  <2>. QED
    BY <2>1 DEF ScanFits
<1>. QED
  BY <1>1, ScansFit, PTL
=============================================================================
