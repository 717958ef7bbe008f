-------------------------- MODULE OnchainSelection --------------------------
(***************************************************************************)
(* How collect_finalized_events of shopbridge_onchain_rpc.py chooses the   *)
(* records whose documents it loads, and the checks of                     *)
(* shopbridge_onchain_projection.py on the document it hands over.         *)
(*                                                                         *)
(* The order in which candidates are drawn is seeded by a hash: here it is *)
(* any order.  A record fails when its commitment differs from storage     *)
(* (mismatched) or when its document cannot be loaded (unloadable).        *)
(***************************************************************************)
EXTENDS Naturals, FiniteSets, Sequences, SequencesExt

CONSTANT MaxCandidates  \* MAX_RECORD_CANDIDATES

ASSUME CandidatesAreWanted == MaxCandidates \in Nat \ {0}

Least(a, b) == IF a < b THEN a ELSE b

Upto(s, n) == SubSeq(s, 1, Least(n, Len(s)))

\* The element of a set of one: TLC evaluates it once, an argument each time.
The(set) == CHOOSE x \in set : TRUE

\* The elements of s that are in a set, in their order
Filtered(s, set) ==
    LET kept[n \in 0 .. Len(s)] ==
            IF n = 0 THEN <<>>
            ELSE IF s[n] \in set THEN Append(kept[n - 1], s[n]) ELSE kept[n - 1]
    IN  kept[Len(s)]

Among(s, set) == The({Filtered(t, x) : t \in {s}, x \in {set}})

Others(s, set) == Among(s, ToSet(s) \ set)

(***************************************************************************)
(* The first candidates.  Hinted records leave one place to the others,    *)
(* and take what those leave.                                              *)
(***************************************************************************)
HintedFirst(hints, others, limit) ==
    LET budget   == IF limit = 1 THEN limit ELSE limit - 1
        first    == Upto(hints, budget)
        fallback == Upto(others, limit - Len(first))
        chosen   == first \o fallback
    IN  chosen \o Upto(Others(hints, ToSet(first)), limit - Len(chosen))

FirstCandidates(order, hinted, exact, limit) ==
    IF hinted # {} /\ ~exact /\ Among(order, hinted) # <<>>
    THEN The({HintedFirst(hints, others, limit) :
                  hints \in {Among(order, hinted)}, others \in {Others(order, hinted)}})
    ELSE Upto(order, limit)

(***************************************************************************)
(* Waves.  Documents that fail are replaced by reserves, one wave for the  *)
(* missing ones, until enough are loaded or enough were attempted.         *)
(***************************************************************************)
FirstWave(first, reserves) ==
    [attempted |-> <<>>, wave |-> first, reserves |-> reserves, resolved |-> 0]

\* Faulty variant: a wave is as large as the target, whatever was attempted.
NextWaveUnbounded(w, failing, target, limit) ==
    LET tried    == w.attempted \o w.wave
        resolved == w.resolved + Cardinality({i \in DOMAIN w.wave : w.wave[i] \notin failing})
    IN  IF w.wave = <<>> \/ resolved >= target THEN [w EXCEPT !.attempted = tried, !.wave = <<>>]
        ELSE [attempted |-> tried, wave |-> Upto(w.reserves, target),
              reserves |-> SubSeq(w.reserves, Least(target, Len(w.reserves)) + 1, Len(w.reserves)),
              resolved |-> resolved]

NextWave(w, failing, target, limit) ==
    LET tried    == w.attempted \o w.wave
        resolved == w.resolved + Cardinality({i \in DOMAIN w.wave : w.wave[i] \notin failing})
        count    == IF resolved >= target \/ Len(tried) >= limit THEN 0
                    ELSE Least(target - resolved, limit - Len(tried))
    IN  IF w.wave = <<>> \/ Len(w.attempted) >= limit THEN w
        ELSE [attempted |-> tried, wave |-> Upto(w.reserves, count),
              reserves |-> SubSeq(w.reserves, Least(count, Len(w.reserves)) + 1, Len(w.reserves)),
              resolved |-> resolved]

\* Each a set of one wave.  There are no more than documents, and one that is empty.
LastWave(first, reserves, failing, target, limit) ==
    LET waves[n \in 0 .. Len(first) + Len(reserves) + 1] ==
            IF n = 0 THEN {FirstWave(first, reserves)}
            ELSE {NextWave(w, failing, target, limit) : w \in waves[n - 1]}
    IN  The(waves[Len(first) + Len(reserves) + 1])

Attempted(first, reserves, failing, target, limit) ==
    LastWave(first, reserves, failing, target, limit).attempted

(***************************************************************************)
(* The document: what was selected, and what came of it.                   *)
(***************************************************************************)
Selected(order, hinted, exact, limit, failing, attempts) ==
    LET target       == Least(limit, MaxCandidates)
        Tried(first) == Attempted(first, Others(order, ToSet(first)), failing, target, attempts)
    IN  The({Tried(first) : first \in {Upto(FirstCandidates(order, hinted, exact, limit), target)}})

Document(order, hinted, exact, limit, active, counted, mismatched, unloadable) ==
    LET attempts == Least(MaxCandidates, Least(limit, MaxCandidates) * 3)
        Of(selected, excluded) ==
            [selected |-> selected,
             active   |-> active,                   \* ids the events leave active
             counted  |-> counted,                  \* active_candidate_count
             scope    |-> Len(order),
             limit    |-> attempts,
             mode     |-> IF exact THEN "exact"
                          ELSE IF hinted = {} THEN "sample"
                          ELSE IF Among(order, hinted) # <<>> THEN "hinted" ELSE "no match",
             hinted   |-> hinted,
             matches  |-> IF exact THEN 0 ELSE Len(Among(order, hinted)),
             matched  |-> ToSet(selected) \ excluded,
             excluded |-> excluded,
             status   |-> IF excluded = {} THEN "matched" ELSE "excluded_mismatched_records",
             failed   |-> ToSet(selected) \cap (mismatched \cup unloadable)]
    IN  The({Of(selected, ToSet(selected) \cap mismatched) : selected \in
                {Selected(order, hinted, exact, limit, mismatched \cup unloadable, attempts)}})

\* What the projection makes records of.
Served(doc) == ToSet(doc.selected) \ doc.failed

(***************************************************************************)
(* finalized_document_errors                                               *)
(***************************************************************************)
SelectionIsValid(doc) ==
    /\ IsInjective(doc.selected)
    /\ Len(doc.selected) <= doc.counted
    /\ Len(doc.selected) <= doc.scope
    /\ doc.scope <= doc.counted
    /\ Len(doc.selected) <= doc.limit
    /\ ToSet(doc.selected) \subseteq doc.active
    /\ doc.failed \subseteq ToSet(doc.selected)

StorageIsCovered(doc) ==
    /\ doc.matched \cap doc.excluded = {}
    /\ doc.matched \cup doc.excluded = ToSet(doc.selected)
    /\ doc.status = "matched" <=> doc.excluded = {}
    /\ doc.excluded \subseteq doc.failed
    /\ Served(doc) \subseteq doc.matched

HintsAreCounted(doc) ==
    LET hints    == Len(Among(doc.selected, doc.hinted))
        fallback == Len(doc.selected) - hints
    IN  doc.mode \in {"hinted", "no match"} =>
            /\ doc.hinted # {}
            /\ doc.matches <= Cardinality(doc.hinted)
            /\ doc.matches <= doc.scope
            /\ hints <= doc.matches
            /\ hints + fallback = Len(doc.selected)
            /\ doc.mode = "hinted" <=> doc.matches > 0
            /\ doc.mode = "hinted" <=> hints > 0

Acceptable(doc) == SelectionIsValid(doc) /\ StorageIsCovered(doc) /\ HintsAreCounted(doc)
=============================================================================
