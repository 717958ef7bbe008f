--------------------------- MODULE DiscoveryIndex ---------------------------
(***************************************************************************)
(* The routing hints of shopbridge_discovery_facets.py: from the products  *)
(* a shop shows to the categories it declares, from the declarations to    *)
(* the index the hosted registry publishes, and from the index to the      *)
(* records a buyer looks at first (discovery_index_hints).                 *)
(*                                                                         *)
(* Words are numbers in alphabetical order; a category is the sequence of  *)
(* the words of its slug, and so are a query and a basket item.            *)
(***************************************************************************)
EXTENDS Integers, Sequences, FiniteSets, SequencesExt

CONSTANTS None,           \* no facets, no slug, no identity, no answer; any registry
          Markets,        \* families of shops, see below
          Lookups,        \* what buyers ask, see below
          StopWords,      \* QUERY_STOP_WORDS
          SingularOf,     \* [plural |-> singular], for the words that have one
          MaxCategories,  \* MAX_CATEGORIES
          MaxTotal,       \* 256, in validate_discovery_facets
          MaxEntries,     \* MAX_INDEX_ENTRIES
          MaxCandidates   \* MAX_QUERY_CATEGORY_CANDIDATES

\* A shop has an identity (none if it is malformed): [chain, registry], and
\* items: a sequence of [name, count], names that differ in spelling being the
\* same slug.  A lookup has a query, a basket, a chain and a registry that are
\* expected, and the faults its download may have.

VARIABLES shops,   \* record -> shop, chosen once
          lookup,  \* what the buyer asks, chosen once
          answer   \* None, or [hinted, fault]

vars == <<shops, lookup, answer>>

\* "-" comes before every letter: slugs are ordered like their words.
Before(c, d) ==
    \/ Len(c) < Len(d) /\ c = SubSeq(d, 1, Len(c))
    \/ \E k \in DOMAIN c \cap DOMAIN d :
          c[k] < d[k] /\ SubSeq(c, 1, k - 1) = SubSeq(d, 1, k - 1)

Sorted(categories) == SetToSortSeq(categories, Before)

FirstOf(sequence, n) == SubSeq(sequence, 1, IF Len(sequence) < n THEN Len(sequence) ELSE n)

(***************************************************************************)
(* What a shop declares                                                    *)
(***************************************************************************)
Named(items) == {items[i].name : i \in {i \in DOMAIN items :
                                           items[i].name # None /\ items[i].count >= 1}}

Counts(items) ==
    [c \in Named(items) |->
        FoldLeft(LAMBDA sum, item : IF item.name = c /\ item.count >= 1
                                    THEN sum + item.count ELSE sum, 0, items)]

\* The most frequent first
Ranked(counts) ==
    SetToSortSeq(DOMAIN counts,
                 LAMBDA c, d : counts[c] > counts[d] \/ (counts[c] = counts[d] /\ Before(c, d)))

\* Faulty variant: the first ones of the alphabet are kept.
FirstByName(counts) == FirstOf(Sorted(DOMAIN counts), MaxCategories)

Kept(counts) == Sorted(ToSet(FirstOf(Ranked(counts), MaxCategories)))

FacetsFrom(items) ==
    LET counts == Counts(items)
        kept   == Kept(counts)
        total  == Cardinality(DOMAIN counts)
    IN  IF total = 0 THEN None
        ELSE [categories |-> kept, total |-> total,
              coverage |-> IF total > Len(kept) THEN "partial" ELSE "complete"]

Canonical(categories) ==
    /\ Len(categories) \in 1 .. MaxCategories
    /\ categories = Sorted(ToSet(categories))

\* validate_discovery_facets has no errors
Valid(facets) ==
    /\ Canonical(facets.categories)
    /\ facets.total \in Len(facets.categories) .. MaxTotal
    /\ facets.coverage = IF facets.total = Len(facets.categories) THEN "complete" ELSE "partial"

Facets(shop) == FacetsFrom(shop.items)

Declares(shop) == Facets(shop) # None /\ Valid(Facets(shop))

(***************************************************************************)
(* Words                                                                   *)
(***************************************************************************)
Singulars(words) == {SingularOf[w] : w \in words \cap DOMAIN SingularOf}

\* Faulty variant: plurals stay plurals.
AsWritten(words) == words \ StopWords

Terms(words) == (words \ StopWords) \cup Singulars(words \ StopWords)

\* The slug itself is a term as well, the same as its word if it is one.
CategoryTerms(category) == Terms(ToSet(category)) \cup ToSet(category)

Matches(category, query) == Terms(ToSet(query)) \cap CategoryTerms(category) # {}

MatchingCategories(shop, query) ==
    IF Declares(shop) THEN {c \in ToSet(Facets(shop).categories) : Matches(c, query)} ELSE {}

\* Slugs to look for in the facets contract
Candidates(query) ==
    LET tokens == SelectSeq(query, LAMBDA w : w \notin StopWords)
        slugs  == {<<w>> : w \in ToSet(tokens) \cup Singulars(ToSet(tokens))} \cup
                  (IF Len(tokens) > 1 THEN {tokens} ELSE {})
    IN  ToSet(FirstOf(Sorted(slugs), MaxCandidates))

(***************************************************************************)
(* What a buyer asks                                                       *)
(***************************************************************************)
\* discovery_index_queries: all of a basket, or the one query
RequireAll == lookup.query = <<>>

Queries ==
    IF RequireAll THEN {q \in ToSet(lookup.basket) : q # <<>>} ELSE {lookup.query}

MeetsQueries(met) ==
    /\ Queries # {}
    /\ IF RequireAll THEN Queries \subseteq met ELSE Queries \cap met # {}

\* onchain_category_hash_groups: queries of stop words only make no group.
Groups == {Candidates(q) : q \in Queries} \ {{}}

\* build_discovery_index: an entry for each record that may have one
Entries ==
    [r \in {r \in DOMAIN shops : shops[r].identity # None /\ Declares(shops[r])} |->
        [identity |-> shops[r].identity, categories |-> Facets(shops[r]).categories]]

\* A record without facets has none that are invalid: its categories are read, and
\* there is no index at all.
IndexBreaks == \E r \in DOMAIN shops : shops[r].identity # None /\ Facets(shops[r]) = None

\* The entry of one record is damaged.
Damaged(entries) ==
    {[entries EXCEPT ![r].categories = @ \o @] : r \in DOMAIN entries} \cup
    {[entries EXCEPT ![r].categories = <<>>] : r \in DOMAIN entries}

Expected(identity) ==
    /\ identity.chain = lookup.chain
    /\ lookup.registry \in {None, identity.registry}

HintedIn(entries) ==
    IF Cardinality(DOMAIN entries) > MaxEntries THEN {}
    ELSE {r \in DOMAIN entries :
            /\ Canonical(entries[r].categories)
            /\ Expected(entries[r].identity)
            /\ MeetsQueries({q \in Queries : \E c \in ToSet(entries[r].categories) : Matches(c, q)})}

Answer(hinted, fault) == answer' = [hinted |-> hinted, fault |-> fault]

Ask ==
    /\ answer = None
    /\ \/ ~IndexBreaks /\ Answer(HintedIn(Entries), "none")
       \/ ~IndexBreaks /\ "damaged" \in lookup.faults
             /\ \E entries \in Damaged(Entries) : Answer(HintedIn(entries), "damaged")
       \/ /\ IndexBreaks \/ "unavailable" \in lookup.faults
          /\ Answer({}, "unavailable")
    /\ UNCHANGED <<shops, lookup>>

Init ==
    /\ shops \in Markets
    /\ lookup \in Lookups
    /\ answer = None

Next == Ask

(***************************************************************************)
(* Properties                                                              *)
(***************************************************************************)
\* What two words have in common when one may be a plural of the other
Forms(w) == {w} \cup Singulars({w})

Sells(shop, query) ==
    \E c \in Named(shop.items) : \E v \in ToSet(c), w \in ToSet(query) \ StopWords :
        Forms(v) \cap Forms(w) # {}

SellsAsked(shop) == MeetsQueries({q \in Queries : Sells(shop, q)})

Sought(r) == shops[r].identity # None /\ Expected(shops[r].identity)

\* The categories that a shop leaves out of its facets are none it has more
\* products of than of one it keeps, and what it declares is accepted
\* (discovery_facets_from_category_counts, validate_discovery_facets).
FacetsAreTop ==
    \A r \in DOMAIN shops : Facets(shops[r]) # None =>
        LET counts == Counts(shops[r].items)
            kept   == ToSet(Facets(shops[r]).categories)
        IN  /\ Declares(shops[r]) <=> Cardinality(DOMAIN counts) <= MaxTotal
            /\ \A c \in kept, d \in DOMAIN counts \ kept : counts[c] >= counts[d]

\* From the shelf to the hint: a hinted shop of the registry that is asked
\* sells what was asked for; one that sells it and declares all its categories
\* is hinted, as long as the index is not too long; what leads to it in the
\* facets contract leads to it in the index; and damage can only lose hints
\* (hinted_record_ids, onchain_category_hash_groups).
HintsFindWhatIsSold ==
    answer # None =>
        /\ \A r \in answer.hinted : Sought(r) /\ SellsAsked(shops[r])
        /\ answer.hinted \subseteq HintedIn(Entries)
        /\ (answer.fault = "none" /\ Cardinality(DOMAIN Entries) <= MaxEntries) =>
              \A r \in DOMAIN Entries : Sought(r) =>
                  /\ SellsAsked(shops[r]) /\ Facets(shops[r]).coverage = "complete"
                        => r \in answer.hinted
                  /\ Queries # {} /\ (\A q \in Queries : Candidates(q) # {}) /\
                     (\A group \in Groups : group \cap ToSet(Facets(shops[r]).categories) # {})
                        => r \in answer.hinted
                  /\ r \in answer.hinted <=>
                        MeetsQueries({q \in Queries : MatchingCategories(shops[r], q) # {}})
=============================================================================
