------------------------------ MODULE SkillProofs ------------------------------
(***************************************************************************)
(* Theorems about the direct buyer skill and the import of its audit       *)
(* packets (DirectSkill): for every set of merchants and records, every    *)
(* scene and any number of quotes, approvals, handoffs and checkouts, in   *)
(* whatever order and combination the agent hands them to the commands.    *)
(***************************************************************************)
EXTENDS DirectSkill, TLAPS, FiniteSetTheorems

USE BoundsAreNaturals

(***************************************************************************)
(* The inductive invariant of the search                                   *)
(***************************************************************************)
\* The shape of what is kept; what records, documents and lists are is open.
Shapes ==
    /\ live = [m \in Merchants |-> live[m]]
    /\ revoked = [m \in Merchants |-> revoked[m]]
    /\ search = [at |-> search.at, todo |-> search.todo, record |-> search.record,
                 errors |-> search.errors, offers |-> search.offers,
                 tried |-> search.tried, gone |-> search.gone, seen |-> search.seen,
                 product |-> search.product]
    /\ shop = [n \in 1 .. MaxQuotes |-> shop[n]]
    /\ \A n \in 1 .. MaxQuotes :
          shop[n] = [body |-> shop[n].body, state |-> shop[n].state]
    /\ issued \in Nat

\* While a search runs it has seen what every merchant serves.
SeesWhatIsServed ==
    search.at \notin {"idle", "done"} => \A m \in Merchants : live[m] \in search.seen

\* A merchant revokes its own records, and takes nothing back.
GoneIsRevoked ==
    /\ \A m \in Merchants : \A r \in revoked[m] : r.merchant = m
    /\ search.gone \subseteq UNION {revoked[m] : m \in Merchants}

\* What a search knows of its record so far: no error means that it was checked.
CheckedSoFar ==
    /\ search.at \in {"proof", "revocation", "manifest", "quote"} =>
          StaticErrors(search.record) \subseteq search.errors
    /\ search.at \in {"revocation", "manifest", "quote"} /\ search.errors = {} =>
          search.record \in search.seen
    /\ search.at \in {"manifest", "quote"} /\ search.errors = {} =>
          (search.record.revocable => search.record \notin search.gone)
    /\ search.at = "quote" => search.errors = {}

\* What is said of the record of a quote.
Verified(r) ==
    /\ StaticErrors(r) = {} /\ r \in search.seen
    /\ r.revocable => r \notin search.gone

(***************************************************************************)
(* The inductive invariant of a purchase                                   *)
(***************************************************************************)
Known == quotes \cup search.offers

\* A quote is known by its number, and its record is verified and its merchant's.
QuotesAreVerified ==
    /\ \A q \in Known : q.number \in 1 .. issued
    /\ \A p, q \in Known : p.number = q.number => p = q
    /\ \A q \in Known :
          q.record # None => /\ search.at # "idle" /\ Verified(q.record)
                             /\ q.merchant = q.record.merchant

\* An approval is of a quote the agent holds and nothing is wrong with.
Approvable(hash) ==
    /\ hash = ApprovalHash(hash.quote, hash.rail)
    /\ hash.quote \in quotes /\ hash.rail \in Rails
    /\ ExecutionIssues(hash.quote, hash.rail) = {}

ApprovalsAreApprovable == \A hash \in approved : Approvable(hash)

\* A handoff says what the approval it is for says.
HandoffsAreApproved ==
    \A h \in handoffs :
        LET hash == h.request.approval
        IN  hash \in approved /\ h = HandedOff(hash.quote, hash.rail, h.at)

\* What may be paid was handed off, and by authorization only to a verified seller.
Payable(request) ==
    /\ \E h \in handoffs : h.request = request
    /\ request.destination.rail = "x402-compatible" => request.destination.registryVerified

ReceiptsArePayable == \A receipt \in receipts : Payable(receipt.request)

\* A checkout carries the receipt of the approval it is for.
PostsAreApproved ==
    \A b \in posts :
        /\ b.receipt \in receipts /\ b.decision.approval \in approved
        /\ b.receipt.request.approval = b.decision.approval
        /\ b.decision.approval.rail = b.rail /\ b.to = b.quote.merchant

LedgerIsPayable ==
    \A t \in ledger : t = Transfer(t.request) /\ Payable(t.request)

\* Two transfers are for two approvals.
OneTransferEach ==
    \A s, t \in ledger : s.request.approval = t.request.approval => s = t

PaidIsSettled ==
    \A n \in 1 .. MaxQuotes :
        shop[n].state = "paid" => Settled(shop[n].body.receipt.request)

SearchInv == SeesWhatIsServed /\ GoneIsRevoked /\ CheckedSoFar

MoneyInv ==
    /\ ApprovalsAreApprovable /\ HandoffsAreApproved /\ ReceiptsArePayable
    /\ PostsAreApproved /\ LedgerIsPayable /\ OneTransferEach /\ PaidIsSettled

SInv == Shapes /\ SearchInv /\ QuotesAreVerified /\ MoneyInv

(***************************************************************************)
(* What a step leaves as it is                                             *)
(***************************************************************************)
LEMMA ShapesStay ==
    ASSUME Shapes, UNCHANGED <<market, search, shop, issued>> PROVE Shapes'
BY DEF Shapes, market

LEMMA SearchStays ==
    ASSUME SearchInv, UNCHANGED <<market, search>> PROVE SearchInv'
BY DEF SearchInv, SeesWhatIsServed, GoneIsRevoked, CheckedSoFar, market

\* Nothing in the money depends on the search, and of the quotes none is lost.
LEMMA MoneyStays ==
    ASSUME MoneyInv, quotes \subseteq quotes',
           UNCHANGED <<approved, handoffs, receipts, posts, shop, ledger>>
    PROVE  MoneyInv'
<1>1. ApprovalsAreApprovable' /\ HandoffsAreApproved'
  BY DEF MoneyInv, ApprovalsAreApprovable, Approvable, HandoffsAreApproved
<1>2. ReceiptsArePayable' /\ PostsAreApproved' /\ LedgerIsPayable'
  BY DEF MoneyInv, ReceiptsArePayable, Payable, PostsAreApproved, LedgerIsPayable
<1>3. OneTransferEach' /\ PaidIsSettled'
  BY DEF MoneyInv, OneTransferEach, PaidIsSettled, Settled
<1>. QED
  BY <1>1, <1>2, <1>3 DEF MoneyInv

\* What is verified stays verified while the search only sees more.
LEMMA QuotesStay ==
    ASSUME QuotesAreVerified, Known' \subseteq Known, issued' = issued,
           search.at # "idle" => search'.at # "idle",
           search.at # "idle" =>
               search.seen \subseteq search'.seen /\ search'.gone = search.gone
    PROVE  QuotesAreVerified'
BY DEF QuotesAreVerified, Verified

(***************************************************************************)
(* The search                                                              *)
(***************************************************************************)
LEMMA StartKeeps == ASSUME SInv, StartSearch PROVE SInv'
<1>1. /\ search.at = "idle"
      /\ search' = [search EXCEPT !.at = "next", !.todo = Sample(scene.listed, scene.limit),
                                  !.gone = UNION {revoked[m] : m \in Merchants},
                                  !.seen = {live[m] : m \in Merchants}]
      /\ UNCHANGED <<market, issued, quotes, approved, handoffs, receipts, posts, shop, ledger>>
  BY DEF StartSearch, held
<1>2. /\ search'.at = "next" /\ search'.offers = search.offers
      /\ search'.gone = UNION {revoked[m] : m \in Merchants}
      /\ search'.seen = {live[m] : m \in Merchants}
      /\ Shapes'
  BY <1>1 DEF SInv, Shapes, market
<1>3. SearchInv'
  BY <1>1, <1>2 DEF SInv, SearchInv, SeesWhatIsServed, GoneIsRevoked, CheckedSoFar, market
<1>4. QuotesAreVerified'
  BY <1>1, <1>2, QuotesStay DEF SInv, Known
<1>. QED
  BY <1>1, <1>2, <1>3, <1>4, MoneyStays DEF SInv

\* A step of a search that takes up or drops a record, or learns about it.
LEMMA SearchingKeeps ==
    ASSUME SInv, search.at \notin {"idle", "done"},
           search'.at \in {"next", "proof", "revocation", "manifest", "quote"},
           search' = [at |-> search'.at, todo |-> search'.todo, record |-> search'.record,
                      errors |-> search'.errors, offers |-> search.offers,
                      tried |-> search'.tried, gone |-> search.gone, seen |-> search.seen,
                      product |-> search'.product],
           CheckedSoFar',
           UNCHANGED <<market, issued, held, shop, ledger>>
    PROVE  SInv'
<1>1. Shapes'
  BY DEF SInv, Shapes, market
<1>2. search'.offers = search.offers /\ search'.gone = search.gone /\ search'.seen = search.seen
  OBVIOUS
<1>3. SearchInv'
  BY <1>2 DEF SInv, SearchInv, SeesWhatIsServed, GoneIsRevoked, market
<1>4. QuotesAreVerified'
  BY <1>2, QuotesStay DEF SInv, Known, held
<1>. QED
  BY <1>1, <1>3, <1>4, MoneyStays DEF SInv, held

LEMMA NextRecordKeeps == ASSUME SInv, NextRecord PROVE SInv'
<1>. DEFINE r == Head(search.todo)
<1>1. search.at = "next" /\ UNCHANGED <<market, issued, held, shop, ledger>>
  BY DEF NextRecord
<1>2. search' = [at |-> "proof", todo |-> Tail(search.todo), record |-> r,
                 errors |-> StaticErrors(r), offers |-> search.offers,
                 tried |-> Append(search.tried, r), gone |-> search.gone,
                 seen |-> search.seen,
                 product |-> search.product]
  BY DEF NextRecord, SInv, Shapes
<1>. HIDE DEF r
<1>3. CheckedSoFar'
  BY <1>2 DEF CheckedSoFar
<1>. QED
  BY <1>1, <1>2, <1>3, SearchingKeeps

\* A proof without an error is of the very record, and a search sees what is served.
LEMMA FetchProofKeeps ==
    ASSUME SInv, NEW m \in Merchants, FetchProof(m) PROVE SInv'
<1>. DEFINE r == search.record
<1>1. search.at = "proof" /\ UNCHANGED <<market, issued, held, shop, ledger>>
  BY DEF FetchProof, Fetches
<1>2. PICK doc \in {live[m], None} :
         search' = [at |-> IF r.revocable THEN "revocation" ELSE "manifest",
                    todo |-> search.todo, record |-> r,
                    errors |-> search.errors \cup ProofErrors(r, doc),
                    offers |-> search.offers, tried |-> search.tried,
                    gone |-> search.gone, seen |-> search.seen,
                    product |-> search.product]
  <2>1. Fetched(live[m]) \subseteq {live[m], None}
    BY DEF Fetched
  <2>2. \E doc \in Fetched(live[m]) :
           search' = [search EXCEPT
               !.at = IF r.revocable THEN "revocation" ELSE "manifest",
               !.errors = @ \cup ProofErrors(r, doc)]
    BY DEF FetchProof, ControlDocument
  <2>. QED
    BY <2>1, <2>2 DEF SInv, Shapes
<1>3. ProofErrors(r, doc) = {} => r = live[m]
  BY <1>2 DEF ProofErrors
<1>4. live[m] \in search.seen
  BY <1>1 DEF SInv, SearchInv, SeesWhatIsServed
<1>5. StaticErrors(r) \subseteq search.errors
  BY <1>1 DEF SInv, SearchInv, CheckedSoFar
<1>. HIDE DEF r
<1>6. CheckedSoFar'
  BY <1>2, <1>3, <1>4, <1>5 DEF CheckedSoFar
<1>. QED
  BY <1>1, <1>2, <1>6, SearchingKeeps

\* What was revoked when the search began is still revoked when it asks.
LEMMA FetchRevocationKeeps ==
    ASSUME SInv, NEW m \in Merchants, FetchRevocation(m) PROVE SInv'
<1>. DEFINE r == search.record
<1>1. /\ search.at = "revocation" /\ r.merchant = m
      /\ UNCHANGED <<market, issued, held, shop, ledger>>
  BY DEF FetchRevocation, Fetches
<1>2. PICK more :
         /\ more # {} \/ more = RevocationErrors(r, revoked[m])
         /\ search' = [at |-> "manifest", todo |-> search.todo, record |-> r,
                       errors |-> search.errors \cup more,
                       offers |-> search.offers, tried |-> search.tried,
                       gone |-> search.gone, seen |-> search.seen,
                       product |-> search.product]
  BY DEF FetchRevocation, ControlDocument, SInv, Shapes
<1>3. r \in revoked[m] => more # {}
  BY <1>2 DEF RevocationErrors, Revokes
<1>4. r \in search.gone => r \in revoked[m]
  BY <1>1 DEF SInv, SearchInv, GoneIsRevoked
<1>5. StaticErrors(r) \subseteq search.errors /\ (search.errors = {} => r \in search.seen)
  BY <1>1 DEF SInv, SearchInv, CheckedSoFar
<1>. HIDE DEF r
<1>6. CheckedSoFar'
  BY <1>2, <1>3, <1>4, <1>5 DEF CheckedSoFar
<1>. QED
  BY <1>1, <1>2, <1>6, SearchingKeeps

LEMMA FetchManifestKeeps ==
    ASSUME SInv, NEW m \in Merchants, FetchManifest(m) PROVE SInv'
<1>. DEFINE r == search.record
<1>1. search.at = "manifest" /\ UNCHANGED <<market, issued, held, shop, ledger>>
  BY DEF FetchManifest, Fetches
<1>2. PICK more :
         search' = [at |-> IF search.errors \cup more = {} THEN "quote" ELSE "next",
                    todo |-> search.todo, record |-> r,
                    errors |-> search.errors \cup more,
                    offers |-> search.offers, tried |-> search.tried,
                    gone |-> search.gone, seen |-> search.seen,
                    product |-> 1]
  <2>1. PICK doc \in Fetched(live[m]) :
           LET errors == search.errors \cup ManifestErrors(r, ManifestDocument(r, doc))
                                       \cup AdmissionErrors(r)
           IN  search' = [search EXCEPT !.errors = errors, !.product = 1,
                                        !.at = IF errors = {} THEN "quote" ELSE "next"]
    BY DEF FetchManifest
  <2>. DEFINE more == ManifestErrors(r, ManifestDocument(r, doc)) \cup AdmissionErrors(r)
  <2>2. search.errors \cup more = search.errors \cup ManifestErrors(r, ManifestDocument(r, doc))
                                                 \cup AdmissionErrors(r)
    OBVIOUS
  <2>. HIDE DEF more
  <2>3. search' = [search EXCEPT !.errors = search.errors \cup more, !.product = 1,
                       !.at = IF search.errors \cup more = {} THEN "quote" ELSE "next"]
    BY <2>1, <2>2
  <2>. QED
    BY <2>3 DEF SInv, Shapes
<1>3. /\ StaticErrors(r) \subseteq search.errors
      /\ search.errors = {} => /\ r \in search.seen
                               /\ r.revocable => r \notin search.gone
  BY <1>1 DEF SInv, SearchInv, CheckedSoFar
<1>. HIDE DEF r
<1>4. CheckedSoFar'
  BY <1>2, <1>3 DEF CheckedSoFar
<1>. QED
  BY <1>1, <1>2, <1>4, SearchingKeeps

\* After a product comes another of its merchant, or another merchant.
LEMMA OnwardFromQuote ==
    ASSUME SInv, search.at = "quote"
    PROVE  \E at \in {"next", "quote"}, product \in {search.product, search.product + 1} :
              NextProduct = [at |-> at, todo |-> search.todo, record |-> search.record,
                             errors |-> search.errors, offers |-> search.offers,
                             tried |-> search.tried, gone |-> search.gone, seen |-> search.seen,
                             product |-> product]
<1>1. NextProduct \in {[search EXCEPT !.product = @ + 1], Searching("next")}
  BY DEF NextProduct
<1>. QED
  BY <1>1 DEF Searching, SInv, Shapes

LEMMA NoQuoteKeeps == ASSUME SInv, NoQuote PROVE SInv'
<1>1. search.at = "quote" /\ UNCHANGED <<market, issued, held, shop, ledger>>
  BY DEF NoQuote
<1>2. PICK at \in {"next", "quote"}, product \in {search.product, search.product + 1} :
         search' = [at |-> at, todo |-> search.todo, record |-> search.record,
                    errors |-> search.errors, offers |-> search.offers,
                    tried |-> search.tried, gone |-> search.gone, seen |-> search.seen,
                    product |-> product]
  BY <1>1, OnwardFromQuote DEF NoQuote, Searching, SInv, Shapes
<1>3. CheckedSoFar'
  BY <1>1, <1>2 DEF SInv, SearchInv, CheckedSoFar
<1>. QED
  BY <1>1, <1>2, <1>3, SearchingKeeps

\* A quote that was just issued is a new one.
LEMMA NewQuote ==
    ASSUME SInv, NEW q, q.number = issued + 1, issued' = issued + 1,
           q.record # None => /\ search.at # "idle" /\ Verified(q.record)
                              /\ q.merchant = q.record.merchant,
           Known' \subseteq Known \cup {q},
           search'.at = "idle" => search.at = "idle",
           search'.seen = search.seen, search'.gone = search.gone
    PROVE  QuotesAreVerified' /\ issued' \in Nat
<1>1. issued \in Nat /\ issued' \in Nat
  BY DEF SInv, Shapes
<1>2. \A p \in Known : p.number \in 1 .. issued
  BY DEF SInv, QuotesAreVerified
<1>3. \A p \in Known' : p.number \in 1 .. issued'
  BY <1>1, <1>2
<1>4. \A p \in Known : p.number # q.number
  BY <1>1, <1>2
<1>5. \A p, o \in Known' : p.number = o.number => p = o
  BY <1>4 DEF SInv, QuotesAreVerified
<1>6. \A p \in Known' :
         p.record # None => /\ search'.at # "idle" /\ Verified(p.record)'
                            /\ p.merchant = p.record.merchant
  BY DEF SInv, QuotesAreVerified, Verified
<1>. QED
  BY <1>1, <1>3, <1>5, <1>6 DEF QuotesAreVerified

LEMMA QuoteRecordKeeps == ASSUME SInv, QuoteRecord PROVE SInv'
<1>. DEFINE q == Answer(search.record.merchant, search.product, search.record, scene.complete)
<1>1. /\ search.at = "quote" /\ issued' = issued + 1
      /\ UNCHANGED <<market, held, shop, ledger>>
  BY DEF QuoteRecord
<1>2. PICK at \in {"next", "quote"}, offers \in SUBSET (search.offers \cup {q}) :
         \E product \in {search.product, search.product + 1} :
            search' = [at |-> at, todo |-> search.todo, record |-> search.record,
                       errors |-> search.errors, offers |-> offers,
                       tried |-> search.tried, gone |-> search.gone, seen |-> search.seen,
                       product |-> product]
  <2>1. PICK offers \in {search.offers, search.offers \cup {q}} :
           search' = [NextProduct EXCEPT !.offers = offers]
    <3>1. NextProduct.offers = search.offers
      BY <1>1, OnwardFromQuote
    <3>. QED
      BY <3>1 DEF QuoteRecord
  <2>2. PICK at \in {"next", "quote"}, product \in {search.product, search.product + 1} :
           NextProduct = [at |-> at, todo |-> search.todo, record |-> search.record,
                          errors |-> search.errors, offers |-> search.offers,
                          tried |-> search.tried, gone |-> search.gone, seen |-> search.seen,
                          product |-> product]
    BY <1>1, OnwardFromQuote
  <2>. HIDE DEF q, NextProduct
  <2>3. offers \in SUBSET (search.offers \cup {q})
    BY <2>1
  <2>4. search' = [at |-> at, todo |-> search.todo, record |-> search.record,
                   errors |-> search.errors, offers |-> offers,
                   tried |-> search.tried, gone |-> search.gone, seen |-> search.seen,
                   product |-> product]
    BY <2>1, <2>2
  <2>. QED
    BY <2>3, <2>4
<1>3. /\ q.number = issued + 1 /\ q.record = search.record
      /\ q.merchant = search.record.merchant
  BY DEF Answer
<1>4. Verified(search.record)
  BY <1>1 DEF SInv, SearchInv, CheckedSoFar, Verified
<1>. HIDE DEF q
<1>5. Known' \subseteq Known \cup {q}
  BY <1>1, <1>2 DEF Known, held
<1>6. QuotesAreVerified' /\ issued' \in Nat
  BY <1>1, <1>2, <1>3, <1>4, <1>5, NewQuote
<1>7. Shapes'
  BY <1>1, <1>2, <1>6 DEF SInv, Shapes, market
<1>8. SearchInv'
  BY <1>1, <1>2 DEF SInv, SearchInv, SeesWhatIsServed, GoneIsRevoked, CheckedSoFar, market
<1>. QED
  BY <1>1, <1>6, <1>7, <1>8, MoneyStays DEF SInv, held

LEMMA EndSearchKeeps == ASSUME SInv, EndSearch PROVE SInv'
<1>1. /\ search.at = "next"
      /\ UNCHANGED <<market, issued, approved, handoffs, receipts, posts, shop, ledger>>
      /\ search' = [at |-> "done", todo |-> search.todo, record |-> search.record,
                    errors |-> search.errors, offers |-> search.offers,
                    tried |-> search.tried, gone |-> search.gone, seen |-> search.seen,
                    product |-> search.product]
  BY DEF EndSearch, Searching, SInv, Shapes
<1>2. quotes \subseteq quotes' /\ quotes' \subseteq quotes \cup search.offers
  <2>. DEFINE ranked == Winners(Comparable(search.offers))
  <2>1. ranked \subseteq search.offers
    BY DEF Winners, Comparable
  <2>2. IF ranked = {} THEN quotes' = quotes ELSE \E w \in ranked : quotes' = quotes \cup {w}
    BY DEF EndSearch
  <2>. HIDE DEF ranked
  <2>. QED
    BY <2>1, <2>2
<1>3. Shapes'
  BY <1>1 DEF SInv, Shapes, market
<1>4. SearchInv'
  BY <1>1 DEF SInv, SearchInv, SeesWhatIsServed, GoneIsRevoked, CheckedSoFar, market
<1>5. QuotesAreVerified'
  BY <1>1, <1>2, QuotesStay DEF SInv, Known
<1>. QED
  BY <1>1, <1>2, <1>3, <1>4, <1>5, MoneyStays DEF SInv

(***************************************************************************)
(* The merchants and the clock                                             *)
(***************************************************************************)
LEMMA RotateKeeps == ASSUME SInv, NEW m \in Merchants, Rotate(m) PROVE SInv'
<1>1. PICK r :
         /\ live' = [live EXCEPT ![m] = r]
         /\ search' = IF search.at \in {"idle", "done"} THEN search
                      ELSE [search EXCEPT !.seen = search.seen \cup {r}]
         /\ UNCHANGED <<revoked, issued, held, shop, ledger>>
  BY DEF Rotate, SInv, Shapes
<1>2. /\ search'.at = search.at /\ search'.record = search.record
      /\ search'.errors = search.errors /\ search'.offers = search.offers
      /\ search'.gone = search.gone /\ search.seen \subseteq search'.seen
      /\ search.at \notin {"idle", "done"} => r \in search'.seen
      /\ Shapes'
  BY <1>1 DEF SInv, Shapes
<1>3. live'[m] = r /\ \A n \in Merchants : n # m => live'[n] = live[n]
  BY <1>1 DEF SInv, Shapes
<1>4. SeesWhatIsServed'
  BY <1>2, <1>3 DEF SInv, SearchInv, SeesWhatIsServed
<1>5. GoneIsRevoked'
  BY <1>1, <1>2 DEF SInv, SearchInv, GoneIsRevoked
<1>6. CheckedSoFar'
  BY <1>2 DEF SInv, SearchInv, CheckedSoFar
<1>7. QuotesAreVerified'
  BY <1>1, <1>2, QuotesStay DEF SInv, Known, held
<1>. QED
  BY <1>1, <1>2, <1>4, <1>5, <1>6, <1>7, MoneyStays DEF SInv, SearchInv, held

LEMMA RevokeKeeps == ASSUME SInv, NEW r, Revoke(r) PROVE SInv'
<1>1. /\ revoked' = [revoked EXCEPT ![r.merchant] = revoked[r.merchant] \cup {r}]
      /\ UNCHANGED <<live, issued, search, held, shop, ledger>>
  BY DEF Revoke
<1>2. /\ revoked' = [m \in Merchants |-> revoked'[m]]
      /\ \A m \in Merchants :
            revoked'[m] = IF m = r.merchant THEN revoked[m] \cup {r} ELSE revoked[m]
  BY <1>1 DEF SInv, Shapes
<1>3. Shapes'
  BY <1>1, <1>2 DEF SInv, Shapes
<1>4. GoneIsRevoked'
  BY <1>1, <1>2 DEF SInv, SearchInv, GoneIsRevoked
<1>5. SeesWhatIsServed' /\ CheckedSoFar'
  BY <1>1 DEF SInv, SearchInv, SeesWhatIsServed, CheckedSoFar
<1>6. QuotesAreVerified'
  BY <1>1, QuotesStay DEF SInv, Known, held
<1>. QED
  BY <1>1, <1>3, <1>4, <1>5, <1>6, MoneyStays DEF SInv, SearchInv, held

(***************************************************************************)
(* Purchases                                                               *)
(***************************************************************************)
LEMMA AskForQuoteKeeps == ASSUME SInv, AskForQuote PROVE SInv'
<1>0. PICK base \in Merchants, record \in Trusted \cup {None} :
         /\ record # None => search.at = "done"
         /\ \E n \in DOMAIN live[base].catalog : RequestQuote(base, n, record)
  BY DEF AskForQuote
<1>1. PICK n \in DOMAIN live[base].catalog : RequestQuote(base, n, record)
  BY <1>0
<1>. DEFINE q == Answer(base, n, record, TRUE)
<1>2. /\ issued' = issued + 1 /\ quotes' \in {quotes, quotes \cup {q}}
      /\ record # None => record.merchant = base
      /\ UNCHANGED <<market, search, approved, handoffs, receipts, posts, shop, ledger>>
  BY <1>1 DEF RequestQuote
<1>3. q.number = issued + 1 /\ q.record = record /\ q.merchant = base
  BY DEF Answer
<1>4. record # None => Verified(record)
  BY <1>0 DEF Trusted, SInv, QuotesAreVerified, Known
<1>. HIDE DEF q
<1>5. Known' \subseteq Known \cup {q}
  BY <1>2 DEF Known
<1>6. QuotesAreVerified' /\ issued' \in Nat
  BY <1>0, <1>2, <1>3, <1>4, <1>5, NewQuote
<1>7. Shapes'
  BY <1>2, <1>6 DEF SInv, Shapes, market
<1>. QED
  BY <1>2, <1>6, <1>7, SearchStays, MoneyStays DEF SInv

\* The steps that only change what the agent holds, or the money.
LEMMA HoldingKeeps ==
    ASSUME SInv, UNCHANGED <<market, issued, search, quotes>>, Shapes', MoneyInv'
    PROVE  SInv'
<1>1. QuotesAreVerified'
  BY QuotesStay DEF SInv, Known
<1>. QED
  BY <1>1, SearchStays DEF SInv

LEMMA ApproveKeeps ==
    ASSUME SInv, NEW q \in quotes, NEW rail \in Rails, Approve(q, rail) PROVE SInv'
<1>. DEFINE hash == ApprovalHash(q, rail)
<1>1. /\ approved' = approved \cup {hash} /\ ExecutionIssues(q, rail) = {}
      /\ UNCHANGED <<market, issued, search, quotes, handoffs, receipts, posts, shop, ledger>>
  BY DEF Approve
<1>2. hash.quote = q /\ hash.rail = rail
  BY DEF ApprovalHash
<1>3. Approvable(hash)
  BY <1>1, <1>2 DEF Approvable
<1>. HIDE DEF hash
<1>4. ApprovalsAreApprovable'
  BY <1>1, <1>3 DEF SInv, MoneyInv, ApprovalsAreApprovable, Approvable
<1>5. HandoffsAreApproved' /\ ReceiptsArePayable' /\ PostsAreApproved' /\ LedgerIsPayable'
  BY <1>1 DEF SInv, MoneyInv, HandoffsAreApproved, ReceiptsArePayable, Payable,
              PostsAreApproved, LedgerIsPayable
<1>6. OneTransferEach' /\ PaidIsSettled'
  BY <1>1 DEF SInv, MoneyInv, OneTransferEach, PaidIsSettled, Settled
<1>. QED
  BY <1>1, <1>4, <1>5, <1>6, HoldingKeeps, ShapesStay DEF SInv, MoneyInv

LEMMA PaymentHandoffKeeps ==
    ASSUME SInv, NEW q \in quotes, NEW rail \in Rails, NEW hash \in approved, NEW at,
           PaymentHandoff(q, rail, hash, at)
    PROVE  SInv'
<1>. DEFINE h == HandedOff(q, rail, at)
<1>1. /\ handoffs' = handoffs \cup {h} /\ hash = ApprovalHash(q, rail)
      /\ UNCHANGED <<market, issued, search, quotes, approved, receipts, posts, shop, ledger>>
  BY DEF PaymentHandoff, MatchesApproval
<1>2. hash.quote = q /\ hash.rail = rail
  BY <1>1 DEF ApprovalHash
<1>3. h.request.approval = hash /\ h.at = at
  BY <1>1 DEF HandedOff, PaymentRequest
<1>4. h = HandedOff(hash.quote, hash.rail, h.at)
  BY <1>2, <1>3
<1>. HIDE DEF h
<1>5. HandoffsAreApproved'
  BY <1>1, <1>3, <1>4 DEF SInv, MoneyInv, HandoffsAreApproved
<1>6. ReceiptsArePayable' /\ PostsAreApproved' /\ LedgerIsPayable' /\ ApprovalsAreApprovable'
  BY <1>1 DEF SInv, MoneyInv, ReceiptsArePayable, Payable, PostsAreApproved,
              LedgerIsPayable, ApprovalsAreApprovable, Approvable
<1>7. OneTransferEach' /\ PaidIsSettled'
  BY <1>1 DEF SInv, MoneyInv, OneTransferEach, PaidIsSettled, Settled
<1>. QED
  BY <1>1, <1>5, <1>6, <1>7, HoldingKeeps, ShapesStay DEF SInv, MoneyInv

\* The rail of a request is the one that was approved.
LEMMA RequestSaysTheRail ==
    ASSUME NEW q, NEW rail, NEW at
    PROVE  LET request == PaymentRequest(q, rail, at) IN
           /\ request.destination.rail = rail
           /\ request.destination.account = q.pay[rail]
           /\ request.quote = q.number
           /\ request.destination.registryVerified => q.record # None
BY DEF PaymentRequest, PaymentDestination, RegistryDestination

LEMMA SignKeeps ==
    ASSUME SInv, NEW h \in handoffs, NEW q \in quotes, NEW hash \in approved,
           SignX402(h, q, hash)
    PROVE  SInv'
<1>1. /\ receipts' = receipts \cup {Receipt(h)} /\ Signable(h, q, hash)
      /\ UNCHANGED <<market, issued, search, quotes, approved, handoffs, posts, shop, ledger>>
  BY DEF SignX402
<1>2. Payable(Receipt(h).request)
  BY <1>1 DEF Payable, Receipt, Signable
<1>3. ReceiptsArePayable'
  BY <1>1, <1>2 DEF SInv, MoneyInv, ReceiptsArePayable, Payable
<1>4. ApprovalsAreApprovable' /\ HandoffsAreApproved' /\ PostsAreApproved' /\ LedgerIsPayable'
  BY <1>1 DEF SInv, MoneyInv, ApprovalsAreApprovable, Approvable, HandoffsAreApproved,
              PostsAreApproved, LedgerIsPayable, Payable
<1>5. OneTransferEach' /\ PaidIsSettled'
  BY <1>1 DEF SInv, MoneyInv, OneTransferEach, PaidIsSettled, Settled
<1>. QED
  BY <1>1, <1>3, <1>4, <1>5, HoldingKeeps, ShapesStay DEF SInv, MoneyInv

\* What is payable was approved, for a quote the agent holds.
LEMMA PayableIsApproved ==
    ASSUME SInv, NEW request, Payable(request)
    PROVE  LET hash == request.approval
               q == hash.quote
           IN  /\ hash \in approved /\ Approvable(hash)
               /\ request.quote = q.number
               /\ request.destination.rail = hash.rail
               /\ request.destination.account = q.pay[hash.rail]
               /\ hash.rail = "x402-compatible" =>
                      /\ q.record # None /\ request.nonce = AuthorizationNonce(q)
               /\ \E at : request = PaymentRequest(q, hash.rail, at)
<1>. DEFINE hash == request.approval
            q == hash.quote
<1>1. PICK h \in handoffs : h.request = request
  BY DEF Payable
<1>2. hash \in approved /\ h = HandedOff(q, hash.rail, h.at)
  BY <1>1 DEF SInv, MoneyInv, HandoffsAreApproved
<1>3. Approvable(hash)
  BY <1>2 DEF SInv, MoneyInv, ApprovalsAreApprovable
<1>4. request = PaymentRequest(q, hash.rail, h.at)
  BY <1>1, <1>2 DEF HandedOff
<1>. HIDE DEF hash
<1>5. /\ request.destination.rail = hash.rail /\ request.quote = q.number
      /\ request.destination.account = q.pay[hash.rail]
      /\ request.destination.registryVerified => q.record # None
  BY <1>4, RequestSaysTheRail
<1>6. hash.rail = "x402-compatible" => request.nonce = AuthorizationNonce(q)
  BY <1>4 DEF PaymentRequest
<1>. QED
  BY <1>2, <1>3, <1>4, <1>5, <1>6 DEF Payable, hash

\* Money of an approval nothing was transferred for yet.
LEMMA TransferKeeps ==
    ASSUME SInv, NEW request, Payable(request),
           ledger' = ledger \cup {Transfer(request)},
           \A t \in ledger : t.request.approval # request.approval,
           UNCHANGED <<approved, handoffs>>
    PROVE  LedgerIsPayable' /\ OneTransferEach'
<1>1. Transfer(request).request = request
  BY DEF Transfer
<1>2. \A t \in ledger' : t = Transfer(t.request) /\ Payable(t.request)'
  BY <1>1 DEF SInv, MoneyInv, LedgerIsPayable, Payable
<1>3. \A t \in ledger : t.request.approval # Transfer(request).request.approval
  BY <1>1
<1>4. \A s, t \in ledger : s.request.approval = t.request.approval => s = t
  BY DEF SInv, MoneyInv, OneTransferEach
<1>. HIDE DEF Transfer
<1>5. \A s, t \in ledger' : s.request.approval = t.request.approval => s = t
  BY <1>3, <1>4
<1>6. LedgerIsPayable'
  BY <1>2 DEF LedgerIsPayable, Transfer
<1>. QED
  BY <1>5, <1>6 DEF OneTransferEach

\* On this rail the request depends on nothing but the approval, so that a
\* renewed handoff is the same payment.
LEMMA PayTempoKeeps == ASSUME SInv, NEW h \in handoffs, PayTempo(h) PROVE SInv'
<1>. DEFINE request == h.request
<1>1. /\ request.destination.rail = "tempo-mpp" /\ Transfer(request) \notin ledger
      /\ ledger' = ledger \cup {Transfer(request)}
      /\ receipts' = receipts \cup {Receipt(h)}
      /\ UNCHANGED <<market, issued, search, quotes, approved, handoffs, posts, shop>>
  BY DEF PayTempo
<1>2. Payable(request) /\ Payable(Receipt(h).request)
  BY <1>1 DEF Payable, Receipt
<1>. HIDE DEF request
<1>3. \A t \in ledger : t.request.approval # request.approval
  <2>. SUFFICES ASSUME NEW t \in ledger, t.request.approval = request.approval PROVE FALSE
    OBVIOUS
  <2>1. t = Transfer(t.request) /\ Payable(t.request)
    BY DEF SInv, MoneyInv, LedgerIsPayable
  <2>. DEFINE hash == request.approval
  <2>2. hash.rail = "tempo-mpp"
    BY <1>1, <1>2, PayableIsApproved
  <2>3. PICK at : request = PaymentRequest(hash.quote, hash.rail, at)
    BY <1>2, PayableIsApproved
  <2>4. PICK other : t.request = PaymentRequest(hash.quote, hash.rail, other)
    BY <2>1, PayableIsApproved
  <2>. HIDE DEF hash
  <2>5. request = t.request
    BY <2>2, <2>3, <2>4 DEF PaymentRequest
  <2>. QED
    BY <1>1, <2>1, <2>5
<1>4. LedgerIsPayable' /\ OneTransferEach'
  BY <1>1, <1>2, <1>3, TransferKeeps
<1>5. ReceiptsArePayable'
  BY <1>1, <1>2 DEF SInv, MoneyInv, ReceiptsArePayable, Payable
<1>6. ApprovalsAreApprovable' /\ HandoffsAreApproved' /\ PostsAreApproved' /\ PaidIsSettled'
  BY <1>1 DEF SInv, MoneyInv, ApprovalsAreApprovable, Approvable, HandoffsAreApproved,
              PostsAreApproved, PaidIsSettled, Settled
<1>. QED
  BY <1>1, <1>4, <1>5, <1>6, HoldingKeeps, ShapesStay DEF SInv, MoneyInv

\* A receipt that fits a quote and a rail is of their approval: a quote is known
\* by its number.
LEMMA CheckoutsKeep == ASSUME SInv, Checkouts PROVE SInv'
<1>1. PICK q \in quotes, hash \in approved, receipt \in receipts, base \in Merchants :
         \E h \in {g \in handoffs : g.request = receipt.request}, own \in scene.ids \cup {None} :
             CommandCheckout(q, hash.rail, hash, receipt, h.at, base, own)
  BY DEF Checkouts
<1>0. PICK h \in {g \in handoffs : g.request = receipt.request}, own \in scene.ids \cup {None} :
         CommandCheckout(q, hash.rail, hash, receipt, h.at, base, own)
  BY <1>1
<1>. DEFINE body == CheckoutPayload(q, hash.rail, receipt, h.at, base, own)
<1>2. /\ hash = ApprovalHash(q, hash.rail) /\ base = q.merchant
      /\ ReceiptIssues(receipt, q, hash.rail) = {}
      /\ posts' = posts \cup {body}
      /\ UNCHANGED <<market, issued, search, quotes, approved, handoffs, receipts, shop, ledger>>
  BY <1>0 DEF CommandCheckout, MatchesApproval, CheckoutBase
<1>3. /\ body.decision.approval = hash /\ body.receipt = receipt /\ body.quote = q
      /\ body.rail = hash.rail /\ body.to = base
  BY <1>2 DEF CheckoutPayload, Decision
<1>. HIDE DEF body
<1>4. /\ receipt.request.destination.rail = hash.rail
      /\ receipt.request.quote = q.number
  BY <1>2 DEF ReceiptIssues, ReceiptFieldIssues, ReceiptQuoteIssues
<1>. DEFINE paid == receipt.request.approval
<1>5. Payable(receipt.request)
  BY DEF SInv, MoneyInv, ReceiptsArePayable
<1>6. /\ paid.quote \in quotes /\ paid = ApprovalHash(paid.quote, paid.rail)
      /\ paid.quote.number = q.number /\ paid.rail = hash.rail
  BY <1>4, <1>5, PayableIsApproved DEF Approvable
<1>7. paid.quote = q
  BY <1>6 DEF SInv, QuotesAreVerified, Known
<1>8. receipt.request.approval = hash
  BY <1>2, <1>6, <1>7
<1>9. PostsAreApproved'
  BY <1>2, <1>3, <1>8 DEF SInv, MoneyInv, PostsAreApproved
<1>10. ApprovalsAreApprovable' /\ HandoffsAreApproved' /\ ReceiptsArePayable' /\ LedgerIsPayable'
  BY <1>2 DEF SInv, MoneyInv, ApprovalsAreApprovable, Approvable, HandoffsAreApproved,
              ReceiptsArePayable, LedgerIsPayable, Payable
<1>11. OneTransferEach' /\ PaidIsSettled'
  BY <1>2 DEF SInv, MoneyInv, OneTransferEach, PaidIsSettled, Settled
<1>. QED
  BY <1>2, <1>9, <1>10, <1>11, HoldingKeeps, ShapesStay DEF SInv, MoneyInv

LEMMA BindsKeeps == ASSUME SInv, NEW b \in posts, MerchantBinds(b) PROVE SInv'
<1>1. /\ shop' = [shop EXCEPT ![b.quote.number] = [body |-> b, state |-> "pending"]]
      /\ UNCHANGED <<market, issued, search, quotes, approved, handoffs, receipts, posts, ledger>>
  BY DEF MerchantBinds, held
<1>2. /\ Shapes'
      /\ \A n \in 1 .. MaxQuotes :
            shop'[n] = shop[n] \/ shop'[n].state = "pending"
  BY <1>1 DEF SInv, Shapes, market
<1>3. PaidIsSettled'
  BY <1>1, <1>2 DEF SInv, MoneyInv, PaidIsSettled, Settled
<1>4. ApprovalsAreApprovable' /\ HandoffsAreApproved' /\ ReceiptsArePayable'
  BY <1>1 DEF SInv, MoneyInv, ApprovalsAreApprovable, Approvable, HandoffsAreApproved,
              ReceiptsArePayable, Payable
<1>5. PostsAreApproved' /\ LedgerIsPayable' /\ OneTransferEach'
  BY <1>1 DEF SInv, MoneyInv, PostsAreApproved, LedgerIsPayable, Payable, OneTransferEach
<1>. QED
  BY <1>1, <1>2, <1>3, <1>4, <1>5, HoldingKeeps DEF SInv, MoneyInv

\* An authorization of another handoff of the same approval has the same nonce.
LEMMA VerifiesKeeps == ASSUME SInv, NEW b \in posts, MerchantVerifies(b) PROVE SInv'
<1>. DEFINE request == b.receipt.request
            n == b.quote.number
<1>1. /\ \/ Settled(request) /\ ledger' = ledger
         \/ /\ b.rail = "x402-compatible" /\ ~NonceUsed(request.nonce)
            /\ ledger' = ledger \cup {Transfer(request)}
      /\ shop' = [shop EXCEPT ![n].state = "paid", ![n].body = b]
      /\ UNCHANGED <<market, issued, search, quotes, approved, handoffs, receipts, posts>>
  BY DEF MerchantVerifies, held
<1>2. Payable(request) /\ request.approval.rail = b.rail
  BY DEF SInv, MoneyInv, PostsAreApproved, ReceiptsArePayable
<1>3. LedgerIsPayable' /\ OneTransferEach'
  <2>1. CASE ledger' = ledger
    BY <1>1, <2>1 DEF SInv, MoneyInv, LedgerIsPayable, Payable, OneTransferEach
  <2>2. CASE /\ b.rail = "x402-compatible" /\ ~NonceUsed(request.nonce)
             /\ ledger' = ledger \cup {Transfer(request)}
    <3>. HIDE DEF request
    <3>1. \A t \in ledger : t.request.approval # request.approval
      <4>. SUFFICES ASSUME NEW t \in ledger, t.request.approval = request.approval PROVE FALSE
        OBVIOUS
      <4>1. Payable(t.request)
        BY DEF SInv, MoneyInv, LedgerIsPayable
      <4>2. request.nonce = AuthorizationNonce(request.approval.quote)
        BY <1>2, <2>2, PayableIsApproved
      <4>3. t.request.nonce = AuthorizationNonce(request.approval.quote)
        BY <1>2, <2>2, <4>1, PayableIsApproved
      <4>. QED
        BY <2>2, <4>2, <4>3 DEF NonceUsed
    <3>. QED
      BY <1>1, <1>2, <2>2, <3>1, TransferKeeps
  <2>. QED
    BY <1>1, <2>1, <2>2
<1>4. Transfer(request) \in ledger'
  BY <1>1 DEF Settled
<1>. HIDE DEF n
<1>5. /\ Shapes'
      /\ \A k \in 1 .. MaxQuotes :
            shop'[k] = IF k = n THEN [body |-> b, state |-> "paid"] ELSE shop[k]
  <2>1. \A k \in 1 .. MaxQuotes :
           shop'[k] = IF k = n THEN [[shop[k] EXCEPT !.state = "paid"] EXCEPT !.body = b]
                      ELSE shop[k]
    BY <1>1 DEF SInv, Shapes
  <2>2. \A k \in 1 .. MaxQuotes :
           shop'[k] = IF k = n THEN [body |-> b, state |-> "paid"] ELSE shop[k]
    BY <2>1 DEF SInv, Shapes
  <2>3. shop' = [k \in 1 .. MaxQuotes |-> shop'[k]]
    BY <1>1 DEF SInv, Shapes
  <2>. QED
    BY <1>1, <2>2, <2>3 DEF SInv, Shapes, market
<1>6. PaidIsSettled'
  <2>. SUFFICES ASSUME NEW k \in 1 .. MaxQuotes, shop'[k].state = "paid"
                PROVE  Transfer(shop'[k].body.receipt.request) \in ledger'
    BY DEF PaidIsSettled, Settled
  <2>1. CASE k = n
    BY <1>4, <1>5, <2>1
  <2>2. CASE k # n
    BY <1>1, <1>5, <2>2 DEF SInv, MoneyInv, PaidIsSettled, Settled
  <2>. QED
    BY <2>1, <2>2
<1>7. ApprovalsAreApprovable' /\ HandoffsAreApproved' /\ ReceiptsArePayable'
      /\ PostsAreApproved'
  BY <1>1 DEF SInv, MoneyInv, ApprovalsAreApprovable, Approvable, HandoffsAreApproved,
              ReceiptsArePayable, Payable, PostsAreApproved
<1>. QED
  BY <1>1, <1>3, <1>5, <1>6, <1>7, HoldingKeeps DEF SInv, MoneyInv

(***************************************************************************)
(* Purchases: the theorem                                                  *)
(***************************************************************************)
LEMMA SkillStarts == ASSUME SkillInit PROVE SInv
<1>1. Shapes
  BY DEF SkillInit, Shapes, NoCheckout
<1>2. SearchInv /\ QuotesAreVerified
  BY DEF SkillInit, SearchInv, SeesWhatIsServed, GoneIsRevoked, CheckedSoFar,
         QuotesAreVerified, Known
<1>3. ApprovalsAreApprovable /\ HandoffsAreApproved /\ ReceiptsArePayable
      /\ PostsAreApproved /\ LedgerIsPayable /\ OneTransferEach
  BY DEF SkillInit, ApprovalsAreApprovable, HandoffsAreApproved, ReceiptsArePayable,
         PostsAreApproved, LedgerIsPayable, OneTransferEach
<1>4. PaidIsSettled
  BY DEF SkillInit, PaidIsSettled, NoCheckout
<1>. QED
  BY <1>1, <1>2, <1>3, <1>4 DEF SInv, MoneyInv

LEMMA SkillStays == ASSUME SInv, UNCHANGED <<market, issued, search, held, shop, ledger>> PROVE SInv'
<1>1. MoneyInv'
  BY MoneyStays DEF SInv, held
<1>. QED
  BY <1>1, HoldingKeeps, ShapesStay DEF SInv, held

LEMMA SearchNextKeeps == ASSUME SInv, SearchNext PROVE SInv'
BY StartKeeps, NextRecordKeeps, FetchProofKeeps, FetchRevocationKeeps, FetchManifestKeeps,
   NoQuoteKeeps, QuoteRecordKeeps, EndSearchKeeps DEF SearchNext

LEMMA PurchaseNextKeeps == ASSUME SInv, PurchaseNext PROVE SInv'
BY AskForQuoteKeeps, ApproveKeeps, PaymentHandoffKeeps, SignKeeps, PayTempoKeeps,
   CheckoutsKeep, BindsKeeps, VerifiesKeeps DEF PurchaseNext

LEMMA MarketNextKeeps == ASSUME SInv, MarketNext PROVE SInv'
BY RotateKeeps, RevokeKeeps, SkillStays DEF MarketNext, Tick

\* The invariant holds of every purchase.
LEMMA SkillInvariant == SkillSpec => []SInv
<1>1. SkillInit => SInv
  BY SkillStarts
<1>2. SInv /\ [SkillNext]_skill => SInv'
  BY SearchNextKeeps, PurchaseNextKeeps, MarketNextKeeps, SkillStays DEF SkillNext, skill
<1>. QED
  BY <1>1, <1>2, PTL DEF SkillSpec

\* Money goes to the account the buyer saw and, if the seller is verified, to
\* the one its record commits; a checkout goes to the merchant of its quote
\* under the approval that was paid (approval_packet, payment_destination,
\* supplied_payment_receipt, checkout_base_url_for_quote).
THEOREM PaysAsApproved == SkillSpec => []PaidAsApproved
<1>1. SInv => PaidAsApproved
  <2>. SUFFICES ASSUME SInv PROVE PaidAsApproved
    OBVIOUS
  <2>1. ASSUME NEW t \in ledger
        PROVE  LET hash == t.request.approval
                   q == hash.quote
               IN  /\ hash \in approved
                   /\ t.to = q.pay[hash.rail]
                   /\ q.record # None => /\ q.merchant = q.record.merchant
                                        /\ t.to = q.record.pay[hash.rail]
                   /\ hash.rail = "x402-compatible" => q.record # None
    <3>. DEFINE hash == t.request.approval
                q == hash.quote
    <3>1. t = Transfer(t.request) /\ Payable(t.request)
      BY DEF SInv, MoneyInv, LedgerIsPayable
    <3>2. /\ hash \in approved /\ q \in quotes
          /\ t.request.destination.account = q.pay[hash.rail]
          /\ ExecutionIssues(q, hash.rail) = {}
          /\ hash.rail = "x402-compatible" => q.record # None
      BY <3>1, PayableIsApproved DEF Approvable
    <3>3. t.to = q.pay[hash.rail]
      BY <3>1, <3>2 DEF Transfer
    <3>4. q.record # None => q.merchant = q.record.merchant
      BY <3>2 DEF SInv, QuotesAreVerified, Known
    <3>. HIDE DEF hash
    <3>5. q.record # None => q.pay[hash.rail] = q.record.pay[hash.rail]
      BY <3>2 DEF ExecutionIssues, QuotePaymentIssues, DestinationIssues,
                  DestinationMatches, Bindings
    <3>. QED
      BY <3>2, <3>3, <3>4, <3>5 DEF hash
  <2>2. \A b \in posts : /\ b.decision.approval \in approved
                        /\ b.receipt.request.approval = b.decision.approval
                        /\ b.to = b.quote.merchant
    BY DEF SInv, MoneyInv, PostsAreApproved
  <2>. QED
    BY <2>1, <2>2 DEF PaidAsApproved
<1>. QED
  BY <1>1, SkillInvariant, PTL

\* What is paid on the strength of a record was served by the record's domain
\* while the search ran and was not revoked when it began (verify_registry_record).
THEOREM PaysWhatWasVerified == SkillSpec => []PaidWasVerified
<1>1. SInv => PaidWasVerified
  <2>. SUFFICES ASSUME SInv, NEW t \in ledger, t.request.approval.quote.record # None
                PROVE  Verified(t.request.approval.quote.record)
    BY DEF PaidWasVerified, Verified
  <2>1. Payable(t.request)
    BY DEF SInv, MoneyInv, LedgerIsPayable
  <2>2. t.request.approval.quote \in quotes
    BY <2>1, PayableIsApproved DEF Approvable
  <2>. QED
    BY <2>2 DEF SInv, QuotesAreVerified, Known
<1>. QED
  BY <1>1, SkillInvariant, PTL

\* An approval is paid once, however often its handoff is renewed and its
\* checkout repeated, and a paid order has its money (command_payment_handoff,
\* x402_authorization_nonce, create_order).
THEOREM PaysOnce == SkillSpec => []PaidOnce
<1>1. SInv => PaidOnce
  <2>. SUFFICES ASSUME SInv PROVE PaidOnce
    OBVIOUS
  <2>1. ASSUME NEW hash \in approved
        PROVE  Cardinality({t \in ledger : t.request.approval = hash}) <= 1
    <3>. DEFINE transfers == {t \in ledger : t.request.approval = hash}
    <3>1. \A s, t \in transfers : s = t
      BY DEF SInv, MoneyInv, OneTransferEach
    <3>. HIDE DEF transfers
    <3>2. CASE transfers = {}
      BY <3>2, FS_EmptySet DEF transfers
    <3>3. CASE transfers # {}
      <4>1. PICK t \in transfers : TRUE
        BY <3>3
      <4>2. transfers = {t}
        BY <3>1, <4>1
      <4>3. Cardinality({t}) = 1
        BY FS_Singleton
      <4>. QED
        BY <4>2, <4>3 DEF transfers
    <3>. QED
      BY <3>2, <3>3
  <2>2. \A n \in 1 .. MaxQuotes :
           shop[n].state = "paid" => Settled(shop[n].body.receipt.request)
    BY DEF SInv, MoneyInv, PaidIsSettled
  <2>. QED
    BY <2>1, <2>2 DEF PaidOnce
<1>. QED
  BY <1>1, SkillInvariant, PTL

(***************************************************************************)
(* Audit imports: the inductive invariant                                  *)
(***************************************************************************)
ImportStates == {"absent", "importing", "imported"}

EventRecord == [packet : Packets, event : 1 .. PacketEvents]

AuditTypes ==
    /\ log \in Seq(EventRecord)
    /\ imports \in [Packets -> ImportStates]
    /\ importer \in [Importers -> [packet : Packets \cup {Idle}, event : 0 .. PacketEvents + 1]]

\* The first k events of p are in the log s, in their order.
Logged(s, p, k) ==
    \E at \in [1 .. k -> DOMAIN s] :
        /\ \A n \in 1 .. k : s[at[n]] = ImportedEvent(p, n)
        /\ \A n \in 2 .. k : at[n - 1] < at[n]

\* An import that is at some event has appended those before it.
AppendedInOrder ==
    \A i \in Importers :
        LET p == importer[i].packet
            k == importer[i].event
        IN  p # Idle => k \in 1 .. PacketEvents + 1 /\ Logged(log, p, k - 1)

ImportedIsWhole == \A p \in Packets : imports[p] = "imported" => Logged(log, p, PacketEvents)

AuditInv == AuditTypes /\ AppendedInOrder /\ ImportedIsWhole

(***************************************************************************)
(* Audit imports: steps                                                    *)
(***************************************************************************)
\* What is logged stays logged.
LEMMA LogGrows ==
    ASSUME NEW s \in Seq(EventRecord), NEW e \in EventRecord,
           NEW p, NEW k, Logged(s, p, k)
    PROVE  Logged(Append(s, e), p, k)
<1>. DEFINE t == Append(s, e)
<1>1. PICK at \in [1 .. k -> DOMAIN s] :
         /\ \A n \in 1 .. k : s[at[n]] = ImportedEvent(p, n)
         /\ \A n \in 2 .. k : at[n - 1] < at[n]
  BY DEF Logged
<1>2. DOMAIN s \subseteq DOMAIN t /\ \A j \in DOMAIN s : t[j] = s[j]
  OBVIOUS
<1>. HIDE DEF t
<1>3. at \in [1 .. k -> DOMAIN t]
  BY <1>2
<1>4. \A n \in 1 .. k : t[at[n]] = ImportedEvent(p, n)
  BY <1>1, <1>2
<1>5. Logged(t, p, k)
  BY <1>1, <1>3, <1>4 DEF Logged
<1>. QED
  BY <1>5 DEF t

\* The next event follows those that are logged.
LEMMA LogsNext ==
    ASSUME NEW s \in Seq(EventRecord), NEW p \in Packets, NEW k \in 1 .. PacketEvents,
           Logged(s, p, k - 1)
    PROVE  Logged(Append(s, ImportedEvent(p, k)), p, k)
<1>. DEFINE t == Append(s, ImportedEvent(p, k))
<1>1. PICK at \in [1 .. k - 1 -> DOMAIN s] :
         /\ \A n \in 1 .. k - 1 : s[at[n]] = ImportedEvent(p, n)
         /\ \A n \in 2 .. k - 1 : at[n - 1] < at[n]
  BY DEF Logged
<1>2. /\ Len(s) \in Nat /\ DOMAIN s = 1 .. Len(s)
      /\ DOMAIN t = 1 .. Len(s) + 1 /\ t[Len(s) + 1] = ImportedEvent(p, k)
      /\ \A j \in DOMAIN s : t[j] = s[j]
  <2>1. ImportedEvent(p, k) \in EventRecord
    BY DEF ImportedEvent, EventRecord
  <2>. QED
    BY <2>1
<1>. HIDE DEF t
<1>. DEFINE next == [n \in 1 .. k |-> IF n = k THEN Len(s) + 1 ELSE at[n]]
<1>3. k \in Nat /\ \A n \in 1 .. k : n # k => n \in 1 .. k - 1
  BY DEF PacketEvents
<1>4. next \in [1 .. k -> DOMAIN t]
  BY <1>2, <1>3
<1>5. \A n \in 1 .. k : t[next[n]] = ImportedEvent(p, n)
  BY <1>1, <1>2, <1>3
<1>6. \A n \in 2 .. k : next[n - 1] < next[n]
  <2>. SUFFICES ASSUME NEW n \in 2 .. k PROVE next[n - 1] < next[n]
    OBVIOUS
  <2>1. n - 1 \in 1 .. k - 1 /\ n \in 1 .. k /\ n - 1 \in 1 .. k /\ n - 1 # k
    BY <1>3
  <2>2. next[n - 1] = at[n - 1] /\ at[n - 1] \in 1 .. Len(s)
    BY <1>2, <2>1
  <2>3. CASE n = k
    BY <1>2, <2>1, <2>2, <2>3
  <2>4. CASE n # k
    <3>1. n \in 2 .. k - 1 /\ next[n] = at[n]
      BY <1>3, <2>1, <2>4
    <3>. QED
      BY <1>1, <2>2, <3>1
  <2>. QED
    BY <2>3, <2>4
<1>. HIDE DEF next
<1>7. Logged(t, p, k)
  BY <1>4, <1>5, <1>6 DEF Logged
<1>. QED
  BY <1>7 DEF t

LEMMA AuditStarts == ASSUME AuditInit PROVE AuditInv
<1>1. AuditTypes
  BY DEF AuditInit, AuditTypes, ImportStates, PacketEvents
<1>. QED
  BY <1>1 DEF AuditInit, AuditInv, AppendedInOrder, ImportedIsWhole

LEMMA BeginImportKeeps ==
    ASSUME AuditInv, NEW i \in Importers, NEW p \in Packets, BeginImport(i, p)
    PROVE  AuditInv'
<1>1. /\ imports' = [imports EXCEPT ![p] = "importing"] /\ log' = log
      /\ importer' = [importer EXCEPT ![i] = [packet |-> p, event |-> 1]]
  BY DEF BeginImport
<1>2. AuditTypes'
  BY <1>1 DEF AuditInv, AuditTypes, ImportStates, PacketEvents
<1>3. Logged(log', p, 1 - 1)
  <2>. DEFINE at == [n \in 1 .. 0 |-> 1]
  <2>1. 1 - 1 = 0 /\ at \in [1 .. 0 -> DOMAIN log']
    OBVIOUS
  <2>2. /\ \A n \in 1 .. 0 : log'[at[n]] = ImportedEvent(p, n)
        /\ \A n \in 2 .. 0 : at[n - 1] < at[n]
    OBVIOUS
  <2>3. Logged(log', p, 0)
    BY <2>1, <2>2 DEF Logged
  <2>. QED
    BY <2>1, <2>3
<1>4. AppendedInOrder'
  <2>. SUFFICES ASSUME NEW j \in Importers, importer'[j].packet # Idle
                PROVE  /\ importer'[j].event \in 1 .. PacketEvents + 1
                       /\ Logged(log', importer'[j].packet, importer'[j].event - 1)
    BY DEF AppendedInOrder
  <2>1. CASE j = i
    BY <1>1, <1>3, <2>1 DEF AuditInv, AuditTypes, PacketEvents
  <2>2. CASE j # i
    BY <1>1, <2>2 DEF AuditInv, AuditTypes, AppendedInOrder
  <2>. QED
    BY <2>1, <2>2
<1>5. ImportedIsWhole'
  BY <1>1 DEF AuditInv, AuditTypes, ImportStates, ImportedIsWhole
<1>. QED
  BY <1>2, <1>4, <1>5 DEF AuditInv

LEMMA AppendEventKeeps ==
    ASSUME AuditInv, NEW i \in Importers, AppendEvent(i) PROVE AuditInv'
<1>. DEFINE p == importer[i].packet
            k == importer[i].event
            e == ImportedEvent(p, k)
<1>1. /\ p \in Packets /\ k \in 1 .. PacketEvents /\ Logged(log, p, k - 1)
      /\ log' = Append(log, e) /\ imports' = imports
      /\ importer' = [importer EXCEPT ![i].event = k + 1]
  BY DEF AppendEvent, AuditInv, AuditTypes, AppendedInOrder, PacketEvents
<1>2. e \in EventRecord
  BY <1>1 DEF ImportedEvent, EventRecord
<1>3. Logged(log', p, k)
  BY <1>1, LogsNext DEF AuditInv, AuditTypes
<1>. HIDE DEF p, k, e
<1>4. /\ importer'[i].packet = p /\ importer'[i].event = k + 1
      /\ \A j \in Importers : j # i => importer'[j] = importer[j]
      /\ importer' \in [Importers -> [packet : Packets \cup {Idle}, event : 0 .. PacketEvents + 1]]
  BY <1>1 DEF AuditInv, AuditTypes, PacketEvents, p
<1>5. AuditTypes'
  BY <1>1, <1>2, <1>4 DEF AuditInv, AuditTypes
<1>6. AppendedInOrder'
  <2>. SUFFICES ASSUME NEW j \in Importers, importer'[j].packet # Idle
                PROVE  /\ importer'[j].event \in 1 .. PacketEvents + 1
                       /\ Logged(log', importer'[j].packet, importer'[j].event - 1)
    BY DEF AppendedInOrder
  <2>1. CASE j = i
    <3>1. (k + 1) - 1 = k /\ k + 1 \in 1 .. PacketEvents + 1
      BY <1>1 DEF PacketEvents
    <3>. QED
      BY <1>3, <1>4, <2>1, <3>1
  <2>2. CASE j # i
    <3>1. /\ importer'[j] = importer[j]
          /\ importer[j].event \in 1 .. PacketEvents + 1
          /\ Logged(log, importer[j].packet, importer[j].event - 1)
      BY <1>4, <2>2 DEF AuditInv, AppendedInOrder
    <3>. QED
      BY <1>1, <1>2, <3>1, LogGrows DEF AuditInv, AuditTypes
  <2>. QED
    BY <2>1, <2>2
<1>7. ImportedIsWhole'
  <2>. SUFFICES ASSUME NEW q \in Packets, imports[q] = "imported" PROVE Logged(log', q, PacketEvents)
    BY <1>1 DEF ImportedIsWhole
  <2>. QED
    BY <1>1, <1>2, LogGrows DEF AuditInv, AuditTypes, ImportedIsWhole
<1>. QED
  BY <1>5, <1>6, <1>7 DEF AuditInv

LEMMA EndImportKeeps ==
    ASSUME AuditInv, NEW i \in Importers, EndImport(i) PROVE AuditInv'
<1>. DEFINE p == importer[i].packet
<1>1. /\ p \in Packets /\ Logged(log, p, PacketEvents) /\ log' = log
      /\ imports' = [imports EXCEPT ![p] = "imported"]
      /\ importer' = [importer EXCEPT ![i] = [packet |-> Idle, event |-> 0]]
  <2>1. /\ p # Idle /\ importer[i].event > PacketEvents
        /\ importer[i].event \in 1 .. PacketEvents + 1
        /\ Logged(log, p, importer[i].event - 1) /\ p \in Packets
    BY DEF EndImport, AuditInv, AuditTypes, AppendedInOrder
  <2>2. importer[i].event - 1 = PacketEvents
    BY <2>1 DEF PacketEvents
  <2>. QED
    BY <2>1, <2>2 DEF EndImport
<1>. HIDE DEF p
<1>2. AuditTypes'
  BY <1>1 DEF AuditInv, AuditTypes, ImportStates, PacketEvents
<1>3. AppendedInOrder'
  BY <1>1 DEF AuditInv, AuditTypes, AppendedInOrder
<1>4. ImportedIsWhole'
  BY <1>1 DEF AuditInv, AuditTypes, ImportStates, ImportedIsWhole
<1>. QED
  BY <1>2, <1>3, <1>4 DEF AuditInv

\* What a request had appended stays in the log, which the next one repeats.
LEMMA AuditCrashKeeps == ASSUME AuditInv, AuditCrash PROVE AuditInv'
<1>1. /\ importer' = [i \in Importers |-> [packet |-> Idle, event |-> 0]]
      /\ log' = log /\ imports' = imports
  BY DEF AuditCrash
<1>2. AuditTypes'
  BY <1>1 DEF AuditInv, AuditTypes, PacketEvents
<1>3. AppendedInOrder' /\ ImportedIsWhole'
  BY <1>1 DEF AuditInv, AppendedInOrder, ImportedIsWhole
<1>. QED
  BY <1>2, <1>3 DEF AuditInv

LEMMA ImportFailsKeeps ==
    ASSUME AuditInv, NEW i \in Importers, ImportFails(i) PROVE AuditInv'
<1>1. /\ importer' = [importer EXCEPT ![i] = [packet |-> Idle, event |-> 0]]
      /\ log' = log /\ imports' = imports
  BY DEF ImportFails
<1>2. AuditTypes'
  BY <1>1 DEF AuditInv, AuditTypes, PacketEvents
<1>3. AppendedInOrder' /\ ImportedIsWhole'
  BY <1>1 DEF AuditInv, AuditTypes, AppendedInOrder, ImportedIsWhole
<1>. QED
  BY <1>2, <1>3 DEF AuditInv

\* A packet that counts as imported has all of its events in the log, in their
\* order, whatever imports ran at once or were cut off (import_audit_packet).
THEOREM ImportsAreLogged == AuditSpec => []ImportedIsLogged
<1>1. AuditInit => AuditInv
  BY AuditStarts
<1>2. AuditInv /\ [AuditNext]_auditVars => AuditInv'
  <2>1. ASSUME AuditInv, UNCHANGED auditVars PROVE AuditInv'
    BY <2>1 DEF auditVars, AuditInv, AuditTypes, AppendedInOrder, ImportedIsWhole
  <2>. QED
    BY <2>1, BeginImportKeeps, AppendEventKeeps, EndImportKeeps, ImportFailsKeeps,
       AuditCrashKeeps DEF AuditNext
<1>3. AuditInv => ImportedIsLogged
  BY DEF AuditInv, ImportedIsWhole, ImportedIsLogged, Logged
<1>. QED
  BY <1>1, <1>2, <1>3, PTL DEF AuditSpec
=============================================================================
