----------------------------- MODULE DirectSkill -----------------------------
(***************************************************************************)
(* The direct buyer skill: a search that verifies a sample of registry     *)
(* records and asks the merchants behind them for quotes, the approval of  *)
(* one quote, the handoff to a payer, and the checkout, as often as the    *)
(* agent repeats it (shopbridge-command.py).                               *)
(*                                                                         *)
(* Each command is a process that keeps nothing: what the agent holds      *)
(* (quotes, approvals, handoffs, receipts) it may hand to any later        *)
(* command, in any combination and any number of times.  Around it the     *)
(* merchants change what they publish and revoke records between any two   *)
(* requests of a search, an x402 authorization settles once per nonce, a   *)
(* payer pays a handoff once, and a request to check out may arrive late,  *)
(* twice, or stop halfway.  The last part is the import of the packets     *)
(* that tell of checkouts into the log of the buyer gateway.               *)
(***************************************************************************)
EXTENDS RegistryTrust, Integers, Sequences, FiniteSetsExt

CONSTANTS Merchants, MaxTime, MaxQuotes,
          Packets,    \* audit packets, told apart by their hash
          Importers,  \* requests to import one into the gateway
          Idle        \* of a request that works on no packet

ASSUME BoundsAreNaturals == MaxTime \in Nat /\ MaxQuotes \in Nat
ASSUME IdleIsNoPacket == Idle \notin Packets

QuoteLife == 2       \* how long a quote is valid
MaxTimeoutSeconds == 1
BackfillFactor == 3
MaxRecordCandidates == 4  \* MAX_RECORD_CANDIDATES, made small
PacketEvents == 3  \* approval.approved, payment.receipt_supplied, checkout.payload_created

VARIABLES scene,     \* frozen: what is listed, the limit, the rail, what happens
          now,
          live,      \* live[m]: the record whose proof and manifest m serves
          revoked,   \* revoked[m]: the records m's revocation document revokes
          issued,    \* the number of quotes asked for so far
          search,    \* the search for quotes
          quotes,    \* annotated quotes the agent holds
          approved,  \* approval hashes the buyer said yes to
          handoffs,  \* payment handoffs the agent holds
          receipts,  \* receipts the agent holds
          posts,     \* checkout bodies on their way to a merchant
          shop,      \* shop[n]: the checkout quote n is bound to at its merchant
          ledger,    \* transfers of money
          log,       \* the events in the gateway's audit log, in order
          imports,   \* imports[p]: absent, importing or imported, as saved
          importer   \* importer[i]: the packet a request works on, and its next event

market == <<live, revoked>>
held == <<quotes, approved, handoffs, receipts, posts>>
skill == <<scene, now, market, issued, search, held, shop, ledger>>
auditVars == <<log, imports, importer>>
allVars == <<skill, auditVars>>

NoCheckout == [body |-> None, state |-> "none"]

SkillInit ==
    /\ now = 0
    /\ live = [m \in Merchants |-> scene.live[m]]
    /\ revoked = [m \in Merchants |-> {}]
    /\ issued = 0
    /\ search = [at |-> "idle", todo |-> <<>>, record |-> None, errors |-> {}, product |-> 1,
                 offers |-> {}, tried |-> <<>>, gone |-> {}, seen |-> {}]
    /\ quotes = {} /\ approved = {} /\ handoffs = {} /\ receipts = {} /\ posts = {}
    /\ shop = [n \in 1 .. MaxQuotes |-> NoCheckout]
    /\ ledger = {}

(***************************************************************************)
(* The sample of merchants to ask, in the order of the seed.               *)
(***************************************************************************)
Front(s, n) == SubSeq(s, 1, IF n < Len(s) THEN n ELSE Len(s))

Members(s) == {s[i] : i \in DOMAIN s}

Without(s, t) == SelectSeq(s, LAMBDA r : r \notin Members(t))

\* Faulty variant: every brand of an owner is asked.
EveryBrand(listed) == listed

\* Only a scan of the contract reads admissions, and only they tell owners apart.
Admitted(r) == scene.source = "smart_contract" /\ r.entity # None

SameOwner(r, e) == Admitted(r) /\ Admitted(e) /\ r.entity = e.entity

\* One record for each owner the admissions establish.
OnePerEntity(listed) ==
    LET earlier(r) == {listed[i] : i \in 1 .. (CHOOSE n \in DOMAIN listed : listed[n] = r) - 1}
    IN  SelectSeq(listed, LAMBDA r : \A e \in earlier(r) : ~SameOwner(r, e))

\* On a chain with a market, or when asked to, only admitted merchants compare.
AdmissionErrors(r) ==
    IF scene.requireAdmission /\ ~Admitted(r) THEN {"requires_admission"} ELSE {}

\* Those whose facets match, but one that does not has a place, too.
Primary(ordered, limit) ==
    LET matching == SelectSeq(ordered, LAMBDA r : r.facets)
        neutral == Without(ordered, matching)
        chosen == IF neutral # <<>> /\ limit > 1
                  THEN Front(matching, limit - 1) \o Front(neutral, 1)
                  ELSE Front(matching, limit)
    IN  IF matching = <<>> THEN Front(ordered, limit)
        ELSE Front(chosen \o Without(ordered, chosen), limit)

Sample(listed, limit) ==
    LET ordered == OnePerEntity(listed)
        primary == Primary(ordered, limit)
        most == Min({MaxRecordCandidates, limit * BackfillFactor})
    IN  primary \o Front(Without(ordered, primary), Max({0, most - Len(primary)}))

(***************************************************************************)
(* Quotes                                                                  *)
(***************************************************************************)
\* What merchant m answers when asked for the n-th suitable product of its
\* catalogue, annotated with what vouches for m.  The units are those of the
\* product delivered, so many of one kind, or None when they cannot be told.
Answer(m, n, record, complete) ==
    [number |-> issued + 1, merchant |-> m, pay |-> live[m].pay, currency |-> live[m].currency,
     total |-> live[m].catalog[n].total, parts |-> live[m].catalog[n].parts,
     units |-> live[m].catalog[n].units, verifier |-> live[m].verifier,
     complete |-> complete, expires |-> now + QuoteLife, record |-> record]

CanIssue == issued < MaxQuotes

\* The parts of a total add up to it, but for a cent of rounding.
FinancialIssues(q) ==
    IF q.total - q.parts \in -1 .. 1 THEN {} ELSE {"quote_total_components_mismatch"}

\* What keeps a quote from being approved and paid.
ExecutionIssues(q, rail) ==
    QuotePaymentIssues(q, rail) \cup FinancialIssues(q)
        \cup (IF q.complete THEN {} ELSE {"incomplete_delivery_address"})

PreflightIssues(q, rail) ==
    ExecutionIssues(q, rail)
        \cup (IF q.expires <= now THEN {"quote_expired"} ELSE {})
        \cup (IF q.verifier THEN {} ELSE {"external_verifier_required_for_public_checkout"})

LimitIssues(q) == IF scene.most # None /\ q.total > scene.most THEN {"over_buyer_limit"} ELSE {}

\* A comparison keeps to the buyer's limit and does not need the whole address yet.
ComparisonBlockers(q, rail) ==
    (PreflightIssues(q, rail) \cup LimitIssues(q)) \ {"incomplete_delivery_address"}

\* An approval hash stands for the quote, its trust and the rail to pay on.
ApprovalHash(q, rail) == [quote |-> q, rail |-> rail]

(***************************************************************************)
(* The search                                                              *)
(***************************************************************************)
Searching(at) == [search EXCEPT !.at = at]

Asks == scene.asks

StartSearch ==
    /\ Asks /\ search.at = "idle"
    /\ search' = [search EXCEPT !.at = "next", !.todo = Sample(scene.listed, scene.limit),
                                !.gone = UNION {revoked[m] : m \in Merchants},
                                !.seen = {live[m] : m \in Merchants}]
    /\ UNCHANGED <<scene, now, market, issued, held, shop, ledger>>

Succeeded == {o.merchant : o \in {p \in search.offers :
                                     scene.currency \in {None, p.currency}}}

Enough == Cardinality(Succeeded) >= scene.limit

NextRecord ==
    /\ search.at = "next" /\ ~Enough /\ search.todo # <<>>
    /\ LET r == Head(search.todo)
       IN  search' = [search EXCEPT !.at = "proof", !.todo = Tail(@), !.record = r,
                                    !.tried = Append(@, r), !.errors = StaticErrors(r)]
    /\ UNCHANGED <<scene, now, market, issued, held, shop, ledger>>

\* A request fails, or the budget of the search is spent.
Fetched(document) == {document} \cup (IF scene.fails THEN {None} ELSE {})

\* The domain of a record answers, which is that of merchant m.
Fetches(at, m) == search.at = at /\ search.record.merchant = m

FetchProof(m) ==
    /\ Fetches("proof", m)
    /\ LET r == search.record
       IN  \E doc \in Fetched(live[m]) :
              search' = [search EXCEPT
                  !.at = IF r.revocable THEN "revocation" ELSE "manifest",
                  !.errors = @ \cup ProofErrors(r, ControlDocument(r, doc, r))]
    /\ UNCHANGED <<scene, now, market, issued, held, shop, ledger>>

FetchRevocation(m) ==
    /\ Fetches("revocation", m)
    /\ LET r == search.record
       IN  \E failed \in {FALSE} \cup {scene.fails} :
              LET doc == IF failed THEN None ELSE revoked[m]
              IN  search' = [search EXCEPT !.at = "manifest",
                     !.errors = @ \cup IF failed
                                       THEN {"revocation_fetch_failed"}
                                       ELSE RevocationErrors(r, ControlDocument(r, doc, {}))]
    /\ UNCHANGED <<scene, now, market, issued, held, shop, ledger>>

FetchManifest(m) ==
    /\ Fetches("manifest", m)
    /\ LET r == search.record
       IN  \E doc \in Fetched(live[m]) :
              LET errors == search.errors \cup ManifestErrors(r, ManifestDocument(r, doc))
                                          \cup AdmissionErrors(r)
              IN  search' = [search EXCEPT !.errors = errors, !.product = 1,
                                           !.at = IF errors = {} THEN "quote" ELSE "next"]
    /\ UNCHANGED <<scene, now, market, issued, held, shop, ledger>>

\* A merchant is asked for the first products of its catalogue that suit.
NextProduct ==
    IF search.product < Min({scene.products, Len(live[search.record.merchant].catalog)})
    THEN [search EXCEPT !.product = @ + 1]
    ELSE Searching("next")

\* The catalogue fails or has nothing suitable, or the request of a quote fails.
NoQuote ==
    /\ search.at = "quote" /\ scene.fails
    /\ search' \in {Searching("next"), NextProduct}
    /\ UNCHANGED <<scene, now, market, issued, held, shop, ledger>>

QuoteRecord ==
    /\ search.at = "quote" /\ CanIssue
    /\ LET q == Answer(search.record.merchant, search.product, search.record, scene.complete)
       IN  search' = [NextProduct EXCEPT
                        !.offers = IF ComparisonBlockers(q, scene.rail) = {} THEN @ \cup {q} ELSE @]
    /\ issued' = issued + 1
    /\ UNCHANGED <<scene, now, market, held, shop, ledger>>

\* The one asked for, or the only one there is.
Chosen(asked, present) ==
    IF asked # None THEN {asked} ELSE IF Cardinality(present) = 1 THEN present ELSE {}

\* Offers in one currency, and by units those of one kind of unit.
Comparable(offers) ==
    LET ofCurrency == {o \in offers :
                          o.currency \in Chosen(scene.currency, {p.currency : p \in offers})}
        ofUnits    == {o \in ofCurrency : o.units # None}
    IN  IF scene.byUnit
        THEN {o \in ofUnits : o.units.of \in Chosen(scene.unit, {p.units.of : p \in ofUnits})}
        ELSE ofCurrency

\* Exactly, without rounding the price of a unit.
Cheaper(o, w) ==
    LET mine   == o.total * w.units.count
        theirs == w.total * o.units.count
    IN  IF scene.byUnit THEN mine < theirs \/ (mine = theirs /\ o.total < w.total)
        ELSE o.total < w.total

\* Delivery dates and the tie key of the seed choose among the cheapest.
Winners(offers) == {w \in offers : \A o \in offers : ~Cheaper(o, w)}

EndSearch ==
    /\ search.at = "next" /\ (Enough \/ search.todo = <<>>)
    /\ LET ranked == Winners(Comparable(search.offers))
       IN  IF ranked = {} THEN quotes' = quotes ELSE \E w \in ranked : quotes' = quotes \cup {w}
    /\ search' = Searching("done")
    /\ UNCHANGED <<scene, now, market, issued, approved, handoffs, receipts, posts, shop, ledger>>

(***************************************************************************)
(* Quotes asked for directly                                               *)
(***************************************************************************)
\* command_quote, with the trust of a quote the agent holds, or with none.
RequestQuote(base, n, record) ==
    /\ Asks /\ CanIssue
    /\ record # None => record.merchant = base
    /\ LET q == Answer(base, n, record, TRUE)
       IN  quotes' = IF QuotePaymentIssues(q, scene.rail) = {} THEN quotes \cup {q} ELSE quotes
    /\ issued' = issued + 1
    /\ UNCHANGED <<scene, now, market, search, approved, handoffs, receipts, posts, shop, ledger>>

Trusted == {q.record : q \in quotes}

AskForQuote ==
    \E base \in Merchants : \E record \in Trusted \cup {None} :
        /\ record = None => scene.direct
        /\ record # None => search.at = "done"
        /\ \E n \in DOMAIN live[base].catalog : RequestQuote(base, n, record)

(***************************************************************************)
(* Approval, handoff, payment                                              *)
(***************************************************************************)
Approve(q, rail) ==
    /\ ExecutionIssues(q, rail) = {}
    /\ ApprovalHash(q, rail) \notin approved
    /\ approved' = approved \cup {ApprovalHash(q, rail)}
    /\ UNCHANGED <<scene, now, market, issued, search, quotes, handoffs, receipts, posts,
                   shop, ledger>>

\* Faulty variant: a renewed handoff is another payment on every rail.
DatedRequest(q, rail, at) ==
    [quote |-> q.number, approval |-> ApprovalHash(q, rail),
     destination |-> PaymentDestination(q, rail),
     nonce |-> IF rail = "x402-compatible" THEN AuthorizationNonce(q) ELSE None,
     before |-> at + MaxTimeoutSeconds]

\* The request a payer is handed; only an x402 request says until when.
PaymentRequest(q, rail, at) ==
    [quote |-> q.number, approval |-> ApprovalHash(q, rail),
     destination |-> PaymentDestination(q, rail),
     nonce |-> IF rail = "x402-compatible" THEN AuthorizationNonce(q) ELSE None,
     before |-> IF rail = "x402-compatible" THEN at + MaxTimeoutSeconds ELSE 0]

HandedOff(q, rail, at) == [request |-> PaymentRequest(q, rail, at), at |-> at]

\* Faulty variant: any approval will do.
AnyApproval(q, rail, hash) == hash \in approved

MatchesApproval(q, rail, hash) == hash = ApprovalHash(q, rail)

\* The agent passes an approval hash the buyer agreed to, a quote it holds and,
\* to renew a handoff, the time of an earlier one.
PaymentHandoff(q, rail, hash, at) ==
    /\ MatchesApproval(q, rail, hash)
    /\ PreflightIssues(q, rail) = {}
    /\ HandedOff(q, rail, at) \notin handoffs
    /\ handoffs' = handoffs \cup {HandedOff(q, rail, at)}
    /\ UNCHANGED <<scene, now, market, issued, search, quotes, approved, receipts, posts,
                   shop, ledger>>

Times == {now} \cup {h.at : h \in handoffs}

\* x402_signing_request derives the handoff again, and never renews it.
Signable(h, q, hash) ==
    /\ h.request.destination.rail = "x402-compatible"
    /\ h.request.before > now
    /\ h.request.before <= now + MaxTimeoutSeconds
    /\ h.at <= now
    /\ MatchesApproval(q, "x402-compatible", hash)
    /\ PreflightIssues(q, "x402-compatible") = {}
    /\ h = HandedOff(q, "x402-compatible", h.at)
    /\ h.request.destination.registryVerified

Receipt(h) == [request |-> h.request]

SignX402(h, q, hash) ==
    /\ Signable(h, q, hash)
    /\ Receipt(h) \notin receipts
    /\ receipts' = receipts \cup {Receipt(h)}
    /\ UNCHANGED <<scene, now, market, issued, search, quotes, approved, handoffs, posts,
                   shop, ledger>>

Transfer(request) ==
    [request |-> request, to |-> request.destination.account]

\* A payer on the other rail pays a payment request when it is first handed it.
PayTempo(h) ==
    /\ h.request.destination.rail = "tempo-mpp"
    /\ Transfer(h.request) \notin ledger
    /\ ledger' = ledger \cup {Transfer(h.request)}
    /\ receipts' = receipts \cup {Receipt(h)}
    /\ UNCHANGED <<scene, now, market, issued, search, quotes, approved, handoffs, posts, shop>>

(***************************************************************************)
(* Checkout                                                                *)
(***************************************************************************)
\* An id for the order that the agent passes, or one that follows from the approval.
OrderId(hash, own) == IF own = None THEN hash ELSE own

\* A configured origin never redirects the checkout of a quote.
CheckoutBase(q, base) == base = q.merchant

\* The decision is dated with the time the handoff gave the agent.
Decision(hash, at) == [approval |-> hash, at |-> at]

\* The body of a retry is the same as long as quote, receipt and time are.
CheckoutPayload(q, rail, receipt, at, base, own) ==
    [id |-> OrderId(ApprovalHash(q, rail), own), quote |-> q, rail |-> rail,
     receipt |-> receipt, decision |-> Decision(ApprovalHash(q, rail), at), to |-> base]

CommandCheckout(q, rail, hash, receipt, at, base, own) ==
    /\ ExecutionIssues(q, rail) = {}
    /\ MatchesApproval(q, rail, hash)
    /\ ReceiptIssues(receipt, q, rail) = {}
    /\ CheckoutBase(q, base)
    /\ LET body == CheckoutPayload(q, rail, receipt, at, base, own)
       IN  body \notin posts /\ posts' = posts \cup {body}
    /\ UNCHANGED <<scene, now, market, issued, search, quotes, approved, handoffs, receipts,
                   shop, ledger>>

\* The time the agent passes comes with a handoff of the request it has paid.
Checkouts ==
    \E q \in quotes, hash \in approved, receipt \in receipts, base \in Merchants :
        \E h \in {g \in handoffs : g.request = receipt.request}, own \in scene.ids \cup {None} :
            CommandCheckout(q, hash.rail, hash, receipt, h.at, base, own)

\* A merchant binds a quote to the first checkout of it and refuses every other.
Bound(b) == shop[b.quote.number].body \in {None, b}

MerchantBinds(b) ==
    /\ b.to = b.quote.merchant
    /\ Bound(b)
    /\ shop[b.quote.number].state = "none"
    /\ now < b.quote.expires
    /\ shop' = [shop EXCEPT ![b.quote.number] = [body |-> b, state |-> "pending"]]
    /\ UNCHANGED <<scene, now, market, issued, search, held, ledger>>

Settled(request) == Transfer(request) \in ledger

NonceUsed(nonce) == \E t \in ledger : t.request.nonce = nonce

\* An authorization settles while it is valid and its nonce unused, or has settled.
MerchantVerifies(b) ==
    /\ b \in posts /\ b.to = b.quote.merchant
    /\ Bound(b) /\ shop[b.quote.number].state = "pending"
    /\ LET request == b.receipt.request
       IN  \/ Settled(request) /\ ledger' = ledger
           \/ /\ b.rail = "x402-compatible"
              /\ ~Settled(request) /\ ~NonceUsed(request.nonce)
              /\ now < request.before
              /\ ledger' = ledger \cup {Transfer(request)}
    /\ shop' = [shop EXCEPT ![b.quote.number].state = "paid", ![b.quote.number].body = b]
    /\ UNCHANGED <<scene, now, market, issued, search, held>>

(***************************************************************************)
(* The merchants and the clock                                             *)
(***************************************************************************)
Rotate(m) ==
    /\ \E r \in scene.rotations \ {live[m]} :
          /\ r.merchant = m
          /\ live' = [live EXCEPT ![m] = r]
          /\ search' = IF search.at \in {"idle", "done"} THEN search
                       ELSE [search EXCEPT !.seen = @ \cup {r}]
    /\ UNCHANGED <<scene, now, revoked, issued, held, shop, ledger>>

Revoke(r) ==
    /\ r \notin revoked[r.merchant]
    /\ revoked' = [revoked EXCEPT ![r.merchant] = @ \cup {r}]
    /\ UNCHANGED <<scene, now, live, issued, search, held, shop, ledger>>

Tick ==
    /\ now < MaxTime
    /\ now' = now + 1
    /\ UNCHANGED <<scene, market, issued, search, held, shop, ledger>>

SearchNext ==
    \/ StartSearch \/ NextRecord
    \/ \E m \in Merchants : FetchProof(m) \/ FetchRevocation(m) \/ FetchManifest(m)
    \/ NoQuote \/ QuoteRecord \/ EndSearch

PurchaseNext ==
    \/ AskForQuote
    \/ \E q \in quotes, rail \in Rails : scene.buys /\ Approve(q, rail)
    \/ \E q \in quotes, rail \in Rails, hash \in approved, at \in Times :
          PaymentHandoff(q, rail, hash, at)
    \/ \E h \in handoffs, q \in quotes, hash \in approved : SignX402(h, q, hash)
    \/ \E h \in handoffs : PayTempo(h)
    \/ Checkouts
    \/ \E b \in posts : MerchantBinds(b) \/ MerchantVerifies(b)

MarketNext ==
    \/ \E m \in Merchants : Rotate(m)
    \/ \E r \in scene.revocations : Revoke(r)
    \/ Tick

SkillNext == SearchNext \/ PurchaseNext \/ MarketNext

\* For any scene; a run takes its scenes from MCSkill.
SkillSpec == SkillInit /\ [][SkillNext]_skill

(***************************************************************************)
(* The import of the packets of checkouts into the buyer gateway           *)
(* (import_audit_packet, append_audit_event in agentcart.py).  The log is  *)
(* a file that is only appended to; which packets are imported is part of  *)
(* the saved state, and so is the tail of the log, which has no bound      *)
(* here.  An import holds the gateway's lock when it starts, for each      *)
(* event it notes in the tail and when it ends, and not in between.        *)
(***************************************************************************)
AuditInit ==
    /\ log = <<>>
    /\ imports = [p \in Packets |-> "absent"]
    /\ importer = [i \in Importers |-> [packet |-> Idle, event |-> 0]]

ImportedEvent(p, n) == [packet |-> p, event |-> n]

BeginImport(i, p) ==
    /\ importer[i].packet = Idle
    /\ imports[p] # "imported"
    /\ imports' = [imports EXCEPT ![p] = "importing"]
    /\ importer' = [importer EXCEPT ![i] = [packet |-> p, event |-> 1]]
    /\ UNCHANGED log

AppendEvent(i) ==
    /\ importer[i].packet # Idle
    /\ importer[i].event <= PacketEvents
    /\ log' = Append(log, ImportedEvent(importer[i].packet, importer[i].event))
    /\ importer' = [importer EXCEPT ![i].event = @ + 1]
    /\ UNCHANGED imports

\* Faulty variant: the last event is forgotten.
EndImportEarly(i) ==
    /\ importer[i].packet # Idle
    /\ importer[i].event >= PacketEvents
    /\ imports' = [imports EXCEPT ![importer[i].packet] = "imported"]
    /\ importer' = [importer EXCEPT ![i] = [packet |-> Idle, event |-> 0]]
    /\ UNCHANGED log

EndImport(i) ==
    /\ importer[i].packet # Idle
    /\ importer[i].event > PacketEvents
    /\ imports' = [imports EXCEPT ![importer[i].packet] = "imported"]
    /\ importer' = [importer EXCEPT ![i] = [packet |-> Idle, event |-> 0]]
    /\ UNCHANGED log

\* A write fails: the request ends where it is, and the packet stays as it was saved.
ImportFails(i) ==
    /\ importer[i].packet # Idle
    /\ importer' = [importer EXCEPT ![i] = [packet |-> Idle, event |-> 0]]
    /\ UNCHANGED <<log, imports>>

\* The gateway ends: its requests are gone, the file and the saved state stay.
AuditCrash ==
    /\ importer' = [i \in Importers |-> [packet |-> Idle, event |-> 0]]
    /\ UNCHANGED <<log, imports>>

AuditNext ==
    \/ \E i \in Importers : \/ \E p \in Packets : BeginImport(i, p)
                            \/ AppendEvent(i)
                            \/ EndImport(i) \/ ImportFails(i)
    \/ AuditCrash

AuditSpec == AuditInit /\ [][AuditNext]_auditVars

(***************************************************************************)
(* Properties                                                              *)
(***************************************************************************)
\* Money goes to the account the buyer saw in an approval, which is the one the
\* verified record commits for the rail, and an x402 authorization never goes to
\* a seller nothing vouches for; a checkout goes to the merchant of its quote,
\* under the approval its payment was made for.
PaidAsApproved ==
    /\ \A t \in ledger :
          LET hash == t.request.approval
              q == hash.quote
          IN  /\ hash \in approved
              /\ t.to = q.pay[hash.rail]
              /\ q.record # None => /\ q.merchant = q.record.merchant
                                   /\ t.to = q.record.pay[hash.rail]
              /\ hash.rail = "x402-compatible" => q.record # None
    /\ \A b \in posts : /\ b.decision.approval \in approved
                       /\ b.receipt.request.approval = b.decision.approval
                       /\ b.to = b.quote.merchant

\* What is paid on the strength of a record was served by the record's domain
\* while the search ran, and was not revoked already when the search began.
PaidWasVerified ==
    \A t \in ledger :
        LET r == t.request.approval.quote.record
        IN  r # None => /\ StaticErrors(r) = {} /\ r \in search.seen
                        /\ r.revocable => r \notin search.gone

\* However often the handoff of an approval is renewed, signed, paid and checked
\* out, and however late or often a checkout arrives, the approval is paid once,
\* and a paid order has its money.
PaidOnce ==
    /\ \A hash \in approved :
          Cardinality({t \in ledger : t.request.approval = hash}) <= 1
    /\ \A n \in 1 .. MaxQuotes :
          shop[n].state = "paid" => Settled(shop[n].body.receipt.request)

OneBrandPerOwner ==
    \A i, j \in DOMAIN search.tried :
        i # j => ~SameOwner(search.tried[i], search.tried[j])

NeutralIsAsked ==
    LET ordered == OnePerEntity(scene.listed)
        early == {search.tried[i] : i \in {k \in DOMAIN search.tried : k <= scene.limit}}
    IN  (/\ search.at = "done" /\ scene.limit > 1 /\ Len(search.tried) >= scene.limit
         /\ \E r \in Members(ordered) : ~r.facets)
        => \E r \in early : ~r.facets

NobodyIsLeftOut ==
    search.at = "done" =>
        Enough \/ Len(search.tried) = Min({MaxRecordCandidates, scene.limit * BackfillFactor,
                                         Len(OnePerEntity(scene.listed))})

\* Two offers are alike when they differ in the amount only.
Alike(o, w) ==
    /\ o.currency = w.currency
    /\ scene.byUnit => w.units # None /\ o.units # None /\ o.units.of = w.units.of

CheapestWins ==
    search.at = "done" =>
        \A w \in quotes \cap search.offers :
            /\ scene.byUnit => w.units # None
            /\ scene.most # None => w.total <= scene.most
            /\ \A o \in search.offers :
                  Alike(o, w) =>
                      IF scene.byUnit THEN w.total * o.units.count <= o.total * w.units.count
                      ELSE w.total <= o.total

\* A search asks one brand of each owner, leaves a place for a merchant whose
\* facets do not match, goes on until enough merchants have answered or the
\* whole sample is used up, and picks a cheapest of the offers it can compare,
\* by their totals or by the unit, and none above the buyer's limit.
SearchIsFair == OneBrandPerOwner /\ NeutralIsAsked /\ NobodyIsLeftOut /\ CheapestWins

\* A packet that counts as imported has every one of its events in the log,
\* in their order, whatever imports of it ran at once or were cut off by a crash.
ImportedIsLogged ==
    \A p \in Packets :
        imports[p] = "imported" =>
            \E at \in [1 .. PacketEvents -> DOMAIN log] :
               /\ \A n \in 1 .. PacketEvents : log[at[n]] = ImportedEvent(p, n)
               /\ \A n \in 2 .. PacketEvents : at[n - 1] < at[n]
=============================================================================
