---------------------------- MODULE RegistryTrust ----------------------------
(***************************************************************************)
(* What a buyer believes of a registry record: the verification of a       *)
(* record against the documents its domain serves now, the binding of a    *)
(* payment destination to the record, and the identity of an x402          *)
(* authorization (shopbridge_registry_trust.py).                           *)
(*                                                                         *)
(* A record is its own hash.  Of its fields a record keeps who it is for,  *)
(* the account it commits for each rail, and of the others:                *)
(*   defects     what is wrong with its own fields or with the manifest    *)
(*               that belongs to it, by the error it leads to              *)
(*   revocable   it names a revocation document                            *)
(*   snapshots   it embeds copies of its proof, revocation and manifest    *)
(*   entity      the owner of its admission on chain, if it has one        *)
(* The record a domain serves stands for its proof (which names the hash   *)
(* of that record) and for its manifest (which carries its claim); the     *)
(* prices of the shop are taken to change with it.                         *)
(***************************************************************************)
EXTENDS Naturals, FiniteSets

CONSTANTS Records,   \* every record a merchant may publish
          None       \* no record, no document, no account

ASSUME NoneIsNoRecord == None \notin Records

Rails == {"tempo-mpp", "x402-compatible"}

(***************************************************************************)
(* Verification                                                            *)
(***************************************************************************)
DateErrors(r) == r.defects \cap {"updated_at_in_future", "record_stale"}

UrlErrors(r) == r.defects \cap {"manifest_url_domain_mismatch", "revocation_url_requires_https"}

IdentityErrors(r) == r.defects \cap {"onchain_identity_controller_missing"}

SignatureErrors(r) == r.defects \cap {"missing_signature", "domain_proof_type_unsupported"}

StaticErrors(r) == DateErrors(r) \cup UrlErrors(r) \cup IdentityErrors(r) \cup SignatureErrors(r)

\* Faulty variant: a copy the record embeds replaces the live document.
EmbeddedDocument(r, fetched, embedded) == IF r.snapshots THEN embedded ELSE fetched

\* A proof or revocation comes from the domain, never from the record.
ControlDocument(r, fetched, embedded) == fetched

\* The manifest may come from the record: everything in it is committed.
ManifestDocument(r, fetched) == IF r.snapshots THEN r ELSE fetched

ProofErrors(r, proof) ==
    CASE proof = None -> {"domain_proof_fetch_failed"}
      [] proof # r -> {"domain_proof_record_hash_mismatch"}
      [] OTHER -> {}

Revokes(document, r) == r \in document

RevocationErrors(r, document) ==
    CASE document = None -> {"revocation_fetch_failed"}
      [] document # None /\ Revokes(document, r) -> {"record_revoked_by_revocation_document"}
      [] OTHER -> {}

\* What the claim of a manifest repeats of the record.
Claim(r) == [merchant |-> r.merchant, pay |-> r.pay]

\* A manifest that ships to too few countries or lacks an endpoint.
ScopeErrors(manifest) ==
    manifest.defects \cap {"shipping_scope_mismatch", "endpoint_quote_missing"}

ManifestErrors(r, manifest) ==
    IF manifest = None
    THEN {"manifest_fetch_failed"}
    ELSE (IF Claim(manifest) # Claim(r) THEN {"registry_claim_hash_mismatch"} ELSE {})
         \cup (IF manifest.pay["tempo-mpp"] # r.pay["tempo-mpp"]
               THEN {"payment_recipient_mismatch"} ELSE {})
         \cup ScopeErrors(manifest)

(***************************************************************************)
(* Payment destinations.  A quote is annotated with the record its seller  *)
(* was verified under, or with None when only an address was known.        *)
(***************************************************************************)
Bindings(r) == r.pay

DestinationMatches(account, bindings, rail) ==
    bindings[rail] # None /\ account = bindings[rail]

DestinationIssues(q, rail) ==
    IF q.record = None \/ DestinationMatches(q.pay[rail], Bindings(q.record), rail)
    THEN {} ELSE {"payment_destination_mismatch"}

SelectionIssues(q, rail) ==
    IF q.pay[rail] = None THEN {"payment_rail_unavailable"} ELSE {}

\* The PAYMENT-REQUIRED document repeats account, amount and resource of the quote.
X402Issues(q, rail) ==
    IF rail = "x402-compatible" /\ q.currency # "USD"
    THEN {"x402_payment_required_mismatch"} ELSE {}

QuotePaymentIssues(q, rail) ==
    SelectionIssues(q, rail) \cup DestinationIssues(q, rail) \cup X402Issues(q, rail)

\* What a record vouches for.
RegistryDestination(q, rail) ==
    [rail |-> rail, account |-> q.pay[rail], total |-> q.total, currency |-> q.currency,
     registryVerified |-> TRUE]

\* The same of a quote nobody vouches for is only what the merchant said.
PaymentDestination(q, rail) ==
    IF q.record # None /\ DestinationIssues(q, rail) = {}
    THEN RegistryDestination(q, rail)
    ELSE [RegistryDestination(q, rail) EXCEPT !.registryVerified = FALSE]

\* An authorization commits to the quote, its payment contract and its route.
AuthorizationNonce(q) == [quote |-> q.number, route |-> q.merchant]

\* The fields a receipt must have tell the rails apart.
ReceiptFieldIssues(receipt, rail) ==
    IF receipt.request.destination.rail # rail THEN {"payment_receipt_fields_missing"} ELSE {}

\* Amount, currency and quote hash are those of the quote.
ReceiptQuoteIssues(receipt, q) ==
    IF \/ receipt.request.quote # q.number
       \/ receipt.request.destination.total # q.total
       \/ receipt.request.destination.currency # q.currency
    THEN {"payment_receipt_is_of_another_quote"} ELSE {}

ReceiptDestinationIssues(receipt, q, rail) ==
    IF receipt.request.destination.account # PaymentDestination(q, rail).account
    THEN {"payment_destination_mismatch"} ELSE {}

\* An x402 receipt is signed for the whole destination and for one nonce.
X402ReceiptIssues(receipt, q, rail) ==
    IF /\ rail = "x402-compatible"
       /\ \/ receipt.request.destination # PaymentDestination(q, rail)
          \/ receipt.request.nonce # AuthorizationNonce(q)
    THEN {"x402_receipt_mismatch"} ELSE {}

ReceiptIssues(receipt, q, rail) ==
    ReceiptFieldIssues(receipt, rail) \cup ReceiptQuoteIssues(receipt, q)
        \cup ReceiptDestinationIssues(receipt, q, rail)
        \cup X402ReceiptIssues(receipt, q, rail)
=============================================================================
