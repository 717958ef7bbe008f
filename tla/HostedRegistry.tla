--------------------------- MODULE HostedRegistry ---------------------------
(***************************************************************************)
(* The hosted merchant registry of gateway/agentcart.py: submissions,      *)
(* revocations, the store file with its transparency log, and the merchant *)
(* adapters the gateway quotes from.                                       *)
(*                                                                         *)
(* Every submission reads the store file, changes the copy, writes it to   *)
(* one temporary file and renames that over the store file.  No lock is    *)
(* held, so submissions on two threads share the temporary file.  Then the *)
(* adapters are built again from the file and swapped under the lock.      *)
(***************************************************************************)
EXTENDS Naturals, Sequences

CONSTANTS Threads, Merchants, Records,
          MerchantOf,  \* the merchant of each record
          None,
          Scenes       \* who does what, how often

(***************************************************************************)
(* A scene bounds a behaviour: the threads that submit and those that run  *)
(* the monitor, the records they are about, and how many submissions and   *)
(* crashes there are.                                                      *)
(***************************************************************************)
ASSUME MerchantsHaveRecords == MerchantOf \in [Records -> Merchants]
ASSUME ScenesAreScenes ==
    \A s \in Scenes :
        /\ s.submitters \subseteq Threads /\ s.monitors \subseteq Threads
        /\ s.submitters \cap s.monitors = {} /\ s.records \subseteq Records
        /\ s.submissions \in Nat /\ s.crashes \in Nat

VARIABLES live,      \* the store file
          tmp,       \* the temporary file
          open,      \* which file the handle of each thread writes to
          call,      \* where each thread is
          site,      \* the record each merchant's domain attests, or None
          adapters,  \* records of the adapters the gateway quotes from
          revoked,   \* records whose revocation was answered
          submitted, \* submissions and
          crashes,   \* crashes so far
          scene      \* chosen once

registryVars ==
    <<live, tmp, open, call, site, adapters, revoked, submitted, crashes, scene>>

EmptyStore == [entries |-> {}, revocations |-> {}, log |-> <<>>]

\* A file is missing, or truncated and no JSON yet, or holds a whole store.
Missing  == [kind |-> "missing", store |-> EmptyStore]
Partial  == [kind |-> "partial", store |-> EmptyStore]
Whole(s) == [kind |-> "whole", store |-> s]

Idle == [at |-> "idle", op |-> None, record |-> None, store |-> EmptyStore, found |-> {}]

RegistryInit ==
    /\ scene \in Scenes
    /\ live = Missing
    /\ tmp = Missing
    /\ open = [t \in Threads |-> None]
    /\ call = [t \in Threads |-> Idle]
    /\ site = [m \in Merchants |-> None]
    /\ adapters = {}
    /\ revoked = {}
    /\ submitted = 0
    /\ crashes = 0

(***************************************************************************)
(* The store                                                               *)
(***************************************************************************)
\* read_hosted_registry_store raises on a file that is no JSON.
Readable == live.kind # "partial"

\* A file that is missing reads as an empty store.
Store == live.store

\* Faulty variant: a revocation is not looked up.
FeedOfEntries(s) == s.entries

\* What the feed, the records endpoint and the adapters are made of.
Feed(s) == s.entries \ s.revocations

\* verify_registry_record: the merchant's domain attests this very record.
Verified(r) == site[MerchantOf[r]] = r

\* A hash of a log stands for the log; each event has the hash of those before.
Event(s, op, r, state) ==
    [sequence |-> Len(s.log) + 1, operation |-> op, record |-> r, state |-> state,
     previous |-> s.log]

\* A record replaces the merchant's earlier one, whatever its verification says.
WithRecord(s, r, state) ==
    LET others == {e \in s.entries : MerchantOf[e] # MerchantOf[r]}
        op     == IF others = s.entries THEN "submit" ELSE "refresh"
        shown  == IF r \in s.revocations THEN "revoked" ELSE state
    IN  [s EXCEPT !.entries = others \cup {r},
                  !.log = Append(@, Event(s, op, r, shown))]

\* Faulty variant: the entry is removed and the hash is not remembered.
WithRevocationForgotten(s, r) ==
    [s EXCEPT !.entries = @ \ {r},
              !.log = Append(@, Event(s, "revoke", r, "revoked"))]

WithRevocation(s, r) ==
    [s EXCEPT !.entries = @ \ {r},
              !.revocations = @ \cup {r},
              !.log = Append(@, Event(s, "revoke", r, "revoked"))]

(***************************************************************************)
(* Submissions                                                             *)
(***************************************************************************)
Becomes(t, c) == call' = [call EXCEPT ![t] = c]

Submit(t, op, r) ==
    /\ t \in scene.submitters
    /\ submitted < scene.submissions
    /\ call[t] = Idle
    /\ submitted' = submitted + 1
    /\ Becomes(t, [Idle EXCEPT !.at = op, !.op = op, !.record = r])
    /\ UNCHANGED <<live, tmp, open, site, adapters, revoked, crashes, scene>>

\* The record was verified remotely just before the file is read.
ReadForUpsert(t) ==
    LET r == call[t].record IN
    /\ call[t].at = "upsert"
    /\ Readable
    /\ \E state \in {"rejected"} \cup (IF Verified(r) THEN {"verified"} ELSE {}) :
          Becomes(t, [call[t] EXCEPT !.at = "open", !.store = WithRecord(Store, r, state)])
    /\ UNCHANGED <<live, tmp, open, site, adapters, revoked, submitted, crashes, scene>>

ReadForRevoke(t) ==
    /\ call[t].at = "revoke"
    /\ Readable
    /\ Becomes(t, [call[t] EXCEPT !.at = "open",
                                  !.store = WithRevocation(Store, call[t].record)])
    /\ UNCHANGED <<live, tmp, open, site, adapters, revoked, submitted, crashes, scene>>

Unreadable(t) ==
    /\ call[t].at \in {"upsert", "revoke"}
    /\ ~Readable
    /\ Becomes(t, Idle)
    /\ UNCHANGED <<live, tmp, open, site, adapters, revoked, submitted, crashes, scene>>

\* Opening the temporary file truncates what another thread has written there.
OpenTemporary(t) ==
    /\ call[t].at = "open"
    /\ tmp' = Partial
    /\ open' = [open EXCEPT ![t] = "tmp"]
    /\ Becomes(t, [call[t] EXCEPT !.at = "write"])
    /\ UNCHANGED <<live, site, adapters, revoked, submitted, crashes, scene>>

\* The handle follows its file: it may have been renamed to the store file, or
\* been replaced there, in the meantime.
WriteTemporary(t) ==
    /\ call[t].at = "write"
    /\ tmp' = IF open[t] = "tmp" THEN Whole(call[t].store) ELSE tmp
    /\ live' = IF open[t] = "live" THEN Whole(call[t].store) ELSE live
    /\ open' = [open EXCEPT ![t] = None]
    /\ Becomes(t, [call[t] EXCEPT !.at = "replace"])
    /\ UNCHANGED <<site, adapters, revoked, submitted, crashes, scene>>

Renamed(file) ==
    CASE file = "tmp"  -> "live"
      [] file = "live" -> "gone"
      [] OTHER         -> file

ReplaceStore(t) ==
    /\ call[t].at = "replace"
    /\ tmp.kind # "missing"
    /\ live' = tmp
    /\ tmp' = Missing
    /\ open' = [u \in Threads |-> Renamed(open[u])]
    /\ Becomes(t, [call[t] EXCEPT !.at = "build"])
    /\ UNCHANGED <<site, adapters, revoked, submitted, crashes, scene>>

\* Another thread has renamed the temporary file: the request fails.
NothingToReplace(t) ==
    /\ call[t].at = "replace"
    /\ tmp.kind = "missing"
    /\ Becomes(t, Idle)
    /\ UNCHANGED <<live, tmp, open, site, adapters, revoked, submitted, crashes, scene>>

(***************************************************************************)
(* Adapters                                                                *)
(***************************************************************************)
\* Every record of the feed is verified again; any of the fetches may fail.
Buildable == IF Readable THEN SUBSET {r \in Feed(Store) : Verified(r)} ELSE {{}}

BuildAdapters(t) ==
    /\ call[t].at = "build"
    /\ \E found \in Buildable :
          Becomes(t, [call[t] EXCEPT !.at = "swap", !.found = found])
    /\ UNCHANGED <<live, tmp, open, site, adapters, revoked, submitted, crashes, scene>>

\* Faulty variant: adapters are added and never removed.
AddAdapters(t) ==
    /\ call[t].at = "swap"
    /\ adapters' = adapters \cup call[t].found
    /\ revoked' = IF call[t].op = "revoke" THEN revoked \cup {call[t].record} ELSE revoked
    /\ Becomes(t, Idle)
    /\ UNCHANGED <<live, tmp, open, site, submitted, crashes, scene>>

SwapAdapters(t) ==
    /\ call[t].at = "swap"
    /\ adapters' = call[t].found
    /\ revoked' = IF call[t].op = "revoke" THEN revoked \cup {call[t].record} ELSE revoked
    /\ Becomes(t, Idle)
    /\ UNCHANGED <<live, tmp, open, site, submitted, crashes, scene>>

(***************************************************************************)
(* The merchants' sites, and crashes                                       *)
(***************************************************************************)
Attest(m, r) ==
    /\ r # None => MerchantOf[r] = m
    /\ site' = [site EXCEPT ![m] = r]
    /\ UNCHANGED <<live, tmp, open, call, adapters, revoked, submitted, crashes, scene>>

\* The service starts again and builds its adapters before it serves anyone.
Restart ==
    /\ crashes < scene.crashes
    /\ crashes' = crashes + 1
    /\ open' = [t \in Threads |-> None]
    /\ call' = [t \in Threads |-> Idle]
    /\ adapters' \in Buildable
    /\ UNCHANGED <<live, tmp, site, revoked, submitted, scene>>

RegistryNext ==
    \/ \E t \in Threads :
          \/ \E op \in {"upsert", "revoke"}, r \in scene.records : Submit(t, op, r)
          \/ ReadForUpsert(t) \/ ReadForRevoke(t) \/ Unreadable(t)
          \/ OpenTemporary(t) \/ WriteTemporary(t)
          \/ ReplaceStore(t) \/ NothingToReplace(t)
          \/ BuildAdapters(t) \/ SwapAdapters(t)
    \/ \E m \in Merchants, r \in scene.records \cup {None} : Attest(m, r)

RegistrySpec == RegistryInit /\ [][RegistryNext \/ Restart]_registryVars

(***************************************************************************)
(* Properties                                                              *)
(***************************************************************************)
OneAtATime == \E t \in Threads : scene.submitters \subseteq {t}

\* The transparency log explains the feed: whatever the interleaving, a record
\* is an entry of the store if and only if the log submitted it and neither
\* replaced nor revoked it since, and a revocation if and only if the log has it.
LogExplainsStore ==
    Readable =>
        LET log == Store.log
            Ends(e, r) == \/ e.operation = "revoke" /\ e.record = r
                          \/ e.operation # "revoke" /\ MerchantOf[e.record] = MerchantOf[r]
        IN  \A r \in Records :
                /\ r \in Store.revocations
                      <=> \E i \in 1 .. Len(log) :
                              log[i].operation = "revoke" /\ log[i].record = r
                /\ r \in Store.entries
                      <=> \E i \in 1 .. Len(log) :
                              /\ log[i].operation # "revoke" /\ log[i].record = r
                              /\ \A j \in i + 1 .. Len(log) : ~Ends(log[j], r)

\* One submission at a time, a revocation that was answered stays in the store
\* and keeps its record out of the feed, across resubmissions and crashes.
RevocationIsKept ==
    OneAtATime => Readable /\ \A r \in revoked : r \in Store.revocations /\ r \notin Feed(Store)

\* One submission at a time, the gateway quotes from no revoked merchant record
\* once the submission under way has ended.
AdaptersFollowFeed ==
    OneAtATime /\ (\A t \in scene.submitters : call[t] = Idle) => adapters \subseteq Feed(Store)
=============================================================================
