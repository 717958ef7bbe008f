---------------------------- MODULE RegistryProofs ----------------------------
(***************************************************************************)
(* Proofs about the hosted registry, for any threads, merchants, records   *)
(* and scenes: what its transparency log and its feed proofs say is true   *)
(* under every interleaving of submissions and crashes, and with one       *)
(* submission at a time no revocation is lost and the adapters follow the  *)
(* feed.                                                                   *)
(*                                                                         *)
(* The first invariant is that every store there is a copy of - the file,  *)
(* the temporary file, the one in the hands of each thread - is explained  *)
(* by its own log: writers that overwrite each other exchange whole        *)
(* stores.  The second follows the one submission through its steps.       *)
(*                                                                         *)
(* Then about what the operator is told: by a run of the monitor, which    *)
(* may crash after it exchanged the snapshot, and of the events in the     *)
(* audit log, each of which has one place at any time.                     *)
(***************************************************************************)
EXTENDS Notifications, FiniteSetTheorems, TLAPS

(***************************************************************************)
(* Logs                                                                    *)
(***************************************************************************)
IsLog(log) == log \in Seq(ToSet(log))

Revokes(log, r) ==
    \E i \in 1 .. Len(log) : log[i].operation = "revoke" /\ log[i].record = r

Ends(e, r) == \/ e.operation = "revoke" /\ e.record = r
              \/ e.operation # "revoke" /\ MerchantOf[e.record] = MerchantOf[r]

Lists(log, r) ==
    \E i \in 1 .. Len(log) :
        /\ log[i].operation # "revoke" /\ log[i].record = r
        /\ \A j \in i + 1 .. Len(log) : ~Ends(log[j], r)

LEMMA LogFacts ==
    ASSUME NEW log, IsLog(log)
    PROVE  Len(log) \in Nat /\ SubSeq(log, 1, Len(log)) = log /\ IsPrefix(log, log)
<1>. DEFINE S == ToSet(log)
<1>1. log \in Seq(S)
  BY DEF IsLog
<1>. HIDE DEF S
<1>. QED
  BY <1>1 DEF IsPrefix

\* What a log is after one more event.
LEMMA AppendFacts ==
    ASSUME NEW log, IsLog(log), NEW e
    PROVE  /\ IsLog(Append(log, e))
           /\ Len(Append(log, e)) = Len(log) + 1
           /\ Append(log, e)[Len(log) + 1] = e
           /\ \A i \in 1 .. Len(log) : Append(log, e)[i] = log[i]
           /\ \A i \in 0 .. Len(log) : SubSeq(Append(log, e), 1, i) = SubSeq(log, 1, i)
           /\ IsPrefix(log, Append(log, e))
<1>. DEFINE S == ToSet(log) \cup {e}
            new == Append(log, e)
<1>1. log \in Seq(S) /\ e \in S
  BY DEF IsLog
<1>. HIDE DEF S
<1>2. new \in Seq(S) /\ Len(new) = Len(log) + 1 /\ Len(log) \in Nat
  BY <1>1
<1>3. new[Len(log) + 1] = e /\ \A i \in 1 .. Len(log) : new[i] = log[i]
  BY <1>1
<1>4. IsLog(new)
  <2>. DEFINE T == ToSet(new)
  <2>1. \A i \in 1 .. Len(new) : new[i] \in T
    BY <1>2 DEF ToSet
  <2>. HIDE DEF T, new
  <2>2. new \in Seq(T)
    BY <1>2, <2>1
  <2>. QED
    BY <2>2 DEF IsLog, T
<1>5. ASSUME NEW i \in 0 .. Len(log)
      PROVE  SubSeq(new, 1, i) = SubSeq(log, 1, i)
  BY <1>1, <1>2, <1>3
<1>6. IsPrefix(log, new)
  BY <1>1, <1>2, <1>5 DEF IsPrefix
<1>. QED
  BY <1>2, <1>3, <1>4, <1>5, <1>6

LEMMA PrefixTransitive ==
    ASSUME NEW a, NEW b, NEW c, IsLog(a), IsLog(b), IsLog(c), IsPrefix(a, b), IsPrefix(b, c)
    PROVE  IsPrefix(a, c)
<1>. DEFINE S == ToSet(a) \cup ToSet(b) \cup ToSet(c)
<1>1. a \in Seq(S) /\ b \in Seq(S) /\ c \in Seq(S)
  BY DEF IsLog
<1>. HIDE DEF S
<1>2. Len(a) <= Len(b) /\ Len(b) <= Len(c) /\ Len(a) \in Nat /\ Len(b) \in Nat /\ Len(c) \in Nat
  BY <1>1 DEF IsPrefix
<1>3. SubSeq(b, 1, Len(b)) = SubSeq(c, 1, Len(b))
  BY DEF IsPrefix
<1>4. ASSUME NEW i \in 1 .. Len(b) PROVE b[i] = c[i]
  <2>1. SubSeq(b, 1, Len(b))[i] = b[i] /\ SubSeq(c, 1, Len(b))[i] = c[i]
    BY <1>1, <1>2
  <2>. QED
    BY <1>3, <2>1
<1>5. SubSeq(b, 1, Len(a)) = SubSeq(c, 1, Len(a))
  BY <1>1, <1>2, <1>4
<1>. QED
  BY <1>2, <1>5 DEF IsPrefix

(***************************************************************************)
(* Stores                                                                  *)
(***************************************************************************)
IsStore(s) == DOMAIN s = {"entries", "revocations", "log"}

\* The log says what the store holds.
Explained(s) ==
    \A r \in Records : /\ r \in s.revocations <=> Revokes(s.log, r)
                       /\ r \in s.entries <=> Lists(s.log, r)

Sound(s) ==
    /\ IsStore(s) /\ IsLog(s.log)
    /\ s.entries \subseteq Records /\ s.revocations \subseteq Records
    /\ ChainValid(s.log)
    /\ Explained(s)

\* No event is taken back and no revocation forgotten.
Extends(s, later) ==
    IsPrefix(s.log, later.log) /\ s.revocations \subseteq later.revocations

\* The log with one more event.
Logged(s, op, r, state) == Append(s.log, Event(s, op, r, state))

LEMMA EmptyIsSound == Sound(EmptyStore)
<1>1. IsLog(<<>>)
  BY DEF IsLog
<1>2. Len(<<>>) = 0
  OBVIOUS
<1>3. ChainValid(<<>>)
  BY <1>2 DEF ChainValid
<1>4. Explained(EmptyStore)
  BY <1>2 DEF Explained, EmptyStore, Revokes, Lists
<1>. QED
  BY <1>1, <1>3, <1>4 DEF Sound, IsStore, EmptyStore

\* An event of its own kind is appended: the chain stays valid, and what the
\* log revokes and lists changes by that event alone.
LEMMA EventFacts ==
    ASSUME NEW s, Sound(s), NEW op, NEW r, NEW state
    PROVE  LET log == Logged(s, op, r, state) IN
           /\ IsLog(log) /\ ChainValid(log) /\ IsPrefix(s.log, log)
           /\ \A x : Revokes(log, x) <=> Revokes(s.log, x) \/ (op = "revoke" /\ x = r)
           /\ \A x : Lists(log, x) <=>
                        \/ op # "revoke" /\ x = r
                        \/ Lists(s.log, x) /\ ~Ends(Event(s, op, r, state), x)
<1>. DEFINE e   == Event(s, op, r, state)
            n   == Len(s.log)
            log == Logged(s, op, r, state)
<1>1. /\ IsLog(log) /\ IsPrefix(s.log, log)
      /\ Len(log) = n + 1 /\ n \in Nat /\ log[n + 1] = e
      /\ \A i \in 1 .. n : log[i] = s.log[i]
      /\ \A i \in 0 .. n : SubSeq(log, 1, i) = SubSeq(s.log, 1, i)
      /\ SubSeq(s.log, 1, n) = s.log
  BY AppendFacts, LogFacts DEF Sound, Logged
<1>2. e.sequence = n + 1 /\ e.operation = op /\ e.record = r /\ e.previous = s.log
  BY DEF Event
<1>. HIDE DEF e, n, log
<1>3. ChainValid(log)
  <2>. SUFFICES ASSUME NEW i \in 1 .. Len(log)
                PROVE  log[i].sequence = i /\ log[i].previous = SubSeq(log, 1, i - 1)
    BY DEF ChainValid
  <2>1. CASE i = n + 1
    BY <2>1, <1>1, <1>2
  <2>2. CASE i \in 1 .. n
    <3>1. s.log[i].sequence = i /\ s.log[i].previous = SubSeq(s.log, 1, i - 1)
      BY <2>2 DEF Sound, ChainValid, n
    <3>. QED
      BY <2>2, <3>1, <1>1
  <2>. QED
    BY <2>1, <2>2, <1>1
<1>4. ASSUME NEW x
      PROVE  Revokes(log, x) <=> Revokes(s.log, x) \/ (op = "revoke" /\ x = r)
  <2>1. Revokes(s.log, x) <=> \E i \in 1 .. n : s.log[i].operation = "revoke" /\ s.log[i].record = x
    BY DEF Revokes, n
  <2>2. Revokes(log, x) <=> \E i \in 1 .. n + 1 : log[i].operation = "revoke" /\ log[i].record = x
    BY <1>1 DEF Revokes
  <2>. QED
    BY <2>1, <2>2, <1>1, <1>2
<1>5. ASSUME NEW x
      PROVE  Lists(log, x) <=> \/ op # "revoke" /\ x = r
                               \/ Lists(s.log, x) /\ ~Ends(e, x)
  <2>1. Lists(s.log, x) <=> \E i \in 1 .. n :
                               /\ s.log[i].operation # "revoke" /\ s.log[i].record = x
                               /\ \A j \in i + 1 .. n : ~Ends(s.log[j], x)
    BY DEF Lists, n
  <2>2. Lists(log, x) <=> \E i \in 1 .. n + 1 :
                             /\ log[i].operation # "revoke" /\ log[i].record = x
                             /\ \A j \in i + 1 .. n + 1 : ~Ends(log[j], x)
    BY <1>1 DEF Lists
  <2>3. ASSUME Lists(log, x), ~(op # "revoke" /\ x = r)
        PROVE  Lists(s.log, x) /\ ~Ends(e, x)
    <3>1. PICK i \in 1 .. n + 1 :
             /\ log[i].operation # "revoke" /\ log[i].record = x
             /\ \A j \in i + 1 .. n + 1 : ~Ends(log[j], x)
      BY <2>2, <2>3
    <3>2. i \in 1 .. n
      BY <3>1, <2>3, <1>1, <1>2
    <3>3. ~Ends(e, x)
      BY <3>1, <3>2, <1>1
    <3>4. \A j \in i + 1 .. n : ~Ends(s.log[j], x)
      BY <3>1, <3>2, <1>1
    <3>. QED
      BY <3>1, <3>2, <3>3, <3>4, <2>1, <1>1
  <2>4. ASSUME op # "revoke" /\ x = r PROVE Lists(log, x)
    <3>1. \A j \in (n + 1) + 1 .. n + 1 : ~Ends(log[j], x)
      BY <1>1
    <3>. QED
      BY <3>1, <2>2, <2>4, <1>1, <1>2
  <2>5. ASSUME Lists(s.log, x), ~Ends(e, x) PROVE Lists(log, x)
    <3>1. PICK i \in 1 .. n :
             /\ s.log[i].operation # "revoke" /\ s.log[i].record = x
             /\ \A j \in i + 1 .. n : ~Ends(s.log[j], x)
      BY <2>1, <2>5
    <3>2. \A j \in i + 1 .. n + 1 : ~Ends(log[j], x)
      <4>. SUFFICES ASSUME NEW j \in i + 1 .. n + 1 PROVE ~Ends(log[j], x)
        OBVIOUS
      <4>1. CASE j = n + 1
        BY <4>1, <2>5, <1>1
      <4>2. CASE j # n + 1
        BY <4>2, <3>1, <1>1
      <4>. QED
        BY <4>1, <4>2
    <3>. QED
      BY <3>1, <3>2, <2>2, <1>1
  <2>. QED
    BY <2>3, <2>4, <2>5
<1>. QED
  BY <1>1, <1>3, <1>4, <1>5 DEF e, log

LEMMA RecordFacts ==
    ASSUME NEW s, Sound(s), NEW r \in Records, NEW state
    PROVE  Sound(WithRecord(s, r, state)) /\ Extends(s, WithRecord(s, r, state))
<1>. DEFINE others == {e \in s.entries : MerchantOf[e] # MerchantOf[r]}
            op     == IF others = s.entries THEN "submit" ELSE "refresh"
            show   == IF r \in s.revocations THEN "revoked" ELSE state
            new    == WithRecord(s, r, state)
<1>1. /\ IsStore(new) /\ new.entries = others \cup {r} /\ new.revocations = s.revocations
      /\ new.log = Logged(s, op, r, show)
  BY DEF WithRecord, Sound, Logged, IsStore
<1>2. op # "revoke"
  OBVIOUS
<1>3. \A x : x \in others <=> x \in s.entries /\ MerchantOf[x] # MerchantOf[r]
  OBVIOUS
<1>. HIDE DEF op, show, new, others
<1>4. /\ IsLog(new.log) /\ ChainValid(new.log) /\ IsPrefix(s.log, new.log)
      /\ \A x : Revokes(new.log, x) <=> Revokes(s.log, x)
      /\ \A x : Lists(new.log, x) <=>
                   \/ x = r
                   \/ Lists(s.log, x) /\ ~Ends(Event(s, op, r, show), x)
  <2>. DEFINE log == Logged(s, op, r, show)
  <2>2. /\ IsLog(log) /\ ChainValid(log) /\ IsPrefix(s.log, log)
        /\ \A x : Revokes(log, x) <=> Revokes(s.log, x) \/ (op = "revoke" /\ x = r)
        /\ \A x : Lists(log, x) <=>
                     \/ op # "revoke" /\ x = r
                     \/ Lists(s.log, x) /\ ~Ends(Event(s, op, r, show), x)
    BY EventFacts
  <2>. QED
    BY <2>2, <1>1, <1>2
<1>5. \A x : Ends(Event(s, op, r, show), x) <=> MerchantOf[x] = MerchantOf[r]
  BY <1>2 DEF Ends, Event
<1>6. Explained(new)
  BY <1>1, <1>3, <1>4, <1>5 DEF Explained, Sound
<1>. QED
  BY <1>1, <1>3, <1>4, <1>6 DEF Sound, Extends, new

LEMMA RevocationFacts ==
    ASSUME NEW s, Sound(s), NEW r \in Records
    PROVE  /\ Sound(WithRevocation(s, r)) /\ Extends(s, WithRevocation(s, r))
           /\ r \in WithRevocation(s, r).revocations
<1>. DEFINE new == WithRevocation(s, r)
            e   == Event(s, "revoke", r, "revoked")
<1>1. /\ IsStore(new) /\ new.entries = s.entries \ {r}
      /\ new.revocations = s.revocations \cup {r}
      /\ new.log = Logged(s, "revoke", r, "revoked")
  BY DEF WithRevocation, Sound, Logged, IsStore
<1>2. \A x : Ends(e, x) <=> x = r
  BY DEF Ends, Event
<1>. HIDE DEF new
<1>3. /\ IsLog(new.log) /\ ChainValid(new.log) /\ IsPrefix(s.log, new.log)
      /\ \A x : Revokes(new.log, x) <=> Revokes(s.log, x) \/ x = r
      /\ \A x : Lists(new.log, x) <=> Lists(s.log, x) /\ ~Ends(e, x)
  BY <1>1, EventFacts
<1>4. Explained(new)
  BY <1>1, <1>2, <1>3 DEF Explained, Sound
<1>. QED
  BY <1>1, <1>3, <1>4 DEF Sound, Extends, new

(***************************************************************************)
(* The first invariant: every copy of the store is sound                   *)
(***************************************************************************)
CallSound(c) ==
    /\ DOMAIN c = {"at", "op", "record", "store", "found"}
    /\ Sound(c.store)
    /\ c.at # "idle" => c.record \in Records

FilesInv ==
    /\ scene \in Scenes
    /\ DOMAIN call = Threads /\ DOMAIN open = Threads
    /\ Sound(live.store) /\ Sound(tmp.store)
    /\ \A t \in Threads : CallSound(call[t])

\* A record that was fetched as a proof, and the store it was fetched from.
ProofSound(p) ==
    /\ IsLog(p.head) /\ p.records \subseteq Records /\ p.revocations \subseteq Records
    /\ \A r \in Records : /\ r \in p.revocations <=> Revokes(p.head, r)
                          /\ r \in p.records <=> Lists(p.head, r) /\ ~Revokes(p.head, r)

WitnessInv ==
    witness # None =>
        /\ witness.valid
        /\ ProofSound(witness.signed)
        /\ OneAtATime => Continues(witness.signed, live.store)

LEMMA SceneFacts ==
    ASSUME FilesInv
    PROVE  /\ scene.submitters \subseteq Threads /\ scene.monitors \subseteq Threads
           /\ scene.records \subseteq Records
BY ScenesAreScenes DEF FilesInv

LEMMA BecomesFacts ==
    ASSUME FilesInv, NEW t \in Threads, NEW c, Becomes(t, c)
    PROVE  /\ DOMAIN call' = Threads /\ call'[t] = c
           /\ \A u \in Threads \ {t} : call'[u] = call[u]
BY DEF FilesInv, Becomes

LEMMA IdleFacts ==
    /\ Idle.at = "idle" /\ Idle.store = EmptyStore
    /\ CallSound(Idle)
BY EmptyIsSound DEF Idle, CallSound

LEMMA FileFacts ==
    /\ Missing.store = EmptyStore /\ Partial.store = EmptyStore
    /\ Missing.kind = "missing" /\ Partial.kind = "partial"
    /\ \A s : Whole(s).store = s /\ Whole(s).kind = "whole"
BY DEF Missing, Partial, Whole

\* The steps of one submission are all there is to a step of the registry,
\* beside the merchants' sites.
LEMMA FilesStep ==
    ASSUME FilesInv, RegistryNext
    PROVE  FilesInv'
<1>1. ASSUME NEW t \in Threads, NEW c, Becomes(t, c), CallSound(c),
             UNCHANGED <<live, tmp, open, scene>>
      PROVE  FilesInv'
  BY <1>1, BecomesFacts DEF FilesInv
<1>2. ASSUME NEW t \in Threads, NEW op \in {"upsert", "revoke"}, NEW r \in scene.records,
             Submit(t, op, r)
      PROVE  FilesInv'
  <2>. DEFINE c == [Idle EXCEPT !.at = op, !.op = op, !.record = r]
  <2>1. Becomes(t, c) /\ UNCHANGED <<live, tmp, open, scene>>
    BY <1>2 DEF Submit
  <2>2. DOMAIN Idle = {"at", "op", "record", "store", "found"}
    BY DEF Idle
  <2>3. DOMAIN c = DOMAIN Idle /\ c.store = Idle.store /\ c.at = op /\ c.record = r
    BY <2>2
  <2>. HIDE DEF c
  <2>4. CallSound(c)
    BY <2>2, <2>3, IdleFacts, SceneFacts DEF CallSound
  <2>. QED
    BY <1>1, <2>1, <2>4
<1>3. ASSUME NEW t \in Threads, ReadForUpsert(t)
      PROVE  FilesInv'
  <2>1. PICK state : Becomes(t, [call[t] EXCEPT !.at = "open",
                                   !.store = WithRecord(Store, call[t].record, state)])
    BY <1>3 DEF ReadForUpsert
  <2>2. call[t].at = "upsert" /\ UNCHANGED <<live, tmp, open, scene>>
    BY <1>3 DEF ReadForUpsert
  <2>3. CallSound(call[t]) /\ call[t].record \in Records /\ Sound(Store)
    BY <2>2 DEF FilesInv, CallSound, Store
  <2>. DEFINE s == WithRecord(Store, call[t].record, state)
              c == [call[t] EXCEPT !.at = "open", !.store = s]
  <2>4. Sound(s)
    BY <2>3, RecordFacts
  <2>. HIDE DEF s
  <2>5. CallSound(c)
    BY <2>3, <2>4 DEF CallSound
  <2>6. Becomes(t, c)
    BY <2>1 DEF s
  <2>. QED
    BY <1>1, <2>2, <2>5, <2>6
<1>4. ASSUME NEW t \in Threads, ReadForRevoke(t)
      PROVE  FilesInv'
  <2>. DEFINE s == WithRevocation(Store, call[t].record)
              c == [call[t] EXCEPT !.at = "open", !.store = s]
  <2>1. Becomes(t, c) /\ call[t].at = "revoke" /\ UNCHANGED <<live, tmp, open, scene>>
    BY <1>4 DEF ReadForRevoke
  <2>2. CallSound(call[t]) /\ call[t].record \in Records /\ Sound(Store)
    BY <2>1 DEF FilesInv, CallSound, Store
  <2>3. Sound(s)
    BY <2>2, RevocationFacts
  <2>. HIDE DEF s
  <2>4. CallSound(c)
    BY <2>2, <2>3 DEF CallSound
  <2>. QED
    BY <1>1, <2>1, <2>4
<1>5. ASSUME NEW t \in Threads, Unreadable(t)
      PROVE  FilesInv'
  BY <1>1, <1>5, IdleFacts DEF Unreadable
<1>6. ASSUME NEW t \in Threads, OpenTemporary(t)
      PROVE  FilesInv'
  <2>. DEFINE c == [call[t] EXCEPT !.at = "write"]
  <2>1. /\ Becomes(t, c) /\ tmp' = Partial /\ call[t].at = "open"
        /\ open' = [open EXCEPT ![t] = "tmp"] /\ UNCHANGED <<live, scene>>
    BY <1>6 DEF OpenTemporary
  <2>2. CallSound(c)
    BY <2>1 DEF FilesInv, CallSound
  <2>3. Sound(Partial.store)
    BY FileFacts, EmptyIsSound
  <2>. HIDE DEF c
  <2>. QED
    BY <2>1, <2>2, <2>3, BecomesFacts DEF FilesInv
<1>7. ASSUME NEW t \in Threads, WriteTemporary(t)
      PROVE  FilesInv'
  <2>. DEFINE c == [call[t] EXCEPT !.at = "replace"]
  <2>1. /\ Becomes(t, c) /\ call[t].at = "write" /\ UNCHANGED scene
        /\ open' = [open EXCEPT ![t] = None]
        /\ tmp' \in {tmp, Whole(call[t].store)} /\ live' \in {live, Whole(call[t].store)}
    BY <1>7 DEF WriteTemporary
  <2>2. CallSound(c)
    BY <2>1 DEF FilesInv, CallSound
  <2>3. Sound(call[t].store) /\ Whole(call[t].store).store = call[t].store
    BY FileFacts DEF FilesInv, CallSound
  <2>4. Sound(tmp.store)' /\ Sound(live.store)'
    BY <2>1, <2>3 DEF FilesInv
  <2>. HIDE DEF c
  <2>. QED
    BY <2>1, <2>2, <2>4, BecomesFacts DEF FilesInv
<1>8. ASSUME NEW t \in Threads, ReplaceStore(t)
      PROVE  FilesInv'
  <2>. DEFINE c == [call[t] EXCEPT !.at = "build"]
  <2>1. /\ Becomes(t, c) /\ call[t].at = "replace" /\ UNCHANGED scene
        /\ open' = [u \in Threads |-> Renamed(open[u])]
        /\ tmp' = Missing /\ live' = tmp
    BY <1>8 DEF ReplaceStore
  <2>2. CallSound(c)
    BY <2>1 DEF FilesInv, CallSound
  <2>3. Sound(Missing.store)
    BY FileFacts, EmptyIsSound
  <2>. HIDE DEF c
  <2>. QED
    BY <2>1, <2>2, <2>3, BecomesFacts DEF FilesInv
<1>9. ASSUME NEW t \in Threads, NothingToReplace(t)
      PROVE  FilesInv'
  BY <1>1, <1>9, IdleFacts DEF NothingToReplace
<1>10. ASSUME NEW t \in Threads, BuildAdapters(t)
       PROVE  FilesInv'
  <2>1. PICK found : Becomes(t, [call[t] EXCEPT !.at = "swap", !.found = found])
    BY <1>10 DEF BuildAdapters
  <2>2. call[t].at = "build" /\ UNCHANGED <<live, tmp, open, scene>>
    BY <1>10 DEF BuildAdapters
  <2>3. CallSound([call[t] EXCEPT !.at = "swap", !.found = found])
    BY <2>2 DEF FilesInv, CallSound
  <2>. QED
    BY <1>1, <2>1, <2>2, <2>3
<1>11. ASSUME NEW t \in Threads, SwapAdapters(t)
       PROVE  FilesInv'
  BY <1>1, <1>11, IdleFacts DEF SwapAdapters
<1>12. ASSUME NEW m \in Merchants, NEW r \in scene.records \cup {None}, Attest(m, r)
       PROVE  FilesInv'
  BY <1>12 DEF Attest, FilesInv
<1>. QED
  BY <1>2, <1>3, <1>4, <1>5, <1>6, <1>7, <1>8, <1>9, <1>10, <1>11, <1>12 DEF RegistryNext

LEMMA FilesRestart ==
    ASSUME FilesInv, Restart
    PROVE  FilesInv'
BY IdleFacts DEF Restart, FilesInv

(***************************************************************************)
(* The second invariant: one thread submits                                *)
(***************************************************************************)
Writing == {"open", "write", "replace"}

\* Where the submission of thread t is, when no other thread submits: the file
\* is whole, what is written continues it, the temporary file is that thread's
\* own, and what was answered or is about to be is in the store.
Lone(t) ==
    LET c == call[t] IN
    /\ \A u \in Threads \ scene.submitters : call[u].at = "idle"
    /\ Readable
    /\ c.at \in {"upsert", "revoke"} => c.op = c.at
    /\ c.at \in Writing => /\ Extends(live.store, c.store)
                           /\ c.op = "revoke" => c.record \in c.store.revocations
    /\ c.at = "write" => open[t] = "tmp"
    /\ c.at = "replace" => tmp = Whole(c.store)
    /\ c.at \in {"build", "swap"} /\ c.op = "revoke" => c.record \in live.store.revocations
    /\ c.at = "swap" => c.found \subseteq Feed(live.store)
    /\ c.at \notin {"build", "swap"} => adapters \subseteq Feed(live.store)
    /\ revoked \subseteq live.store.revocations

LoneInv == \A t \in Threads : scene.submitters \subseteq {t} => Lone(t)

LEMMA ExtendsItself ==
    ASSUME NEW s, Sound(s)
    PROVE  Extends(s, s)
BY LogFacts DEF Extends, Sound

LEMMA LoneStep ==
    ASSUME FilesInv, LoneInv, RegistryNext, NEW w \in Threads, scene.submitters \subseteq {w}
    PROVE  Lone(w)' /\ Extends(live.store, live.store')
<1>0. Lone(w) /\ (\A t \in Threads : CallSound(call[t])) /\ Sound(live.store) /\ DOMAIN open = Threads
  BY DEF LoneInv, FilesInv
<1>. DEFINE c0 == call[w]
<1>1. ASSUME live' = live PROVE Extends(live.store, live.store')
  BY <1>0, <1>1, ExtendsItself
<1>2. ASSUME NEW t \in Threads, call[t].at # "idle" PROVE t = w
  BY <1>0, <1>2 DEF Lone
<1>3. ASSUME NEW t \in Threads, NEW op \in {"upsert", "revoke"}, NEW r \in scene.records,
             Submit(t, op, r)
      PROVE  Lone(w)' /\ Extends(live.store, live.store')
  <2>. DEFINE c == [Idle EXCEPT !.at = op, !.op = op, !.record = r]
  <2>1. /\ Becomes(t, c) /\ t = w /\ call[w] = Idle /\ w \in scene.submitters
        /\ UNCHANGED <<live, tmp, open, adapters, revoked, scene>>
    BY <1>3 DEF Submit
  <2>2. c.at = op /\ c.op = op
    BY DEF Idle
  <2>. HIDE DEF c
  <2>3. Lone(w)'
    BY <1>0, <2>1, <2>2, BecomesFacts, IdleFacts DEF Lone, Writing, Readable
  <2>. QED
    BY <1>1, <2>1, <2>3
\* The store that is written continues the one that was read.
<1>4. ASSUME NEW s, Extends(live.store, s), call[w].at \in {"upsert", "revoke"},
             call[w].at = "revoke" => call[w].record \in s.revocations,
             Becomes(w, [call[w] EXCEPT !.at = "open", !.store = s]),
             UNCHANGED <<live, tmp, open, adapters, revoked, scene>>
      PROVE  Lone(w)' /\ Extends(live.store, live.store')
  <2>. DEFINE c == [call[w] EXCEPT !.at = "open", !.store = s]
  <2>1. c.at = "open" /\ c.store = s /\ c.op = call[w].op /\ c.record = call[w].record
    BY <1>0 DEF CallSound
  <2>2. Becomes(w, c)
    BY <1>4
  <2>. HIDE DEF c
  <2>3. Lone(w)'
    BY <1>0, <1>4, <2>1, <2>2, BecomesFacts DEF Lone, Writing, Readable
  <2>. QED
    BY <1>1, <1>4, <2>3
<1>5. ASSUME NEW t \in Threads, ReadForUpsert(t)
      PROVE  Lone(w)' /\ Extends(live.store, live.store')
  <2>1. PICK state : Becomes(t, [call[t] EXCEPT !.at = "open",
                                   !.store = WithRecord(Store, call[t].record, state)])
    BY <1>5 DEF ReadForUpsert
  <2>2. t = w /\ call[w].at = "upsert" /\ UNCHANGED <<live, tmp, open, adapters, revoked, scene>>
    BY <1>2, <1>5 DEF ReadForUpsert
  <2>3. call[w].record \in Records
    BY <1>0, <2>2 DEF CallSound
  <2>4. Extends(live.store, WithRecord(Store, call[w].record, state))
    BY <1>0, <2>3, RecordFacts DEF Store
  <2>. QED
    BY <1>4, <2>1, <2>2, <2>4
<1>6. ASSUME NEW t \in Threads, ReadForRevoke(t)
      PROVE  Lone(w)' /\ Extends(live.store, live.store')
  <2>1. Becomes(t, [call[t] EXCEPT !.at = "open",
                                   !.store = WithRevocation(Store, call[t].record)])
    BY <1>6 DEF ReadForRevoke
  <2>2. t = w /\ call[w].at = "revoke" /\ UNCHANGED <<live, tmp, open, adapters, revoked, scene>>
    BY <1>2, <1>6 DEF ReadForRevoke
  <2>3. call[w].record \in Records
    BY <1>0, <2>2 DEF CallSound
  <2>4. /\ Extends(live.store, WithRevocation(Store, call[w].record))
        /\ call[w].record \in WithRevocation(Store, call[w].record).revocations
    BY <1>0, <2>3, RevocationFacts DEF Store
  <2>. QED
    BY <1>4, <2>1, <2>2, <2>4
<1>7. ASSUME NEW t \in Threads PROVE ~Unreadable(t)
  BY <1>0 DEF Unreadable, Lone
<1>8. ASSUME NEW t \in Threads, OpenTemporary(t)
      PROVE  Lone(w)' /\ Extends(live.store, live.store')
  <2>. DEFINE c == [call[t] EXCEPT !.at = "write"]
  <2>1. /\ Becomes(t, c) /\ call[t].at = "open" /\ t = w
        /\ open' = [open EXCEPT ![t] = "tmp"] /\ UNCHANGED <<live, adapters, revoked, scene>>
    BY <1>2, <1>8 DEF OpenTemporary
  <2>2. /\ c.at = "write" /\ c.op = call[w].op /\ c.store = call[w].store
        /\ c.record = call[w].record
    BY <1>0, <2>1 DEF CallSound
  <2>3. open'[w] = "tmp"
    BY <1>0, <2>1
  <2>. HIDE DEF c
  <2>4. Lone(w)'
    BY <1>0, <2>1, <2>2, <2>3, BecomesFacts DEF Lone, Writing, Readable
  <2>. QED
    BY <1>1, <2>1, <2>4
<1>9. ASSUME NEW t \in Threads, WriteTemporary(t)
      PROVE  Lone(w)' /\ Extends(live.store, live.store')
  <2>. DEFINE c == [call[t] EXCEPT !.at = "replace"]
  <2>1. Becomes(t, c) /\ call[t].at = "write" /\ t = w /\ UNCHANGED <<adapters, revoked, scene>>
    BY <1>2, <1>9 DEF WriteTemporary
  <2>2. tmp' = Whole(call[w].store) /\ live' = live
    BY <1>0, <1>9, <2>1 DEF WriteTemporary, Lone
  <2>3. /\ c.at = "replace" /\ c.op = call[w].op /\ c.store = call[w].store
        /\ c.record = call[w].record
    BY <1>0, <2>1 DEF CallSound
  <2>. HIDE DEF c
  <2>4. Lone(w)'
    BY <1>0, <2>1, <2>2, <2>3, BecomesFacts DEF Lone, Writing, Readable
  <2>. QED
    BY <1>1, <2>2, <2>4
<1>10. ASSUME NEW t \in Threads, ReplaceStore(t)
       PROVE  Lone(w)' /\ Extends(live.store, live.store')
  <2>. DEFINE c == [call[t] EXCEPT !.at = "build"]
  <2>1. /\ Becomes(t, c) /\ call[t].at = "replace" /\ t = w
        /\ live' = tmp /\ UNCHANGED <<adapters, revoked, scene>>
    BY <1>2, <1>10 DEF ReplaceStore
  <2>2. live'.store = call[w].store /\ live'.kind = "whole"
    BY <1>0, <2>1, FileFacts DEF Lone
  <2>3. /\ c.at = "build" /\ c.op = call[w].op /\ c.store = call[w].store
        /\ c.record = call[w].record
    BY <1>0, <2>1 DEF CallSound
  <2>4. Extends(live.store, call[w].store)
    BY <1>0, <2>1 DEF Lone, Writing
  <2>. HIDE DEF c
  <2>5. Lone(w)'
    BY <1>0, <2>1, <2>2, <2>3, <2>4, BecomesFacts DEF Lone, Writing, Readable, Extends
  <2>. QED
    BY <2>2, <2>4, <2>5
<1>11. ASSUME NEW t \in Threads PROVE ~NothingToReplace(t)
  BY <1>0, <1>2, FileFacts DEF NothingToReplace, Lone
<1>12. ASSUME NEW t \in Threads, BuildAdapters(t)
       PROVE  Lone(w)' /\ Extends(live.store, live.store')
  <2>1. PICK found \in Buildable : Becomes(t, [call[t] EXCEPT !.at = "swap", !.found = found])
    BY <1>12 DEF BuildAdapters
  <2>2. call[t].at = "build" /\ t = w /\ UNCHANGED <<live, tmp, open, adapters, revoked, scene>>
    BY <1>2, <1>12 DEF BuildAdapters
  <2>3. found \subseteq Feed(live.store)
    BY <2>1 DEF Buildable, Store
  <2>. DEFINE c == [call[t] EXCEPT !.at = "swap", !.found = found]
  <2>4. c.at = "swap" /\ c.op = call[w].op /\ c.record = call[w].record /\ c.found = found
    BY <1>0, <2>2 DEF CallSound
  <2>5. Becomes(w, c)
    BY <2>1, <2>2
  <2>. HIDE DEF c
  <2>6. Lone(w)'
    BY <1>0, <2>2, <2>3, <2>4, <2>5, BecomesFacts DEF Lone, Writing, Readable
  <2>. QED
    BY <1>1, <2>2, <2>6
<1>13. ASSUME NEW t \in Threads, SwapAdapters(t)
       PROVE  Lone(w)' /\ Extends(live.store, live.store')
  <2>1. /\ Becomes(t, Idle) /\ call[t].at = "swap" /\ t = w /\ adapters' = call[w].found
        /\ UNCHANGED <<live, tmp, open, scene>>
        /\ revoked' = IF call[w].op = "revoke" THEN revoked \cup {call[w].record} ELSE revoked
    BY <1>2, <1>13 DEF SwapAdapters
  <2>2. Lone(w)'
    BY <1>0, <2>1, BecomesFacts, IdleFacts DEF Lone, Writing, Readable
  <2>. QED
    BY <1>1, <2>1, <2>2
<1>14. ASSUME NEW m \in Merchants, NEW r \in scene.records \cup {None}, Attest(m, r)
       PROVE  Lone(w)' /\ Extends(live.store, live.store')
  BY <1>0, <1>1, <1>14 DEF Attest, Lone, Readable
<1>. QED
  BY <1>3, <1>5, <1>6, <1>7, <1>8, <1>9, <1>10, <1>11, <1>12, <1>13, <1>14 DEF RegistryNext

LEMMA LoneRestart ==
    ASSUME FilesInv, LoneInv, Restart, NEW w \in Threads, scene.submitters \subseteq {w}
    PROVE  Lone(w)' /\ Extends(live.store, live.store')
<1>1. Lone(w) /\ Extends(live.store, live.store)
  BY ExtendsItself DEF LoneInv, FilesInv
<1>2. /\ call' = [t \in Threads |-> Idle] /\ UNCHANGED <<live, revoked, scene>>
      /\ adapters' \subseteq Feed(live.store)
  BY DEF Restart, Buildable, Store
<1>. QED
  BY <1>1, <1>2, IdleFacts DEF Lone, Writing, Readable

(***************************************************************************)
(* The invariant, and what it says                                         *)
(***************************************************************************)
RegistryInv == FilesInv /\ LoneInv /\ WitnessInv

LEMMA InitHolds == FeedProofsInit => RegistryInv
<1>. SUFFICES ASSUME FeedProofsInit PROVE RegistryInv
  OBVIOUS
<1>1. /\ scene \in Scenes /\ live = Missing /\ tmp = Missing
      /\ open = [t \in Threads |-> None] /\ call = [t \in Threads |-> Idle]
      /\ adapters = {} /\ revoked = {} /\ witness = None
  BY DEF FeedProofsInit, Init, RegistryInit
<1>2. FilesInv
  BY <1>1, IdleFacts, FileFacts, EmptyIsSound DEF FilesInv
<1>3. LoneInv
  BY <1>1, IdleFacts, FileFacts DEF LoneInv, Lone, Writing, Readable
<1>4. WitnessInv
  BY <1>1 DEF WitnessInv
<1>. QED
  BY <1>2, <1>3, <1>4 DEF RegistryInv

\* What a proof is fetched from says what the proof says.
LEMMA PayloadFacts ==
    ASSUME NEW s, Sound(s)
    PROVE  LET p == Payload(s)
               q == SignaturePayload(p)
           IN  p.valid /\ ProofSound(q) /\ Continues(q, s)
<1>. DEFINE p == Payload(s)
            q == SignaturePayload(p)
<1>1. p.valid /\ q.records = Feed(s) /\ q.revocations = s.revocations /\ q.head = s.log
  BY DEF Payload, SignaturePayload, Sound
<1>. HIDE DEF p, q
<1>2. ProofSound(q)
  BY <1>1 DEF ProofSound, Sound, Explained, Feed
<1>3. Continues(q, s)
  BY <1>1, LogFacts DEF Continues, Sound
<1>. QED
  BY <1>1, <1>2, <1>3 DEF p, q

LEMMA ContinuesFurther ==
    ASSUME NEW p, ProofSound(p), NEW s, Sound(s), NEW later, Sound(later),
           Continues(p, s), Extends(s, later)
    PROVE  Continues(p, later)
<1>1. IsPrefix(p.head, later.log)
  BY PrefixTransitive DEF ProofSound, Sound, Continues, Extends
<1>. QED
  BY <1>1 DEF Continues, Extends

LEMMA RegistryInductive == RegistryInv /\ [FeedProofsNext]_feedVars => RegistryInv'
<1>. SUFFICES ASSUME RegistryInv, [FeedProofsNext]_feedVars PROVE RegistryInv'
  OBVIOUS
<1>0. FilesInv /\ LoneInv /\ WitnessInv
  BY DEF RegistryInv
<1>1. ASSUME UNCHANGED registryVars, WitnessInv' PROVE RegistryInv'
  <2>1. FilesInv'
    BY <1>0, <1>1 DEF registryVars, FilesInv
  <2>2. LoneInv'
    BY <1>0, <1>1 DEF registryVars, LoneInv, Lone, Readable
  <2>. QED
    BY <1>1, <2>1, <2>2 DEF RegistryInv
<1>2. ASSUME UNCHANGED <<registryVars, witness>> PROVE RegistryInv'
  <2>1. WitnessInv'
    BY <1>0, <1>2 DEF registryVars, WitnessInv, OneAtATime
  <2>. QED
    BY <1>1, <1>2, <2>1
<1>3. ASSUME RegistryNext \/ Restart, UNCHANGED witness PROVE RegistryInv'
  <2>1. FilesInv'
    BY <1>0, <1>3, FilesStep, FilesRestart
  <2>2. scene' = scene
    BY <1>3 DEF RegistryNext, Submit, ReadForUpsert, ReadForRevoke, Unreadable, OpenTemporary,
                WriteTemporary, ReplaceStore, NothingToReplace, BuildAdapters, SwapAdapters,
                Attest, Restart
  <2>3. \A w \in Threads : scene.submitters \subseteq {w} =>
            Lone(w)' /\ Extends(live.store, live.store')
    BY <1>0, <1>3, LoneStep, LoneRestart
  <2>4. LoneInv'
    BY <2>2, <2>3 DEF LoneInv
  <2>5. OneAtATime' <=> OneAtATime
    BY <2>2 DEF OneAtATime
  <2>6. OneAtATime => Extends(live.store, live.store')
    BY <2>3 DEF OneAtATime
  <2>7. WitnessInv'
    <3>. SUFFICES ASSUME witness # None
                  PROVE  /\ witness.valid /\ ProofSound(witness.signed)
                         /\ OneAtATime => Continues(witness.signed, live'.store)
      BY <1>3, <2>5 DEF WitnessInv
    <3>1. Sound(live.store) /\ Sound(live'.store)
      BY <1>0, <2>1 DEF FilesInv
    <3>. QED
      BY <1>0, <2>6, <3>1, ContinuesFurther DEF WitnessInv
  <2>. QED
    BY <2>1, <2>4, <2>7 DEF RegistryInv
<1>4. ASSUME FetchProof PROVE RegistryInv'
  <2>1. /\ UNCHANGED registryVars
        /\ witness' = [valid |-> Payload(Store).valid, signed |-> SignaturePayload(Payload(Store))]
    BY <1>4 DEF FetchProof, vars
  <2>2. Sound(live.store)
    BY <1>0 DEF FilesInv
  <2>3. WitnessInv'
    BY <2>1, <2>2, PayloadFacts DEF WitnessInv, Store, registryVars
  <2>. QED
    BY <1>1, <2>1, <2>3
<1>5. CASE Next /\ UNCHANGED witness
  <2>1. CASE RegistryNext
    BY <1>3, <1>5, <2>1
  <2>2. CASE \E t \in Threads : \/ CheckHealth(t) \/ ExchangeSnapshot(t)
                                \/ Notify(t) \/ NotifyBreaks(t) \/ FileDelivery(t)
    <3>1. UNCHANGED registryVars
      BY <2>2 DEF CheckHealth, ExchangeSnapshot, Notify, NotifyBreaks, FileDelivery
    <3>. QED
      BY <1>2, <1>5, <3>1
  <2>3. CASE \E r \in scene.records : Ages(r)
    <3>1. UNCHANGED registryVars
      BY <2>3 DEF Ages
    <3>. QED
      BY <1>2, <1>5, <3>1
  <2>4. CASE Crash
    BY <1>3, <1>5, <2>4 DEF Crash
  <2>. QED
    BY <1>5, <2>1, <2>2, <2>3, <2>4 DEF Next
<1>6. CASE UNCHANGED feedVars
  BY <1>2, <1>6 DEF feedVars, vars
<1>. QED
  BY <1>4, <1>5, <1>6 DEF FeedProofsNext

LEMMA RegistryHolds == FeedProofsSpec => []RegistryInv
<1>. QED
  BY InitHolds, RegistryInductive, PTL DEF FeedProofsSpec

\* Whoever audits the hosted registry from outside is told the truth, for any
\* number of threads, merchants and records and whatever interleaving of their
\* submissions: the transparency log explains the store file, a proof is of a
\* chain that verifies, and two proofs of one head are of one feed.  With one
\* submission at a time the store continues what was signed before.
THEOREM FeedsAreAuditable == FeedProofsSpec => []FeedIsAuditable
<1>1. ASSUME RegistryInv PROVE FeedIsAuditable
  <2>1. FilesInv /\ WitnessInv /\ Sound(Store)
    BY <1>1 DEF RegistryInv, FilesInv, Store
  <2>2. LogExplainsStore
    BY <2>1 DEF Sound, Explained, Revokes, Lists, Ends, LogExplainsStore
  <2>3. ASSUME witness # None, witness.signed.head = Store.log
        PROVE  /\ witness.signed.records = Feed(Store)
               /\ witness.signed.revocations = Store.revocations
    <3>1. ProofSound(witness.signed)
      BY <2>1, <2>3 DEF WitnessInv
    <3>2. \A r \in Records : r \in witness.signed.revocations <=> r \in Store.revocations
      BY <2>1, <2>3, <3>1 DEF ProofSound, Sound, Explained
    <3>3. \A r \in Records : r \in witness.signed.records <=> r \in Feed(Store)
      BY <2>1, <2>3, <3>1 DEF ProofSound, Sound, Explained, Feed
    <3>4. Feed(Store) \subseteq Records /\ Store.revocations \subseteq Records
      BY <2>1 DEF Sound, Feed
    <3>. QED
      BY <3>1, <3>2, <3>3, <3>4 DEF ProofSound
  <2>. QED
    BY <2>1, <2>2, <2>3 DEF FeedIsAuditable, WitnessInv, Store
<1>. QED
  BY <1>1, RegistryHolds, PTL

\* With one submission at a time, a revocation that was answered stays in the
\* store file and keeps its record out of the feed, across resubmissions and
\* crashes between any two steps of the write.
THEOREM RevocationsAreKept == FeedProofsSpec => []RevocationIsKept
<1>1. RegistryInv => RevocationIsKept
  BY DEF RegistryInv, LoneInv, Lone, OneAtATime, RevocationIsKept, Store, Feed
<1>. QED
  BY <1>1, RegistryHolds, PTL

\* With one submission at a time, once it has ended the gateway quotes from no
\* adapter whose record is not in the feed.
THEOREM AdaptersFollowTheFeed == FeedProofsSpec => []AdaptersFollowFeed
<1>1. ASSUME RegistryInv, OneAtATime, \A t \in scene.submitters : call[t] = Idle
      PROVE  adapters \subseteq Feed(Store)
  <2>1. PICK t \in Threads : scene.submitters \subseteq {t}
    BY <1>1 DEF OneAtATime
  <2>2. Lone(t)
    BY <1>1, <2>1 DEF RegistryInv, LoneInv
  <2>3. CASE call[t] = Idle
    BY <2>2, <2>3, IdleFacts DEF Lone, Store
  <2>4. CASE scene.submitters = {}
    BY <2>2, <2>4 DEF Lone, Store
  <2>. QED
    BY <1>1, <2>1, <2>3, <2>4
<1>2. RegistryInv => AdaptersFollowFeed
  BY <1>1 DEF AdaptersFollowFeed
<1>. QED
  BY <1>2, RegistryHolds, PTL

(***************************************************************************)
(* Sequences                                                               *)
(***************************************************************************)
LEMMA AppendedFacts ==
    ASSUME NEW S, NEW s \in Seq(S), NEW e \in S
    PROVE  /\ Append(s, e) \in Seq(S) /\ Len(Append(s, e)) = Len(s) + 1 /\ Len(s) \in Nat
           /\ Append(s, e)[Len(s) + 1] = e
           /\ \A i \in 1 .. Len(s) : Append(s, e)[i] = s[i]
           /\ ToSet(Append(s, e)) = ToSet(s) \cup {e}
<1>1. /\ Append(s, e) \in Seq(S) /\ Len(Append(s, e)) = Len(s) + 1 /\ Len(s) \in Nat
      /\ Append(s, e)[Len(s) + 1] = e
      /\ \A i \in 1 .. Len(s) : Append(s, e)[i] = s[i]
      /\ DOMAIN s = 1 .. Len(s) /\ DOMAIN Append(s, e) = 1 .. Len(s) + 1
  OBVIOUS
<1>2. \A x \in ToSet(Append(s, e)) : x \in ToSet(s) \cup {e}
  BY <1>1 DEF ToSet
<1>3. \A x \in ToSet(s) \cup {e} : x \in ToSet(Append(s, e))
  BY <1>1 DEF ToSet
<1>. QED
  BY <1>1, <1>2, <1>3

LEMMA TailFacts ==
    ASSUME NEW S, NEW s \in Seq(S), s # <<>>
    PROVE  /\ Tail(s) \in Seq(S) /\ Head(s) \in S
           /\ ToSet(s) = {Head(s)} \cup ToSet(Tail(s))
<1>1. /\ Tail(s) \in Seq(S) /\ Len(s) \in Nat \ {0} /\ Head(s) = s[1] /\ Head(s) \in S
      /\ DOMAIN s = 1 .. Len(s) /\ DOMAIN Tail(s) = 1 .. Len(s) - 1
      /\ \A i \in 1 .. Len(s) - 1 : Tail(s)[i] = s[i + 1]
  OBVIOUS
<1>2. ASSUME NEW i \in 1 .. Len(s), i # 1 PROVE s[i] \in ToSet(Tail(s))
  <2>1. i - 1 \in 1 .. Len(s) - 1 /\ Tail(s)[i - 1] = s[i]
    BY <1>1, <1>2
  <2>. QED
    BY <1>1, <2>1 DEF ToSet
<1>3. ASSUME NEW i \in 1 .. Len(s) - 1 PROVE Tail(s)[i] \in ToSet(s)
  <2>1. i + 1 \in 1 .. Len(s)
    BY <1>1
  <2>. QED
    BY <1>1, <2>1 DEF ToSet
<1>4. Head(s) \in ToSet(s)
  BY <1>1 DEF ToSet
<1>5. ToSet(s) \subseteq {Head(s)} \cup ToSet(Tail(s))
  BY <1>1, <1>2 DEF ToSet
<1>6. ToSet(Tail(s)) \subseteq ToSet(s)
  BY <1>1, <1>3 DEF ToSet
<1>. QED
  BY <1>1, <1>4, <1>5, <1>6

LEMMA LastFacts ==
    ASSUME NEW S, NEW s \in Seq(S), NEW n \in Nat \ {0}
    PROVE  LET l == LastOf(s, n)
           IN  /\ l \in Seq(S)
               /\ Len(l) = IF Len(s) > n THEN n ELSE Len(s)
               /\ \A k \in 1 .. Len(l) : l[k] = s[Len(s) - Len(l) + k]
               /\ ToSet(l) \subseteq ToSet(s)
               /\ Len(s) <= n => l = s
<1>. DEFINE first == IF Len(s) > n THEN Len(s) - n + 1 ELSE 1
            l == LastOf(s, n)
<1>1. Len(s) \in Nat /\ first \in 1 .. Len(s) + 1 /\ Len(s) - first + 1 \in Nat
      /\ DOMAIN s = 1 .. Len(s)
  OBVIOUS
<1>2. l = SubSeq(s, first, Len(s))
  BY DEF LastOf
<1>. HIDE DEF first, l
<1>3. /\ l \in Seq(S) /\ Len(l) = Len(s) - first + 1 /\ DOMAIN l = 1 .. Len(s) - first + 1
      /\ \A k \in 1 .. Len(s) - first + 1 : l[k] = s[first + k - 1]
  BY <1>1, <1>2
<1>4. \A k \in 1 .. Len(l) : first + k - 1 = Len(s) - Len(l) + k /\ first + k - 1 \in DOMAIN s
  BY <1>1, <1>3
<1>5. Len(l) = IF Len(s) > n THEN n ELSE Len(s)
  BY <1>1, <1>3 DEF first
<1>6. ToSet(l) \subseteq ToSet(s)
  BY <1>3, <1>4 DEF ToSet
<1>7. SubSeq(s, 1, Len(s)) = s /\ (Len(s) <= n => first = 1)
  BY <1>1 DEF first
<1>. QED
  BY <1>2, <1>3, <1>4, <1>5, <1>6, <1>7 DEF l

LEMMA ConcatFacts ==
    ASSUME NEW S, NEW x \in Seq(S), NEW y \in Seq(S)
    PROVE  x \o y \in Seq(S) /\ ToSet(x \o y) = ToSet(x) \cup ToSet(y)
<1>1. /\ DOMAIN x = 1 .. Len(x) /\ DOMAIN y = 1 .. Len(y) /\ Len(x) \in Nat /\ Len(y) \in Nat
      /\ x \o y \in Seq(S) /\ DOMAIN (x \o y) = 1 .. Len(x) + Len(y)
      /\ \A i \in 1 .. Len(x) + Len(y) :
            (x \o y)[i] = IF i <= Len(x) THEN x[i] ELSE y[i - Len(x)]
  OBVIOUS
<1>2. ASSUME NEW s \in ToSet(x \o y) PROVE s \in ToSet(x) \cup ToSet(y)
  BY <1>1, <1>2 DEF ToSet
<1>3. ASSUME NEW i \in 1 .. Len(x) PROVE x[i] \in ToSet(x \o y)
  <2>1. i \in 1 .. Len(x) + Len(y) /\ (x \o y)[i] = x[i]
    BY <1>1
  <2>. QED
    BY <1>1, <2>1 DEF ToSet
<1>4. ASSUME NEW i \in 1 .. Len(y) PROVE y[i] \in ToSet(x \o y)
  <2>1. Len(x) + i \in 1 .. Len(x) + Len(y) /\ (x \o y)[Len(x) + i] = y[i]
    BY <1>1
  <2>. QED
    BY <1>1, <2>1 DEF ToSet
<1>5. ToSet(x) \subseteq ToSet(x \o y) /\ ToSet(y) \subseteq ToSet(x \o y)
  BY <1>1, <1>3, <1>4 DEF ToSet
<1>. QED
  BY <1>1, <1>2, <1>5

LEMMA ThreeFacts ==
    ASSUME NEW S, NEW x \in Seq(S), NEW y \in Seq(S), NEW z \in Seq(S)
    PROVE  /\ (x \o y) \o z \in Seq(S)
           /\ ToSet((x \o y) \o z) = ToSet(x) \cup ToSet(y) \cup ToSet(z)
<1>. DEFINE xy == x \o y
<1>1. xy \in Seq(S) /\ ToSet(xy) = ToSet(x) \cup ToSet(y)
  BY ConcatFacts
<1>. HIDE DEF xy
<1>2. xy \o z \in Seq(S) /\ ToSet(xy \o z) = ToSet(xy) \cup ToSet(z)
  BY <1>1, ConcatFacts
<1>. QED
  BY <1>1, <1>2 DEF xy

(***************************************************************************)
(* The monitor and its recipients                                          *)
(***************************************************************************)
IsRun(r) ==
    /\ r \in [at : {"idle", "checked", "notify"}, alerts : {r.alerts}, new : {r.new},
              resolved : {r.resolved}, sinks : Seq(Sinks), told : {r.told}, refused : {r.refused}]
    /\ r = Resting \/ r.at = "checked" \/ r.at = "notify"
    /\ r.at = "checked" => r.sinks = <<>> /\ r.refused = {}

\* What a sink is to know when nothing is on the way to it.
Current(known) ==
    IF scene.resolved THEN known = Allowed(snapshot) ELSE Allowed(snapshot) \subseteq known

Awaits(t, s) == run[t].at = "notify" /\ s \in ToSet(run[t].sinks)

Heard(t, s) == (shown[s] \cup run[t].new) \ run[t].resolved

\* With one monitor, what is on the way to a sink makes it current, once or
\* more often; a sink nothing is on the way to is current.
Followed(t) ==
    /\ run[t].at = "notify" =>
          run[t].new \subseteq Allowed(snapshot) /\ run[t].resolved \cap Allowed(snapshot) = {}
    /\ \A s \in scene.sinks \ failures :
          Current(IF Awaits(t, s) THEN Heard(t, s) ELSE shown[s])

MonitorInv ==
    /\ scene \in Scenes
    /\ DOMAIN run = Threads /\ DOMAIN shown = Sinks
    /\ \A t \in Threads :
          /\ IsRun(run[t]) /\ run[t].refused \subseteq failures
          /\ run[t] # Resting => t \in scene.monitors
    /\ attention => failures # {}
    /\ \A t \in Threads : scene.monitors \subseteq {t} => Followed(t)

LEMMA RestingFacts ==
    Resting.at = "idle" /\ Resting.sinks = <<>> /\ Resting.refused = {} /\ IsRun(Resting)
BY DEF Resting, IsRun

LEMMA ConfiguredFacts ==
    ASSUME scene.sinks \subseteq Sinks
    PROVE  Configured \in Seq(Sinks) /\ ToSet(Configured) = scene.sinks
<1>. DEFINE One(s) == IF s \in scene.sinks THEN <<s>> ELSE <<>>
            w == One("webhook")
            h == One("homeassistant")
            e == One("email")
<1>1. \A s \in Sinks : One(s) \in Seq(Sinks) /\ ToSet(One(s)) = scene.sinks \cap {s}
  BY DEF ToSet
<1>2. w \in Seq(Sinks) /\ h \in Seq(Sinks) /\ e \in Seq(Sinks)
  BY <1>1 DEF Sinks
<1>3. ToSet(w) \cup ToSet(h) \cup ToSet(e) = scene.sinks
  BY <1>1 DEF Sinks
<1>4. Configured = (w \o h) \o e
  BY DEF Configured
<1>. HIDE DEF w, h, e
<1>5. /\ (w \o h) \o e \in Seq(Sinks)
      /\ ToSet((w \o h) \o e) = ToSet(w) \cup ToSet(h) \cup ToSet(e)
  BY <1>2, ThreeFacts
<1>. QED
  BY <1>3, <1>4, <1>5

LEMMA RunsFacts ==
    ASSUME MonitorInv, NEW t \in Threads, NEW r, Runs(t, r)
    PROVE  /\ DOMAIN run' = Threads /\ run'[t] = r
           /\ \A u \in Threads \ {t} : run'[u] = run[u]
BY DEF MonitorInv, Runs

\* A step of the run of one thread: what is left to show.
LEMMA MonitorStep ==
    ASSUME MonitorInv, NEW t \in scene.monitors, t \in Threads, NEW r, Runs(t, r), UNCHANGED scene,
           failures \subseteq failures', IsRun(r),
           r.refused \subseteq failures', DOMAIN shown' = Sinks,
           attention' => failures' # {},
           scene.monitors \subseteq {t} => Followed(t)'
    PROVE  MonitorInv'
<1>1. \A u \in Threads : IsRun(run'[u]) /\ run'[u].refused \subseteq failures'
  BY RunsFacts DEF MonitorInv
<1>2. \A u \in Threads : scene.monitors \subseteq {u} => u = t
  OBVIOUS
<1>. QED
  BY <1>1, <1>2, RunsFacts DEF MonitorInv

LEMMA MonitorInductive == MonitorInv /\ [FeedProofsNext]_feedVars => MonitorInv'
<1>. SUFFICES ASSUME MonitorInv, [FeedProofsNext]_feedVars PROVE MonitorInv'
  OBVIOUS
<1>s. /\ scene.sinks \subseteq Sinks
      /\ scene.monitors \subseteq Threads
  BY ScenesTellSinks, ScenesAreScenes DEF MonitorInv
<1>0. ASSUME UNCHANGED <<monitorVars, scene>> PROVE MonitorInv'
  BY <1>0 DEF monitorVars, MonitorInv, IsRun, Followed, Current, Awaits, Heard, Allowed
<1>1. ASSUME NEW t \in Threads, CheckHealth(t) PROVE MonitorInv'
  <2>1. PICK alerts : Runs(t, [Resting EXCEPT !.at = "checked", !.alerts = alerts])
    BY <1>1 DEF CheckHealth
  <2>. DEFINE r == [Resting EXCEPT !.at = "checked", !.alerts = alerts]
  <2>2. /\ t \in scene.monitors /\ run[t] = Resting
        /\ UNCHANGED <<scene, snapshot, shown, failures, attention>>
    BY <1>1 DEF CheckHealth, registryVars
  <2>3. r.at = "checked" /\ IsRun(r) /\ r.refused = {}
    <3>1. Resting.at = "idle" /\ Resting.sinks = <<>> /\ Resting.refused = {} /\ IsRun(Resting)
      BY RestingFacts
    <3>2. /\ r.at = "checked" /\ r.sinks = <<>> /\ r.refused = {} /\ r.alerts = alerts
          /\ r.new = Resting.new /\ r.resolved = Resting.resolved /\ r.told = Resting.told
      BY <3>1 DEF IsRun
    <3>. QED
      BY <3>1, <3>2 DEF IsRun
  <2>4. run'[t] = r
    BY <2>1, RunsFacts
  <2>5. ASSUME Followed(t) PROVE Followed(t)'
    BY <2>2, <2>3, <2>4, <2>5, RestingFacts DEF Followed, Current, Awaits, Allowed
  <2>6. scene.monitors \subseteq {t} => Followed(t)'
    BY <2>5 DEF MonitorInv
  <2>. QED
    BY <2>1, <2>2, <2>3, <2>6, MonitorStep DEF MonitorInv
<1>2. ASSUME NEW t \in Threads, ExchangeSnapshot(t) PROVE MonitorInv'
  <2>. DEFINE old == run[t]
              r == Changed(old)
              news == News(old.alerts \ snapshot, snapshot \ old.alerts)
              any == news.new \cup news.resolved # {}
  <2>1. /\ old.at = "checked" /\ Runs(t, r) /\ snapshot' = old.alerts
        /\ UNCHANGED <<scene, shown, failures, attention>>
    BY <1>2 DEF ExchangeSnapshot, registryVars
  <2>2. t \in scene.monitors /\ IsRun(old) /\ old.sinks = <<>> /\ old.refused = {}
    BY <2>1, RestingFacts DEF MonitorInv, IsRun
  <2>3. /\ r.at = "notify" /\ r.new = news.new /\ r.resolved = news.resolved
        /\ r.sinks = (IF any THEN Configured ELSE <<>>) /\ r.refused = {} /\ IsRun(r)
    <3>1. r = [old EXCEPT !.at = "notify", !.new = news.new, !.resolved = news.resolved,
                          !.sinks = IF any THEN Configured ELSE <<>>]
      BY DEF Changed
    <3>2. Configured \in Seq(Sinks)
      BY <1>s, ConfiguredFacts
    <3>. HIDE DEF r, old, news, any
    <3>. QED
      BY <2>2, <3>1, <3>2 DEF IsRun
  <2>4. run'[t] = r
    BY <2>1, RunsFacts
  <2>5. /\ news.new = Allowed(old.alerts \ snapshot)
        /\ news.resolved = IF scene.resolved THEN Allowed(snapshot \ old.alerts) ELSE {}
    BY DEF News
  <2>6. /\ Allowed(old.alerts \ snapshot) = Allowed(old.alerts) \ Allowed(snapshot)
        /\ Allowed(snapshot \ old.alerts) = Allowed(snapshot) \ Allowed(old.alerts)
    BY DEF Allowed
  <2>7. Allowed(snapshot)' = Allowed(old.alerts)
    BY <2>1 DEF Allowed
  <2>. HIDE DEF r, old, news
  <2>8. ASSUME Followed(t) PROVE Followed(t)'
    <3>1. run'[t].new \subseteq Allowed(snapshot)' /\ run'[t].resolved \cap Allowed(snapshot)' = {}
      BY <2>3, <2>4, <2>5, <2>6, <2>7
    <3>2. ASSUME NEW s \in scene.sinks \ failures
          PROVE  Current(IF Awaits(t, s) THEN Heard(t, s) ELSE shown[s])'
      <4>1. Current(shown[s])
        BY <2>1, <2>8 DEF Followed, Awaits, old
      <4>2. Awaits(t, s)' <=> any
        <5>1. ToSet(Configured) = scene.sinks /\ ToSet(<<>>) = {}
          BY <1>s, ConfiguredFacts DEF ToSet
        <5>. QED
          BY <2>3, <2>4, <3>2, <5>1 DEF Awaits
      <4>3. CASE any
        <5>1. Heard(t, s)' = (shown[s] \cup news.new) \ news.resolved
          BY <2>1, <2>3, <2>4 DEF Heard
        <5>2. CASE scene.resolved
          <6>1. (Allowed(snapshot) \cup Allowed(old.alerts \ snapshot))
                    \ Allowed(snapshot \ old.alerts) = Allowed(old.alerts)
            BY <2>6
          <6>. QED
            BY <2>1, <2>5, <2>7, <4>1, <4>2, <4>3, <5>1, <5>2, <6>1 DEF Current
        <5>3. CASE ~scene.resolved
          BY <2>1, <2>5, <2>6, <2>7, <4>1, <4>2, <4>3, <5>1, <5>3 DEF Current
        <5>. QED
          BY <5>2, <5>3
      <4>4. CASE ~any
        <5>1. /\ Allowed(old.alerts) \subseteq Allowed(snapshot)
              /\ scene.resolved => Allowed(old.alerts) = Allowed(snapshot)
          BY <2>5, <2>6, <4>4
        <5>. QED
          BY <2>1, <2>7, <4>1, <4>2, <4>4, <5>1 DEF Current
      <4>. QED
        BY <4>3, <4>4
    <3>. QED
      BY <2>1, <3>1, <3>2 DEF Followed
  <2>9. scene.monitors \subseteq {t} => Followed(t)'
    BY <2>8 DEF MonitorInv
  <2>. QED
    BY <2>1, <2>2, <2>3, <2>9, MonitorStep DEF MonitorInv
<1>3. ASSUME NEW t \in Threads, Notify(t) PROVE MonitorInv'
  <2>. DEFINE old == run[t]
              s == Head(old.sinks)
              r == run'[t]
  <2>1. /\ old.at = "notify" /\ old.sinks # <<>>
        /\ UNCHANGED <<scene, snapshot, attention>>
        /\ shown' \in {shown, Informed(s, old)}
        /\ failures' = failures \/ failures' = failures \cup {s}
        /\ s \notin failures' => shown' = Informed(s, old)
    BY <1>3 DEF Notify, registryVars
  <2>2. PICK told, refused : /\ Runs(t, [old EXCEPT !.sinks = Tail(@), !.told = told, !.refused = refused])
                             /\ refused \subseteq failures'
    <3>1. IsRun(old)
      BY DEF MonitorInv
    <3>0. old.refused \subseteq failures
      BY DEF MonitorInv
    <3>3. CASE Runs(t, [old EXCEPT !.sinks = Tail(@), !.told = @ \cup {s}]) /\ UNCHANGED failures
      <4>1. [old EXCEPT !.sinks = Tail(@), !.told = @ \cup {s}]
                = [old EXCEPT !.sinks = Tail(@), !.told = old.told \cup {s}, !.refused = old.refused]
        BY <3>1 DEF IsRun
      <4>. QED
        BY <3>0, <3>3, <4>1
    <3>4. CASE /\ failures' = failures \cup {s}
               /\ Runs(t, [old EXCEPT !.sinks = Tail(@), !.refused = @ \cup {s}])
      <4>1. [old EXCEPT !.sinks = Tail(@), !.refused = @ \cup {s}]
                = [old EXCEPT !.sinks = Tail(@), !.told = old.told, !.refused = old.refused \cup {s}]
        BY <3>1 DEF IsRun
      <4>2. old.refused \cup {s} \subseteq failures'
        BY <3>0, <3>4
      <4>. QED
        BY <3>4, <4>1, <4>2
    <3>. QED
      BY <1>3, <3>3, <3>4 DEF Notify
  <2>3. t \in scene.monitors /\ IsRun(old)
    BY <2>1, RestingFacts DEF MonitorInv
  <2>4. r = [old EXCEPT !.sinks = Tail(@), !.told = told, !.refused = refused]
    BY <2>2, RunsFacts
  <2>5. /\ r.at = "notify" /\ r.new = old.new /\ r.resolved = old.resolved
        /\ r.sinks = Tail(old.sinks) /\ IsRun(r)
    <3>1. Tail(old.sinks) \in Seq(Sinks)
      BY <2>1, <2>3 DEF IsRun
    <3>2. failures \subseteq failures'
      BY <2>1
    <3>. HIDE DEF r, old
    <3>. QED
      BY <2>1, <2>2, <2>3, <2>4, <3>1, <3>2 DEF IsRun
  <2>6. s \in Sinks /\ \A x \in ToSet(old.sinks) : x = s \/ x \in ToSet(Tail(old.sinks))
    <3>1. /\ old.sinks \in Seq(Sinks) /\ Len(old.sinks) \in Nat \ {0}
          /\ s = old.sinks[1] /\ DOMAIN old.sinks = 1 .. Len(old.sinks)
          /\ DOMAIN Tail(old.sinks) = 1 .. Len(old.sinks) - 1
          /\ \A i \in 1 .. Len(old.sinks) - 1 : Tail(old.sinks)[i] = old.sinks[i + 1]
      BY <2>1, <2>3 DEF IsRun
    <3>. HIDE DEF old, s
    <3>2. ASSUME NEW i \in 1 .. Len(old.sinks), i # 1
          PROVE  old.sinks[i] \in ToSet(Tail(old.sinks))
      <4>1. i - 1 \in 1 .. Len(old.sinks) - 1 /\ Tail(old.sinks)[i - 1] = old.sinks[i]
        BY <3>1, <3>2
      <4>. QED
        BY <3>1, <4>1 DEF ToSet
    <3>. QED
      BY <3>1, <3>2 DEF ToSet
  <2>7. \A x \in ToSet(Tail(old.sinks)) : x \in ToSet(old.sinks)
    <3>1. /\ old.sinks \in Seq(Sinks) /\ Len(old.sinks) \in Nat \ {0}
          /\ DOMAIN old.sinks = 1 .. Len(old.sinks)
          /\ DOMAIN Tail(old.sinks) = 1 .. Len(old.sinks) - 1
          /\ \A i \in 1 .. Len(old.sinks) - 1 : Tail(old.sinks)[i] = old.sinks[i + 1]
      BY <2>1, <2>3 DEF IsRun
    <3>. HIDE DEF old
    <3>2. ASSUME NEW i \in 1 .. Len(old.sinks) - 1 PROVE Tail(old.sinks)[i] \in ToSet(old.sinks)
      <4>1. i + 1 \in 1 .. Len(old.sinks)
        BY <3>1
      <4>. QED
        BY <3>1, <4>1 DEF ToSet
    <3>. QED
      BY <3>1, <3>2 DEF ToSet
  <2>8. DOMAIN shown' = Sinks /\ \A x \in Sinks \ {s} : shown'[x] = shown[x]
    BY <2>1 DEF MonitorInv, Informed
  <2>9. s \notin failures' => shown'[s] = (shown[s] \cup old.new) \ old.resolved
    BY <2>1, <2>6 DEF MonitorInv, Informed
  <2>10. ASSUME Followed(t) PROVE Followed(t)'
    <3>. HIDE DEF old, s, r
    <3>1. /\ old.new \subseteq Allowed(snapshot) /\ old.resolved \cap Allowed(snapshot) = {}
          /\ Allowed(snapshot)' = Allowed(snapshot)
      BY <2>1, <2>10 DEF Followed, Allowed, old
    <3>2. ASSUME NEW known, Current(known)
          PROVE  Current((known \cup old.new) \ old.resolved)
      BY <3>1, <3>2 DEF Current
    <3>3. ASSUME NEW x \in scene.sinks \ failures'
          PROVE  Current(IF Awaits(t, x) THEN Heard(t, x) ELSE shown[x])'
      <4>0. x \in Sinks /\ x \in scene.sinks \ failures
        BY <1>s, <2>1, <3>3
      <4>1. Current(IF Awaits(t, x) THEN Heard(t, x) ELSE shown[x])
        BY <2>10, <4>0 DEF Followed
      <4>2. \A k : Current(k)' <=> Current(k)'
        OBVIOUS
      <4>3. /\ Awaits(t, x) <=> x \in ToSet(old.sinks)
            /\ Awaits(t, x)' <=> x \in ToSet(Tail(old.sinks))
            /\ Heard(t, x) = (shown[x] \cup old.new) \ old.resolved
            /\ Heard(t, x)' = (shown'[x] \cup old.new) \ old.resolved
        BY <2>1, <2>5 DEF Awaits, Heard, old, r
      <4>4. CASE x = s
        <5>1. x \in ToSet(old.sinks)
          <6>1. old.sinks \in Seq(Sinks) /\ 1 \in DOMAIN old.sinks /\ s = old.sinks[1]
            BY <2>1, <2>3 DEF IsRun, old, s
          <6>. QED
            BY <4>4, <6>1 DEF ToSet
        <5>2. Current(shown'[x])
          BY <2>9, <3>3, <4>1, <4>3, <4>4, <5>1
        <5>3. Current(IF Awaits(t, x)' THEN Heard(t, x)' ELSE shown'[x])
          BY <3>2, <4>3, <5>2
        <5>. QED
          BY <2>1, <3>1, <5>3 DEF Current
      <4>5. CASE x # s
        <5>1. shown'[x] = shown[x] /\ (Awaits(t, x)' <=> Awaits(t, x))
          BY <2>6, <2>7, <2>8, <4>0, <4>3, <4>5
        <5>2. Current(IF Awaits(t, x)' THEN Heard(t, x)' ELSE shown'[x])
          BY <4>1, <4>3, <5>1
        <5>. QED
          BY <2>1, <3>1, <5>2 DEF Current
      <4>. QED
        BY <4>4, <4>5
    <3>4. run'[t].new \subseteq Allowed(snapshot)' /\ run'[t].resolved \cap Allowed(snapshot)' = {}
      BY <2>5, <3>1 DEF r
    <3>. QED
      BY <2>1, <3>3, <3>4 DEF Followed
  <2>11. scene.monitors \subseteq {t} => Followed(t)'
    BY <2>10 DEF MonitorInv
  <2>12. /\ failures \subseteq failures' /\ r.refused \subseteq failures'
         /\ attention' => failures' # {}
    BY <2>1, <2>2, <2>3, <2>4 DEF MonitorInv, IsRun
  <2>. QED
    BY <2>1, <2>2, <2>3, <2>4, <2>5, <2>8, <2>11, <2>12, MonitorStep
<1>4. ASSUME NEW t \in Threads, FileDelivery(t) PROVE MonitorInv'
  <2>1. /\ run[t].at = "notify" /\ run[t].sinks = <<>> /\ Runs(t, Resting)
        /\ attention' = NeedsAttention(run[t])
        /\ UNCHANGED <<scene, snapshot, shown, failures>>
    BY <1>4 DEF FileDelivery, registryVars
  <2>2. t \in scene.monitors /\ run[t].refused \subseteq failures
    BY <2>1, RestingFacts DEF MonitorInv
  <2>3. run'[t] = Resting
    BY <2>1, RunsFacts
  <2>4. attention' => failures' # {}
    <3>1. NeedsAttention(run[t]) => run[t].refused # {}
      BY DEF NeedsAttention, DeliveryState
    <3>. QED
      BY <2>1, <2>2, <3>1
  <2>5. ASSUME Followed(t) PROVE Followed(t)'
    <3>1. ToSet(<<>>) = {}
      BY DEF ToSet
    <3>. QED
      BY <2>1, <2>3, <2>5, <3>1, RestingFacts DEF Followed, Current, Awaits, Allowed
  <2>6. scene.monitors \subseteq {t} => Followed(t)'
    BY <2>5 DEF MonitorInv
  <2>. QED
    BY <2>1, <2>2, <2>4, <2>6, RestingFacts, MonitorStep DEF MonitorInv
<1>5. ASSUME NEW r \in scene.records, Ages(r) PROVE MonitorInv'
  <2>1. UNCHANGED <<scene, snapshot, run, shown, failures, attention>>
    BY <1>5 DEF Ages, registryVars
  <2>. QED
    BY <2>1 DEF MonitorInv, IsRun, Followed, Current, Awaits, Heard, Allowed
<1>6. ASSUME Crash PROVE MonitorInv'
  <2>1. /\ run' = [t \in Threads |-> Resting]
        /\ failures' = failures \cup UNION {ToSet(run[t].sinks) : t \in Threads}
        /\ UNCHANGED <<scene, snapshot, shown, attention>>
    BY <1>6 DEF Crash, Restart
  <2>2. \A t \in Threads : IsRun(run'[t]) /\ run'[t].refused = {}
    BY <2>1, RestingFacts
  <2>3. ASSUME NEW t \in Threads, Followed(t) PROVE Followed(t)'
    <3>1. \A s \in scene.sinks \ failures' : Current(shown[s])
      BY <2>1, <2>3 DEF Followed, Awaits
    <3>. QED
      BY <2>1, <3>1, RestingFacts DEF Followed, Current, Awaits, Allowed
  <2>4. \A t \in Threads : scene.monitors \subseteq {t} => Followed(t)'
    BY <2>3 DEF MonitorInv
  <2>. QED
    BY <2>1, <2>2, <2>4, RestingFacts DEF MonitorInv
<1>10. ASSUME NEW t \in Threads, NotifyBreaks(t) PROVE MonitorInv'
  <2>. DEFINE old == run[t]
              s == Head(old.sinks)
  <2>1. /\ old.at = "notify" /\ old.sinks # <<>> /\ Runs(t, Resting)
        /\ shown' \in {shown, Informed(s, old)}
        /\ failures' = failures \cup ToSet(old.sinks)
        /\ UNCHANGED <<scene, snapshot, attention>>
    BY <1>10 DEF NotifyBreaks, registryVars
  <2>2. t \in scene.monitors /\ IsRun(old)
    BY <2>1, RestingFacts DEF MonitorInv
  <2>3. s \in ToSet(old.sinks)
    <3>1. /\ old.sinks \in Seq(Sinks) /\ 1 \in DOMAIN old.sinks /\ s = old.sinks[1]
      BY <2>1, <2>2 DEF IsRun
    <3>. QED
      BY <3>1 DEF ToSet
  <2>4. DOMAIN shown' = Sinks /\ \A x \in Sinks \ {s} : shown'[x] = shown[x]
    BY <2>1 DEF MonitorInv, Informed
  <2>5. run'[t] = Resting
    BY <2>1, RunsFacts
  <2>6. ASSUME Followed(t) PROVE Followed(t)'
    <3>. HIDE DEF old, s
    <3>1. ASSUME NEW x \in scene.sinks \ failures'
          PROVE  Current(shown'[x])
      <4>1. x \in Sinks /\ x \notin ToSet(old.sinks) /\ x # s /\ x \notin failures
        BY <1>s, <2>1, <2>3, <3>1
      <4>2. Current(shown[x])
        BY <2>6, <3>1, <4>1 DEF Followed, Awaits, old
      <4>. QED
        BY <2>4, <4>1, <4>2
    <3>. QED
      BY <2>1, <2>5, <3>1, RestingFacts DEF Followed, Current, Awaits, Allowed
  <2>7. scene.monitors \subseteq {t} => Followed(t)'
    BY <2>6 DEF MonitorInv
  <2>8. attention' => failures' # {}
    BY <2>1 DEF MonitorInv
  <2>. QED
    BY <2>1, <2>2, <2>4, <2>7, <2>8, RestingFacts, MonitorStep DEF MonitorInv
<1>7. ASSUME RegistryNext PROVE UNCHANGED scene
  BY <1>7 DEF RegistryNext, Submit, ReadForUpsert, ReadForRevoke, Unreadable, OpenTemporary,
              WriteTemporary, ReplaceStore, NothingToReplace, BuildAdapters, SwapAdapters, Attest
<1>8. CASE Next
  BY <1>0, <1>1, <1>2, <1>3, <1>4, <1>5, <1>6, <1>7, <1>8, <1>10 DEF Next
<1>9. CASE UNCHANGED vars
  BY <1>0, <1>9 DEF vars, registryVars
<1>. QED
  BY <1>8, <1>9 DEF FeedProofsNext, FetchProof, feedVars

LEMMA MonitorInit == FeedProofsInit => MonitorInv
<1>. SUFFICES ASSUME FeedProofsInit PROVE MonitorInv
  OBVIOUS
<1>1. /\ scene \in Scenes /\ snapshot = {} /\ run = [t \in Threads |-> Resting]
      /\ shown = [s \in Sinks |-> {}] /\ failures = {} /\ attention = FALSE
  BY DEF FeedProofsInit, Init, RegistryInit
<1>2. scene.sinks \subseteq Sinks
  BY <1>1, ScenesTellSinks
<1>3. \A t \in Threads : Followed(t)
  BY <1>1, <1>2, RestingFacts DEF Followed, Current, Awaits, Allowed
<1>. QED
  BY <1>1, <1>3, RestingFacts DEF MonitorInv

LEMMA RecipientsFollow == MonitorInv => RecipientsAreCurrent
<1>. SUFFICES ASSUME MonitorInv PROVE RecipientsAreCurrent
  OBVIOUS
<1>1. ASSUME Scheduled, \A t \in Threads : run[t] = Resting, NEW s \in scene.sinks \ failures
      PROVE  Current(shown[s])
  <2>1. PICK t \in Threads : scene.monitors \subseteq {t}
    BY <1>1 DEF Scheduled
  <2>. QED
    BY <1>1, <2>1, RestingFacts DEF MonitorInv, Followed, Awaits
<1>. QED
  BY <1>1 DEF RecipientsAreCurrent, Current, MonitorInv

(***************************************************************************)
(* Notifications about the audit log                                       *)
(***************************************************************************)
Events == [id : Nat, kind : STRING]
Results == [sink : OpsSinks \cup {"internal"}, ok : BOOLEAN]
Deliveries ==
    [event : Events, state : {"sent", "partial", "failed"}, results : Seq(Results)]

IsTeller(c) ==
    /\ c \in [at : {"idle", "tail", "tell"}, event : {c.event}, sinks : Seq(OpsSinks),
              phones : Seq(STRING), phoneOk : BOOLEAN, results : Seq(Results)]
    /\ c = Silent \/ (c.at # "idle" /\ c.event \in Events)
    /\ c.at = "tail" => c.sinks = <<>> /\ c.results = <<>> /\ ~c.phoneOk

\* What a thread that tells an event has done about it, and what it still will do.
\* If it broke off, that is all there is on record.
Telling(c) ==
    /\ ToSet(c.sinks) \subseteq telling.sinks
    /\ \A r \in ToSet(c.results) : r.ok => r.sink \in telling.sinks /\ Got(c.event, r.sink)
    /\ \/ \A s \in telling.sinks : s \in ToSet(c.sinks) \/ \E r \in ToSet(c.results) : r.sink = s
       \/ \E r \in ToSet(c.results) : ~r.ok
    /\ c.phoneOk => Got(c.event, "homeassistant")

DeliveryTrue(d) ==
    /\ d.state = "sent" => \A s \in telling.sinks : Got(d.event, s)
    /\ d.state = "partial" => \E s \in telling.sinks : Got(d.event, s)
    /\ \A r \in ToSet(d.results) : r.ok => Got(d.event, r.sink)

Busy(t) == teller[t].at # "idle"

IsLogged(e) == e \in ToSet(file)

NotesTypes ==
    /\ telling \in Tellings
    /\ file \in Seq(Events) /\ \A i \in 1 .. Len(file) : file[i].id = i
    /\ tail \in Seq(Events) /\ filed \in Seq(Events) /\ history \in Seq(Deliveries)
    /\ DOMAIN teller = Tellers /\ \A t \in Tellers : IsTeller(teller[t])

\* The notifications themselves.
NotesTrue ==
    /\ \A t \in Tellers :
          /\ Busy(t) => IsLogged(teller[t].event)
          /\ teller[t].at = "tell" =>
                Told(teller[t].event) /\ telling.sinks # {} /\ Telling(teller[t])
    /\ \A r \in reached : Told(r[1]) /\ IsLogged(r[1])
    /\ \A d \in ToSet(history) : DeliveryTrue(d)

\* An event is with one thread, and filed once.
NotesFiled ==
    /\ \A t, u \in Tellers : t # u /\ Busy(t) /\ Busy(u) => teller[t].event # teller[u].event
    /\ \A t \in Tellers : Busy(t) => teller[t].event \notin ToSet(filed)
    /\ \A e \in ToSet(filed) : IsLogged(e)
    /\ \A i, j \in 1 .. Len(filed) : filed[i] = filed[j] => i = j
    /\ \A e \in ToSet(file) :
          \/ e \in ToSet(filed) \cup cut \/ ~Told(e) \/ telling.sinks = {}
          \/ \E t \in Tellers : Busy(t) /\ teller[t].event = e

\* The deliveries on record are the last ones filed.
NotesKept ==
    /\ Len(history) <= HistoryLimit /\ Len(history) <= Len(filed)
    /\ Len(history) = Len(filed) \/ Len(history) = HistoryLimit
    /\ \A k \in 1 .. Len(history) : history[k].event = filed[Len(filed) - Len(history) + k]

\* The tail lacks of the last events those whose thread is to append them.
NotesTail ==
    /\ Len(tail) <= TailLimit
    /\ \A e \in ToSet(tail) : IsLogged(e)
    /\ \A i, j \in 1 .. Len(tail) : tail[i] = tail[j] => i = j
    /\ \A t \in Tellers : teller[t].at = "tail" => teller[t].event \notin ToSet(tail)
    /\ Len(tail) = TailLimit \/
       \A e \in ToSet(file) :
          \/ e \in ToSet(tail) \cup cut
          \/ \E t \in Tellers : teller[t].at = "tail" /\ teller[t].event = e

NotesInv == NotesTypes /\ NotesTrue /\ NotesFiled /\ NotesKept /\ NotesTail

\* Which sinks are told, in whatever order they are configured.
LEMMA OpsConfiguredFacts ==
    ASSUME telling.sinks \subseteq OpsSinks
    PROVE  OpsConfigured \in Seq(OpsSinks) /\ ToSet(OpsConfigured) = telling.sinks
<1>. DEFINE One(s) == IF s \in telling.sinks THEN <<s>> ELSE <<>>
            w == One("webhook")
            h == One("homeassistant")
            e == One("email")
<1>1. \A s \in OpsSinks : One(s) \in Seq(OpsSinks) /\ ToSet(One(s)) = telling.sinks \cap {s}
  BY DEF ToSet
<1>2. w \in Seq(OpsSinks) /\ h \in Seq(OpsSinks) /\ e \in Seq(OpsSinks)
  BY <1>1 DEF OpsSinks
<1>3. ToSet(w) \cup ToSet(h) \cup ToSet(e) = telling.sinks
  BY <1>1 DEF OpsSinks
<1>4. OpsConfigured = (w \o h) \o e
  BY DEF OpsConfigured
<1>. HIDE DEF w, h, e
<1>5. /\ (w \o h) \o e \in Seq(OpsSinks)
      /\ ToSet((w \o h) \o e) = ToSet(w) \cup ToSet(h) \cup ToSet(e)
  BY <1>2, ThreeFacts
<1>. QED
  BY <1>3, <1>4, <1>5

(***************************************************************************)
(* Steps of one thread                                                     *)
(***************************************************************************)
LEMMA SilentFacts ==
    /\ Silent.at = "idle" /\ IsTeller(Silent)
BY DEF Silent, IsTeller

LEMMA GoesToFacts ==
    ASSUME NotesInv, NEW t \in Tellers, NEW c, GoesTo(t, c)
    PROVE  /\ DOMAIN teller' = Tellers /\ teller'[t] = c
           /\ \A u \in Tellers \ {t} : teller'[u] = teller[u]
BY DEF NotesInv, NotesTypes, GoesTo

LEMMA TellingFacts ==
    ASSUME NotesInv
    PROVE  telling.sinks \subseteq OpsSinks /\ telling.events \in Seq(STRING)
BY TellingsAreTellings DEF NotesInv, NotesTypes

\* What got to a sink stays there.
LEMMA GotGrows ==
    ASSUME reached \subseteq reached', NEW e, NEW s, Got(e, s)
    PROVE  Got(e, s)'
BY DEF Got

LEMMA TellingGrows ==
    ASSUME reached \subseteq reached', UNCHANGED telling, NEW c, Telling(c)
    PROVE  Telling(c)'
BY GotGrows DEF Telling

LEMMA DeliveryStaysTrue ==
    ASSUME reached \subseteq reached', UNCHANGED telling, NEW d, DeliveryTrue(d)
    PROVE  DeliveryTrue(d)'
BY GotGrows DEF DeliveryTrue

\* A thread that tells its event goes on telling it.
LEMMA TellsOn ==
    ASSUME NotesInv, NEW t \in Tellers, teller[t].at = "tell", NEW c, GoesTo(t, c),
           IsTeller(c), c.at = "tell", c.event = teller[t].event, Telling(c)',
           reached \subseteq reached', \A r \in reached' : r \in reached \/ r[1] = c.event,
           UNCHANGED <<telling, file, tail, history, filed, cut>>
    PROVE  NotesInv'
<1>1. /\ teller'[t] = c /\ DOMAIN teller' = Tellers
      /\ \A u \in Tellers \ {t} : teller'[u] = teller[u]
  BY GoesToFacts
<1>2. \A u \in Tellers : teller'[u].at = teller[u].at /\ teller'[u].event = teller[u].event
  BY <1>1
<1>3. NotesTypes'
  BY <1>1 DEF NotesInv, NotesTypes
<1>4. NotesTrue'
  <2>1. ASSUME NEW u \in Tellers
        PROVE  /\ Busy(u)' => IsLogged(teller[u].event)'
               /\ teller'[u].at = "tell" =>
                     Told(teller[u].event)' /\ telling'.sinks # {} /\ Telling(teller[u])'
    <3>1. /\ Busy(u)' <=> Busy(u)
          /\ IsLogged(teller[u].event)' <=> IsLogged(teller[u].event)
          /\ Told(teller[u].event)' <=> Told(teller[u].event)
      BY <1>2 DEF Busy, IsLogged, Told
    <3>2. ASSUME teller[u].at = "tell" PROVE Telling(teller[u])'
      <4>1. CASE u = t
        BY <1>1, <4>1
      <4>2. CASE u # t
        <5>1. Telling(teller[u]) /\ teller'[u] = teller[u]
          BY <1>1, <3>2, <4>2 DEF NotesInv, NotesTrue
        <5>2. ASSUME NEW d, d = teller[u] PROVE Telling(d)'
          BY <5>1, <5>2, TellingGrows
        <5>. QED
          BY <5>1, <5>2
      <4>. QED
        BY <4>1, <4>2
    <3>. QED
      BY <1>2, <3>1, <3>2 DEF NotesInv, NotesTrue
  <2>2. \A r \in reached' : Told(r[1])' /\ IsLogged(r[1])'
    BY DEF NotesInv, NotesTrue, Told, IsLogged, Busy
  <2>3. \A d \in ToSet(history') : DeliveryTrue(d)'
    BY DeliveryStaysTrue DEF NotesInv, NotesTrue
  <2>. QED
    BY <2>1, <2>2, <2>3 DEF NotesTrue
<1>5. NotesFiled'
  BY <1>2 DEF NotesInv, NotesFiled, Busy, IsLogged, Told
<1>6. NotesKept'
  BY DEF NotesInv, NotesKept
<1>7. NotesTail'
  BY <1>2 DEF NotesInv, NotesTail, IsLogged
<1>. QED
  BY <1>3, <1>4, <1>5, <1>6, <1>7 DEF NotesInv

\* The answer of a sink is on record.
LEMMA AnsweredFacts ==
    ASSUME NotesInv, NEW t \in Tellers, NEW old, old = teller[t], old.at = "tell",
           old.sinks # <<>>, NEW ok \in BOOLEAN, Answered(t, ok), reached \subseteq reached',
           ok => Got(old.event, Head(old.sinks))',
           \A r \in reached' : r \in reached \/ r[1] = old.event,
           UNCHANGED <<telling, file, tail, history, filed, cut>>
    PROVE  NotesInv'
<1>. DEFINE s == Head(old.sinks)
            res == [sink |-> s, ok |-> ok]
            all == Append(old.results, res)
            new == [old EXCEPT !.sinks = Tail(@), !.results = all]
<1>1. GoesTo(t, new)
  BY DEF Answered
<1>2. IsTeller(old) /\ Telling(old) /\ old.at = "tell" /\ old.sinks # <<>>
  BY DEF NotesInv, NotesTypes, NotesTrue
<1>3. /\ Tail(old.sinks) \in Seq(OpsSinks) /\ s \in OpsSinks
      /\ ToSet(old.sinks) = {s} \cup ToSet(Tail(old.sinks))
  BY <1>2, TailFacts DEF IsTeller
<1>4. /\ res \in Results /\ res.sink = s /\ res.ok = ok
      /\ all \in Seq(Results) /\ ToSet(all) = ToSet(old.results) \cup {res}
  <2>1. res \in Results /\ res.sink = s /\ res.ok = ok
    BY <1>3 DEF Results
  <2>2. old.results \in Seq(Results)
    BY <1>2 DEF IsTeller
  <2>. HIDE DEF res
  <2>3. all \in Seq(Results) /\ ToSet(all) = ToSet(old.results) \cup {res}
    BY <2>1, <2>2, AppendedFacts
  <2>. QED
    BY <2>1, <2>3
<1>5. /\ IsTeller(new) /\ new.at = "tell" /\ new.event = old.event
      /\ new.sinks = Tail(old.sinks) /\ new.results = all /\ new.phoneOk = old.phoneOk
  <2>. HIDE DEF all, res
  <2>1. /\ new.at = "tell" /\ new.event = old.event /\ new.phones = old.phones
        /\ new.sinks = Tail(old.sinks) /\ new.results = all /\ new.phoneOk = old.phoneOk
    BY <1>2 DEF IsTeller
  <2>2. old.event \in Events
    BY <1>2, SilentFacts DEF IsTeller
  <2>. QED
    BY <1>2, <1>3, <1>4, <2>1, <2>2 DEF IsTeller
<1>6. Telling(old)' /\ (ok => Got(old.event, s)')
  BY <1>2, TellingGrows
<1>. HIDE DEF new, all, res
<1>7. Telling(new)'
  BY <1>3, <1>4, <1>5, <1>6, TellingFacts DEF Telling
<1>. QED
  BY <1>1, <1>5, <1>7, TellsOn

LEMMA CallsFacts ==
    ASSUME NEW e, NEW sink, NEW phone, NEW ok \in BOOLEAN, Calls(e, sink, phone, ok)
    PROVE  /\ reached \subseteq reached' /\ (ok => Got(e, sink)')
           /\ \A r \in reached' : r \in reached \/ r[1] = e
           /\ UNCHANGED <<telling, file, tail, history, filed, cut>>
<1>. DEFINE note == <<e, sink, phone>>
<1>1. /\ reached' = reached \cup {note} \/ (~ok /\ reached' = reached)
      /\ UNCHANGED <<telling, file, tail, history, filed, cut>>
  BY DEF Calls
<1>2. note[1] = e /\ note[2] = sink
  OBVIOUS
<1>. HIDE DEF note
<1>3. ok => \E r \in reached' : r[1] = e /\ r[2] = sink
  BY <1>1, <1>2
<1>. QED
  BY <1>1, <1>2, <1>3 DEF Got

LEMMA TellSinkKeeps == ASSUME NotesInv, NEW t \in Tellers, TellSink(t) PROVE NotesInv'
<1>. SUFFICES ASSUME NEW old, old = teller[t] PROVE NotesInv'
  OBVIOUS
<1>1. PICK ok \in BOOLEAN : Calls(old.event, Head(old.sinks), Nothing, ok) /\ Answered(t, ok)
  BY DEF TellSink
<1>2. old.at = "tell" /\ old.sinks # <<>>
  BY DEF TellSink
<1>3. /\ reached \subseteq reached' /\ (ok => Got(old.event, Head(old.sinks))')
      /\ \A r \in reached' : r \in reached \/ r[1] = old.event
      /\ UNCHANGED <<telling, file, tail, history, filed, cut>>
  BY <1>1, CallsFacts
<1>. QED
  BY <1>1, <1>2, <1>3, AnsweredFacts

LEMMA PhonesAreDoneKeeps ==
    ASSUME NotesInv, NEW t \in Tellers, PhonesAreDone(t) PROVE NotesInv'
<1>. SUFFICES ASSUME NEW old, old = teller[t] PROVE NotesInv'
  OBVIOUS
<1>1. /\ old.at = "tell" /\ old.sinks # <<>> /\ Head(old.sinks) = "homeassistant"
      /\ Answered(t, old.phoneOk)
      /\ UNCHANGED <<telling, file, tail, reached, history, filed, cut>>
  BY DEF PhonesAreDone
<1>2. Telling(old) /\ old.phoneOk \in BOOLEAN
  BY <1>1 DEF NotesInv, NotesTypes, NotesTrue, IsTeller
<1>3. old.phoneOk => Got(old.event, "homeassistant")'
  BY <1>1, <1>2, GotGrows DEF Telling
<1>. QED
  BY <1>1, <1>2, <1>3, AnsweredFacts

LEMMA TellPhoneKeeps == ASSUME NotesInv, NEW t \in Tellers, TellPhone(t) PROVE NotesInv'
<1>. SUFFICES ASSUME NEW old, old = teller[t] PROVE NotesInv'
  OBVIOUS
<1>1. old.at = "tell" /\ old.sinks # <<>> /\ Head(old.sinks) = "homeassistant" /\ old.phones # <<>>
  BY DEF TellPhone
<1>2. PICK ok \in BOOLEAN :
         /\ IF Head(old.phones) \in Malformed
            THEN ~ok /\ UNCHANGED <<telling, file, tail, reached, history, filed, cut>>
            ELSE Calls(old.event, "homeassistant", Head(old.phones), ok)
         /\ GoesTo(t, [old EXCEPT !.phones = Tail(@), !.phoneOk = @ \/ ok])
  BY DEF TellPhone
<1>3. /\ reached \subseteq reached' /\ (ok => Got(old.event, "homeassistant")')
      /\ \A r \in reached' : r \in reached \/ r[1] = old.event
      /\ UNCHANGED <<telling, file, tail, history, filed, cut>>
  BY <1>2, CallsFacts
<1>. DEFINE new == [old EXCEPT !.phones = Tail(@), !.phoneOk = @ \/ ok]
<1>4. IsTeller(old) /\ Telling(old)
  BY <1>1 DEF NotesInv, NotesTypes, NotesTrue
<1>5. /\ IsTeller(new) /\ new.at = "tell" /\ new.event = old.event
      /\ new.sinks = old.sinks /\ new.results = old.results /\ new.phoneOk = (old.phoneOk \/ ok)
  <2>0. old.phones \in Seq(STRING) /\ old.phoneOk \in BOOLEAN
    BY <1>4 DEF IsTeller
  <2>1. Tail(old.phones) \in Seq(STRING)
    BY <1>1, <2>0, TailFacts
  <2>2. /\ new.at = "tell" /\ new.event = old.event /\ new.phones = Tail(old.phones)
        /\ new.sinks = old.sinks /\ new.results = old.results
        /\ new.phoneOk = (old.phoneOk \/ ok)
    BY <1>1, <1>4 DEF IsTeller
  <2>3. old.event \in Events
    BY <1>1, <1>4, SilentFacts DEF IsTeller
  <2>4. new.phoneOk \in BOOLEAN
    BY <2>0, <2>2
  <2>. QED
    BY <1>1, <1>4, <2>1, <2>2, <2>3, <2>4 DEF IsTeller
<1>6. Telling(old)'
  BY <1>3, <1>4, TellingGrows
<1>7. GoesTo(t, new)
  BY <1>2
<1>. HIDE DEF new
<1>8. Telling(new)'
  BY <1>3, <1>5, <1>6 DEF Telling
<1>. QED
  BY <1>1, <1>3, <1>5, <1>7, <1>8, TellsOn

LEMMA TellingBreaksKeeps == ASSUME NotesInv, NEW t \in Tellers, TellingBreaks(t) PROVE NotesInv'
<1>. SUFFICES ASSUME NEW old, old = teller[t] PROVE NotesInv'
  OBVIOUS
<1>. DEFINE res == [sink |-> "internal", ok |-> FALSE]
            new == [old EXCEPT !.sinks = <<>>, !.results = <<res>>]
<1>1. old.at = "tell" /\ GoesTo(t, new) /\ \E s, p : Calls(old.event, s, p, FALSE)
  BY DEF TellingBreaks
<1>2. IsTeller(old) /\ Telling(old)
  BY <1>1 DEF NotesInv, NotesTypes, NotesTrue
<1>3. /\ reached \subseteq reached' /\ \A r \in reached' : r \in reached \/ r[1] = old.event
      /\ UNCHANGED <<telling, file, tail, history, filed, cut>>
  BY <1>1, CallsFacts
<1>4. res \in Results /\ ~res.ok
  BY DEF Results
<1>. HIDE DEF res
<1>5. /\ <<res>> \in Seq(Results) /\ ToSet(<<res>>) = {res}
      /\ <<>> \in Seq(OpsSinks) /\ ToSet(<<>>) = {}
  BY <1>4 DEF ToSet
<1>6. /\ new.at = "tell" /\ new.event = old.event /\ new.phones = old.phones
      /\ new.sinks = <<>> /\ new.results = <<res>> /\ new.phoneOk = old.phoneOk
  BY <1>1, <1>2 DEF IsTeller
<1>7. IsTeller(new)
  <2>1. old.event \in Events /\ old.phones \in Seq(STRING) /\ old.phoneOk \in BOOLEAN
    BY <1>1, <1>2, SilentFacts DEF IsTeller
  <2>2. DOMAIN new = {"at", "event", "sinks", "phones", "phoneOk", "results"}
    BY <1>2 DEF IsTeller
  <2>. QED
    BY <1>2, <1>5, <1>6, <2>1, <2>2 DEF IsTeller
<1>. HIDE DEF new
<1>8. Telling(old)'
  BY <1>2, <1>3, TellingGrows
<1>9. Telling(new)'
  BY <1>3, <1>4, <1>5, <1>6, <1>8 DEF Telling
<1>. QED
  BY <1>1, <1>3, <1>6, <1>7, <1>9, TellsOn

(***************************************************************************)
(* The file, the tail, the deliveries, and crashes                         *)
(***************************************************************************)
LEMMA AppendToFileKeeps == ASSUME NotesInv, NEW t \in Tellers, AppendToFile(t) PROVE NotesInv'
<1>. DEFINE e == [id |-> Len(file) + 1, kind |-> telling.events[Len(file) + 1]]
            new == [Silent EXCEPT !.at = "tail", !.event = e]
<1>1. /\ teller[t] = Silent /\ file' = Append(file, e) /\ GoesTo(t, new)
      /\ Len(file) < Len(telling.events)
      /\ UNCHANGED <<telling, tail, reached, history, filed, cut>>
  BY DEF AppendToFile
<1>2. e \in Events /\ e.id = Len(file) + 1
  BY <1>1, TellingFacts DEF NotesInv, NotesTypes, Events
<1>. HIDE DEF e
<1>3. /\ new.at = "tail" /\ new.event = e /\ IsTeller(new)
  <2>1. /\ new.at = "tail" /\ new.event = e /\ new.sinks = <<>> /\ new.phones = Silent.phones
        /\ new.phoneOk = FALSE /\ new.results = <<>>
    BY DEF Silent
  <2>2. IsTeller(Silent)
    BY SilentFacts
  <2>. QED
    BY <1>2, <2>1, <2>2 DEF IsTeller
<1>. HIDE DEF new
<1>4. /\ teller'[t] = new /\ DOMAIN teller' = Tellers
      /\ \A u \in Tellers \ {t} : teller'[u] = teller[u]
  BY <1>1, GoesToFacts
<1>5. /\ file' \in Seq(Events) /\ Len(file') = Len(file) + 1 /\ Len(file) \in Nat
      /\ file'[Len(file) + 1] = e /\ \A i \in 1 .. Len(file) : file'[i] = file[i]
      /\ ToSet(file') = ToSet(file) \cup {e}
  BY <1>1, <1>2, AppendedFacts DEF NotesInv, NotesTypes
<1>6. e \notin ToSet(file)
  <2>1. DOMAIN file = 1 .. Len(file) /\ \A i \in 1 .. Len(file) : file[i].id = i
    BY DEF NotesInv, NotesTypes
  <2>. QED
    BY <1>2, <1>5, <2>1 DEF ToSet
<1>7. \A u \in Tellers : Busy(u)' <=> Busy(u) \/ u = t
  BY <1>3, <1>4 DEF Busy
<1>8. \A u \in Tellers : Busy(u) => u # t /\ teller[u].event \in ToSet(file)
  BY <1>1, SilentFacts DEF NotesInv, NotesTrue, IsLogged, Busy
<1>9. NotesTypes'
  BY <1>1, <1>3, <1>4, <1>5, <1>2 DEF NotesInv, NotesTypes
<1>10. NotesTrue'
  <2>1. ASSUME NEW u \in Tellers
        PROVE  /\ Busy(u)' => teller'[u].event \in ToSet(file')
               /\ teller'[u].at = "tell" =>
                     Told(teller[u].event)' /\ telling'.sinks # {} /\ Telling(teller[u])'
    <3>1. CASE u = t
      BY <1>3, <1>4, <1>5, <3>1
    <3>2. CASE u # t
      <4>1. teller'[u] = teller[u]
        BY <1>4, <3>2
      <4>2. Telling(teller[u])' <=> Telling(teller[u])
        BY <1>1, <4>1 DEF Telling, Got
      <4>. QED
        BY <1>1, <1>5, <1>7, <1>8, <3>2, <4>1, <4>2 DEF NotesInv, NotesTrue, Told
    <3>. QED
      BY <3>1, <3>2
  <2>2. \A r \in reached' : Told(r[1])' /\ r[1] \in ToSet(file')
    BY <1>1, <1>5 DEF NotesInv, NotesTrue, Told, IsLogged
  <2>3. \A d \in ToSet(history') : DeliveryTrue(d)'
    BY <1>1 DEF NotesInv, NotesTrue, DeliveryTrue, Got
  <2>. QED
    BY <2>1, <2>2, <2>3 DEF NotesTrue, IsLogged
<1>11. NotesFiled'
  <2>1. \A u \in Tellers : Busy(u)' =>
            \/ u = t /\ teller'[u].event = e
            \/ u # t /\ Busy(u) /\ teller'[u] = teller[u] /\ teller[u].event # e
    BY <1>3, <1>4, <1>6, <1>7, <1>8
  <2>2. e \notin ToSet(filed)
    BY <1>6 DEF NotesInv, NotesFiled, IsLogged
  <2>3. \A u, v \in Tellers : u # v /\ Busy(u)' /\ Busy(v)' => teller'[u].event # teller'[v].event
    BY <2>1 DEF NotesInv, NotesFiled
  <2>4. \A u \in Tellers : Busy(u)' => teller'[u].event \notin ToSet(filed')
    BY <1>1, <2>1, <2>2 DEF NotesInv, NotesFiled
  <2>5. \A x \in ToSet(filed') : IsLogged(x)'
    BY <1>1, <1>5 DEF NotesInv, NotesFiled, IsLogged
  <2>6. ASSUME NEW x \in ToSet(file'), x \notin ToSet(filed') \cup cut', Told(x)', telling'.sinks # {}
        PROVE  \E u \in Tellers : Busy(u)' /\ teller'[u].event = x
    <3>1. CASE x = e
      BY <1>3, <1>4, <1>7, <3>1
    <3>2. CASE x # e
      <4>1. PICK u \in Tellers : Busy(u) /\ teller[u].event = x
        BY <1>1, <1>5, <2>6, <3>2 DEF NotesInv, NotesFiled, Told
      <4>. QED
        BY <1>4, <1>7, <1>8, <4>1
    <3>. QED
      BY <3>1, <3>2
  <2>7. \A i, j \in 1 .. Len(filed') : filed'[i] = filed'[j] => i = j
    BY <1>1 DEF NotesInv, NotesFiled
  <2>. QED
    BY <2>3, <2>4, <2>5, <2>6, <2>7 DEF NotesFiled
<1>12. NotesKept'
  BY <1>1 DEF NotesInv, NotesKept
<1>13. NotesTail'
  <2>1. e \notin ToSet(tail)
    BY <1>6 DEF NotesInv, NotesTail, IsLogged
  <2>2. \A u \in Tellers : teller'[u].at = "tail" => teller'[u].event \notin ToSet(tail')
    BY <1>1, <1>3, <1>4, <2>1 DEF NotesInv, NotesTail
  <2>3. \A x \in ToSet(tail') : IsLogged(x)'
    BY <1>1, <1>5 DEF NotesInv, NotesTail, IsLogged
  <2>4. ASSUME NEW x \in ToSet(file'), Len(tail') # TailLimit, x \notin ToSet(tail') \cup cut'
        PROVE  \E u \in Tellers : teller'[u].at = "tail" /\ teller'[u].event = x
    <3>1. CASE x = e
      BY <1>3, <1>4, <3>1
    <3>2. CASE x # e
      <4>1. PICK u \in Tellers : teller[u].at = "tail" /\ teller[u].event = x
        BY <1>1, <1>5, <2>4, <3>2 DEF NotesInv, NotesTail
      <4>2. u # t
        BY <1>1, <4>1, SilentFacts
      <4>. QED
        BY <1>4, <4>1, <4>2
    <3>. QED
      BY <3>1, <3>2
  <2>5. Len(tail') <= TailLimit /\ \A i, j \in 1 .. Len(tail') : tail'[i] = tail'[j] => i = j
    BY <1>1 DEF NotesInv, NotesTail
  <2>. QED
    BY <2>2, <2>3, <2>4, <2>5 DEF NotesTail
<1>. QED
  BY <1>9, <1>10, <1>11, <1>12, <1>13 DEF NotesInv

LEMMA AppendToTailKeeps == ASSUME NotesInv, NEW t \in Tellers, AppendToTail(t) PROVE NotesInv'
<1>. SUFFICES ASSUME NEW old, old = teller[t] PROVE NotesInv'
  OBVIOUS
<1>. DEFINE e == old.event
            told == Told(e) /\ telling.sinks # {}
            all == Append(tail, e)
            new == IF told THEN [old EXCEPT !.at = "tell", !.sinks = OpsConfigured, !.phones = Phones]
                   ELSE Silent
<1>1. /\ old.at = "tail" /\ tail' = LastOf(all, TailLimit) /\ GoesTo(t, new)
      /\ UNCHANGED <<telling, file, reached, history, filed, cut>>
  BY DEF AppendToTail
<1>2. /\ IsTeller(old) /\ e \in Events /\ old.results = <<>> /\ ~old.phoneOk
      /\ e \in ToSet(file) /\ e \notin ToSet(tail) /\ e \notin ToSet(filed)
  <2>1. IsTeller(old) /\ Busy(t) /\ old.at # "idle"
    BY <1>1 DEF NotesInv, NotesTypes, Busy
  <2>. QED
    BY <1>1, <2>1, SilentFacts
    DEF NotesInv, NotesTrue, NotesFiled, NotesTail, IsTeller, IsLogged
<1>3. /\ IsTeller(new) /\ new.at = IF told THEN "tell" ELSE "idle"
      /\ told => new.event = e /\ new.sinks = OpsConfigured /\ new.results = <<>> /\ ~new.phoneOk
  <2>1. CASE ~told
    BY <2>1, SilentFacts
  <2>2. CASE told
    <3>1. OpsConfigured \in Seq(OpsSinks)
      BY TellingFacts, OpsConfiguredFacts
    <3>2. /\ new.at = "tell" /\ new.event = e /\ new.sinks = OpsConfigured
          /\ new.phones = Phones /\ new.results = <<>> /\ new.phoneOk = old.phoneOk
      BY <1>2, <2>2 DEF IsTeller
    <3>. QED
      BY <1>2, <2>2, <3>1, <3>2, PhonesAreInOrder DEF IsTeller
  <2>. QED
    BY <2>1, <2>2
<1>. HIDE DEF new
<1>4. /\ teller'[t] = new /\ DOMAIN teller' = Tellers
      /\ \A u \in Tellers \ {t} : teller'[u] = teller[u]
  BY <1>1, GoesToFacts
<1>5. /\ all \in Seq(Events) /\ Len(all) = Len(tail) + 1 /\ Len(tail) \in Nat
      /\ all[Len(tail) + 1] = e /\ \A i \in 1 .. Len(tail) : all[i] = tail[i]
      /\ ToSet(all) = ToSet(tail) \cup {e}
  BY <1>2, AppendedFacts DEF NotesInv, NotesTypes
<1>. HIDE DEF all
<1>6. TailLimit \in Nat \ {0}
  BY LimitsArePositive
<1>7. /\ tail' \in Seq(Events)
      /\ Len(tail') = IF Len(all) > TailLimit THEN TailLimit ELSE Len(all)
      /\ \A k \in 1 .. Len(tail') : tail'[k] = all[Len(all) - Len(tail') + k]
      /\ ToSet(tail') \subseteq ToSet(all)
      /\ Len(all) <= TailLimit => tail' = all
  BY <1>1, <1>5, <1>6, LastFacts
<1>8. \A u \in Tellers : Busy(u)' <=> Busy(u) /\ (u # t \/ told)
  BY <1>1, <1>3, <1>4 DEF Busy
<1>9. \A u \in Tellers : Busy(u)' => Busy(u) /\ teller'[u].event = teller[u].event
  BY <1>3, <1>4, <1>8
<1>10. NotesTypes'
  BY <1>1, <1>3, <1>4, <1>7 DEF NotesInv, NotesTypes
<1>11. NotesTrue'
  <2>0. ASSUME told PROVE Telling(new)
    <3>1. ToSet(OpsConfigured) = telling.sinks /\ ToSet(<<>>) = {}
      BY TellingFacts, OpsConfiguredFacts DEF ToSet
    <3>. QED
      BY <1>3, <2>0, <3>1 DEF Telling
  <2>1. ASSUME NEW u \in Tellers
        PROVE  /\ Busy(u)' => teller'[u].event \in ToSet(file')
               /\ teller'[u].at = "tell" =>
                     Told(teller[u].event)' /\ telling'.sinks # {} /\ Telling(teller[u])'
    <3>1. CASE u = t
      <4>1. Telling(teller[u])' <=> Telling(new)
        BY <1>1, <1>4, <3>1 DEF Telling, Got
      <4>2. teller'[u].at = "tell" => told
        BY <1>3, <1>4, <3>1
      <4>. QED
        BY <1>1, <1>2, <1>3, <1>4, <1>8, <2>0, <3>1, <4>1, <4>2 DEF Told
    <3>2. CASE u # t
      <4>1. teller'[u] = teller[u]
        BY <1>4, <3>2
      <4>2. Telling(teller[u])' <=> Telling(teller[u])
        BY <1>1, <4>1 DEF Telling, Got
      <4>. QED
        BY <1>1, <1>8, <3>2, <4>1, <4>2 DEF NotesInv, NotesTrue, Told, IsLogged
    <3>. QED
      BY <3>1, <3>2
  <2>2. \A r \in reached' : Told(r[1])' /\ r[1] \in ToSet(file')
    BY <1>1 DEF NotesInv, NotesTrue, Told, IsLogged
  <2>3. \A d \in ToSet(history') : DeliveryTrue(d)'
    BY <1>1 DEF NotesInv, NotesTrue, DeliveryTrue, Got
  <2>. QED
    BY <2>1, <2>2, <2>3 DEF NotesTrue, IsLogged
<1>12. NotesFiled'
  <2>1. \A u, v \in Tellers : u # v /\ Busy(u)' /\ Busy(v)' => teller'[u].event # teller'[v].event
    BY <1>9 DEF NotesInv, NotesFiled
  <2>2. \A u \in Tellers : Busy(u)' => teller'[u].event \notin ToSet(filed')
    BY <1>1, <1>9 DEF NotesInv, NotesFiled
  <2>3. ASSUME NEW x \in ToSet(file'), x \notin ToSet(filed') \cup cut', Told(x)', telling'.sinks # {}
        PROVE  \E u \in Tellers : Busy(u)' /\ teller'[u].event = x
    <3>1. PICK u \in Tellers : Busy(u) /\ teller[u].event = x
      BY <1>1, <2>3 DEF NotesInv, NotesFiled, Told
    <3>2. u = t => told
      BY <1>1, <2>3, <3>1 DEF Told
    <3>. QED
      BY <1>8, <1>9, <3>1, <3>2
  <2>4. /\ \A x \in ToSet(filed') : IsLogged(x)'
        /\ \A i, j \in 1 .. Len(filed') : filed'[i] = filed'[j] => i = j
    BY <1>1 DEF NotesInv, NotesFiled, IsLogged
  <2>. QED
    BY <2>1, <2>2, <2>3, <2>4 DEF NotesFiled
<1>13. NotesKept'
  BY <1>1 DEF NotesInv, NotesKept
<1>14. NotesTail'
  <2>1. ASSUME NEW i \in 1 .. Len(all), NEW j \in 1 .. Len(all), all[i] = all[j]
        PROVE  i = j
    <3>1. DOMAIN tail = 1 .. Len(tail)
      BY DEF NotesInv, NotesTypes
    <3>2. \A k \in 1 .. Len(tail) : all[k] # e
      BY <1>2, <1>5, <3>1 DEF ToSet
    <3>. QED
      BY <1>5, <2>1, <3>2 DEF NotesInv, NotesTail
  <2>2. ASSUME NEW i \in 1 .. Len(tail'), NEW j \in 1 .. Len(tail'), tail'[i] = tail'[j]
        PROVE  i = j
    <3>1. Len(tail') \in Nat /\ Len(tail') <= Len(all) /\ Len(all) \in Nat
      BY <1>5, <1>6, <1>7
    <3>2. /\ Len(all) - Len(tail') + i \in 1 .. Len(all)
          /\ Len(all) - Len(tail') + j \in 1 .. Len(all)
      BY <3>1
    <3>3. Len(all) - Len(tail') + i = Len(all) - Len(tail') + j
      BY <1>7, <2>1, <2>2, <3>2
    <3>. QED
      BY <3>1, <3>3
  <2>3. \A x \in ToSet(tail') : IsLogged(x)'
    BY <1>1, <1>2, <1>5, <1>7 DEF NotesInv, NotesTail, IsLogged
  <2>4. ASSUME NEW u \in Tellers, teller'[u].at = "tail" PROVE teller'[u].event \notin ToSet(tail')
    <3>1. u # t /\ teller'[u] = teller[u]
      BY <1>3, <1>4, <2>4
    <3>2. teller[u].event # e
      BY <1>1, <2>4, <3>1 DEF NotesInv, NotesFiled, Busy
    <3>3. teller[u].event \notin ToSet(tail)
      BY <2>4, <3>1 DEF NotesInv, NotesTail
    <3>. QED
      BY <1>5, <1>7, <3>1, <3>2, <3>3
  <2>5. ASSUME NEW x \in ToSet(file'), Len(tail') # TailLimit, x \notin ToSet(tail') \cup cut'
        PROVE  \E u \in Tellers : teller'[u].at = "tail" /\ teller'[u].event = x
    <3>1. Len(all) <= TailLimit /\ tail' = all /\ Len(tail) # TailLimit
      BY <1>5, <1>6, <1>7, <2>5
    <3>2. x # e /\ x \notin ToSet(tail) \cup cut
      BY <1>1, <1>5, <2>5, <3>1
    <3>3. PICK u \in Tellers : teller[u].at = "tail" /\ teller[u].event = x
      BY <1>1, <2>5, <3>1, <3>2 DEF NotesInv, NotesTail
    <3>. QED
      BY <1>4, <3>2, <3>3
  <2>6. Len(tail') <= TailLimit
    BY <1>5, <1>6, <1>7
  <2>. QED
    BY <2>2, <2>3, <2>4, <2>5, <2>6 DEF NotesTail
<1>. QED
  BY <1>10, <1>11, <1>12, <1>13, <1>14 DEF NotesInv

\* What is filed of a delivery is true when every sink was tried.
LEMMA DeliveryFacts ==
    ASSUME NEW c, IsTeller(c), Telling(c), c.sinks = <<>>, c.event \in Events
    PROVE  Delivery(c) \in Deliveries /\ Delivery(c).event = c.event /\ DeliveryTrue(Delivery(c))
<1>. DEFINE d == Delivery(c)
            ok == {r \in ToSet(c.results) : r.ok}
<1>1. /\ d.event = c.event /\ d.results = c.results
      /\ d.state = IF ok = ToSet(c.results) THEN "sent" ELSE IF ok # {} THEN "partial" ELSE "failed"
  BY DEF Delivery, State
<1>2. d \in Deliveries
  <2>1. State(c.results) \in {"sent", "partial", "failed"}
    BY DEF State
  <2>. QED
    BY <2>1 DEF Delivery, Deliveries, IsTeller
<1>. HIDE DEF d
<1>3. ToSet(c.sinks) = {}
  BY DEF ToSet
<1>4. ASSUME d.state = "sent", NEW s \in telling.sinks PROVE Got(d.event, s)
  <2>1. ok = ToSet(c.results)
    BY <1>1, <1>4
  <2>2. PICK r \in ToSet(c.results) : r.sink = s
    BY <1>3, <2>1 DEF Telling
  <2>. QED
    BY <1>1, <2>1, <2>2 DEF Telling
<1>5. ASSUME d.state = "partial" PROVE \E s \in telling.sinks : Got(d.event, s)
  <2>1. ok # {}
    BY <1>1, <1>5
  <2>. QED
    BY <1>1, <2>1 DEF Telling
<1>6. \A r \in ToSet(d.results) : r.ok => Got(d.event, r.sink)
  BY <1>1 DEF Telling
<1>. QED
  BY <1>1, <1>2, <1>4, <1>5, <1>6 DEF DeliveryTrue, d

LEMMA RecordDeliveryKeeps == ASSUME NotesInv, NEW t \in Tellers, RecordDelivery(t) PROVE NotesInv'
<1>. SUFFICES ASSUME NEW old, old = teller[t] PROVE NotesInv'
  OBVIOUS
<1>. DEFINE e == old.event
            d == Delivery(old)
            all == Append(history, d)
<1>1. /\ old.at = "tell" /\ old.sinks = <<>> /\ GoesTo(t, Silent)
      /\ history' = LastOf(all, HistoryLimit) /\ filed' = Append(filed, e)
      /\ UNCHANGED <<telling, file, tail, reached, cut>>
  BY DEF RecordDelivery
<1>2. /\ IsTeller(old) /\ Telling(old) /\ e \in Events
      /\ e \in ToSet(file) /\ e \notin ToSet(filed)
  <2>1. IsTeller(old) /\ Busy(t) /\ old.at # "idle"
    BY <1>1 DEF NotesInv, NotesTypes, Busy
  <2>. QED
    BY <1>1, <2>1, SilentFacts DEF NotesInv, NotesTrue, NotesFiled, IsTeller, IsLogged
<1>3. d \in Deliveries /\ d.event = e /\ DeliveryTrue(d)
  BY <1>1, <1>2, DeliveryFacts
<1>. HIDE DEF d
<1>4. /\ teller'[t] = Silent /\ DOMAIN teller' = Tellers
      /\ \A u \in Tellers \ {t} : teller'[u] = teller[u]
  BY <1>1, GoesToFacts
<1>5. /\ all \in Seq(Deliveries) /\ Len(all) = Len(history) + 1 /\ Len(history) \in Nat
      /\ all[Len(history) + 1] = d /\ \A i \in 1 .. Len(history) : all[i] = history[i]
      /\ ToSet(all) = ToSet(history) \cup {d}
  BY <1>3, AppendedFacts DEF NotesInv, NotesTypes
<1>6. /\ filed' \in Seq(Events) /\ Len(filed') = Len(filed) + 1 /\ Len(filed) \in Nat
      /\ filed'[Len(filed) + 1] = e /\ \A i \in 1 .. Len(filed) : filed'[i] = filed[i]
      /\ ToSet(filed') = ToSet(filed) \cup {e}
  BY <1>1, <1>2, AppendedFacts DEF NotesInv, NotesTypes
<1>. HIDE DEF all
<1>7. HistoryLimit \in Nat \ {0}
  BY LimitsArePositive
<1>8. /\ history' \in Seq(Deliveries)
      /\ Len(history') = IF Len(all) > HistoryLimit THEN HistoryLimit ELSE Len(all)
      /\ \A k \in 1 .. Len(history') : history'[k] = all[Len(all) - Len(history') + k]
      /\ ToSet(history') \subseteq ToSet(all)
  BY <1>1, <1>5, <1>7, LastFacts
<1>9. \A u \in Tellers : /\ Busy(u)' <=> Busy(u) /\ u # t
                         /\ Busy(u)' => teller'[u] = teller[u] /\ teller[u].event # e
  BY <1>1, <1>4, SilentFacts DEF Busy, NotesInv, NotesFiled
<1>10. NotesTypes'
  BY <1>1, <1>4, <1>6, <1>8, SilentFacts DEF NotesInv, NotesTypes
<1>11. NotesTrue'
  <2>1. ASSUME NEW u \in Tellers
        PROVE  /\ Busy(u)' => teller'[u].event \in ToSet(file')
               /\ teller'[u].at = "tell" =>
                     Told(teller[u].event)' /\ telling'.sinks # {} /\ Telling(teller[u])'
    <3>1. Busy(u)' <=> teller'[u].at # "idle"
      BY DEF Busy
    <3>2. ASSUME Busy(u)' PROVE Telling(teller[u])' <=> Telling(teller[u])
      BY <1>1, <1>9, <3>2 DEF Telling, Got
    <3>. QED
      BY <1>1, <1>9, <3>1, <3>2 DEF NotesInv, NotesTrue, Told, IsLogged
  <2>2. \A r \in reached' : Told(r[1])' /\ r[1] \in ToSet(file')
    BY <1>1 DEF NotesInv, NotesTrue, Told, IsLogged
  <2>3. ASSUME NEW x \in ToSet(history') PROVE DeliveryTrue(x)'
    <3>1. DeliveryTrue(x)
      BY <1>3, <1>5, <1>8, <2>3 DEF NotesInv, NotesTrue
    <3>. QED
      BY <1>1, <3>1 DEF DeliveryTrue, Got
  <2>. QED
    BY <2>1, <2>2, <2>3 DEF NotesTrue, IsLogged
<1>12. NotesFiled'
  <2>1. \A u, v \in Tellers : u # v /\ Busy(u)' /\ Busy(v)' => teller'[u].event # teller'[v].event
    BY <1>9 DEF NotesInv, NotesFiled
  <2>2. \A u \in Tellers : Busy(u)' => teller'[u].event \notin ToSet(filed')
    BY <1>6, <1>9 DEF NotesInv, NotesFiled
  <2>3. ASSUME NEW x \in ToSet(file'), x \notin ToSet(filed') \cup cut', Told(x)', telling'.sinks # {}
        PROVE  \E u \in Tellers : Busy(u)' /\ teller'[u].event = x
    <3>1. PICK u \in Tellers : Busy(u) /\ teller[u].event = x
      BY <1>1, <1>6, <2>3 DEF NotesInv, NotesFiled, Told
    <3>2. u # t
      BY <1>6, <2>3, <3>1
    <3>. QED
      BY <1>9, <3>1, <3>2
  <2>4. \A x \in ToSet(filed') : IsLogged(x)'
    BY <1>1, <1>2, <1>6 DEF NotesInv, NotesFiled, IsLogged
  <2>5. ASSUME NEW i \in 1 .. Len(filed'), NEW j \in 1 .. Len(filed'), filed'[i] = filed'[j]
        PROVE  i = j
    <3>1. DOMAIN filed = 1 .. Len(filed)
      BY DEF NotesInv, NotesTypes
    <3>2. \A k \in 1 .. Len(filed) : filed'[k] # e
      BY <1>2, <1>6, <3>1 DEF ToSet
    <3>. QED
      BY <1>6, <2>5, <3>2 DEF NotesInv, NotesFiled
  <2>. QED
    BY <2>1, <2>2, <2>3, <2>4, <2>5 DEF NotesFiled
<1>13. NotesKept'
  <2>1. /\ Len(history) <= HistoryLimit /\ Len(history) <= Len(filed)
        /\ Len(history) = Len(filed) \/ Len(history) = HistoryLimit
        /\ \A k \in 1 .. Len(history) : history[k].event = filed[Len(filed) - Len(history) + k]
    BY DEF NotesInv, NotesKept
  <2>2. \A k \in 1 .. Len(all) : all[k].event = filed'[Len(filed') - Len(all) + k]
    <3>. SUFFICES ASSUME NEW k \in 1 .. Len(all)
                  PROVE  all[k].event = filed'[Len(filed') - Len(all) + k]
      OBVIOUS
    <3>1. Len(filed') - Len(all) + k = Len(filed) - Len(history) + k
      BY <1>5, <1>6
    <3>2. CASE k = Len(history) + 1
      BY <1>3, <1>5, <1>6, <3>1, <3>2
    <3>3. CASE k # Len(history) + 1
      <4>1. k \in 1 .. Len(history) /\ Len(filed) - Len(history) + k \in 1 .. Len(filed)
        BY <1>5, <1>6, <2>1, <3>3
      <4>. QED
        BY <1>5, <1>6, <2>1, <3>1, <4>1
    <3>. QED
      BY <3>2, <3>3
  <2>3. Len(history') \in Nat /\ Len(history') <= Len(all)
    BY <1>5, <1>7, <1>8
  <2>4. ASSUME NEW k \in 1 .. Len(history')
        PROVE  history'[k].event = filed'[Len(filed') - Len(history') + k]
    <3>1. Len(all) - Len(history') + k \in 1 .. Len(all)
      BY <1>5, <2>3
    <3>2. Len(filed') - Len(all) + (Len(all) - Len(history') + k) = Len(filed') - Len(history') + k
      BY <1>5, <1>6, <2>3
    <3>. QED
      BY <1>8, <2>2, <3>1, <3>2
  <2>5. /\ Len(history') <= HistoryLimit /\ Len(history') <= Len(filed')
        /\ Len(history') = Len(filed') \/ Len(history') = HistoryLimit
    BY <1>5, <1>6, <1>7, <1>8, <2>1
  <2>. QED
    BY <1>1, <2>4, <2>5 DEF NotesKept
<1>14. NotesTail'
  <2>1. \A u \in Tellers : (teller'[u].at = "tail" <=> teller[u].at = "tail")
                           /\ (teller[u].at = "tail" => teller'[u] = teller[u])
    BY <1>1, <1>4, SilentFacts
  <2>. QED
    BY <1>1, <2>1 DEF NotesInv, NotesTail, IsLogged
<1>. QED
  BY <1>10, <1>11, <1>12, <1>13, <1>14 DEF NotesInv

LEMMA GatewayDiesKeeps == ASSUME NotesInv, GatewayDies PROVE NotesInv'
<1>1. /\ cut = {} /\ cut' = {teller[t].event : t \in {u \in Tellers : teller[u] # Silent}}
      /\ teller' = [t \in Tellers |-> Silent]
      /\ UNCHANGED <<telling, file, tail, reached, history, filed>>
  BY DEF GatewayDies
<1>2. \A u \in Tellers : ~Busy(u)' /\ teller'[u].at = "idle" /\ IsTeller(teller'[u])
  BY <1>1, SilentFacts DEF Busy
<1>3. \A u \in Tellers : Busy(u) => teller[u].event \in cut'
  BY <1>1, SilentFacts DEF Busy
<1>4. NotesTypes'
  BY <1>1, <1>2 DEF NotesInv, NotesTypes
<1>5. NotesTrue'
  <2>1. \A u \in Tellers : ~Busy(u)' /\ teller'[u].at # "tell"
    BY <1>2
  <2>2. \A r \in reached' : Told(r[1])' /\ IsLogged(r[1])'
    BY <1>1 DEF NotesInv, NotesTrue, Told, IsLogged
  <2>3. \A d \in ToSet(history') : DeliveryTrue(d)'
    BY <1>1 DEF NotesInv, NotesTrue, DeliveryTrue, Got
  <2>. QED
    BY <2>1, <2>2, <2>3 DEF NotesTrue
<1>6. NotesFiled'
  <2>1. ASSUME NEW x \in ToSet(file')
        PROVE  x \in ToSet(filed') \cup cut' \/ ~Told(x)' \/ telling'.sinks = {}
    BY <1>1, <1>3, <2>1 DEF NotesInv, NotesFiled, Told
  <2>2. /\ \A x \in ToSet(filed') : IsLogged(x)'
        /\ \A i, j \in 1 .. Len(filed') : filed'[i] = filed'[j] => i = j
    BY <1>1 DEF NotesInv, NotesFiled, IsLogged
  <2>. QED
    BY <1>2, <2>1, <2>2 DEF NotesFiled
<1>7. NotesKept'
  BY <1>1 DEF NotesInv, NotesKept
<1>8. NotesTail'
  <2>1. \A u \in Tellers : teller[u].at = "tail" => teller[u].event \in cut'
    BY <1>3 DEF Busy
  <2>2. Len(tail') = TailLimit \/ \A x \in ToSet(file') : x \in ToSet(tail') \cup cut'
    BY <1>1, <2>1 DEF NotesInv, NotesTail
  <2>3. /\ Len(tail') <= TailLimit /\ \A x \in ToSet(tail') : IsLogged(x)'
        /\ \A i, j \in 1 .. Len(tail') : tail'[i] = tail'[j] => i = j
    BY <1>1 DEF NotesInv, NotesTail, IsLogged
  <2>. QED
    BY <1>2, <2>2, <2>3 DEF NotesTail
<1>. QED
  BY <1>4, <1>5, <1>6, <1>7, <1>8 DEF NotesInv

LEMMA NotesInitHolds == NotesInit => NotesInv
<1>. SUFFICES ASSUME NotesInit PROVE NotesInv
  OBVIOUS
<1>1. /\ telling \in Tellings /\ file = <<>> /\ tail = <<>> /\ history = <<>> /\ filed = <<>>
      /\ teller = [t \in Tellers |-> Silent] /\ reached = {} /\ cut = {}
      /\ ToSet(<<>>) = {} /\ Len(<<>>) = 0
  BY DEF NotesInit, ToSet
<1>2. \A t \in Tellers : ~Busy(t) /\ teller[t].at = "idle" /\ IsTeller(teller[t])
  BY <1>1, SilentFacts DEF Busy
<1>3. NotesTypes
  BY <1>1, <1>2 DEF NotesTypes
<1>4. NotesTrue /\ NotesFiled
  BY <1>1, <1>2 DEF NotesTrue, NotesFiled
<1>5. NotesKept /\ NotesTail
  BY <1>1, <1>2, LimitsArePositive DEF NotesKept, NotesTail
<1>. QED
  BY <1>3, <1>4, <1>5 DEF NotesInv

LEMMA NotesInductive == NotesInv /\ [NotesNext]_noteVars => NotesInv'
<1>. SUFFICES ASSUME NotesInv, [NotesNext]_noteVars PROVE NotesInv'
  OBVIOUS
<1>1. CASE UNCHANGED noteVars
  <2>1. UNCHANGED <<telling, file, tail, teller, reached, history, filed, cut>>
    BY <1>1 DEF noteVars
  <2>2. \A c : /\ Telling(c)' <=> Telling(c)
               /\ DeliveryTrue(c)' <=> DeliveryTrue(c)
    BY <2>1 DEF Telling, DeliveryTrue, Got
  <2>3. NotesTypes'
    BY <2>1 DEF NotesInv, NotesTypes
  <2>4. NotesTrue'
    BY <2>1, <2>2 DEF NotesInv, NotesTrue, Busy, IsLogged, Told
  <2>5. NotesFiled' /\ NotesKept' /\ NotesTail'
    BY <2>1 DEF NotesInv, NotesFiled, NotesKept, NotesTail, Busy, IsLogged, Told
  <2>. QED
    BY <2>3, <2>4, <2>5 DEF NotesInv
<1>2. CASE NotesNext
  BY <1>2, AppendToFileKeeps, AppendToTailKeeps, TellSinkKeeps, TellPhoneKeeps,
     PhonesAreDoneKeeps, TellingBreaksKeeps, RecordDeliveryKeeps, GatewayDiesKeeps
     DEF NotesNext
<1>. QED
  BY <1>1, <1>2

LEMMA DeliveriesFollow == NotesInv => DeliveriesAreTrue
<1>. SUFFICES ASSUME NotesInv PROVE DeliveriesAreTrue
  OBVIOUS
<1>1. \A d \in ToSet(history) : DeliveryTrue(d)
  BY DEF NotesInv, NotesTrue
<1>2. \A r \in reached : Told(r[1]) /\ r[1] \in ToSet(file)
  BY DEF NotesInv, NotesTrue, IsLogged
<1>3. \A i, j \in 1 .. Len(tail) : tail[i] = tail[j] => i = j
  BY DEF NotesInv, NotesTail
<1>4. ASSUME NEW e \in ToSet(file) \ (InFlight \cup cut)
      PROVE  e \in ToSet(tail) \/ Len(tail) = TailLimit
  BY DEF NotesInv, NotesTail, InFlight
<1>5. ASSUME NEW e \in ToSet(file) \ (InFlight \cup cut), Told(e), telling.sinks # {}
      PROVE  /\ Cardinality({i \in 1 .. Len(filed) : filed[i] = e}) = 1
             /\ \/ \E d \in ToSet(history) : d.event = e
                \/ Len(history) = HistoryLimit
                   /\ \A d \in ToSet(history) :
                         \E i, j \in 1 .. Len(filed) :
                             i < j /\ filed[i] = e /\ filed[j] = d.event
  <2>1. e \in ToSet(filed)
    BY <1>5 DEF NotesInv, NotesFiled, InFlight
  <2>2. /\ DOMAIN filed = 1 .. Len(filed) /\ DOMAIN history = 1 .. Len(history)
        /\ Len(filed) \in Nat /\ Len(history) \in Nat
    BY DEF NotesInv, NotesTypes
  <2>3. PICK i \in 1 .. Len(filed) : filed[i] = e
    BY <2>1, <2>2 DEF ToSet
  <2>4. {k \in 1 .. Len(filed) : filed[k] = e} = {i}
    BY <2>3 DEF NotesInv, NotesFiled
  <2>5. Cardinality({k \in 1 .. Len(filed) : filed[k] = e}) = 1
    BY <2>4, FS_Singleton
  <2>6. /\ Len(history) <= Len(filed) /\ (Len(history) = Len(filed) \/ Len(history) = HistoryLimit)
    BY DEF NotesInv, NotesKept
  <2>9. \A k \in 1 .. Len(history) : history[k].event = filed[Len(filed) - Len(history) + k]
    BY DEF NotesInv, NotesKept
  <2>. DEFINE f == Len(filed)
              m == Len(history)
  <2>10. f \in Nat /\ m \in Nat /\ m <= f /\ (m = f \/ m = HistoryLimit) /\ i \in 1 .. f
    BY <2>2, <2>3, <2>6
  <2>. HIDE DEF f, m
  <2>7. CASE i > f - m
    <3>. DEFINE k == i - (f - m)
    <3>1. k \in 1 .. m /\ f - m + k = i
      BY <2>10, <2>7
    <3>2. history[k] \in ToSet(history) /\ history[k].event = e
      BY <2>2, <2>3, <2>9, <3>1 DEF ToSet, f, m
    <3>. QED
      BY <2>5, <3>2
  <2>8. CASE i <= f - m
    <3>1. m = HistoryLimit
      BY <2>10, <2>8
    <3>2. ASSUME NEW k \in 1 .. m
          PROVE  \E j \in 1 .. Len(filed) : i < j /\ filed[j] = history[k].event
      <4>1. f - m + k \in 1 .. f /\ i < f - m + k
        BY <2>10, <2>8
      <4>. QED
        BY <2>9, <4>1 DEF f, m
    <3>3. \A d \in ToSet(history) :
              \E g, j \in 1 .. Len(filed) : g < j /\ filed[g] = e /\ filed[j] = d.event
      BY <2>2, <2>3, <3>2 DEF ToSet, m
    <3>. QED
      BY <2>5, <3>1, <3>3 DEF m
  <2>. QED
    BY <2>7, <2>8, <2>10
<1>. QED
  BY <1>1, <1>2, <1>3, <1>4, <1>5 DEF DeliveriesAreTrue, DeliveryTrue

(***************************************************************************)
(* What the operator is told                                               *)
(***************************************************************************)
LEMMA AlertsHold == AlertsSpec => [](MonitorInv /\ NotesInv)
<1>1. AlertsInit => MonitorInv /\ NotesInv
  BY MonitorInit, NotesInitHolds DEF AlertsInit
<1>2. MonitorInv /\ NotesInv /\ [AlertsNext]_<<feedVars, noteVars>> => (MonitorInv /\ NotesInv)'
  <2>1. [AlertsNext]_<<feedVars, noteVars>> =>
            [FeedProofsNext]_feedVars /\ [NotesNext]_noteVars
    BY DEF AlertsNext
  <2>. QED
    BY <2>1, MonitorInductive, NotesInductive
<1>. QED
  BY <1>1, <1>2, PTL DEF AlertsSpec

\* The operator is told what there is to know, for any threads, records, alerts,
\* sinks, phones, events and limits and whatever interleaves.  A sink that
\* refused nothing so far knows the last snapshot of a monitor that runs alone:
\* nothing is missed, nothing stays open once resolved, across crashes between
\* the exchange of the snapshot and the notifications.  And what the records of
\* deliveries say became of every event did become of it.
THEOREM OperatorsAreTold == AlertsSpec => []TheOperatorIsTold
<1>1. MonitorInv /\ NotesInv => TheOperatorIsTold
  BY RecipientsFollow, DeliveriesFollow DEF TheOperatorIsTold
<1>. QED
  BY <1>1, AlertsHold, PTL
=============================================================================
