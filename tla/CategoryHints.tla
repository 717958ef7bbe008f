---------------------------- MODULE CategoryHints ----------------------------
(***************************************************************************)
(* Hints from the discovery facets contract: merchants declare categories  *)
(* for the document their record has, and a search for some categories     *)
(* looks at the merchants that declared them first                         *)
(* (_onchain_category_hints, _v2_storage_candidates and resolve_record of  *)
(* shopbridge_onchain_rpc.py).                                             *)
(*                                                                         *)
(* Every block has one transaction.  The reader takes declarations from    *)
(* logs up to the finalized block, page by page (version 2: a sample of    *)
(* the contract's index), and the state of each record at that block or,   *)
(* with Myotis, at the head.  A provider's logs may miss some.             *)
(***************************************************************************)
EXTENDS Integers, Sequences, SequencesExt, FiniteSets

CONSTANTS Merchants,    \* record ids
          Categories,
          MaxBlocks,
          Searches      \* [profile, groups, page, documents]

NoFacets == [hash |-> 0, set |-> {}, generation |-> 0]

VARIABLES search,    \* chosen once
          blocks,    \* of each block: [status, hash, facets] of every record
          declared,  \* CategoryDeclared events: [block, id, generation, category]
          finalized,
          reading    \* the reader

vars == <<search, blocks, declared, finalized, reading>>

Idle == [at |-> "idle", block |-> 0, next |-> 1, rows |-> {}, todo |-> {}, hinted |-> {},
         facets |-> [m \in Merchants |-> NoFacets], served |-> {}]

Init ==
    /\ search \in Searches
    /\ blocks = <<[m \in Merchants |-> [status |-> "active", hash |-> 1, facets |-> NoFacets]]>>
    /\ declared = {}
    /\ finalized = 1
    /\ reading = Idle

Top == blocks[Len(blocks)]

(***************************************************************************)
(* The contracts                                                           *)
(***************************************************************************)
Mined(m, state) ==
    /\ Len(blocks) < MaxBlocks
    /\ blocks' = Append(blocks, [Top EXCEPT ![m] = state])
    /\ UNCHANGED <<search, finalized, reading>>

Declaring(state, set) ==
    [state EXCEPT !.facets = [hash |-> state.hash, set |-> set,
                              generation |-> state.facets.generation + 1]]

Publish(m, set) ==
    /\ Top[m].status = "active"
    /\ Mined(m, Declaring(Top[m], set))
    /\ declared' = declared \cup
           {[block |-> Len(blocks) + 1, id |-> m, category |-> c,
             generation |-> Top[m].facets.generation + 1] : c \in set}

Clear(m) ==
    /\ Top[m].status = "active"
    /\ Mined(m, Declaring(Top[m], {}))
    /\ UNCHANGED declared

\* Another document, by its hash.
Update(m) ==
    /\ Top[m].status = "active"
    /\ Top[m].hash < Len(search.documents)
    /\ Mined(m, [Top[m] EXCEPT !.hash = @ + 1])
    /\ UNCHANGED declared

Revoke(m) ==
    /\ Top[m].status = "active"
    /\ Mined(m, [Top[m] EXCEPT !.status = "revoked"])
    /\ UNCHANGED declared

\* isCurrent
IsCurrent(state) ==
    state.status = "active" /\ state.facets.generation # 0 /\ state.facets.hash = state.hash

\* Version 2: anybody removes declarations that no longer count.
Prune(m) ==
    /\ search.profile = "v2"
    /\ Top[m].facets.set # {}
    /\ ~IsCurrent(Top[m])
    /\ Mined(m, [Top[m] EXCEPT !.facets = [hash |-> 0, set |-> {}, generation |-> @.generation + 1]])
    /\ UNCHANGED declared

Finalize ==
    /\ finalized < Len(blocks)
    /\ finalized' = finalized + 1
    /\ UNCHANGED <<search, blocks, declared, reading>>

(***************************************************************************)
(* The reader                                                              *)
(***************************************************************************)
Asked == UNION search.groups

Becomes(r) == reading' = r /\ UNCHANGED <<search, blocks, declared, finalized>>

Start ==
    /\ reading.at \in {"idle", "done"}
    /\ Becomes([Idle EXCEPT !.at = "rows", !.block = finalized])

\* A page of logs, perhaps with one missing.
DeclarationPage ==
    LET last == reading.next + search.page - 1
        logs == {d \in declared : /\ d.block \in reading.next .. last
                                  /\ d.block <= reading.block
                                  /\ d.category \in Asked}
    IN  /\ reading.at = "rows"
        /\ search.profile # "v2"
        /\ reading.next <= reading.block
        /\ \E some \in {logs} \cup {logs \ {d} : d \in logs} :
              Becomes([reading EXCEPT !.rows = @ \cup some, !.next = last + 1])

\* Version 2: some entries of each category.
SampleIndex ==
    LET entries == {[block |-> 0, id |-> m, category |-> c,
                     generation |-> blocks[reading.block][m].facets.generation] :
                        <<m, c>> \in {x \in Merchants \X Asked :
                                        x[2] \in blocks[reading.block][x[1]].facets.set}}
    IN  /\ reading.at = "rows"
        /\ search.profile = "v2"
        /\ \E some \in SUBSET entries :
              Becomes([reading EXCEPT !.rows = some, !.next = reading.block + 1])

\* Only records that the logs leave active.
EndRows ==
    /\ reading.at = "rows"
    /\ reading.next > reading.block
    /\ Becomes([reading EXCEPT
           !.at = "states",
           !.todo = {m \in {d.id : d \in reading.rows} :
                        blocks[reading.block][m].status = "active"}])

\* Faulty variant: declarations of every generation count.
DeclaredEver(m, generation) ==
    {d.category : d \in {x \in reading.rows : x.id = m /\ x.generation <= generation}}

DeclaredIn(m, generation) ==
    {d.category : d \in {x \in reading.rows : x.id = m /\ x.generation = generation}}

MeetsEveryGroup(set) == \A group \in search.groups : group \cap set # {}

ReadState(m) ==
    LET at     == IF search.profile = "myotis" THEN Top ELSE blocks[reading.block]
        facets == at[m].facets
        hint   == /\ facets.hash = blocks[reading.block][m].hash
                  /\ search.profile = "v2" => IsCurrent(at[m])
                  /\ facets.set # {}
                  /\ MeetsEveryGroup(DeclaredIn(m, facets.generation))
    IN  /\ reading.at = "states"
        /\ m \in reading.todo
        /\ Becomes([reading EXCEPT !.todo = @ \ {m},
                                   !.hinted = IF hint THEN @ \cup {m} ELSE @,
                                   !.facets[m] = IF hint THEN facets ELSE @])

\* The document with the hash at the block; it must have the declared categories.
LoadHinted ==
    LET CategoriesOf(m) == search.documents[blocks[reading.block][m].hash]
    IN  /\ reading.at = "states"
        /\ reading.todo = {}
        /\ Becomes([reading EXCEPT
               !.at = "done",
               !.served = {m \in reading.hinted : CategoriesOf(m) = reading.facets[m].set}])

Next ==
    \/ \E m \in Merchants :
          \/ \E set \in SUBSET Categories \ {{}} : Publish(m, set)
          \/ Clear(m) \/ Update(m) \/ Revoke(m) \/ Prune(m)
          \/ ReadState(m)
    \/ Finalize
    \/ Start \/ DeclarationPage \/ SampleIndex \/ EndRows \/ LoadHinted

(***************************************************************************)
(* Properties                                                              *)
(***************************************************************************)
\* A record that is served for its hint has a document with a category of every
\* group that was asked for, and at the block of the scan its controller had
\* declared just these for just this document: through republished, cleared and
\* outdated declarations, missing logs and a head that moves on.
HintsAreCurrent ==
    \A m \in reading.served :
        LET state == blocks[reading.block][m]
        IN  /\ IsCurrent(state)
            /\ MeetsEveryGroup(search.documents[state.hash])
            /\ state.facets.set = search.documents[state.hash]
=============================================================================
