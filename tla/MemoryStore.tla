---------------------------- MODULE MemoryStore ----------------------------
(***************************************************************************)
(* What the agent asked to remember, and the people and things it is about *)
(* (store/memory.py, store/_memory_*.py, server/memory_tools.py).          *)
(*                                                                         *)
(* remember and update are one immediate transaction each: a call that     *)
(* raises leaves nothing behind and is no step here.  forget reads in one  *)
(* statement and archives in another, and the pages of list_entities are   *)
(* calls of their own, so other calls come in between.                     *)
(*                                                                         *)
(* A text is a record of its spelling and of the normal form under which   *)
(* normalize_memory_content compares it; names are given in normal form.   *)
(* Recurrence, source and lead days go with the memory kind.               *)
(***************************************************************************)
EXTENDS Integers, Sequences, FiniteSets

CONSTANTS
    Names,          \* normalized labels and path leaves, as positive numbers
    NewMemories,    \* calls' values that pass validate_new_memory
    Callers,        \* connections that forget
    PageSize,       \* limit of list_entities
    MaxMemoryRows,  \* _MAX_MEMORY_ROWS, counts active items
    MaxEntityRows,  \* _MAX_ENTITY_ROWS
    MaxRows         \* bound: memory items ever stored

ASSUME MemoryAssumption ==
    /\ Names \subseteq Nat \ {0}
    /\ \A m \in NewMemories :
            /\ DOMAIN m = {"kind", "content", "date", "attribute", "about"}
            /\ m.about.label \in Names \/ m.about = [label |-> 0, kind |-> 0, leaf |-> 0]
            /\ m.about.leaf \in Names \union {0} /\ m.about.kind \in Nat
    /\ PageSize \in Nat \ {0}
    /\ MaxMemoryRows \in Nat /\ MaxEntityRows \in Nat /\ MaxRows \in Nat

VARIABLES
    memories,   \* memory_items by id
    entities,   \* entities by id
    aliases,    \* entity_aliases: normalized alias to entity id, 0 for none
    forgetting, \* per caller: the item that forget found active, or 0
    listing     \* the pages of one walk through list_entities

memoryVars == <<memories, entities, aliases, forgetting, listing>>

NoName == 0
NoDate == "none"
NoEntity == 0

EntityAliases(about) == {about.label, about.leaf} \ {NoName}

MemoryInit ==
    /\ memories = <<>> /\ entities = <<>>
    /\ aliases = [n \in Names |-> NoEntity]
    /\ forgetting = [p \in Callers |-> 0]
    /\ listing = [on |-> FALSE, start |-> 0, pages |-> <<>>]

Known(about) == about.label # NoName /\ aliases[about.label] # NoEntity

(* resolve_entity: no entity, the entity of the alias if its kind agrees,  *)
(* or a new one if no alias of it is taken.                                *)
Resolvable(about) ==
    \/ about.label = NoName
    \/ Known(about) /\ entities[aliases[about.label]].kind = about.kind
    \/ ~Known(about) /\ \A n \in EntityAliases(about) : aliases[n] = NoEntity

Creates(about) == about.label # NoName /\ ~Known(about)

ResolvedId(about) ==
    IF about.label = NoName THEN NoEntity
    ELSE IF Known(about) THEN aliases[about.label] ELSE Len(entities) + 1

(* resolve_entity, _create_entity and _require_entity_capacity.            *)
ResolveEntity(about) ==
    /\ Resolvable(about)
    /\ entities' = IF Creates(about) THEN Append(entities, about) ELSE entities
    /\ aliases' = IF Creates(about)
                  THEN [n \in Names |-> IF n \in EntityAliases(about)
                                        THEN Len(entities) + 1 ELSE aliases[n]]
                  ELSE aliases
    /\ Len(entities') <= MaxEntityRows

Row(memory) ==
    [kind |-> memory.kind, entity |-> ResolvedId(memory.about), date |-> memory.date,
     attribute |-> memory.attribute, content |-> memory.content, archived |-> FALSE]

(* The identity under which two dated rows are one fact.                   *)
SameDatedFact(r, s) ==
    /\ r.date # NoDate /\ s.date = r.date
    /\ r.attribute = s.attribute /\ r.entity = s.entity
    /\ \/ r.attribute = "free" /\ r.kind = s.kind /\ r.content.norm = s.content.norm
       \/ r.attribute # "free" /\ r.entity # NoEntity

(* dated_duplicate_id                                                      *)
DatedDuplicates(row, excluding) ==
    {i \in DOMAIN memories :
        i # excluding /\ ~memories[i].archived /\ SameDatedFact(row, memories[i])}

ActiveRows == {i \in DOMAIN memories : ~memories[i].archived}

HasMemoryCapacity == Cardinality(ActiveRows) < MaxMemoryRows

(* remember finds the fact: only its timestamp changes.                    *)
RememberAgain(memory) ==
    /\ ResolveEntity(memory.about)
    /\ DatedDuplicates(Row(memory), 0) # {}
    /\ UNCHANGED <<memories, forgetting, listing>>

RememberNew(memory) ==
    /\ Len(memories) < MaxRows
    /\ ResolveEntity(memory.about)
    /\ DatedDuplicates(Row(memory), 0) = {}
    /\ HasMemoryCapacity
    /\ memories' = Append(memories, Row(memory))
    /\ UNCHANGED <<forgetting, listing>>

(* Mutation: update looks for no duplicate.                                *)
UpdateUnchecked(i, memory) ==
    /\ ResolveEntity(memory.about)
    /\ memories' = [memories EXCEPT ![i] =
                       [Row(memory) EXCEPT !.archived = memories[i].archived]]
    /\ UNCHANGED <<forgetting, listing>>

(* update keeps the id, and an archived item archived.                     *)
Update(i, memory) ==
    /\ ResolveEntity(memory.about)
    /\ DatedDuplicates(Row(memory), i) = {}
    /\ memories' = [memories EXCEPT ![i] =
                       [Row(memory) EXCEPT !.archived = memories[i].archived]]
    /\ UNCHANGED <<forgetting, listing>>

(* forget: the item is read, and archived by a second statement.           *)
ForgetFinds(p, i) ==
    /\ forgetting[p] = 0 /\ ~memories[i].archived
    /\ forgetting' = [forgetting EXCEPT ![p] = i]
    /\ UNCHANGED <<memories, entities, aliases, listing>>

ForgetArchives(p) ==
    /\ forgetting[p] # 0
    /\ memories' = [memories EXCEPT ![forgetting[p]].archived = TRUE]
    /\ forgetting' = [forgetting EXCEPT ![p] = 0]
    /\ UNCHANGED <<entities, aliases, listing>>

(* ORDER BY kind, path, label, id                                          *)
EntityKey(e) == <<entities[e].kind, entities[e].leaf, entities[e].label, e>>

Precedes(d, e) ==
    \E i \in 1..4 : /\ EntityKey(d)[i] < EntityKey(e)[i]
                    /\ \A j \in 1..(i - 1) : EntityKey(d)[j] = EntityKey(e)[j]

(* Mutation: the cursor is compared by id alone.                           *)
BeyondById(cursor) == {e \in DOMAIN entities : cursor < e}
Beyond(cursor) == {e \in DOMAIN entities : cursor = 0 \/ Precedes(cursor, e)}

(* SELECT_ACTIVE_ENTITIES: the first PageSize rows after the cursor.       *)
Page(cursor) ==
    {e \in Beyond(cursor) :
        Cardinality({d \in Beyond(cursor) : Precedes(d, e)}) < PageSize}

LastOf(page) == CHOOSE e \in page : \A d \in page \ {e} : Precedes(d, e)

(* list_entities: the host starts a walk, and asks for the next page with  *)
(* next_after_id while the pages are full.                                 *)
ListFirstPage ==
    /\ ~listing.on
    /\ listing' = [on |-> TRUE, start |-> Len(entities), pages |-> <<Page(0)>>]
    /\ UNCHANGED <<memories, entities, aliases, forgetting>>

LastPage == listing.pages[Len(listing.pages)]

ListNextPage ==
    /\ listing.on /\ Cardinality(LastPage) = PageSize
    /\ listing' = [listing EXCEPT !.pages = Append(@, Page(LastOf(LastPage)))]
    /\ UNCHANGED <<memories, entities, aliases, forgetting>>

ListEnds ==
    /\ listing.on /\ Cardinality(LastPage) < PageSize
    /\ listing' = [on |-> FALSE, start |-> 0, pages |-> <<>>]
    /\ UNCHANGED <<memories, entities, aliases, forgetting>>

MemoryNext ==
    \/ \E memory \in NewMemories : RememberAgain(memory) \/ RememberNew(memory)
    \/ \E i \in DOMAIN memories, memory \in NewMemories : Update(i, memory)
    \/ \E p \in Callers, i \in DOMAIN memories : ForgetFinds(p, i)
    \/ \E p \in Callers : ForgetArchives(p)
    \/ ListFirstPage \/ ListNextPage \/ ListEnds

MemorySpec == MemoryInit /\ [][MemoryNext]_memoryVars

-----------------------------------------------------------------------------

(* No statement of remember, update or forget runs into the unique indexes *)
(* uq_memory_dated_fact, uq_memory_free_dated and uq_entity_alias_norm: a  *)
(* dated fact is active once, and an alias names one entity.               *)
DatedFactsUnique ==
    /\ \A i, j \in ActiveRows : i # j => ~SameDatedFact(memories[i], memories[j])
    /\ \A e \in DOMAIN entities : \A n \in EntityAliases(entities[e]) : aliases[n] = e

(* Both quotas hold at the moment of every insertion, merges and refused   *)
(* calls included.                                                         *)
QuotasHold ==
    /\ Cardinality(ActiveRows) <= MaxMemoryRows
    /\ Len(entities) <= MaxEntityRows

(* What the tables promise together, over renamings, re-datings and calls  *)
(* that are refused half-way.                                              *)
MemoryInv == DatedFactsUnique /\ QuotasHold

(* A walk through the pages meets every entity that was there when it      *)
(* started, and none twice, whatever is remembered in between.             *)
WalkMeetsAll ==
    /\ \A i, j \in DOMAIN listing.pages :
            i # j => listing.pages[i] \intersect listing.pages[j] = {}
    /\ listing.on /\ Cardinality(LastPage) < PageSize =>
            1..listing.start \subseteq UNION {listing.pages[i] : i \in DOMAIN listing.pages}
=============================================================================
