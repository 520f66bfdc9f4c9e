-------------------------- MODULE CredentialStore --------------------------
(***************************************************************************)
(* One Google credential kept in four places without a lock: the marker    *)
(* file, which says where the authoritative copy is, the profile's keyring *)
(* slot, the private fallback file, and the keyring slot that earlier      *)
(* versions shared between profiles (sources/credentials.py and its        *)
(* _credential_*.py helpers).                                              *)
(*                                                                         *)
(* Setup saves, readers load and delete what Google refused, disconnect    *)
(* deletes.  Each access to a file or to the keyring is a step of its own, *)
(* other processes take theirs in between, and every access may fail.      *)
(***************************************************************************)
EXTENDS Integers, FiniteSets

CONSTANTS
    Holders,            \* processes that use the credential
    Layouts,            \* where earlier versions may have left a credential
    DefaultDirectory,   \* the profile is the one in ~/.proactive-mcp
    MaxSaves,           \* bound: how often setup saves a new credential
    MaxLoads,           \* bound: how often a load begins
    MaxDeletes          \* bound: how often a deletion begins

ASSUME CredentialAssumption ==
    /\ Layouts \subseteq {"none", "profile", "global", "file"}
    /\ DefaultDirectory \in BOOLEAN
    /\ MaxSaves \in Nat /\ MaxLoads \in Nat /\ MaxDeletes \in Nat

VARIABLES
    marker,     \* google-readonly-oauth.state.json
    slot,       \* keyring entry of the profile
    global,     \* keyring entry of earlier versions
    file,       \* google-readonly-oauth.json
    holder,     \* what each process is doing
    gone,       \* history: credentials that could be loaded and then, under a marker, not
    spent       \* how many saves, loads, deletions and revisions so far

credentialVars == <<marker, slot, global, file, holder, gone, spent>>

Nothing == [epoch |-> 0, revision |-> 0, credential |-> 0]
Bare(c) == [Nothing EXCEPT !.credential = c]
Migrated == Bare(-1)
NoMarker == [epoch |-> 0, revision |-> 0, backend |-> "none"]
VersionOf(x) == <<x.epoch, x.revision>>
NotLoaded == <<-1, -1>>

Resting == [op |-> "none", pc |-> "rest", seen |-> NoMarker, held |-> Nothing,
            backend |-> "none", loaded |-> NotLoaded, alone |-> TRUE]

(* parse_enveloped_credentials: the copy belongs to the marker.            *)
Matches(copy, m) == copy.epoch > 0 /\ VersionOf(copy) = VersionOf(m)

(* The credential that the marker names.                                   *)
Authoritative ==
    CASE marker.backend = "keyring" /\ Matches(slot, marker) -> slot.credential
      [] marker.backend = "file" /\ Matches(file, marker) -> file.credential
      [] OTHER -> 0

(* The shared entry of earlier versions is still in use by this profile.   *)
GlobalInUse == DefaultDirectory /\ global \notin {Nothing, Migrated}

(* The credential that load_legacy finds: the profile's entry, unless the  *)
(* shared one holds another, then the shared entry, then the file.         *)
Adoptable ==
    CASE slot # Nothing /\ GlobalInUse /\ slot.epoch > 0 /\ global # Bare(slot.credential) -> 0
      [] slot # Nothing -> slot.credential
      [] slot = Nothing /\ GlobalInUse -> global.credential
      [] OTHER -> file.credential

(* The credential that a load with a working keyring returns.              *)
Loadable == IF marker.backend = "none" THEN Adoptable ELSE Authoritative

(* The credentials that a load may come upon while there is no marker:     *)
(* which one it adopts depends on whether the keyring answers.             *)
Stray ==
    {copy.credential : copy \in {slot, file} \cup IF DefaultDirectory THEN {global} ELSE {}} \ {0, -1}

(* A step of p ends the solitude of everyone else at work.                 *)
Step(p, record) ==
    holder' = [q \in Holders |->
                  IF q = p THEN record
                  ELSE IF holder[q].op = "none" THEN holder[q]
                  ELSE [holder[q] EXCEPT !.alone = FALSE]]

In(p, op, pc) == holder[p].op = op /\ holder[p].pc = pc
GoTo(p, pc) == Step(p, [holder[p] EXCEPT !.pc = pc])
Return(p, loaded) == Step(p, [Resting EXCEPT !.loaded = loaded])

Start(p, op, pc, record) ==
    /\ holder[p].op = "none"
    /\ Step(p, [record EXCEPT !.op = op, !.pc = pc, !.seen = marker,
                              !.alone = \A q \in Holders \ {p} : holder[q].op = "none"])

(* From the first marker on, what can no longer be loaded is gone.         *)
Remember ==
    gone' = IF marker'.backend = "none" \/ Loadable' = Loadable
            THEN gone ELSE (gone \union {Loadable}) \ {0}

stores == <<marker, slot, global, file>>

-----------------------------------------------------------------------------
(* save                                                                    *)

(* The next epoch after the marker that was read, and a fresh revision.    *)
Enveloped(c) == [epoch |-> marker.epoch + 1, revision |-> spent.revisions + 1, credential |-> c]
Revised == [spent EXCEPT !.revisions = @ + 1]

(* setup opens a store object of its own and saves what Google issued.     *)
StartSave(p) ==
    /\ spent.saves < MaxSaves
    /\ Start(p, "save", "set", [Resting EXCEPT !.held = Enveloped(spent.saves + 2)])
    /\ spent' = [Revised EXCEPT !.saves = @ + 1]
    /\ UNCHANGED stores

(* Without a keyring the copy goes to the file; setting takes one of two   *)
(* ways and either may be met at any call.                                 *)
SetPassword(p) ==
    /\ holder[p].pc = "set"
    /\ \/ slot' = holder[p].held /\ Step(p, [holder[p] EXCEPT !.pc = "mark", !.backend = "keyring"])
       \/ UNCHANGED slot /\ Step(p, [holder[p] EXCEPT !.pc = "write", !.backend = "file"])
    /\ UNCHANGED <<marker, global, file, spent>>

WriteFile(p) ==
    /\ holder[p].pc = "write"
    /\ file' = holder[p].held
    /\ GoTo(p, "mark")
    /\ UNCHANGED <<marker, slot, global, spent>>

Authority(p) == [epoch |-> holder[p].held.epoch, revision |-> holder[p].held.revision,
                 backend |-> holder[p].backend]

(* A credential in the file ends the save; after the keyring the fallback  *)
(* copy is still to be deleted.                                            *)
MarkSaved(p) ==
    /\ holder[p].pc = "mark"
    /\ marker' = Authority(p)
    /\ IF holder[p].backend = "file" THEN Return(p, VersionOf(holder[p].held)) ELSE GoTo(p, "drop")
    /\ UNCHANGED <<slot, global, file, spent>>

DropFallback(p) ==
    /\ holder[p].pc = "drop"
    /\ file' = Nothing
    /\ Return(p, IF holder[p].op = "delete" THEN holder[p].loaded ELSE VersionOf(holder[p].held))
    /\ UNCHANGED <<marker, slot, global, spent>>

-----------------------------------------------------------------------------
(* load                                                                    *)

(* Mutant: a tombstone counts as an absent marker.                         *)
PlaceIgnoringTombstone ==
    CASE marker.backend \in {"none", "deleted"} -> "legacy"
      [] marker.backend = "file" -> "promote"
      [] marker.backend = "keyring" -> "get"

(* Where a load goes on after reading the marker.                          *)
PlaceOfMarker ==
    CASE marker.backend = "none" -> "legacy"
      [] marker.backend = "deleted" -> "purge"
      [] marker.backend = "file" -> "promote"
      [] marker.backend = "keyring" -> "get"

(* The store object keeps the version it loaded for a later deletion.      *)
StartLoad(p) ==
    /\ spent.loads < MaxLoads
    /\ spent' = [spent EXCEPT !.loads = @ + 1]
    /\ Start(p, "load", PlaceOfMarker,
             [Resting EXCEPT !.loaded = IF marker = NoMarker THEN holder[p].loaded ELSE VersionOf(marker)])
    /\ UNCHANGED stores

GetPassword(p) ==
    /\ In(p, "load", "get")
    /\ Return(p, holder[p].loaded)
    /\ UNCHANGED <<stores, spent>>

(* purge_tombstoned.                                                       *)
PurgeFile(p) ==
    /\ In(p, "load", "purge")
    /\ file' = Nothing
    /\ GoTo(p, "purge_slot")
    /\ UNCHANGED <<marker, slot, global, spent>>

PurgeSlot(p) ==
    /\ In(p, "load", "purge_slot")
    /\ slot' \in {Nothing, slot}
    /\ Return(p, holder[p].loaded)
    /\ UNCHANGED <<marker, global, file, spent>>

(* _load_authoritative_file: a credential in the file moves to the keyring *)
(* as soon as there is one, under the version it has.                      *)
ReadFallback(p) ==
    /\ In(p, "load", "promote")
    /\ IF Matches(file, holder[p].seen)
       THEN Step(p, [holder[p] EXCEPT !.pc = "promote_set", !.held = file, !.backend = "keyring"])
       ELSE Return(p, holder[p].loaded)
    /\ UNCHANGED <<stores, spent>>

PromoteSet(p) ==
    /\ In(p, "load", "promote_set")
    /\ \/ slot' = holder[p].held /\ GoTo(p, "mark")
       \/ UNCHANGED slot /\ Return(p, holder[p].loaded)
    /\ UNCHANGED <<marker, global, file, spent>>

-----------------------------------------------------------------------------
(* load_legacy                                                             *)

(* _adopt: an envelope lacks only its marker, a bare credential is saved.  *)
Adopt(p, copy, backend, retire) ==
    IF copy = Nothing \/ copy = Migrated
    THEN Return(p, holder[p].loaded) /\ UNCHANGED spent
    ELSE IF copy.epoch > 0
    THEN /\ Step(p, [holder[p] EXCEPT !.pc = IF retire THEN "retire" ELSE "adopt_mark",
                                      !.held = copy, !.backend = backend])
         /\ UNCHANGED spent
    ELSE /\ Step(p, [holder[p] EXCEPT !.pc = "set", !.held = Enveloped(copy.credential)])
         /\ spent' = Revised

LegacyProfile(p) ==
    /\ In(p, "load", "legacy")
    /\ \/ slot # Nothing /\ Adopt(p, slot, "keyring", DefaultDirectory)
       \/ /\ slot = Nothing
          /\ GoTo(p, IF DefaultDirectory THEN "legacy_global" ELSE "legacy_file")
          /\ UNCHANGED spent
       \/ GoTo(p, "legacy_file") /\ UNCHANGED spent
    /\ UNCHANGED stores

LegacyFile(p) ==
    /\ In(p, "load", "legacy_file")
    /\ Adopt(p, file, "file", FALSE)
    /\ UNCHANGED stores

(* Mutant: the shared entry is retired before the profile has its copy.    *)
LegacyGlobalRetiring(p) ==
    /\ In(p, "load", "legacy_global")
    /\ global \notin {Nothing, Migrated}
    /\ Step(p, [holder[p] EXCEPT !.pc = "migrate_set", !.backend = "keyring",
                    !.held = [Enveloped(global.credential) EXCEPT !.epoch = 1]])
    /\ global' = Migrated /\ spent' = Revised
    /\ UNCHANGED <<marker, slot, file>>

LegacyGlobal(p) ==
    /\ In(p, "load", "legacy_global")
    /\ IF global \in {Nothing, Migrated}
       THEN GoTo(p, "legacy_file") /\ UNCHANGED spent
       ELSE /\ Step(p, [holder[p] EXCEPT !.pc = "migrate_set", !.backend = "keyring",
                            !.held = [Enveloped(global.credential) EXCEPT !.epoch = 1]])
            /\ spent' = Revised
    /\ UNCHANGED stores

(* _migrate_global: an absent keyring is an error here.                    *)
MigrateSet(p) ==
    /\ In(p, "load", "migrate_set")
    /\ slot' = holder[p].held
    /\ GoTo(p, "migrate_retire")
    /\ UNCHANGED <<marker, global, file, spent>>

(* _retire_global: another credential than the expected one is an error.   *)
RetireGlobal(p) ==
    /\ holder[p].pc \in {"retire", "migrate_retire"}
    /\ IF global \in {Nothing, Migrated, Bare(holder[p].held.credential)}
       THEN /\ global' = IF global = Nothing THEN Nothing ELSE Migrated
            /\ GoTo(p, IF holder[p].pc = "retire" THEN "adopt_mark" ELSE "mark")
       ELSE UNCHANGED global /\ Return(p, holder[p].loaded)
    /\ UNCHANGED <<marker, slot, file, spent>>

(* Adoption leaves the fallback file alone.                                *)
AdoptMark(p) ==
    /\ holder[p].pc = "adopt_mark"
    /\ marker' = Authority(p)
    /\ Return(p, VersionOf(holder[p].held))
    /\ UNCHANGED <<slot, global, file, spent>>

-----------------------------------------------------------------------------
(* delete                                                                  *)

Fenced(p, loaded) == loaded # NotLoaded /\ marker # NoMarker /\ VersionOf(marker) # loaded

(* A reader deletes through the object it loaded with and leaves a newer   *)
(* credential alone; disconnect uses a new object and deletes any.         *)
StartDelete(p) ==
    \E loaded \in {NotLoaded, holder[p].loaded} :
        /\ spent.deletes < MaxDeletes
        /\ ~ Fenced(p, loaded)
        /\ spent' = [Revised EXCEPT !.deletes = @ + 1]
        /\ Start(p, "delete", "tombstone",
                 [Resting EXCEPT !.held = Enveloped(0), !.backend = "deleted", !.loaded = loaded])
        /\ UNCHANGED stores

Tombstone(p) ==
    /\ In(p, "delete", "tombstone")
    /\ marker' = Authority(p)
    /\ Step(p, [holder[p] EXCEPT !.pc = "unset", !.loaded = VersionOf(holder[p].held)])
    /\ UNCHANGED <<slot, global, file, spent>>

(* Without a keyring, or without an entry in it, the fallback file is      *)
(* deleted all the same before the error is raised.                        *)
DeletePassword(p) ==
    /\ In(p, "delete", "unset")
    /\ slot' \in {Nothing, slot}
    /\ GoTo(p, "drop")
    /\ UNCHANGED <<marker, global, file, spent>>

-----------------------------------------------------------------------------
(* A locked keyring or a failing file raises CredentialStorageError; the   *)
(* object survives, unless it is the process that ends.                    *)
Raise(p) ==
    /\ holder[p].op # "none"
    /\ \E loaded \in {holder[p].loaded, NotLoaded} : Return(p, loaded)
    /\ UNCHANGED <<stores, spent>>

CredentialInit ==
    /\ marker = NoMarker
    /\ \E where \in Layouts :
          /\ slot = IF where = "profile" THEN Bare(1) ELSE Nothing
          /\ global = IF where = "global" THEN Bare(1) ELSE Nothing
          /\ file = IF where = "file" THEN Bare(1) ELSE Nothing
    /\ holder = [p \in Holders |-> Resting]
    /\ gone = {}
    /\ spent = [saves |-> 0, loads |-> 0, deletes |-> 0, revisions |-> 0]

CredentialStep(p) ==
    \/ StartSave(p) \/ SetPassword(p) \/ WriteFile(p) \/ MarkSaved(p) \/ DropFallback(p)
    \/ StartLoad(p) \/ GetPassword(p) \/ PurgeFile(p) \/ PurgeSlot(p)
    \/ ReadFallback(p) \/ PromoteSet(p)
    \/ LegacyProfile(p) \/ LegacyFile(p) \/ LegacyGlobal(p) \/ MigrateSet(p)
    \/ RetireGlobal(p) \/ AdoptMark(p)
    \/ StartDelete(p) \/ Tombstone(p) \/ DeletePassword(p)
    \/ Raise(p)

CredentialNext == (\E p \in Holders : CredentialStep(p)) /\ Remember

CredentialSpec == CredentialInit /\ [][CredentialNext]_credentialVars

-----------------------------------------------------------------------------
(* Properties.                                                             *)

(* A save or a load during which another process took a step.              *)
Disturbed(p) == holder[p].op \in {"save", "load"} /\ ~ holder[p].alone

Moves(p) == holder'[p] # holder[p] /\ \A q \in Holders \ {p} :
                holder'[q] \in {holder[q], [holder[q] EXCEPT !.alone = FALSE]}

(* Once there is a marker, a credential that was deleted, replaced or lost *)
(* is never loaded again, one of an old layout included, whatever crashed  *)
(* half-way and whatever copies are left in keyring and file.  The one way *)
(* back is a save or a load that overlaps the deletion and writes the copy *)
(* and the marker it began with after it (credentials.py: delete,          *)
(* _load_authoritative_file).                                              *)
NoResurrection ==
    [][Loadable' \in gone
          => Loadable' = Loadable \/ \E p \in Holders : Moves(p) /\ Disturbed(p)]_credentialVars

(* A load that nobody interferes with never loses the credential, so that  *)
(* a crash between two of its steps costs nothing: the one the marker      *)
(* names stays loadable while it moves from the file to the keyring, and   *)
(* as long as there is no marker one of those that an old layout or a      *)
(* crashed save left behind is loadable at each step of its adoption or    *)
(* migration (credentials.py: load; _credential_legacy.py: load_legacy).   *)
LoadLosesNothing ==
    [][\A p \in Holders :
          Moves(p) /\ holder[p].op = "load" /\ holder[p].alone /\ Loadable # 0
              => Loadable' \in IF marker.backend = "none" THEN Stray ELSE {Loadable}]_credentialVars

(* A save that nobody interferes with takes effect, with a keyring or      *)
(* without, over any leftover copy, tombstone or half-finished migration   *)
(* (credentials.py: save).                                                 *)
SaveTakesEffect ==
    [][\A p \in Holders :
          Moves(p) /\ In(p, "save", holder[p].pc) /\ holder[p].alone
              /\ holder'[p].loaded = VersionOf(holder[p].held)
              => Loadable' = holder[p].held.credential]_credentialVars

(* Calls that nobody interferes with do what they promise.                 *)
UndisturbedCallsWork == LoadLosesNothing /\ SaveTakesEffect
=============================================================================
