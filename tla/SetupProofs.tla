---------------------------- MODULE SetupProofs ----------------------------
(***************************************************************************)
(* What the commands that set the program up promise: a credential that is *)
(* gone stays gone and an undisturbed save or load keeps its word, for any *)
(* number of processes (CredentialStore), and install and remove do all or *)
(* nothing, for any number of commands (ServiceInstall).                   *)
(***************************************************************************)
EXTENDS CredentialStore, ServiceInstall, SequenceTheorems, TLAPS

-----------------------------------------------------------------------------
(* The credential: types.                                                  *)

Backends == {"none", "keyring", "file", "deleted"}
CredentialCopy == [epoch : Nat, revision : Nat, credential : Int]
MarkerRow == [epoch : Nat, revision : Nat, backend : Backends]

(* Where a call of each kind may be.                                       *)
Writing == {"set", "write", "mark"}
Legacy == {"legacy", "legacy_file", "legacy_global", "migrate_set",
           "migrate_retire", "retire", "adopt_mark"}
PlacesOf(op) ==
    CASE op = "none" -> {"rest"}
      [] op = "save" -> Writing \cup {"drop"}
      [] op = "load" -> Writing \cup Legacy \cup
                        {"drop", "get", "purge", "purge_slot", "promote", "promote_set"}
      [] op = "delete" -> {"tombstone", "unset", "drop"}

Places == UNION {PlacesOf(op) : op \in {"none", "save", "load", "delete"}}

HolderType == [op : {"none", "save", "load", "delete"}, pc : Places,
               seen : MarkerRow, held : CredentialCopy, backend : Backends,
               loaded : Int \X Int, alone : BOOLEAN]

(* What the place of a call says about what it carries.                    *)
RecordFits(x) ==
    /\ x.pc \in PlacesOf(x.op)
    /\ x.pc = "write" => x.backend = "file"
    /\ x.pc \in {"promote_set", "migrate_set", "migrate_retire"} => x.backend = "keyring"
    /\ x.pc \in {"mark", "retire", "adopt_mark"} => x.backend \in {"keyring", "file"}
    /\ x.op = "delete" => x.backend = "deleted"
    /\ x.op = "save" => x.loaded = NotLoaded /\ x.held.epoch > 0 /\ x.held.credential > 0
Calls == {x \in HolderType : RecordFits(x)}

Counts == [saves : Nat, loads : Nat, deletes : Nat, revisions : Nat]

CredentialTypeOK ==
    /\ marker \in MarkerRow
    /\ {slot, global, file} \subseteq CredentialCopy
    /\ holder \in [Holders -> Calls]
    /\ gone \subseteq Int
    /\ spent \in Counts

-----------------------------------------------------------------------------
(* The credential: what undisturbed calls rely on.                         *)

(* No credential is numbered higher than the saves that have begun.        *)
AllIssued ==
    /\ \A copy \in {slot, global, file} : copy.credential <= spent.saves + 1
    /\ \A p \in Holders : holder[p].held.credential <= spent.saves + 1
    /\ \A c \in gone : c <= spent.saves + 1 /\ c # 0
    /\ marker.backend = "none" => gone = {}

(* While nobody else takes a step, a save finds what it has written, and   *)
(* its credential was never loadable before its marker.                    *)
SaveOK(x) ==
    /\ x.pc \in Writing => /\ x.held.epoch # marker.epoch
                           /\ x.held.credential \notin gone \cup {Authoritative}
    /\ x.pc = "mark" => \/ x.backend = "keyring" /\ slot = x.held
                        \/ x.backend = "file" /\ file = x.held
    /\ x.pc = "drop" => /\ slot = x.held /\ marker.backend = "keyring"
                        /\ VersionOf(marker) = VersionOf(x.held)

(* A load either finds no marker until it writes its own, or moves the     *)
(* copy that the marker names.                                             *)
Promoting(x) ==
    /\ marker.backend = "file" /\ file = x.held /\ Matches(file, marker)
LoadOK(x) ==
    /\ x.pc \in Legacy \cup {"set", "write"} => marker.backend = "none"
    /\ x.pc \in {"purge", "purge_slot"} => marker.backend = "deleted"
    /\ x.pc = "promote" => marker.backend = "file" /\ x.seen = marker
    /\ x.pc = "promote_set" => Promoting(x)
    /\ x.pc = "mark" => \/ marker.backend = "none"
                        \/ Promoting(x) /\ slot = x.held /\ x.backend = "keyring"
    /\ x.pc = "drop" => marker.backend = "keyring"

CallOK(x) ==
    x.alone => /\ x.op = "save" => SaveOK(x)
               /\ x.op = "load" => LoadOK(x)

CredentialInd ==
    /\ CredentialTypeOK
    /\ AllIssued
    /\ \A p \in Holders : CallOK(holder[p])

(* A bare credential is the one that an earlier version left, in one place *)
(* only; what this version writes is enveloped.                            *)
LayoutOK ==
    /\ \A copy \in {slot, file} : copy = Nothing \/ copy.credential > 0
    /\ \/ global \in {Nothing, Migrated}
       \/ /\ global.credential > 0 /\ global = Bare(global.credential)
          /\ \A copy \in {slot, file} : copy = Nothing \/ copy.epoch > 0

(* What a call is about to store is an envelope around a credential.       *)
Carrying == Writing \cup {"promote_set", "migrate_set", "migrate_retire", "retire", "adopt_mark"}
CarriesOK(x) == x.pc \in Carrying => x.held.epoch > 0 /\ x.held.credential > 0

(* While nobody else takes a step and there is no marker, what a load is   *)
(* about to make authoritative is in one of the stores.                    *)
Copied(x) ==
    \/ x.backend = "keyring" /\ slot = x.held
    \/ x.backend = "file" /\ file = x.held
AdoptOK(x) ==
    /\ x.pc \in {"set", "write"} => x.held.credential \in Stray /\ ~ GlobalInUse
    /\ x.pc \in {"mark", "adopt_mark"} => Copied(x)
    /\ x.pc = "legacy_global" => DefaultDirectory
    /\ x.pc = "migrate_set" => DefaultDirectory /\ global = Bare(x.held.credential)
    /\ x.pc \in {"migrate_retire", "retire"} => slot = x.held /\ x.backend = "keyring"

AdoptionInd ==
    /\ LayoutOK
    /\ \A p \in Holders :
          /\ CarriesOK(holder[p])
          /\ holder[p].op = "load" /\ holder[p].alone /\ marker.backend = "none"
                => AdoptOK(holder[p])

(* Which credential counts, by the place that the marker names.            *)
LEMMA AuthoritativeIs ==
    /\ marker.backend = "keyring" =>
         Authoritative = IF Matches(slot, marker) THEN slot.credential ELSE 0
    /\ marker.backend = "file" =>
         Authoritative = IF Matches(file, marker) THEN file.credential ELSE 0
    /\ marker.backend \notin {"keyring", "file"} => Authoritative = 0
    /\ marker'.backend = "keyring" =>
         Authoritative' = IF Matches(slot', marker') THEN slot'.credential ELSE 0
    /\ marker'.backend = "file" =>
         Authoritative' = IF Matches(file', marker') THEN file'.credential ELSE 0
    /\ marker'.backend \notin {"keyring", "file"} => Authoritative' = 0
BY DEF Authoritative, Matches

(* Under a marker the credential that counts is the one that is loaded,    *)
(* and only that one can be gone after a step that leaves the marker.      *)
LEMMA UnderMarker ==
    /\ marker.backend # "none" => Loadable = Authoritative
    /\ marker'.backend # "none" => Loadable' = Authoritative'
    /\ Remember /\ marker' = marker => gone' \subseteq gone \cup {Authoritative}
<1>1. /\ marker.backend # "none" => Loadable = Authoritative
      /\ marker'.backend # "none" => Loadable' = Authoritative'
    BY DEF Loadable
<1>2. ASSUME Remember, marker' = marker PROVE gone' \subseteq gone \cup {Authoritative}
    BY <1>1, <1>2 DEF Remember
<1> QED
    BY <1>1, <1>2

(* The records that calls begin and end with.                              *)
LEMMA CredentialRecords ==
    /\ NoMarker \in MarkerRow /\ Nothing \in CredentialCopy /\ Migrated \in CredentialCopy
    /\ Nothing.credential = 0 /\ Nothing.epoch = 0 /\ Migrated.credential = -1
    /\ NotLoaded \in Int \X Int /\ NotLoaded[1] = -1
    /\ Resting \in Calls /\ Resting.op = "none" /\ Resting.loaded = NotLoaded
    /\ Resting.held.credential = 0
<1>1. NoMarker \in MarkerRow /\ Nothing \in CredentialCopy
      /\ Nothing.credential = 0 /\ Nothing.epoch = 0
    BY DEF NoMarker, MarkerRow, Backends, Nothing, CredentialCopy
<1>2. Migrated \in CredentialCopy /\ Migrated.credential = -1
    BY <1>1 DEF Migrated, Bare, CredentialCopy
<1>3. NotLoaded \in Int \X Int /\ NotLoaded[1] = -1
    BY DEF NotLoaded
<1>4. /\ Resting.op = "none" /\ Resting.pc = "rest" /\ Resting.loaded = NotLoaded
      /\ Resting.held = Nothing /\ Resting.backend = "none"
    BY DEF Resting
<1>5. Resting \in HolderType
    <2>1. /\ "none" \in {"none", "save", "load", "delete"} /\ "none" \in Backends
          /\ "rest" \in Places
        BY DEF Backends, Places, PlacesOf
    <2>2. ASSUME NEW m \in MarkerRow, NEW c \in CredentialCopy, NEW v \in Int \X Int
          PROVE  [op |-> "none", pc |-> "rest", seen |-> m, held |-> c, backend |-> "none",
                  loaded |-> v, alone |-> TRUE] \in HolderType
        BY <2>1 DEF HolderType
    <2> QED
        BY <1>1, <1>3, <2>2 DEF Resting
<1>6. RecordFits(Resting)
    BY <1>4 DEF RecordFits, PlacesOf
<1> QED
    BY <1>1, <1>2, <1>3, <1>4, <1>5, <1>6 DEF Calls

(* Whose step it is, is seen from the records: the call moves on, and all  *)
(* others at most lose their solitude.                                     *)
LEMMA OthersAtWork ==
    ASSUME holder \in [Holders -> Calls], NEW p \in Holders, NEW x \in Calls, Step(p, x)
    PROVE  /\ holder' \in [Holders -> Calls] /\ holder'[p] = x
           /\ \A q \in Holders \ {p} :
                /\ holder'[q] \in {holder[q], [holder[q] EXCEPT !.alone = FALSE]}
                /\ holder'[q].held = holder[q].held
                /\ holder'[q].op = "none" \/ holder'[q].alone = FALSE
<1>1. holder' = [q \in Holders |->
                  IF q = p THEN x
                  ELSE IF holder[q].op = "none" THEN holder[q]
                  ELSE [holder[q] EXCEPT !.alone = FALSE]]
    BY DEF Step
<1>2. ASSUME NEW y \in Calls
      PROVE  LET z == [y EXCEPT !.alone = FALSE]
             IN  z \in Calls /\ z.held = y.held /\ z.alone = FALSE
    <2> DEFINE z == [y EXCEPT !.alone = FALSE]
    <2>1. y \in HolderType /\ RecordFits(y)
        BY DEF Calls
    <2>2. /\ z \in HolderType /\ z.op = y.op /\ z.pc = y.pc /\ z.backend = y.backend
          /\ z.held = y.held /\ z.loaded = y.loaded /\ z.alone = FALSE
        BY <2>1 DEF HolderType
    <2> HIDE DEF z
    <2>3. RecordFits(z)
        BY <2>1, <2>2 DEF RecordFits
    <2> QED
        BY <2>2, <2>3 DEF Calls, z
<1>3. holder'[p] = x
    BY <1>1
<1>4. ASSUME NEW q \in Holders \ {p}
      PROVE  /\ holder'[q] \in Calls
             /\ holder'[q] \in {holder[q], [holder[q] EXCEPT !.alone = FALSE]}
             /\ holder'[q].held = holder[q].held
             /\ holder'[q].op = "none" \/ holder'[q].alone = FALSE
    <2>1. holder[q] \in Calls
        OBVIOUS
    <2>2. \/ holder'[q] = holder[q] /\ holder[q].op = "none"
          \/ holder'[q] = [holder[q] EXCEPT !.alone = FALSE]
        BY <1>1
    <2> QED
        BY <1>2, <2>1, <2>2
<1>5. holder' \in [Holders -> Calls]
    BY <1>1, <1>3, <1>4
<1> QED
    BY <1>3, <1>4, <1>5

(* A step keeps the invariant if what it stores was issued and its own     *)
(* call can rely on what it finds; the marker never becomes absent.        *)
LEMMA CallSteps ==
    ASSUME CredentialInd, Remember, NEW p \in Holders, NEW x \in Calls, Step(p, x),
           marker' \in MarkerRow, {slot', global', file'} \subseteq CredentialCopy,
           spent' \in Counts, spent.saves <= spent'.saves,
           \A copy \in {slot', global', file', x.held} : copy.credential <= spent'.saves + 1,
           marker'.backend = "none" => marker.backend = "none",
           CallOK(holder[p])'
    PROVE  CredentialInd'
<1>1. /\ CredentialTypeOK /\ AllIssued /\ \A q \in Holders : CallOK(holder[q])
      /\ spent.saves \in Nat /\ spent'.saves \in Nat /\ gone \subseteq Int
    BY DEF CredentialInd, CredentialTypeOK, Counts
<1>2. /\ holder' \in [Holders -> Calls] /\ holder'[p] = x
      /\ \A q \in Holders \ {p} :
            /\ holder'[q].held = holder[q].held
            /\ holder'[q].op = "none" \/ holder'[q].alone = FALSE
    BY <1>1, OthersAtWork DEF CredentialTypeOK
<1>3. Loadable \in Int /\ Loadable <= spent.saves + 1
    <2>1. /\ slot.credential \in Int /\ file.credential \in Int /\ global.credential \in Int
          /\ slot.credential <= spent.saves + 1 /\ file.credential <= spent.saves + 1
          /\ global.credential <= spent.saves + 1
        BY <1>1 DEF CredentialTypeOK, CredentialCopy, AllIssued
    <2>2. Authoritative \in Int /\ Authoritative <= spent.saves + 1
        BY <1>1, <2>1, AuthoritativeIs
    <2>3. Adoptable \in {0, slot.credential, global.credential, file.credential}
        BY DEF Adoptable
    <2>4. Adoptable \in Int /\ Adoptable <= spent.saves + 1
        BY <1>1, <2>1, <2>3
    <2> QED
        BY <2>2, <2>4 DEF Loadable
<1>4. gone' \subseteq Int /\ \A c \in gone' : c <= spent'.saves + 1 /\ c # 0
    <2>1. gone' \subseteq gone \cup {Loadable} /\ (gone' = gone \/ 0 \notin gone')
        BY DEF Remember
    <2>2. ASSUME NEW c \in gone' PROVE c \in Int /\ c <= spent'.saves + 1 /\ c # 0
        BY <1>1, <1>3, <2>1 DEF AllIssued
    <2> QED
        BY <2>2
<1>5. marker'.backend = "none" => gone' = {}
    <2> SUFFICES ASSUME marker'.backend = "none" PROVE gone' = {}
        OBVIOUS
    <2> QED
        BY <1>1 DEF AllIssued, Remember
<1>6. CredentialTypeOK'
    BY <1>2, <1>4 DEF CredentialTypeOK
<1>7. \A q \in Holders : holder'[q].held.credential <= spent'.saves + 1
    <2>1. ASSUME NEW q \in Holders \ {p} PROVE holder'[q].held.credential <= spent'.saves + 1
        <3>1. holder[q].held.credential \in Int
            BY <1>1 DEF CredentialTypeOK, Calls, HolderType, CredentialCopy
        <3>2. holder[q].held.credential <= spent.saves + 1
            BY <1>1 DEF AllIssued
        <3> QED
            BY <1>1, <1>2, <3>1, <3>2
    <2> QED
        BY <1>2, <2>1
<1>8. AllIssued'
    BY <1>4, <1>5, <1>7 DEF AllIssued
<1>9. \A q \in Holders : CallOK(holder[q])'
    BY <1>2 DEF CallOK
<1> QED
    BY <1>6, <1>8, <1>9 DEF CredentialInd

-----------------------------------------------------------------------------
(* The credential: what a step of each kind does.                          *)

(* The record z is the record y, moved on to another place.                *)
Becomes(z, y, pc, held, backend, loaded) ==
    /\ z \in HolderType /\ z.op = y.op /\ z.pc = pc /\ z.seen = y.seen /\ z.held = held
    /\ z.backend = backend /\ z.loaded = loaded /\ z.alone = y.alone

(* What one step of p does for the properties.                             *)
Promised(p) ==
    /\ Authoritative' \in gone => Authoritative' = Authoritative \/ Disturbed(p)
    /\ holder[p].op = "load" /\ holder[p].alone /\ Authoritative # 0 => Authoritative' = Authoritative
    /\ holder[p].op = "save" /\ holder[p].alone /\ holder'[p].loaded = VersionOf(holder[p].held)
           => Authoritative' = holder[p].held.credential
    /\ holder'[p].op # holder[p].op \/ holder'[p].pc # holder[p].pc
    /\ \A q \in Holders \ {p} : holder'[q] \in {holder[q], [holder[q] EXCEPT !.alone = FALSE]}

(* The ways in which a call's record is rewritten.                         *)
LEMMA Rewritten ==
    ASSUME NEW y \in HolderType, NEW pc \in PlacesOf(y.op), NEW held \in CredentialCopy,
           NEW backend \in Backends, NEW loaded \in Int \X Int
    PROVE  /\ Becomes([y EXCEPT !.pc = pc], y, pc, y.held, y.backend, y.loaded)
           /\ Becomes([y EXCEPT !.pc = pc, !.backend = backend], y, pc, y.held, backend, y.loaded)
           /\ Becomes([y EXCEPT !.pc = pc, !.held = held], y, pc, held, y.backend, y.loaded)
           /\ Becomes([y EXCEPT !.pc = pc, !.held = held, !.backend = backend],
                      y, pc, held, backend, y.loaded)
           /\ Becomes([y EXCEPT !.pc = pc, !.backend = backend, !.held = held],
                      y, pc, held, backend, y.loaded)
           /\ Becomes([y EXCEPT !.pc = pc, !.loaded = loaded], y, pc, y.held, y.backend, loaded)
<1>1. pc \in Places
    BY DEF Places, HolderType
<1> QED
    BY <1>1 DEF Becomes, HolderType

(* The record after a call.                                                *)
LEMMA AfterCall ==
    ASSUME NEW v \in Int \X Int
    PROVE  LET z == [Resting EXCEPT !.loaded = v]
           IN  z \in Calls /\ z.op = "none" /\ z.loaded = v /\ z.held.credential = 0
<1> DEFINE z == [Resting EXCEPT !.loaded = v]
<1>1. Resting \in HolderType /\ RecordFits(Resting) /\ Resting.op = "none"
      /\ Resting.held.credential = 0
    BY CredentialRecords DEF Calls
<1>2. z \in HolderType /\ z.op = "none" /\ z.pc = Resting.pc /\ z.backend = Resting.backend
      /\ z.loaded = v /\ z.held = Resting.held
    BY <1>1 DEF HolderType
<1> HIDE DEF z
<1>3. RecordFits(z)
    BY <1>1, <1>2 DEF RecordFits
<1> QED
    BY <1>1, <1>2, <1>3 DEF Calls, z

(* While no store is written, nothing is gone.                             *)
LEMMA Untouched ==
    ASSUME UNCHANGED stores, Remember
    PROVE  /\ Authoritative' = Authoritative /\ gone' = gone /\ UNCHANGED <<marker, slot, global, file>>
<1>1. UNCHANGED <<marker, slot, global, file>>
    BY DEF stores
<1>2. Authoritative' = Authoritative
    BY <1>1 DEF Authoritative, Matches, VersionOf
<1>3. Adoptable' = Adoptable
    BY <1>1 DEF Adoptable, GlobalInUse
<1>4. Loadable' = Loadable
    BY <1>1, <1>2, <1>3 DEF Loadable
<1> QED
    BY <1>1, <1>2, <1>4 DEF Remember

(* What the invariant says about one call.                                 *)
LEMMA CallHas ==
    ASSUME CredentialInd, NEW p \in Holders
    PROVE  /\ holder \in [Holders -> Calls] /\ holder[p] \in Calls /\ holder[p] \in HolderType
           /\ RecordFits(holder[p]) /\ CallOK(holder[p])
           /\ holder[p].held \in CredentialCopy /\ holder[p].held.credential \in Int
           /\ holder[p].held.epoch \in Nat /\ holder[p].held.revision \in Nat
           /\ holder[p].backend \in Backends /\ holder[p].loaded \in Int \X Int
           /\ holder[p].alone \in BOOLEAN
           /\ holder[p].held.credential <= spent.saves + 1
           /\ spent \in Counts /\ spent.saves \in Nat /\ spent.revisions \in Nat
           /\ marker \in MarkerRow /\ {slot, global, file} \subseteq CredentialCopy
           /\ marker.epoch \in Nat /\ marker.backend \in Backends
           /\ \A copy \in {slot, global, file} : copy.credential <= spent.saves + 1
           /\ \A copy \in {slot, global, file} : copy.credential \in Int /\ copy.epoch \in Nat
           /\ gone \subseteq Int /\ 0 \notin gone
           /\ \A c \in gone : c <= spent.saves + 1
           /\ marker.backend = "none" => gone = {}
<1>1. CredentialTypeOK /\ AllIssued /\ CallOK(holder[p])
    BY DEF CredentialInd
<1>2. holder \in [Holders -> Calls] /\ holder[p] \in HolderType /\ RecordFits(holder[p])
    BY <1>1 DEF CredentialTypeOK, Calls
<1>3. /\ holder[p].held \in CredentialCopy /\ holder[p].backend \in Backends
      /\ holder[p].loaded \in Int \X Int /\ holder[p].alone \in BOOLEAN
    BY <1>2 DEF HolderType
<1>4. /\ holder[p].held.credential \in Int /\ holder[p].held.epoch \in Nat
      /\ holder[p].held.revision \in Nat
    BY <1>3 DEF CredentialCopy
<1>5. spent \in Counts /\ spent.saves \in Nat /\ spent.revisions \in Nat
    BY <1>1 DEF CredentialTypeOK, Counts
<1>6. /\ marker \in MarkerRow /\ {slot, global, file} \subseteq CredentialCopy
      /\ marker.epoch \in Nat /\ marker.backend \in Backends
      /\ \A copy \in {slot, global, file} : copy.credential \in Int /\ copy.epoch \in Nat
    BY <1>1 DEF CredentialTypeOK, MarkerRow, CredentialCopy
<1> QED
    BY <1>1, <1>2, <1>3, <1>4, <1>5, <1>6 DEF AllIssued, CredentialTypeOK

(* A call that returns keeps the invariant: its record relies on nothing.  *)
LEMMA CallEnds ==
    ASSUME CredentialInd, Remember, NEW p \in Holders, holder[p].op # "none",
           NEW v \in Int \X Int, Return(p, v), UNCHANGED spent,
           marker' \in MarkerRow, {slot', global', file'} \subseteq CredentialCopy,
           \A copy \in {slot', global', file'} : copy.credential <= spent.saves + 1,
           marker'.backend = "none" => marker.backend = "none"
    PROVE  /\ CredentialInd' /\ holder'[p].op = "none" /\ holder'[p].loaded = v
           /\ \A q \in Holders \ {p} : holder'[q] \in {holder[q], [holder[q] EXCEPT !.alone = FALSE]}
<1> DEFINE x == [Resting EXCEPT !.loaded = v]
<1>1. x \in Calls /\ x.op = "none" /\ x.loaded = v /\ x.held.credential = 0
    BY AfterCall
<1>2. Step(p, x)
    BY DEF Return
<1> HIDE DEF x
<1>3. holder \in [Holders -> Calls] /\ spent \in Counts /\ spent.saves \in Nat
    BY CallHas
<1>4. /\ holder'[p] = x
      /\ \A q \in Holders \ {p} : holder'[q] \in {holder[q], [holder[q] EXCEPT !.alone = FALSE]}
    BY <1>1, <1>2, <1>3, OthersAtWork
<1>5. CallOK(holder[p])'
    BY <1>1, <1>4 DEF CallOK
<1>6. /\ spent' \in Counts /\ spent.saves <= spent'.saves
      /\ \A copy \in {slot', global', file', x.held} : copy.credential <= spent'.saves + 1
    BY <1>1, <1>3
<1>7. CredentialInd'
    BY <1>1, <1>2, <1>5, <1>6, CallSteps
<1> QED
    BY <1>1, <1>4, <1>7

(* A call that goes on keeps it if it finds what it relies on.             *)
LEMMA CallGoesOn ==
    ASSUME CredentialInd, Remember, NEW p \in Holders, NEW pc \in PlacesOf(holder[p].op),
           NEW held \in CredentialCopy, NEW backend \in Backends, NEW loaded \in Int \X Int,
           NEW x, Becomes(x, holder[p], pc, held, backend, loaded), RecordFits(x), Step(p, x),
           spent' \in Counts, spent'.saves = spent.saves,
           marker' \in MarkerRow, {slot', global', file'} \subseteq CredentialCopy,
           \A copy \in {slot', global', file', held} : copy.credential <= spent.saves + 1,
           marker'.backend = "none" => marker.backend = "none"
    PROVE  /\ Becomes(holder'[p], holder[p], pc, held, backend, loaded)
           /\ \A q \in Holders \ {p} : holder'[q] \in {holder[q], [holder[q] EXCEPT !.alone = FALSE]}
           /\ CallOK(holder[p])' => CredentialInd'
<1>1. x \in Calls
    BY DEF Becomes, Calls
<1>2. holder \in [Holders -> Calls] /\ spent.saves \in Nat
    BY CallHas
<1>3. /\ holder'[p] = x
      /\ \A q \in Holders \ {p} : holder'[q] \in {holder[q], [holder[q] EXCEPT !.alone = FALSE]}
    BY <1>1, <1>2, OthersAtWork
<1>4. ASSUME CallOK(holder[p])' PROVE CredentialInd'
    <2>1. /\ spent.saves <= spent'.saves
          /\ \A copy \in {slot', global', file', x.held} : copy.credential <= spent'.saves + 1
        BY <1>2 DEF Becomes
    <2> QED
        BY <1>1, <1>4, <2>1, CallSteps
<1> QED
    BY <1>3, <1>4

(* A copy under another version than the marker's hides at most what was   *)
(* there, and without a marker it changes nothing.                         *)
LEMMA SetPasswordKeeps ==
    ASSUME CredentialInd, Remember, NEW p \in Holders, SetPassword(p)
    PROVE  CredentialInd' /\ Promised(p)
<1> DEFINE y == holder[p]
<1>1. /\ y \in Calls /\ y \in HolderType /\ RecordFits(y) /\ CallOK(y)
      /\ y.held \in CredentialCopy /\ y.held.credential \in Int /\ y.held.epoch \in Nat
      /\ y.loaded \in Int \X Int /\ y.alone \in BOOLEAN
      /\ y.held.credential <= spent.saves + 1 /\ spent \in Counts
      /\ marker \in MarkerRow /\ {slot, global, file} \subseteq CredentialCopy
      /\ \A copy \in {slot, global, file} : copy.credential <= spent.saves + 1
      /\ 0 \notin gone
    BY CallHas
<1>2. y.pc = "set" /\ UNCHANGED <<marker, global, file, spent>> /\ y.op \in {"save", "load"}
    BY <1>1 DEF SetPassword, RecordFits, PlacesOf, HolderType
<1>3. /\ y.op = "save" => y.loaded = NotLoaded /\ y.held.epoch > 0 /\ y.held.credential > 0
      /\ y.op = "save" /\ y.alone => /\ y.held.epoch # marker.epoch
                                     /\ y.held.credential \notin gone \cup {Authoritative}
      /\ y.op = "load" /\ y.alone => marker.backend = "none"
    BY <1>1, <1>2 DEF RecordFits, CallOK, SaveOK, LoadOK, Writing
<1>4. PICK pc, backend :
        /\ \/ pc = "mark" /\ backend = "keyring" /\ slot' = y.held
           \/ pc = "write" /\ backend = "file" /\ UNCHANGED slot
        /\ Step(p, [y EXCEPT !.pc = pc, !.backend = backend])
    BY DEF SetPassword
<1> DEFINE x == [y EXCEPT !.pc = pc, !.backend = backend]
<1>5. pc \in PlacesOf(y.op) /\ backend \in Backends
    BY <1>2, <1>4 DEF PlacesOf, Writing, Backends
<1>6. Becomes(x, y, pc, y.held, backend, y.loaded)
    BY <1>1, <1>5, Rewritten
<1> HIDE DEF x
<1>7. RecordFits(x)
    BY <1>1, <1>2, <1>3, <1>4, <1>5, <1>6 DEF RecordFits, Becomes
<1>8. /\ Becomes(holder'[p], y, pc, y.held, backend, y.loaded)
      /\ \A q \in Holders \ {p} : holder'[q] \in {holder[q], [holder[q] EXCEPT !.alone = FALSE]}
      /\ CallOK(holder[p])' => CredentialInd'
    <2>1. Step(p, x) /\ spent' \in Counts /\ spent'.saves = spent.saves
        BY <1>1, <1>2, <1>4 DEF x
    <2>2. /\ marker' \in MarkerRow /\ {slot', global', file'} \subseteq CredentialCopy
          /\ \A copy \in {slot', global', file', y.held} : copy.credential <= spent.saves + 1
          /\ marker'.backend = "none" => marker.backend = "none"
        BY <1>1, <1>2, <1>4
    <2> HIDE DEF y
    <2> QED
        BY <1>1, <1>5, <1>6, <1>7, <2>1, <2>2, CallGoesOn DEF y
<1>9. /\ y.held.epoch # marker.epoch => Authoritative' \in {Authoritative, 0}
      /\ marker.backend = "none" => Authoritative' = Authoritative
    <2>1. y.held.epoch # marker.epoch => ~ Matches(y.held, marker)
        BY DEF Matches, VersionOf
    <2>2. CASE slot' = y.held
        <3>1. marker' = marker /\ file' = file
            BY <1>2
        <3> QED
            BY <2>1, <2>2, <3>1, AuthoritativeIs
    <2>3. CASE UNCHANGED slot
        <3>1. slot' = slot /\ file' = file /\ marker' = marker
            BY <1>2, <2>3
        <3> QED
            BY <3>1, AuthoritativeIs
    <2> QED
        BY <1>4, <2>2, <2>3
<1>10. gone' \subseteq gone \cup {Authoritative}
    BY <1>2, UnderMarker
<1>11. CallOK(holder[p])'
    <2>1. ASSUME y.alone, y.op = "save" PROVE SaveOK(holder[p])'
        <3>1. y.held.credential \notin gone' \cup {Authoritative'}
            BY <1>1, <1>3, <1>9, <1>10, <2>1
        <3> QED
            BY <1>2, <1>3, <1>4, <1>8, <2>1, <3>1 DEF SaveOK, Becomes, Writing
    <2>2. ASSUME y.alone, y.op = "load" PROVE LoadOK(holder[p])'
        BY <1>2, <1>3, <1>4, <1>8, <2>2 DEF LoadOK, Becomes, Writing, Legacy
    <2> QED
        BY <1>2, <1>8, <2>1, <2>2 DEF CallOK, Becomes
<1>12. Promised(p)
    <2>1. Authoritative' \in gone => Authoritative' = Authoritative \/ Disturbed(p)
        BY <1>1, <1>2, <1>3, <1>9 DEF Disturbed
    <2>2. y.op = "load" /\ y.alone => Authoritative' = Authoritative
        BY <1>3, <1>9
    <2>3. y.op = "save" => holder'[p].loaded # VersionOf(y.held)
        BY <1>1, <1>3, <1>8 DEF Becomes, NotLoaded, VersionOf
    <2>4. holder'[p].pc # y.pc
        BY <1>2, <1>4, <1>8 DEF Becomes
    <2> QED
        BY <1>8, <2>1, <2>2, <2>3, <2>4 DEF Promised
<1> QED
    BY <1>8, <1>11, <1>12

LEMMA WriteFileKeeps ==
    ASSUME CredentialInd, Remember, NEW p \in Holders, WriteFile(p)
    PROVE  CredentialInd' /\ Promised(p)
<1> DEFINE y == holder[p]
           x == [y EXCEPT !.pc = "mark"]
<1>1. /\ y \in Calls /\ y \in HolderType /\ RecordFits(y) /\ CallOK(y)
      /\ y.held \in CredentialCopy /\ y.held.credential \in Int /\ y.held.epoch \in Nat
      /\ y.backend \in Backends /\ y.loaded \in Int \X Int /\ y.alone \in BOOLEAN
      /\ y.held.credential <= spent.saves + 1 /\ spent \in Counts
      /\ marker \in MarkerRow /\ {slot, global, file} \subseteq CredentialCopy
      /\ \A copy \in {slot, global, file} : copy.credential <= spent.saves + 1
      /\ 0 \notin gone
    BY CallHas
<1>2. /\ y.pc = "write" /\ UNCHANGED <<marker, slot, global, spent>> /\ file' = y.held
      /\ y.op \in {"save", "load"} /\ Step(p, x)
    BY <1>1 DEF WriteFile, GoTo, RecordFits, PlacesOf, HolderType
<1>3. /\ y.op = "save" => y.loaded = NotLoaded /\ y.held.epoch > 0 /\ y.held.credential > 0
      /\ y.op = "save" /\ y.alone => /\ y.held.epoch # marker.epoch
                                     /\ y.held.credential \notin gone \cup {Authoritative}
      /\ y.op = "load" /\ y.alone => marker.backend = "none"
      /\ y.backend = "file"
    BY <1>1, <1>2 DEF RecordFits, CallOK, SaveOK, LoadOK, Writing
<1>5. "mark" \in PlacesOf(y.op)
    BY <1>2 DEF PlacesOf, Writing
<1>6. Becomes(x, y, "mark", y.held, y.backend, y.loaded)
    BY <1>1, <1>5, Rewritten
<1> HIDE DEF x
<1>7. RecordFits(x)
    BY <1>1, <1>2, <1>3, <1>5, <1>6 DEF RecordFits, Becomes
<1>8. /\ Becomes(holder'[p], y, "mark", y.held, y.backend, y.loaded)
      /\ \A q \in Holders \ {p} : holder'[q] \in {holder[q], [holder[q] EXCEPT !.alone = FALSE]}
      /\ CallOK(holder[p])' => CredentialInd'
    <2>1. Step(p, x) /\ spent' \in Counts /\ spent'.saves = spent.saves
        BY <1>1, <1>2
    <2>2. /\ marker' \in MarkerRow /\ {slot', global', file'} \subseteq CredentialCopy
          /\ \A copy \in {slot', global', file', y.held} : copy.credential <= spent.saves + 1
          /\ marker'.backend = "none" => marker.backend = "none"
        BY <1>1, <1>2
    <2> HIDE DEF y
    <2> QED
        BY <1>1, <1>5, <1>6, <1>7, <2>1, <2>2, CallGoesOn DEF y
<1>9. /\ y.held.epoch # marker.epoch => Authoritative' \in {Authoritative, 0}
      /\ marker.backend = "none" => Authoritative' = Authoritative
    <2>1. y.held.epoch # marker.epoch => ~ Matches(y.held, marker)
        BY DEF Matches, VersionOf
    <2> QED
        BY <1>2, <2>1, AuthoritativeIs
<1>10. gone' \subseteq gone \cup {Authoritative}
    BY <1>2, UnderMarker
<1>11. CallOK(holder[p])'
    <2>1. ASSUME y.alone, y.op = "save" PROVE SaveOK(holder[p])'
        <3>1. y.held.credential \notin gone' \cup {Authoritative'}
            BY <1>1, <1>3, <1>9, <1>10, <2>1
        <3> QED
            BY <1>2, <1>3, <1>8, <2>1, <3>1 DEF SaveOK, Becomes, Writing
    <2>2. ASSUME y.alone, y.op = "load" PROVE LoadOK(holder[p])'
        BY <1>2, <1>3, <1>8, <2>2 DEF LoadOK, Becomes, Writing, Legacy
    <2> QED
        BY <1>2, <1>8, <2>1, <2>2 DEF CallOK, Becomes
<1>12. Promised(p)
    <2>1. Authoritative' \in gone => Authoritative' = Authoritative \/ Disturbed(p)
        BY <1>1, <1>2, <1>3, <1>9 DEF Disturbed
    <2>2. y.op = "load" /\ y.alone => Authoritative' = Authoritative
        BY <1>3, <1>9
    <2>3. y.op = "save" => holder'[p].loaded # VersionOf(y.held)
        BY <1>1, <1>3, <1>8 DEF Becomes, NotLoaded, VersionOf
    <2>4. holder'[p].pc # y.pc
        BY <1>2, <1>8 DEF Becomes
    <2> QED
        BY <1>8, <2>1, <2>2, <2>3, <2>4 DEF Promised
<1> QED
    BY <1>8, <1>11, <1>12

(* The marker makes the saved copy authoritative: a saved credential is    *)
(* new, a promoted one was loadable before, and an adopted one is the      *)
(* first that there is.                                                    *)
LEMMA MarkSavedKeeps ==
    ASSUME CredentialInd, Remember, NEW p \in Holders, MarkSaved(p)
    PROVE  CredentialInd' /\ Promised(p)
<1> DEFINE y == holder[p]
           x == [y EXCEPT !.pc = "drop"]
<1>1. /\ y \in Calls /\ y \in HolderType /\ RecordFits(y) /\ CallOK(y)
      /\ y.held \in CredentialCopy /\ y.held.credential \in Int /\ y.held.epoch \in Nat
      /\ y.held.revision \in Nat
      /\ y.backend \in Backends /\ y.loaded \in Int \X Int /\ y.alone \in BOOLEAN
      /\ y.held.credential <= spent.saves + 1 /\ spent \in Counts
      /\ {slot, global, file} \subseteq CredentialCopy
      /\ \A copy \in {slot, global, file} : copy.credential <= spent.saves + 1
      /\ 0 \notin gone /\ (marker.backend = "none" => gone = {})
    BY CallHas
<1>2. /\ y.pc = "mark" /\ UNCHANGED <<slot, global, file, spent>> /\ y.op \in {"save", "load"}
      /\ y.backend \in {"keyring", "file"}
      /\ marker' = [epoch |-> y.held.epoch, revision |-> y.held.revision, backend |-> y.backend]
    BY <1>1 DEF MarkSaved, Authority, RecordFits, PlacesOf, HolderType
<1>3. /\ y.op = "save" => y.loaded = NotLoaded /\ y.held.epoch > 0 /\ y.held.credential > 0
      /\ y.op = "save" /\ y.alone => /\ y.held.epoch # marker.epoch
                                     /\ y.held.credential \notin gone \cup {Authoritative}
                                     /\ \/ y.backend = "keyring" /\ slot = y.held
                                        \/ y.backend = "file" /\ file = y.held
      /\ y.op = "load" /\ y.alone => \/ marker.backend = "none"
                                     \/ Promoting(y) /\ slot = y.held /\ y.backend = "keyring"
    BY <1>1, <1>2 DEF RecordFits, CallOK, SaveOK, LoadOK, Writing
<1>4. /\ marker' \in MarkerRow /\ marker'.backend = y.backend
      /\ marker'.epoch = y.held.epoch /\ VersionOf(marker)' = VersionOf(y.held)
    BY <1>1, <1>2 DEF MarkerRow, VersionOf
<1>5. y.op = "save" /\ y.alone => Authoritative' = y.held.credential
    <2> SUFFICES ASSUME y.op = "save", y.alone PROVE Authoritative' = y.held.credential
        OBVIOUS
    <2>1. Matches(y.held, marker')
        BY <1>3, <1>4 DEF Matches, VersionOf
    <2> QED
        BY <1>2, <1>3, <1>4, <2>1, AuthoritativeIs
<1>6. y.op = "load" /\ y.alone => \/ Authoritative = 0 /\ gone = {}
                                  \/ Authoritative' = Authoritative
    <2> SUFFICES ASSUME Promoting(y), slot = y.held, y.backend = "keyring" PROVE Authoritative' = Authoritative
        BY <1>1, <1>3, AuthoritativeIs
    <2>1. Authoritative = y.held.credential
        BY AuthoritativeIs DEF Promoting
    <2>2. Matches(slot', marker')
        BY <1>2, <1>4 DEF Promoting, Matches, VersionOf
    <2> QED
        BY <1>2, <1>4, <2>1, <2>2, AuthoritativeIs
<1>7. /\ CredentialInd' /\ (holder'[p].op # y.op \/ holder'[p].pc # y.pc)
      /\ \A q \in Holders \ {p} : holder'[q] \in {holder[q], [holder[q] EXCEPT !.alone = FALSE]}
    <2>1. CASE y.backend = "file"
        <3>1. VersionOf(y.held) \in Int \X Int /\ Return(p, VersionOf(y.held))
            BY <1>1, <2>1 DEF MarkSaved, VersionOf
        <3>2. /\ y.op # "none" /\ UNCHANGED spent /\ marker'.backend # "none"
              /\ {slot', global', file'} \subseteq CredentialCopy
              /\ \A copy \in {slot', global', file'} : copy.credential <= spent.saves + 1
            BY <1>1, <1>2, <1>4
        <3> QED
            BY <1>4, <3>1, <3>2, CallEnds
    <2>2. CASE y.backend = "keyring"
        <3>1. "drop" \in PlacesOf(y.op) /\ Step(p, x)
            BY <1>2, <2>2 DEF PlacesOf, MarkSaved, GoTo
        <3>2. Becomes(x, y, "drop", y.held, y.backend, y.loaded)
            BY <1>1, <3>1, Rewritten
        <3> HIDE DEF x
        <3>3. RecordFits(x)
            BY <1>1, <1>2, <3>1, <3>2 DEF RecordFits, Becomes
        <3>4. /\ spent' \in Counts /\ spent'.saves = spent.saves /\ marker'.backend # "none"
              /\ {slot', global', file'} \subseteq CredentialCopy
              /\ \A copy \in {slot', global', file', y.held} : copy.credential <= spent.saves + 1
            BY <1>1, <1>2, <1>4
        <3>5. /\ Becomes(holder'[p], y, "drop", y.held, y.backend, y.loaded)
              /\ \A q \in Holders \ {p} :
                    holder'[q] \in {holder[q], [holder[q] EXCEPT !.alone = FALSE]}
              /\ CallOK(holder[p])' => CredentialInd'
            <4> HIDE DEF y
            <4> QED
                BY <1>1, <1>4, <3>1, <3>2, <3>3, <3>4, CallGoesOn DEF y
        <3>6. CallOK(holder[p])'
            <4>1. ASSUME y.alone, y.op = "save" PROVE SaveOK(holder[p])'
                BY <1>2, <1>3, <1>4, <2>2, <3>5, <4>1 DEF SaveOK, Becomes, Writing
            <4>2. ASSUME y.alone, y.op = "load" PROVE LoadOK(holder[p])'
                BY <1>4, <2>2, <3>5, <4>2 DEF LoadOK, Becomes, Writing, Legacy
            <4> QED
                BY <1>2, <3>5, <4>1, <4>2 DEF CallOK, Becomes
        <3>7. holder'[p].pc # y.pc
            BY <1>2, <3>5 DEF Becomes
        <3> QED
            BY <3>5, <3>6, <3>7
    <2> QED
        BY <1>2, <2>1, <2>2
<1>8. Promised(p)
    BY <1>1, <1>2, <1>3, <1>5, <1>6, <1>7 DEF Promised, Disturbed
<1> QED
    BY <1>7, <1>8

LEMMA DropFallbackKeeps ==
    ASSUME CredentialInd, Remember, NEW p \in Holders, DropFallback(p)
    PROVE  CredentialInd' /\ Promised(p)
<1> DEFINE y == holder[p]
           v == IF y.op = "delete" THEN y.loaded ELSE VersionOf(y.held)
<1>1. /\ y \in HolderType /\ RecordFits(y) /\ CallOK(y)
      /\ y.held.epoch \in Nat /\ y.held.revision \in Nat /\ y.loaded \in Int \X Int
      /\ {slot, global, file} \subseteq CredentialCopy /\ spent.saves \in Nat
      /\ \A copy \in {slot, global, file} : copy.credential <= spent.saves + 1
      /\ marker \in MarkerRow /\ 0 \notin gone
    BY CallHas
<1>2. /\ y.pc = "drop" /\ UNCHANGED <<marker, slot, global, spent>> /\ file' = Nothing
      /\ y.op \in {"save", "load", "delete"} /\ Return(p, v)
    BY <1>1 DEF DropFallback, RecordFits, PlacesOf, HolderType
<1>3. /\ y.op = "save" => y.held.epoch > 0
      /\ y.op = "save" /\ y.alone => /\ slot = y.held /\ marker.backend = "keyring"
                                     /\ VersionOf(marker) = VersionOf(y.held)
      /\ y.op = "load" /\ y.alone => marker.backend = "keyring"
    BY <1>1, <1>2 DEF RecordFits, CallOK, SaveOK, LoadOK
<1>4. v \in Int \X Int
    BY <1>1 DEF VersionOf
<1> HIDE DEF v
<1>5. /\ marker' \in MarkerRow /\ {slot', global', file'} \subseteq CredentialCopy
      /\ \A copy \in {slot', global', file'} : copy.credential <= spent.saves + 1
      /\ marker'.backend = "none" => marker.backend = "none"
    <2>1. Nothing \in CredentialCopy /\ Nothing.credential = 0
        BY CredentialRecords
    <2> QED
        BY <1>1, <1>2, <2>1
<1>6. /\ CredentialInd' /\ holder'[p].op = "none"
      /\ \A q \in Holders \ {p} : holder'[q] \in {holder[q], [holder[q] EXCEPT !.alone = FALSE]}
    BY <1>2, <1>4, <1>5, CallEnds
<1>7. Authoritative' \in {Authoritative, 0} /\ (marker.backend = "keyring" => Authoritative' = Authoritative)
    <2>1. ~ Matches(Nothing, marker)
        BY CredentialRecords DEF Matches
    <2> QED
        BY <1>2, <2>1, AuthoritativeIs
<1>8. y.op = "save" /\ y.alone => Authoritative' = y.held.credential
    <2> SUFFICES ASSUME y.op = "save", y.alone PROVE Authoritative' = y.held.credential
        OBVIOUS
    <2>1. Matches(slot, marker)
        BY <1>3 DEF Matches
    <2> QED
        BY <1>3, <1>7, <2>1, AuthoritativeIs
<1>9. Promised(p)
    BY <1>1, <1>2, <1>3, <1>6, <1>7, <1>8 DEF Promised
<1> QED
    BY <1>6, <1>9

(* A call that returns without a write.                                    *)
LEMMA QuietReturn ==
    ASSUME CredentialInd, Remember, NEW p \in Holders, holder[p].op # "none",
           NEW v \in Int \X Int, Return(p, v), UNCHANGED stores, UNCHANGED spent,
           holder[p].op = "save" => v = NotLoaded
    PROVE  CredentialInd' /\ Promised(p)
<1>1. Authoritative' = Authoritative /\ UNCHANGED <<marker, slot, global, file>>
    BY Untouched
<1>2. /\ marker \in MarkerRow /\ {slot, global, file} \subseteq CredentialCopy
      /\ \A copy \in {slot, global, file} : copy.credential <= spent.saves + 1
      /\ RecordFits(holder[p]) /\ holder[p].held.epoch \in Nat
    BY CallHas
<1>3. /\ marker' \in MarkerRow /\ {slot', global', file'} \subseteq CredentialCopy
      /\ \A copy \in {slot', global', file'} : copy.credential <= spent.saves + 1
      /\ marker'.backend = "none" => marker.backend = "none"
    BY <1>1, <1>2
<1>4. /\ CredentialInd' /\ holder'[p].op = "none" /\ holder'[p].loaded = v
      /\ \A q \in Holders \ {p} : holder'[q] \in {holder[q], [holder[q] EXCEPT !.alone = FALSE]}
    BY <1>3, CallEnds
<1>5. holder[p].op = "save" => v # VersionOf(holder[p].held)
    BY <1>2 DEF RecordFits, NotLoaded, VersionOf
<1> QED
    BY <1>1, <1>4, <1>5 DEF Promised

(* A load that goes on without a write.                                    *)
LEMMA QuietLoad ==
    ASSUME CredentialInd, Remember, NEW p \in Holders, holder[p].op = "load",
           NEW pc \in PlacesOf("load"), pc # holder[p].pc,
           NEW held \in CredentialCopy, held.credential <= spent.saves + 1,
           NEW backend \in Backends, NEW x, Step(p, x),
           Becomes(x, holder[p], pc, held, backend, holder[p].loaded),
           RecordFits(x), UNCHANGED stores, spent' \in Counts, spent'.saves = spent.saves
    PROVE  /\ Becomes(holder'[p], holder[p], pc, held, backend, holder[p].loaded)
           /\ CallOK(holder[p])' => CredentialInd'
           /\ Promised(p) /\ UNCHANGED <<marker, slot, global, file>>
<1>1. Authoritative' = Authoritative /\ UNCHANGED <<marker, slot, global, file>>
    BY Untouched
<1>2. /\ marker \in MarkerRow /\ {slot, global, file} \subseteq CredentialCopy
      /\ \A copy \in {slot, global, file} : copy.credential <= spent.saves + 1
      /\ holder[p].loaded \in Int \X Int
    BY CallHas
<1>3. /\ marker' \in MarkerRow /\ {slot', global', file'} \subseteq CredentialCopy
      /\ \A copy \in {slot', global', file', held} : copy.credential <= spent.saves + 1
      /\ marker'.backend = "none" => marker.backend = "none"
      /\ pc \in PlacesOf(holder[p].op)
    BY <1>1, <1>2
<1>4. /\ Becomes(holder'[p], holder[p], pc, held, backend, holder[p].loaded)
      /\ \A q \in Holders \ {p} : holder'[q] \in {holder[q], [holder[q] EXCEPT !.alone = FALSE]}
      /\ CallOK(holder[p])' => CredentialInd'
    <2>1. PICK loaded : loaded = holder[p].loaded
        OBVIOUS
    <2>2. loaded \in Int \X Int /\ Becomes(x, holder[p], pc, held, backend, loaded)
        BY <1>2, <2>1
    <2>3. /\ Becomes(holder'[p], holder[p], pc, held, backend, loaded)
          /\ \A q \in Holders \ {p} :
                holder'[q] \in {holder[q], [holder[q] EXCEPT !.alone = FALSE]}
          /\ CallOK(holder[p])' => CredentialInd'
        BY <1>3, <2>2, CallGoesOn
    <2> QED
        BY <2>1, <2>3
<1>5. holder'[p].pc # holder[p].pc
    BY <1>4 DEF Becomes
<1> QED
    BY <1>1, <1>4, <1>5 DEF Promised

(* A call that begins.                                                     *)
LEMMA CallBegins ==
    ASSUME CredentialInd, Remember, NEW p \in Holders, holder[p].op = "none",
           NEW x \in Calls, x.op # "none", Step(p, x), UNCHANGED stores,
           spent' \in Counts, spent.saves <= spent'.saves,
           x.held.credential <= spent'.saves + 1
    PROVE  /\ holder'[p] = x /\ Promised(p)
           /\ Authoritative' = Authoritative /\ gone' = gone /\ UNCHANGED <<marker, slot, global, file>>
           /\ CallOK(holder[p])' => CredentialInd'
<1>1. Authoritative' = Authoritative /\ gone' = gone /\ UNCHANGED <<marker, slot, global, file>>
    BY Untouched
<1>2. /\ marker \in MarkerRow /\ {slot, global, file} \subseteq CredentialCopy
      /\ \A copy \in {slot, global, file} : copy.credential <= spent.saves + 1
      /\ \A copy \in {slot, global, file} : copy.credential \in Int
      /\ spent.saves \in Nat /\ holder \in [Holders -> Calls]
    BY CallHas
<1>3. spent'.saves \in Nat
    BY DEF Counts
<1>4. /\ marker' \in MarkerRow /\ {slot', global', file'} \subseteq CredentialCopy
      /\ \A copy \in {slot', global', file', x.held} : copy.credential <= spent'.saves + 1
      /\ marker'.backend = "none" => marker.backend = "none"
    <2>1. \A copy \in {slot, global, file} : copy.credential <= spent'.saves + 1
        BY <1>2, <1>3
    <2> QED
        BY <1>1, <1>2, <2>1
<1>5. /\ holder'[p] = x
      /\ \A q \in Holders \ {p} : holder'[q] \in {holder[q], [holder[q] EXCEPT !.alone = FALSE]}
    BY <1>2, OthersAtWork
<1>6. ASSUME CallOK(holder[p])' PROVE CredentialInd'
    BY <1>4, <1>6, CallSteps
<1> QED
    BY <1>1, <1>5, <1>6 DEF Promised

(* The next version after the marker.                                      *)
LEMMA NextVersion ==
    ASSUME CredentialInd, NEW c \in Int
    PROVE  /\ Enveloped(c) \in CredentialCopy /\ Enveloped(c).credential = c
           /\ Enveloped(c).epoch = marker.epoch + 1
           /\ [Enveloped(c) EXCEPT !.epoch = 1] \in CredentialCopy
           /\ [Enveloped(c) EXCEPT !.epoch = 1].credential = c
           /\ Revised \in Counts /\ Revised.saves = spent.saves
<1>1. spent \in Counts /\ spent.revisions \in Nat /\ marker.epoch \in Nat
    BY DEF CredentialInd, CredentialTypeOK, Counts, MarkerRow
<1>2. marker.epoch + 1 \in Nat /\ spent.revisions + 1 \in Nat
    BY <1>1
<1>3. /\ Enveloped(c) \in CredentialCopy /\ Enveloped(c).credential = c
      /\ Enveloped(c).epoch = marker.epoch + 1
    BY <1>2 DEF Enveloped, CredentialCopy
<1>4. Revised \in Counts /\ Revised.saves = spent.saves
    BY <1>1 DEF Revised, Counts
<1> HIDE DEF Enveloped
<1> QED
    BY <1>3, <1>4 DEF CredentialCopy

LEMMA StartSaveKeeps ==
    ASSUME CredentialInd, Remember, NEW p \in Holders, StartSave(p)
    PROVE  CredentialInd' /\ Promised(p)
<1>1. PICK held, alone, seen :
        /\ held = Enveloped(spent.saves + 2) /\ seen = marker
        /\ alone = \A q \in Holders \ {p} : holder[q].op = "none"
    OBVIOUS
<1> DEFINE r == [Resting EXCEPT !.held = held]
           x == [r EXCEPT !.op = "save", !.pc = "set", !.seen = seen, !.alone = alone]
<1>2. /\ marker \in MarkerRow /\ spent \in Counts /\ spent.saves \in Nat /\ marker.epoch \in Nat
      /\ gone \subseteq Int /\ \A c \in gone : c <= spent.saves + 1
      /\ \A copy \in {slot, global, file} : copy.credential \in Int
      /\ \A copy \in {slot, global, file} : copy.credential <= spent.saves + 1
    BY CallHas
<1>3. /\ holder[p].op = "none" /\ Step(p, x) /\ UNCHANGED stores
      /\ spent' = [Revised EXCEPT !.saves = @ + 1]
    BY <1>1 DEF StartSave, Start
<1>4. /\ held \in CredentialCopy /\ held.credential = spent.saves + 2
      /\ held.epoch = marker.epoch + 1 /\ Revised \in Counts /\ Revised.saves = spent.saves
    <2>1. PICK c \in Int : c = spent.saves + 2
        BY <1>2
    <2> QED
        BY <1>1, <2>1, NextVersion
<1>5. spent' \in Counts /\ spent'.saves = spent.saves + 1
    BY <1>2, <1>3, <1>4 DEF Counts
<1>6. /\ x \in HolderType /\ x.op = "save" /\ x.pc = "set" /\ x.held = held
      /\ x.backend = "none" /\ x.loaded = NotLoaded
    <2>1. "set" \in PlacesOf("save") /\ "none" \in Backends /\ NotLoaded \in Int \X Int
        BY CredentialRecords DEF PlacesOf, Writing, Backends
    <2>2. alone \in BOOLEAN /\ seen \in MarkerRow
        BY <1>1, <1>2
    <2>3. r \in HolderType /\ r.held = held /\ r.backend = "none" /\ r.loaded = NotLoaded
        <3>1. Resting \in HolderType /\ Resting.held = Nothing /\ Resting.backend = "none"
              /\ Resting.loaded = NotLoaded
            BY CredentialRecords DEF Calls, Resting
        <3> QED
            BY <1>4, <2>1, <3>1 DEF HolderType
    <2>4. "set" \in Places
        BY <2>1 DEF Places
    <2> HIDE DEF r
    <2> QED
        BY <2>2, <2>3, <2>4 DEF HolderType
<1> HIDE DEF x
<1>7. x \in Calls
    <2>1. held.epoch > 0 /\ held.credential > 0
        BY <1>2, <1>4
    <2>2. RecordFits(x)
        BY <1>6, <2>1 DEF RecordFits, PlacesOf, Writing
    <2> QED
        BY <1>6, <2>2 DEF Calls
<1>8. spent.saves <= spent'.saves /\ x.held.credential <= spent'.saves + 1
    BY <1>2, <1>4, <1>5, <1>6
<1>9. /\ holder'[p] = x /\ Promised(p)
      /\ Authoritative' = Authoritative /\ gone' = gone /\ UNCHANGED <<marker, slot, global, file>>
      /\ CallOK(holder[p])' => CredentialInd'
    BY <1>3, <1>5, <1>6, <1>7, <1>8, CallBegins
<1>10. CallOK(holder[p])'
    <2>1. held.epoch # marker'.epoch
        BY <1>2, <1>4, <1>9
    <2>2. Authoritative \in Int /\ Authoritative <= spent.saves + 1
        BY <1>2, AuthoritativeIs
    <2>3. held.credential \notin gone' \cup {Authoritative'}
        BY <1>2, <1>4, <1>9, <2>2
    <2>4. SaveOK(holder[p])'
        BY <1>6, <1>9, <2>1, <2>3 DEF SaveOK
    <2> QED
        BY <1>6, <1>9, <2>4 DEF CallOK
<1> QED
    BY <1>9, <1>10

LEMMA StartLoadKeeps ==
    ASSUME CredentialInd, Remember, NEW p \in Holders, StartLoad(p)
    PROVE  CredentialInd' /\ Promised(p)
<1>1. PICK pc, loaded, alone, seen :
        /\ pc = PlaceOfMarker /\ seen = marker
        /\ loaded = IF marker = NoMarker THEN holder[p].loaded ELSE VersionOf(marker)
        /\ alone = \A q \in Holders \ {p} : holder[q].op = "none"
    OBVIOUS
<1> DEFINE r == [Resting EXCEPT !.loaded = loaded]
           x == [r EXCEPT !.op = "load", !.pc = pc, !.seen = seen, !.alone = alone]
<1>2. /\ marker \in MarkerRow /\ spent \in Counts /\ spent.saves \in Nat
      /\ marker.backend \in Backends /\ holder[p].loaded \in Int \X Int
    BY CallHas
<1>3. /\ holder[p].op = "none" /\ Step(p, x) /\ UNCHANGED stores
      /\ spent' = [spent EXCEPT !.loads = @ + 1]
    BY <1>1 DEF StartLoad, Start
<1>4. spent' \in Counts /\ spent'.saves = spent.saves
    BY <1>2, <1>3 DEF Counts
<1>5. /\ \/ pc = "legacy" /\ marker.backend = "none"
         \/ pc = "purge" /\ marker.backend = "deleted"
         \/ pc = "promote" /\ marker.backend = "file"
         \/ pc = "get"
      /\ pc \in PlacesOf("load")
    BY <1>1, <1>2 DEF PlaceOfMarker, Backends, PlacesOf, Legacy
<1>6. loaded \in Int \X Int /\ alone \in BOOLEAN
    BY <1>1, <1>2 DEF MarkerRow, VersionOf
<1>7. /\ x \in HolderType /\ x.op = "load" /\ x.pc = pc /\ x.seen = seen /\ x.held = Nothing
      /\ x.backend = "none"
    <2>1. "none" \in Backends /\ Nothing \in CredentialCopy
        BY CredentialRecords DEF Backends
    <2>2. seen \in MarkerRow
        BY <1>1, <1>2
    <2>3. r \in HolderType /\ r.held = Nothing /\ r.backend = "none"
        <3>1. Resting \in HolderType /\ Resting.held = Nothing /\ Resting.backend = "none"
              /\ Resting.loaded = NotLoaded
            BY CredentialRecords DEF Calls, Resting
        <3> QED
            BY <1>5, <1>6, <2>1, <3>1 DEF HolderType
    <2>4. pc \in Places
        BY <1>5, <2>1 DEF Places
    <2> HIDE DEF r
    <2> QED
        BY <1>6, <2>2, <2>3, <2>4 DEF HolderType
<1> HIDE DEF x
<1>8. x \in Calls /\ x.held.credential <= spent'.saves + 1
    BY <1>2, <1>4, <1>5, <1>7, CredentialRecords DEF Calls, RecordFits
<1>9. /\ holder'[p] = x /\ Promised(p) /\ UNCHANGED <<marker, slot, global, file>>
      /\ CallOK(holder[p])' => CredentialInd'
    <2>1. spent.saves <= spent'.saves
        BY <1>2, <1>4
    <2> QED
        BY <1>3, <1>4, <1>7, <1>8, <2>1, CallBegins
<1>10. LoadOK(holder[p])'
    BY <1>1, <1>5, <1>7, <1>9 DEF LoadOK, Legacy
<1> QED
    BY <1>7, <1>9, <1>10 DEF CallOK

LEMMA StartDeleteKeeps ==
    ASSUME CredentialInd, Remember, NEW p \in Holders, StartDelete(p)
    PROVE  CredentialInd' /\ Promised(p)
<1>0. PICK loaded \in {NotLoaded, holder[p].loaded} :
        /\ spent' = [Revised EXCEPT !.deletes = @ + 1]
        /\ Start(p, "delete", "tombstone",
                 [Resting EXCEPT !.held = Enveloped(0), !.backend = "deleted", !.loaded = loaded])
        /\ UNCHANGED stores
    BY DEF StartDelete
<1>1. PICK held, alone, seen :
        /\ held = Enveloped(0) /\ seen = marker
        /\ alone = \A q \in Holders \ {p} : holder[q].op = "none"
    OBVIOUS
<1> DEFINE r == [Resting EXCEPT !.held = held, !.backend = "deleted", !.loaded = loaded]
           x == [r EXCEPT !.op = "delete", !.pc = "tombstone", !.seen = seen, !.alone = alone]
<1>2. marker \in MarkerRow /\ spent.saves \in Nat /\ loaded \in Int \X Int
    BY CallHas, CredentialRecords
<1>3. holder[p].op = "none" /\ Step(p, x)
    BY <1>0, <1>1 DEF Start
<1>4. held \in CredentialCopy /\ held.credential = 0 /\ Revised \in Counts
      /\ Revised.saves = spent.saves
    <2>1. 0 \in Int
        OBVIOUS
    <2> QED
        BY <1>1, <2>1, NextVersion
<1>5. spent' \in Counts /\ spent'.saves = spent.saves
    BY <1>0, <1>4 DEF Counts
<1>6. /\ x \in HolderType /\ x.op = "delete" /\ x.pc = "tombstone" /\ x.held = held
      /\ x.backend = "deleted"
    <2>1. "tombstone" \in PlacesOf("delete") /\ "deleted" \in Backends
        BY DEF PlacesOf, Backends
    <2>2. alone \in BOOLEAN /\ seen \in MarkerRow
        BY <1>1, <1>2
    <2>3. r \in HolderType /\ r.held = held /\ r.backend = "deleted"
        <3>1. Resting \in HolderType /\ Resting.held = Nothing /\ Resting.backend = "none"
              /\ Resting.loaded = NotLoaded
            BY CredentialRecords DEF Calls, Resting
        <3> QED
            BY <1>2, <1>4, <2>1, <3>1 DEF HolderType
    <2>4. "tombstone" \in Places
        BY <2>1 DEF Places
    <2> HIDE DEF r
    <2> QED
        BY <2>2, <2>3, <2>4 DEF HolderType
<1> HIDE DEF x
<1>7. x \in Calls
    BY <1>6 DEF Calls, RecordFits, PlacesOf
<1>8. spent.saves <= spent'.saves /\ x.held.credential <= spent'.saves + 1
    BY <1>2, <1>4, <1>5, <1>6
<1>9. holder'[p] = x /\ Promised(p) /\ (CallOK(holder[p])' => CredentialInd')
    BY <1>0, <1>3, <1>5, <1>6, <1>7, <1>8, CallBegins
<1> QED
    BY <1>6, <1>9 DEF CallOK

LEMMA RaiseKeeps ==
    ASSUME CredentialInd, Remember, NEW p \in Holders, Raise(p)
    PROVE  CredentialInd' /\ Promised(p)
<1>1. PICK v \in {holder[p].loaded, NotLoaded} : Return(p, v)
    BY DEF Raise
<1>2. v \in Int \X Int /\ RecordFits(holder[p])
    BY CallHas, CredentialRecords
<1>3. holder[p].op = "save" => v = NotLoaded
    BY <1>2 DEF RecordFits
<1>4. holder[p].op # "none" /\ UNCHANGED stores /\ UNCHANGED spent
    BY DEF Raise
<1> QED
    BY <1>1, <1>2, <1>3, <1>4, QuietReturn

LEMMA GetPasswordKeeps ==
    ASSUME CredentialInd, Remember, NEW p \in Holders, GetPassword(p)
    PROVE  CredentialInd' /\ Promised(p)
<1>1. PICK v : v = holder[p].loaded
    OBVIOUS
<1>2. v \in Int \X Int /\ Return(p, v) /\ holder[p].op = "load"
      /\ UNCHANGED stores /\ UNCHANGED spent
    BY <1>1, CallHas DEF GetPassword, In
<1> QED
    BY <1>2, QuietReturn

(* A deletion or a purge takes copies away, which makes no other copy      *)
(* loadable.                                                               *)
LEMMA TakenAway ==
    ASSUME marker' = marker, slot' \in {slot, Nothing}, file' \in {file, Nothing}
    PROVE  /\ Authoritative' \in {Authoritative, 0}
           /\ marker.backend \notin {"keyring", "file"} => Authoritative' = Authoritative
<1>1. ~ Matches(Nothing, marker)
    BY CredentialRecords DEF Matches
<1> QED
    BY <1>1, AuthoritativeIs

LEMMA PurgeFileKeeps ==
    ASSUME CredentialInd, Remember, NEW p \in Holders, PurgeFile(p)
    PROVE  CredentialInd' /\ Promised(p)
<1> DEFINE y == holder[p]
           x == [y EXCEPT !.pc = "purge_slot"]
<1>1. /\ y \in HolderType /\ RecordFits(y) /\ CallOK(y) /\ y.held \in CredentialCopy
      /\ y.backend \in Backends /\ y.loaded \in Int \X Int /\ y.alone \in BOOLEAN
      /\ y.held.credential <= spent.saves + 1 /\ spent \in Counts /\ spent.saves \in Nat
      /\ marker \in MarkerRow /\ {slot, global, file} \subseteq CredentialCopy
      /\ \A copy \in {slot, global, file} : copy.credential <= spent.saves + 1
      /\ 0 \notin gone
    BY CallHas
<1>2. /\ y.pc = "purge" /\ y.op = "load" /\ marker' = marker /\ slot' = slot /\ global' = global
      /\ file' = Nothing /\ spent' = spent /\ Step(p, x)
    BY DEF PurgeFile, In, GoTo
<1>3. y.alone => marker.backend = "deleted"
    BY <1>1, <1>2 DEF CallOK, LoadOK
<1>4. "purge_slot" \in PlacesOf(y.op)
    BY <1>2 DEF PlacesOf
<1>5. Becomes(x, y, "purge_slot", y.held, y.backend, y.loaded)
    BY <1>1, <1>4, Rewritten
<1> HIDE DEF x
<1>6. RecordFits(x)
    BY <1>1, <1>2, <1>4, <1>5 DEF RecordFits, Becomes
<1>7. /\ Becomes(holder'[p], y, "purge_slot", y.held, y.backend, y.loaded)
      /\ \A q \in Holders \ {p} : holder'[q] \in {holder[q], [holder[q] EXCEPT !.alone = FALSE]}
      /\ CallOK(holder[p])' => CredentialInd'
    <2>1. Step(p, x) /\ spent' \in Counts /\ spent'.saves = spent.saves
        BY <1>1, <1>2
    <2>2. /\ marker' \in MarkerRow /\ {slot', global', file'} \subseteq CredentialCopy
          /\ \A copy \in {slot', global', file', y.held} : copy.credential <= spent.saves + 1
          /\ marker'.backend = "none" => marker.backend = "none"
        BY <1>1, <1>2, CredentialRecords
    <2> HIDE DEF y
    <2> QED
        BY <1>1, <1>4, <1>5, <1>6, <2>1, <2>2, CallGoesOn DEF y
<1>8. CallOK(holder[p])'
    BY <1>2, <1>3, <1>7 DEF CallOK, LoadOK, Becomes, Legacy
<1>9. Authoritative' \in {Authoritative, 0} /\ (y.alone => Authoritative' = Authoritative)
    BY <1>2, <1>3, TakenAway
<1>10. holder'[p].pc # y.pc
    BY <1>2, <1>7 DEF Becomes
<1>11. Promised(p)
    BY <1>1, <1>2, <1>7, <1>9, <1>10 DEF Promised
<1> QED
    BY <1>7, <1>8, <1>11

LEMMA PurgeSlotKeeps ==
    ASSUME CredentialInd, Remember, NEW p \in Holders, PurgeSlot(p)
    PROVE  CredentialInd' /\ Promised(p)
<1>1. PICK v : v = holder[p].loaded
    OBVIOUS
<1>2. /\ CallOK(holder[p]) /\ v \in Int \X Int /\ spent.saves \in Nat
      /\ marker \in MarkerRow /\ {slot, global, file} \subseteq CredentialCopy
      /\ \A copy \in {slot, global, file} : copy.credential <= spent.saves + 1
      /\ 0 \notin gone
    BY <1>1, CallHas
<1>3. /\ holder[p].pc = "purge_slot" /\ holder[p].op = "load" /\ marker' = marker
      /\ file' = file /\ global' = global /\ slot' \in {slot, Nothing} /\ spent' = spent
      /\ Return(p, v)
    BY <1>1 DEF PurgeSlot, In
<1>4. holder[p].alone => marker.backend = "deleted"
    BY <1>2, <1>3 DEF CallOK, LoadOK
<1>5. /\ marker' \in MarkerRow /\ {slot', global', file'} \subseteq CredentialCopy
      /\ \A copy \in {slot', global', file'} : copy.credential <= spent.saves + 1
      /\ marker'.backend = "none" => marker.backend = "none"
    BY <1>2, <1>3, CredentialRecords
<1>6. /\ CredentialInd' /\ holder'[p].op = "none"
      /\ \A q \in Holders \ {p} : holder'[q] \in {holder[q], [holder[q] EXCEPT !.alone = FALSE]}
    BY <1>2, <1>3, <1>5, CallEnds
<1>7. Authoritative' \in {Authoritative, 0} /\ (holder[p].alone => Authoritative' = Authoritative)
    BY <1>3, <1>4, TakenAway
<1> QED
    BY <1>2, <1>3, <1>6, <1>7 DEF Promised

(* The copy in the file that belongs to the marker is moved as it is.      *)
LEMMA ReadFallbackKeeps ==
    ASSUME CredentialInd, Remember, NEW p \in Holders, ReadFallback(p)
    PROVE  CredentialInd' /\ Promised(p)
<1> DEFINE y == holder[p]
<1>1. /\ y \in HolderType /\ RecordFits(y) /\ CallOK(y) /\ y.loaded \in Int \X Int
      /\ file \in CredentialCopy /\ file.credential <= spent.saves + 1 /\ spent \in Counts
    BY CallHas
<1>2. /\ y.pc = "promote" /\ y.op = "load" /\ UNCHANGED stores /\ UNCHANGED spent
      /\ y.alone => marker.backend = "file" /\ y.seen = marker
    BY <1>1 DEF ReadFallback, In, CallOK, LoadOK
<1>3. CASE ~ Matches(file, y.seen)
    <2>1. PICK v : v = y.loaded
        OBVIOUS
    <2>2. v \in Int \X Int /\ Return(p, v)
        BY <1>1, <1>3, <2>1 DEF ReadFallback
    <2> QED
        BY <1>2, <2>2, QuietReturn
<1>4. CASE Matches(file, y.seen)
    <2>1. PICK held : held = file
        OBVIOUS
    <2> DEFINE x == [y EXCEPT !.pc = "promote_set", !.held = held, !.backend = "keyring"]
    <2>2. "promote_set" \in PlacesOf("load") /\ "keyring" \in Backends /\ Step(p, x)
        BY <1>4, <2>1 DEF PlacesOf, Backends, ReadFallback
    <2>3. Becomes(x, y, "promote_set", held, "keyring", y.loaded)
        BY <1>1, <1>2, <2>1, <2>2, Rewritten
    <2> HIDE DEF x
    <2>4. RecordFits(x)
        BY <1>1, <1>2, <2>2, <2>3 DEF RecordFits, Becomes
    <2>5. /\ Becomes(holder'[p], y, "promote_set", held, "keyring", y.loaded)
          /\ CallOK(holder[p])' => CredentialInd'
          /\ Promised(p) /\ UNCHANGED <<marker, slot, global, file>>
        <3>1. /\ "promote_set" # y.pc /\ held \in CredentialCopy
              /\ held.credential <= spent.saves + 1
              /\ spent' \in Counts /\ spent'.saves = spent.saves
            BY <1>1, <1>2, <2>1
        <3> HIDE DEF y
        <3> QED
            BY <1>2, <2>2, <2>3, <2>4, <3>1, QuietLoad DEF y
    <2>6. ASSUME y.alone PROVE LoadOK(holder[p])'
        <3>1. (marker.backend = "file" /\ file = held /\ Matches(file, marker))'
            BY <1>2, <1>4, <2>1, <2>5, <2>6
        <3> QED
            BY <2>5, <3>1 DEF LoadOK, Becomes, Promoting, Legacy
    <2> QED
        BY <1>2, <2>5, <2>6 DEF CallOK, Becomes
<1> QED
    BY <1>3, <1>4

LEMMA PromoteSetKeeps ==
    ASSUME CredentialInd, Remember, NEW p \in Holders, PromoteSet(p)
    PROVE  CredentialInd' /\ Promised(p)
<1> DEFINE y == holder[p]
           x == [y EXCEPT !.pc = "mark"]
<1>1. /\ y \in HolderType /\ RecordFits(y) /\ CallOK(y) /\ y.held \in CredentialCopy
      /\ y.backend \in Backends /\ y.loaded \in Int \X Int /\ y.alone \in BOOLEAN
      /\ y.held.credential <= spent.saves + 1 /\ spent \in Counts /\ spent.saves \in Nat
      /\ marker \in MarkerRow /\ {slot, global, file} \subseteq CredentialCopy
      /\ \A copy \in {slot, global, file} : copy.credential <= spent.saves + 1
      /\ 0 \notin gone
    BY CallHas
<1>2. /\ y.pc = "promote_set" /\ y.op = "load" /\ marker' = marker /\ file' = file
      /\ global' = global /\ spent' = spent /\ y.backend = "keyring"
      /\ y.alone => Promoting(y)
    BY <1>1 DEF PromoteSet, In, RecordFits, CallOK, LoadOK
<1>3. CASE slot' = slot /\ Return(p, y.loaded)
    <2>1. PICK v : v = y.loaded
        OBVIOUS
    <2>2. v \in Int \X Int /\ Return(p, v) /\ UNCHANGED stores
        BY <1>1, <1>2, <1>3, <2>1 DEF stores
    <2> QED
        BY <1>2, <2>2, QuietReturn
<1>4. CASE slot' = y.held /\ Step(p, x)
    <2>1. "mark" \in PlacesOf(y.op)
        BY <1>2 DEF PlacesOf, Writing
    <2>2. Becomes(x, y, "mark", y.held, y.backend, y.loaded)
        BY <1>1, <2>1, Rewritten
    <2> HIDE DEF x
    <2>3. RecordFits(x)
        BY <1>1, <1>2, <2>1, <2>2 DEF RecordFits, Becomes
    <2>4. /\ Becomes(holder'[p], y, "mark", y.held, y.backend, y.loaded)
          /\ \A q \in Holders \ {p} :
                holder'[q] \in {holder[q], [holder[q] EXCEPT !.alone = FALSE]}
          /\ CallOK(holder[p])' => CredentialInd'
        <3>1. Step(p, x) /\ spent' \in Counts /\ spent'.saves = spent.saves
            BY <1>1, <1>2, <1>4
        <3>2. /\ marker' \in MarkerRow /\ {slot', global', file'} \subseteq CredentialCopy
              /\ \A copy \in {slot', global', file', y.held} : copy.credential <= spent.saves + 1
              /\ marker'.backend = "none" => marker.backend = "none"
            BY <1>1, <1>2, <1>4
        <3> HIDE DEF y
        <3> QED
            BY <1>1, <2>1, <2>2, <2>3, <3>1, <3>2, CallGoesOn DEF y
    <2>5. ASSUME y.alone PROVE LoadOK(holder[p])'
        <3>1. marker'.backend = "file" /\ file' = y.held /\ Matches(file, marker)' /\ slot' = y.held
            BY <1>2, <1>4, <2>5 DEF Promoting, Matches, VersionOf
        <3> QED
            BY <1>2, <2>4, <3>1 DEF LoadOK, Becomes, Promoting, Legacy
    <2>6. y.alone => Authoritative' = Authoritative
        BY <1>2, AuthoritativeIs DEF Promoting
    <2>7. holder'[p].pc # y.pc
        BY <1>2, <2>4 DEF Becomes
    <2>8. Promised(p)
        BY <1>1, <1>2, <2>4, <2>6, <2>7 DEF Promised, Disturbed
    <2> QED
        BY <1>2, <2>4, <2>5, <2>8 DEF CallOK, Becomes
<1> QED
    BY <1>3, <1>4 DEF PromoteSet, GoTo

-----------------------------------------------------------------------------
(* The credential: adoption from an old layout.                            *)

(* A load in a place of the old layouts that goes on without a write finds *)
(* no marker yet.                                                          *)
LEMMA LegacyGoesOn ==
    ASSUME CredentialInd, Remember, NEW p \in Holders, holder[p].op = "load",
           holder[p].pc \in Legacy,
           NEW pc \in Legacy \cup {"set"}, pc # holder[p].pc,
           NEW held \in CredentialCopy, held.credential <= spent.saves + 1,
           NEW backend \in Backends, NEW x, Step(p, x),
           Becomes(x, holder[p], pc, held, backend, holder[p].loaded),
           pc \in {"migrate_set", "migrate_retire"} => backend = "keyring",
           pc \in {"retire", "adopt_mark"} => backend \in {"keyring", "file"},
           UNCHANGED stores, spent' \in Counts, spent'.saves = spent.saves
    PROVE  CredentialInd' /\ Promised(p)
<1>1. pc \in PlacesOf("load")
    BY DEF PlacesOf, Writing
<1>2. RecordFits(x)
    BY <1>1 DEF RecordFits, Becomes, Legacy
<1>3. /\ Becomes(holder'[p], holder[p], pc, held, backend, holder[p].loaded)
      /\ CallOK(holder[p])' => CredentialInd'
      /\ Promised(p) /\ UNCHANGED <<marker, slot, global, file>>
    BY <1>1, <1>2, QuietLoad
<1>4. holder[p].alone => marker.backend = "none"
    <2>1. CallOK(holder[p])
        BY CallHas
    <2> QED
        BY <2>1 DEF CallOK, LoadOK
<1>5. holder[p].alone => LoadOK(holder[p])'
    BY <1>3, <1>4 DEF LoadOK, Becomes, Legacy
<1> QED
    BY <1>3, <1>5 DEF CallOK, Becomes

LEMMA GoToKeeps ==
    ASSUME CredentialInd, Remember, NEW p \in Holders, holder[p].op = "load",
           holder[p].pc \in Legacy, NEW pc \in {"legacy_file", "legacy_global"},
           pc # holder[p].pc, GoTo(p, pc), UNCHANGED stores, UNCHANGED spent
    PROVE  CredentialInd' /\ Promised(p)
<1> DEFINE y == holder[p]
           x == [y EXCEPT !.pc = pc]
<1>1. /\ y \in HolderType /\ y.held \in CredentialCopy /\ y.held.credential <= spent.saves + 1
      /\ y.backend \in Backends /\ y.loaded \in Int \X Int /\ spent \in Counts
    BY CallHas
<1>2. pc \in PlacesOf(y.op) /\ pc \in Legacy \cup {"set"} /\ Step(p, x)
    BY DEF PlacesOf, Legacy, GoTo
<1>3. Becomes(x, y, pc, y.held, y.backend, y.loaded)
    BY <1>1, <1>2, Rewritten
<1> HIDE DEF x
<1>4. PICK held, backend : held = y.held /\ backend = y.backend
    OBVIOUS
<1>5. /\ held \in CredentialCopy /\ held.credential <= spent.saves + 1 /\ backend \in Backends
      /\ Becomes(x, holder[p], pc, held, backend, holder[p].loaded)
      /\ spent' \in Counts /\ spent'.saves = spent.saves
    BY <1>1, <1>3, <1>4
<1>6. pc \notin {"migrate_set", "migrate_retire", "retire", "adopt_mark"}
    OBVIOUS
<1> QED
    BY <1>2, <1>5, <1>6, LegacyGoesOn

(* _adopt.                                                                 *)
LEMMA AdoptKeeps ==
    ASSUME CredentialInd, Remember, NEW p \in Holders, holder[p].op = "load",
           holder[p].pc \in {"legacy", "legacy_file"}, NEW copy \in {slot, file},
           NEW backend \in {"keyring", "file"}, NEW retire \in BOOLEAN,
           Adopt(p, copy, backend, retire), UNCHANGED stores
    PROVE  CredentialInd' /\ Promised(p)
<1> DEFINE y == holder[p]
<1>1. /\ y \in HolderType /\ y.held \in CredentialCopy /\ y.held.credential <= spent.saves + 1
      /\ y.backend \in Backends /\ y.loaded \in Int \X Int /\ spent \in Counts
      /\ copy \in CredentialCopy /\ copy.credential <= spent.saves + 1
    BY CallHas
<1>2. holder[p].pc \in Legacy /\ backend \in Backends
    BY DEF Legacy, Backends
<1>3. CASE copy = Nothing \/ copy = Migrated
    <2>1. PICK v : v = y.loaded
        OBVIOUS
    <2>2. v \in Int \X Int /\ Return(p, v) /\ UNCHANGED spent
        BY <1>1, <1>3, <2>1 DEF Adopt
    <2> QED
        BY <2>2, QuietReturn
<1>4. CASE copy # Nothing /\ copy # Migrated /\ copy.epoch > 0
    <2>1. PICK pc \in {"retire", "adopt_mark"} :
            Step(p, [y EXCEPT !.pc = pc, !.held = copy, !.backend = backend])
        BY <1>4 DEF Adopt
    <2> DEFINE x == [y EXCEPT !.pc = pc, !.held = copy, !.backend = backend]
    <2>2. pc \in PlacesOf(y.op) /\ pc \in Legacy \cup {"set"} /\ pc # y.pc
        BY <2>1 DEF PlacesOf, Legacy
    <2>3. Becomes(x, y, pc, copy, backend, y.loaded)
        BY <1>1, <1>2, <2>2, Rewritten
    <2>4. spent' \in Counts /\ spent'.saves = spent.saves /\ Step(p, x)
        BY <1>1, <1>4, <2>1 DEF Adopt
    <2>5. pc \notin {"migrate_set", "migrate_retire"}
        OBVIOUS
    <2> HIDE DEF x
    <2> QED
        BY <1>1, <1>2, <2>2, <2>3, <2>4, <2>5, LegacyGoesOn
<1>5. CASE copy # Nothing /\ copy # Migrated /\ ~ copy.epoch > 0
    <2>1. PICK held, other : held = Enveloped(copy.credential) /\ other = y.backend
        OBVIOUS
    <2> DEFINE x == [y EXCEPT !.pc = "set", !.held = held]
    <2>2. Step(p, x) /\ spent' = Revised
        BY <1>5, <2>1 DEF Adopt
    <2>3. held \in CredentialCopy /\ held.credential = copy.credential
          /\ Revised \in Counts /\ Revised.saves = spent.saves
        <3>1. copy.credential \in Int
            BY <1>1 DEF CredentialCopy
        <3> QED
            BY <2>1, <3>1, NextVersion
    <2>4. "set" \in PlacesOf(y.op) /\ "set" \in Legacy \cup {"set"} /\ "set" # y.pc
        BY DEF PlacesOf, Writing
    <2>5. Becomes(x, y, "set", held, other, y.loaded)
        BY <1>1, <2>1, <2>3, <2>4, Rewritten
    <2> HIDE DEF x
    <2>6. /\ held.credential <= spent.saves + 1 /\ other \in Backends
          /\ spent' \in Counts /\ spent'.saves = spent.saves
          /\ Becomes(x, holder[p], "set", held, other, holder[p].loaded)
          /\ "set" \notin {"migrate_set", "migrate_retire", "retire", "adopt_mark"}
        BY <1>1, <2>1, <2>2, <2>3, <2>5
    <2> QED
        BY <1>2, <2>2, <2>3, <2>4, <2>6, LegacyGoesOn
<1> QED
    BY <1>3, <1>4, <1>5

LEMMA LegacyProfileKeeps ==
    ASSUME CredentialInd, Remember, NEW p \in Holders, LegacyProfile(p)
    PROVE  CredentialInd' /\ Promised(p)
<1>1. holder[p].op = "load" /\ holder[p].pc = "legacy" /\ UNCHANGED stores
    BY DEF LegacyProfile, In
<1>2. CASE Adopt(p, slot, "keyring", DefaultDirectory)
    <2>1. PICK copy \in {slot, file}, backend \in {"keyring", "file"}, retire \in BOOLEAN :
            copy = slot /\ backend = "keyring" /\ retire = DefaultDirectory
        BY CredentialAssumption
    <2> QED
        BY <1>1, <1>2, <2>1, AdoptKeeps
<1>3. ASSUME NEW pc \in {"legacy_file", "legacy_global"}, GoTo(p, pc), UNCHANGED spent
      PROVE  CredentialInd' /\ Promised(p)
    <2>1. holder[p].pc \in Legacy /\ pc # holder[p].pc
        BY <1>1 DEF Legacy
    <2> QED
        BY <1>1, <1>3, <2>1, GoToKeeps
<1> QED
    BY <1>2, <1>3 DEF LegacyProfile

LEMMA LegacyFileKeeps ==
    ASSUME CredentialInd, Remember, NEW p \in Holders, LegacyFile(p)
    PROVE  CredentialInd' /\ Promised(p)
<1>1. holder[p].op = "load" /\ holder[p].pc = "legacy_file" /\ UNCHANGED stores
      /\ Adopt(p, file, "file", FALSE)
    BY DEF LegacyFile, In
<1>2. PICK copy \in {slot, file}, backend \in {"keyring", "file"}, retire \in BOOLEAN :
        copy = file /\ backend = "file" /\ retire = FALSE
    OBVIOUS
<1> QED
    BY <1>1, <1>2, AdoptKeeps

LEMMA LegacyGlobalKeeps ==
    ASSUME CredentialInd, Remember, NEW p \in Holders, LegacyGlobal(p)
    PROVE  CredentialInd' /\ Promised(p)
<1> DEFINE y == holder[p]
<1>1. /\ y \in HolderType /\ y.loaded \in Int \X Int
      /\ global \in CredentialCopy /\ global.credential <= spent.saves + 1
    BY CallHas
<1>2. y.op = "load" /\ y.pc = "legacy_global" /\ UNCHANGED stores /\ y.pc \in Legacy
    BY DEF LegacyGlobal, In, Legacy
<1>3. CASE global \in {Nothing, Migrated}
    <2>1. PICK pc \in {"legacy_file", "legacy_global"} : pc = "legacy_file"
        OBVIOUS
    <2>2. GoTo(p, pc) /\ UNCHANGED spent /\ pc # y.pc
        BY <1>2, <1>3, <2>1 DEF LegacyGlobal
    <2> QED
        BY <1>2, <2>2, GoToKeeps
<1>4. CASE global \notin {Nothing, Migrated}
    <2>1. PICK held : held = [Enveloped(global.credential) EXCEPT !.epoch = 1]
        OBVIOUS
    <2> DEFINE x == [y EXCEPT !.pc = "migrate_set", !.backend = "keyring", !.held = held]
    <2>2. Step(p, x) /\ spent' = Revised
        BY <1>4, <2>1 DEF LegacyGlobal
    <2>3. held \in CredentialCopy /\ held.credential = global.credential
          /\ Revised \in Counts /\ Revised.saves = spent.saves
        <3>1. PICK c \in Int : c = global.credential
            BY <1>1 DEF CredentialCopy
        <3> QED
            BY <2>1, <3>1, NextVersion
    <2>4. "migrate_set" \in PlacesOf(y.op) /\ "migrate_set" \in Legacy \cup {"set"}
          /\ "migrate_set" # y.pc /\ "keyring" \in Backends
        BY <1>2 DEF PlacesOf, Legacy, Backends
    <2>5. Becomes(x, y, "migrate_set", held, "keyring", y.loaded)
        BY <1>1, <2>3, <2>4, Rewritten
    <2> HIDE DEF x
    <2>6. /\ held.credential <= spent.saves + 1
          /\ spent' \in Counts /\ spent'.saves = spent.saves
          /\ "migrate_set" \notin {"retire", "adopt_mark"}
        BY <1>1, <2>2, <2>3
    <2> QED
        BY <1>2, <2>2, <2>3, <2>4, <2>5, <2>6, LegacyGoesOn
<1> QED
    BY <1>3, <1>4

LEMMA MigrateSetKeeps ==
    ASSUME CredentialInd, Remember, NEW p \in Holders, MigrateSet(p)
    PROVE  CredentialInd' /\ Promised(p)
<1> DEFINE y == holder[p]
           x == [y EXCEPT !.pc = "migrate_retire"]
<1>1. /\ y \in HolderType /\ RecordFits(y) /\ CallOK(y) /\ y.held \in CredentialCopy
      /\ y.backend \in Backends /\ y.loaded \in Int \X Int /\ y.alone \in BOOLEAN
      /\ y.held.credential <= spent.saves + 1 /\ spent \in Counts
      /\ marker \in MarkerRow /\ {slot, global, file} \subseteq CredentialCopy
      /\ \A copy \in {slot, global, file} : copy.credential <= spent.saves + 1
    BY CallHas
<1>2. /\ y.pc = "migrate_set" /\ y.op = "load" /\ marker' = marker /\ slot' = y.held
      /\ file' = file /\ global' = global /\ spent' = spent /\ Step(p, x)
    BY DEF MigrateSet, In, GoTo
<1>3. (y.alone => marker.backend = "none") /\ y.backend = "keyring"
    BY <1>1, <1>2 DEF CallOK, LoadOK, RecordFits, Legacy
<1>4. "migrate_retire" \in PlacesOf(y.op)
    BY <1>2 DEF PlacesOf, Legacy
<1>5. Becomes(x, y, "migrate_retire", y.held, y.backend, y.loaded)
    BY <1>1, <1>4, Rewritten
<1> HIDE DEF x
<1>6. RecordFits(x)
    BY <1>1, <1>2, <1>3, <1>4, <1>5 DEF RecordFits, Becomes
<1>7. /\ Becomes(holder'[p], y, "migrate_retire", y.held, y.backend, y.loaded)
      /\ \A q \in Holders \ {p} : holder'[q] \in {holder[q], [holder[q] EXCEPT !.alone = FALSE]}
      /\ CallOK(holder[p])' => CredentialInd'
    <2>1. Step(p, x) /\ spent' \in Counts /\ spent'.saves = spent.saves
        BY <1>1, <1>2
    <2>2. /\ marker' \in MarkerRow /\ {slot', global', file'} \subseteq CredentialCopy
          /\ \A copy \in {slot', global', file', y.held} : copy.credential <= spent.saves + 1
          /\ marker'.backend = "none" => marker.backend = "none"
        BY <1>1, <1>2
    <2> HIDE DEF y
    <2> QED
        BY <1>1, <1>4, <1>5, <1>6, <2>1, <2>2, CallGoesOn DEF y
<1>8. CallOK(holder[p])'
    BY <1>2, <1>3, <1>7 DEF CallOK, LoadOK, Becomes, Legacy
<1>9. y.alone => Authoritative' = Authoritative
    BY <1>2, <1>3, AuthoritativeIs
<1>10. holder'[p].pc # y.pc
    BY <1>2, <1>7 DEF Becomes
<1>11. Promised(p)
    BY <1>1, <1>2, <1>7, <1>9, <1>10 DEF Promised, Disturbed
<1> QED
    BY <1>7, <1>8, <1>11

(* Retiring the shared entry touches nothing that a load would read.       *)
LEMMA RetireGlobalKeeps ==
    ASSUME CredentialInd, Remember, NEW p \in Holders, RetireGlobal(p)
    PROVE  CredentialInd' /\ Promised(p)
<1> DEFINE y == holder[p]
<1>1. /\ y \in HolderType /\ RecordFits(y) /\ CallOK(y) /\ y.held \in CredentialCopy
      /\ y.backend \in Backends /\ y.loaded \in Int \X Int /\ y.alone \in BOOLEAN
      /\ y.held.credential <= spent.saves + 1 /\ spent \in Counts /\ spent.saves \in Nat
      /\ marker \in MarkerRow /\ {slot, global, file} \subseteq CredentialCopy
      /\ \A copy \in {slot, global, file} : copy.credential <= spent.saves + 1
    BY CallHas
<1>2. /\ y.pc \in {"retire", "migrate_retire"} /\ marker' = marker /\ slot' = slot
      /\ file' = file /\ spent' = spent /\ y.op = "load"
    BY <1>1 DEF RetireGlobal, RecordFits, PlacesOf, HolderType, Writing, Legacy
<1>3. (y.alone => marker.backend = "none") /\ y.backend \in {"keyring", "file"}
    BY <1>1, <1>2 DEF CallOK, LoadOK, RecordFits, Legacy
<1>4. Authoritative' = Authoritative
    BY <1>2, AuthoritativeIs
<1>5. CASE global \notin {Nothing, Migrated, Bare(y.held.credential)}
    <2>1. PICK v : v = y.loaded
        OBVIOUS
    <2>2. v \in Int \X Int /\ Return(p, v) /\ UNCHANGED stores
        BY <1>1, <1>2, <1>5, <2>1 DEF RetireGlobal, stores
    <2> QED
        BY <1>2, <2>2, QuietReturn
<1>6. CASE global \in {Nothing, Migrated, Bare(y.held.credential)}
    <2>1. PICK pc \in {"adopt_mark", "mark"} : pc = IF y.pc = "retire" THEN "adopt_mark" ELSE "mark"
        OBVIOUS
    <2> DEFINE x == [y EXCEPT !.pc = pc]
    <2>2. Step(p, x) /\ global' \in {Nothing, Migrated}
        BY <1>6, <2>1 DEF RetireGlobal, GoTo
    <2>3. pc \in PlacesOf(y.op)
        BY <1>2 DEF PlacesOf, Legacy, Writing
    <2>4. Becomes(x, y, pc, y.held, y.backend, y.loaded)
        BY <1>1, <2>3, Rewritten
    <2> HIDE DEF x
    <2>5. RecordFits(x)
        BY <1>1, <1>2, <1>3, <2>3, <2>4 DEF RecordFits, Becomes
    <2>6. /\ Becomes(holder'[p], y, pc, y.held, y.backend, y.loaded)
          /\ \A q \in Holders \ {p} :
                holder'[q] \in {holder[q], [holder[q] EXCEPT !.alone = FALSE]}
          /\ CallOK(holder[p])' => CredentialInd'
        <3>1. Step(p, x) /\ spent' \in Counts /\ spent'.saves = spent.saves
            BY <1>1, <1>2, <2>2
        <3>2. /\ marker' \in MarkerRow /\ {slot', global', file'} \subseteq CredentialCopy
              /\ \A copy \in {slot', global', file', y.held} : copy.credential <= spent.saves + 1
              /\ marker'.backend = "none" => marker.backend = "none"
            BY <1>1, <1>2, <2>2, CredentialRecords
        <3> HIDE DEF y
        <3> QED
            BY <1>1, <2>3, <2>4, <2>5, <3>1, <3>2, CallGoesOn DEF y
    <2>7. CallOK(holder[p])'
        BY <1>2, <1>3, <2>6 DEF CallOK, LoadOK, Becomes, Legacy
    <2>8. holder'[p].pc # y.pc
        BY <1>2, <2>6 DEF Becomes
    <2>9. Promised(p)
        BY <1>2, <1>4, <2>6, <2>8 DEF Promised
    <2> QED
        BY <2>6, <2>7, <2>9
<1> QED
    BY <1>5, <1>6

(* The marker that an adoption writes is the first one.                    *)
LEMMA AdoptMarkKeeps ==
    ASSUME CredentialInd, Remember, NEW p \in Holders, AdoptMark(p)
    PROVE  CredentialInd' /\ Promised(p)
<1> DEFINE y == holder[p]
<1>1. /\ y \in HolderType /\ RecordFits(y) /\ CallOK(y)
      /\ y.held.epoch \in Nat /\ y.held.revision \in Nat /\ y.alone \in BOOLEAN
      /\ {slot, global, file} \subseteq CredentialCopy
      /\ \A copy \in {slot, global, file} : copy.credential <= spent.saves + 1
      /\ marker.backend = "none" => gone = {}
    BY CallHas
<1>2. /\ y.pc = "adopt_mark" /\ y.op = "load" /\ y.backend \in {"keyring", "file"}
      /\ marker' = [epoch |-> y.held.epoch, revision |-> y.held.revision, backend |-> y.backend]
      /\ slot' = slot /\ global' = global /\ file' = file /\ UNCHANGED spent
    BY <1>1 DEF AdoptMark, Authority, RecordFits, PlacesOf, HolderType, Writing, Legacy
<1>3. y.alone => marker.backend = "none"
    BY <1>1, <1>2 DEF CallOK, LoadOK, Legacy
<1>4. /\ marker' \in MarkerRow /\ marker'.backend # "none"
      /\ {slot', global', file'} \subseteq CredentialCopy
      /\ \A copy \in {slot', global', file'} : copy.credential <= spent.saves + 1
    BY <1>1, <1>2 DEF MarkerRow, Backends
<1>5. PICK v \in Int \X Int : v = VersionOf(y.held)
    <2>1. VersionOf(y.held) \in Int \X Int
        BY <1>1 DEF VersionOf
    <2> QED
        BY <2>1
<1>6. /\ CredentialInd' /\ holder'[p].op = "none"
      /\ \A q \in Holders \ {p} : holder'[q] \in {holder[q], [holder[q] EXCEPT !.alone = FALSE]}
    <2>1. Return(p, v)
        BY <1>5 DEF AdoptMark
    <2> QED
        BY <1>2, <1>4, <2>1, CallEnds
<1>7. y.alone => gone = {} /\ Authoritative = 0
    BY <1>1, <1>3, AuthoritativeIs
<1>8. Promised(p)
    BY <1>1, <1>2, <1>6, <1>7 DEF Promised, Disturbed
<1> QED
    BY <1>6, <1>8

LEMMA TombstoneKeeps ==
    ASSUME CredentialInd, Remember, NEW p \in Holders, Tombstone(p)
    PROVE  CredentialInd' /\ Promised(p)
<1> DEFINE y == holder[p]
<1>1. /\ y \in HolderType /\ RecordFits(y) /\ y.held \in CredentialCopy
      /\ y.held.epoch \in Nat /\ y.held.revision \in Nat /\ y.backend \in Backends
      /\ y.held.credential <= spent.saves + 1 /\ spent \in Counts
      /\ {slot, global, file} \subseteq CredentialCopy
      /\ \A copy \in {slot, global, file} : copy.credential <= spent.saves + 1
      /\ 0 \notin gone
    BY CallHas
<1>2. /\ y.pc = "tombstone" /\ y.op = "delete" /\ y.backend = "deleted"
      /\ marker' = [epoch |-> y.held.epoch, revision |-> y.held.revision, backend |-> "deleted"]
      /\ slot' = slot /\ global' = global /\ file' = file /\ spent' = spent
    BY <1>1 DEF Tombstone, In, Authority, RecordFits
<1>3. marker' \in MarkerRow /\ marker'.backend = "deleted"
    BY <1>1, <1>2 DEF MarkerRow, Backends
<1>4. Authoritative' = 0
    BY <1>3, AuthoritativeIs
<1>5. PICK v \in Int \X Int : v = VersionOf(y.held)
    <2>1. VersionOf(y.held) \in Int \X Int
        BY <1>1 DEF VersionOf
    <2> QED
        BY <2>1
<1> DEFINE x == [y EXCEPT !.pc = "unset", !.loaded = v]
<1>6. "unset" \in PlacesOf(y.op) /\ Step(p, x)
    BY <1>2, <1>5 DEF PlacesOf, Tombstone
<1>7. Becomes(x, y, "unset", y.held, y.backend, v)
    BY <1>1, <1>6, Rewritten
<1> HIDE DEF x
<1>8. RecordFits(x)
    BY <1>1, <1>2, <1>6, <1>7 DEF RecordFits, Becomes
<1>9. /\ Becomes(holder'[p], y, "unset", y.held, y.backend, v)
      /\ \A q \in Holders \ {p} : holder'[q] \in {holder[q], [holder[q] EXCEPT !.alone = FALSE]}
      /\ CallOK(holder[p])' => CredentialInd'
    <2>1. spent' \in Counts /\ spent'.saves = spent.saves /\ Step(p, x)
        BY <1>1, <1>2, <1>6
    <2>2. /\ {slot', global', file'} \subseteq CredentialCopy /\ marker'.backend # "none"
          /\ \A copy \in {slot', global', file', y.held} : copy.credential <= spent.saves + 1
        BY <1>1, <1>2, <1>3
    <2> HIDE DEF y
    <2> QED
        BY <1>1, <1>3, <1>6, <1>7, <1>8, <2>1, <2>2, CallGoesOn DEF y
<1>10. CallOK(holder[p])'
    BY <1>2, <1>9 DEF CallOK, Becomes
<1>11. holder'[p].pc # y.pc
    BY <1>2, <1>9 DEF Becomes
<1>12. Promised(p)
    BY <1>1, <1>2, <1>4, <1>9, <1>11 DEF Promised
<1> QED
    BY <1>9, <1>10, <1>12

LEMMA DeletePasswordKeeps ==
    ASSUME CredentialInd, Remember, NEW p \in Holders, DeletePassword(p)
    PROVE  CredentialInd' /\ Promised(p)
<1> DEFINE y == holder[p]
           x == [y EXCEPT !.pc = "drop"]
<1>1. /\ y \in HolderType /\ RecordFits(y) /\ y.held \in CredentialCopy
      /\ y.backend \in Backends /\ y.loaded \in Int \X Int
      /\ y.held.credential <= spent.saves + 1 /\ spent \in Counts /\ spent.saves \in Nat
      /\ marker \in MarkerRow /\ {slot, global, file} \subseteq CredentialCopy
      /\ \A copy \in {slot, global, file} : copy.credential <= spent.saves + 1
      /\ 0 \notin gone
    BY CallHas
<1>2. /\ y.pc = "unset" /\ y.op = "delete" /\ marker' = marker /\ slot' \in {slot, Nothing}
      /\ file' = file /\ global' = global /\ spent' = spent /\ Step(p, x)
    BY DEF DeletePassword, In, GoTo
<1>3. "drop" \in PlacesOf(y.op)
    BY <1>2 DEF PlacesOf
<1>4. Becomes(x, y, "drop", y.held, y.backend, y.loaded)
    BY <1>1, <1>3, Rewritten
<1> HIDE DEF x
<1>5. RecordFits(x)
    BY <1>1, <1>2, <1>3, <1>4 DEF RecordFits, Becomes
<1>6. /\ Becomes(holder'[p], y, "drop", y.held, y.backend, y.loaded)
      /\ \A q \in Holders \ {p} : holder'[q] \in {holder[q], [holder[q] EXCEPT !.alone = FALSE]}
      /\ CallOK(holder[p])' => CredentialInd'
    <2>1. Step(p, x) /\ spent' \in Counts /\ spent'.saves = spent.saves
        BY <1>1, <1>2
    <2>2. /\ marker' \in MarkerRow /\ {slot', global', file'} \subseteq CredentialCopy
          /\ \A copy \in {slot', global', file', y.held} : copy.credential <= spent.saves + 1
          /\ marker'.backend = "none" => marker.backend = "none"
        BY <1>1, <1>2, CredentialRecords
    <2> HIDE DEF y
    <2> QED
        BY <1>1, <1>3, <1>4, <1>5, <2>1, <2>2, CallGoesOn DEF y
<1>7. CallOK(holder[p])'
    BY <1>2, <1>6 DEF CallOK, Becomes
<1>8. Authoritative' \in {Authoritative, 0}
    BY <1>2, TakenAway
<1>9. holder'[p].pc # y.pc
    BY <1>2, <1>6 DEF Becomes
<1>10. Promised(p)
    BY <1>1, <1>2, <1>6, <1>8, <1>9 DEF Promised
<1> QED
    BY <1>6, <1>7, <1>10

-----------------------------------------------------------------------------
(* The credential: every step.                                             *)

LEMMA CredentialStepKeeps ==
    ASSUME CredentialInd, Remember, NEW p \in Holders, CredentialStep(p)
    PROVE  CredentialInd' /\ Promised(p)
<1>1. CASE StartSave(p) \/ SetPassword(p) \/ WriteFile(p) \/ MarkSaved(p) \/ DropFallback(p)
    BY <1>1, StartSaveKeeps, SetPasswordKeeps, WriteFileKeeps, MarkSavedKeeps, DropFallbackKeeps
<1>2. CASE StartLoad(p) \/ GetPassword(p) \/ PurgeFile(p) \/ PurgeSlot(p) \/ ReadFallback(p)
           \/ PromoteSet(p)
    BY <1>2, StartLoadKeeps, GetPasswordKeeps, PurgeFileKeeps, PurgeSlotKeeps, ReadFallbackKeeps,
       PromoteSetKeeps
<1>3. CASE LegacyProfile(p) \/ LegacyFile(p) \/ LegacyGlobal(p) \/ MigrateSet(p)
           \/ RetireGlobal(p) \/ AdoptMark(p)
    BY <1>3, LegacyProfileKeeps, LegacyFileKeeps, LegacyGlobalKeeps, MigrateSetKeeps,
       RetireGlobalKeeps, AdoptMarkKeeps
<1>4. CASE StartDelete(p) \/ Tombstone(p) \/ DeletePassword(p) \/ Raise(p)
    BY <1>4, StartDeleteKeeps, TombstoneKeeps, DeletePasswordKeeps, RaiseKeeps
<1> QED
    BY <1>1, <1>2, <1>3, <1>4 DEF CredentialStep

(* The step that a process is seen to take is its own: a step always       *)
(* changes the call or its place, and of the others only their solitude.   *)
LEMMA StepIsSeen ==
    ASSUME CredentialInd, NEW p \in Holders, Promised(p)
    PROVE  Moves(p) /\ \A q \in Holders : Moves(q) => q = p
<1>1. holder[p] \in HolderType
    BY CallHas
<1>2. /\ [holder[p] EXCEPT !.alone = FALSE].op = holder[p].op
      /\ [holder[p] EXCEPT !.alone = FALSE].pc = holder[p].pc
    BY <1>1 DEF HolderType
<1>3. holder'[p] \notin {holder[p], [holder[p] EXCEPT !.alone = FALSE]}
    BY <1>2 DEF Promised
<1> QED
    BY <1>3 DEF Promised, Moves

-----------------------------------------------------------------------------
(* The credential: an undisturbed adoption keeps what it adopts.           *)

(* What one step of p does for a credential that no marker names yet.      *)
Keeps(p) ==
    holder[p].op = "load" /\ holder[p].alone /\ marker.backend = "none" /\ Loadable # 0
        => Loadable' \in Stray

(* What a load finds without a marker.                                     *)
LEMMA AdoptableIs ==
    /\ Adoptable \in {0, slot.credential, file.credential}
          \/ (Adoptable = global.credential /\ GlobalInUse)
    /\ slot' # Nothing /\ (~ GlobalInUse' \/ global' = Bare(slot'.credential))
          => Adoptable' = slot'.credential
    /\ slot' = Nothing /\ ~ GlobalInUse' => Adoptable' = file'.credential
BY DEF Adoptable

LEMMA StrayIs ==
    /\ \A c : c \in Stray <=> /\ c \notin {0, -1}
                              /\ \/ c = slot.credential \/ c = file.credential
                                 \/ DefaultDirectory /\ c = global.credential
BY DEF Stray

LEMMA FoundIsStray ==
    ASSUME CredentialInd, LayoutOK, marker.backend = "none", Loadable # 0
    PROVE  Loadable \in Stray
<1>1. \A copy \in {slot, global, file} : copy.credential \in Int
    BY DEF CredentialInd, CredentialTypeOK, CredentialCopy
<1>2. slot.credential # -1 /\ file.credential # -1
    BY <1>1, CredentialRecords DEF LayoutOK
<1>3. GlobalInUse => DefaultDirectory /\ global.credential # -1
    BY <1>1, CredentialRecords DEF LayoutOK, GlobalInUse
<1> QED
    BY <1>2, <1>3, AdoptableIs, StrayIs DEF Loadable

LEMMA KeptAsItWas ==
    ASSUME CredentialInd, LayoutOK, NEW p \in Holders, UNCHANGED stores, Remember
    PROVE  Keeps(p) /\ LayoutOK'
<1>1. Loadable' = Loadable /\ UNCHANGED <<marker, slot, global, file>>
    <2>1. UNCHANGED <<marker, slot, global, file>> /\ Authoritative' = Authoritative
        BY Untouched
    <2> QED
        BY <2>1 DEF Loadable, Adoptable, GlobalInUse
<1> QED
    BY <1>1, FoundIsStray DEF Keeps, LayoutOK

LEMMA LayoutKept ==
    ASSUME LayoutOK, NEW h, h.epoch \in Nat,
           slot' \in {slot, Nothing} \/ (slot' = h /\ h.epoch > 0 /\ h.credential > 0),
           file' \in {file, Nothing} \/ (file' = h /\ h.epoch > 0 /\ h.credential > 0),
           global' \in {global, Nothing, Migrated}
    PROVE  LayoutOK'
<1>1. \A copy \in {slot', file'} : copy = Nothing \/ copy.credential > 0
    BY DEF LayoutOK
<1>2. \/ global' \in {Nothing, Migrated}
      \/ /\ global'.credential > 0 /\ global' = Bare(global'.credential)
         /\ \A copy \in {slot', file'} : copy = Nothing \/ copy.epoch > 0
    BY DEF LayoutOK
<1> QED
    BY <1>1, <1>2 DEF LayoutOK

(* A step keeps the invariant if its own call can rely on what it finds.   *)
LEMMA AdoptionKept ==
    ASSUME CredentialInd, AdoptionInd, NEW p \in Holders, NEW x, Step(p, x),
           LayoutOK', CarriesOK(x),
           holder'[p].op = "load" /\ holder'[p].alone /\ marker'.backend = "none"
               => AdoptOK(holder[p])'
    PROVE  AdoptionInd'
<1>1. holder' = [q \in Holders |->
                  IF q = p THEN x
                  ELSE IF holder[q].op = "none" THEN holder[q]
                  ELSE [holder[q] EXCEPT !.alone = FALSE]]
    BY DEF Step
<1>2. holder'[p] = x
    BY <1>1
<1>3. ASSUME NEW q \in Holders \ {p}
      PROVE  /\ CarriesOK(holder[q])'
             /\ holder'[q].op = "none" \/ holder'[q].alone = FALSE
    <2>1. holder[q] \in HolderType /\ CarriesOK(holder[q])
        BY CallHas DEF AdoptionInd
    <2>2. CASE holder[q].op = "none"
        BY <1>1, <2>1, <2>2 DEF CarriesOK
    <2>3. CASE holder[q].op # "none"
        <3>1. holder'[q] = [holder[q] EXCEPT !.alone = FALSE]
            BY <1>1, <2>3
        <3>2. /\ holder'[q].pc = holder[q].pc /\ holder'[q].held = holder[q].held
              /\ holder'[q].alone = FALSE
            BY <2>1, <3>1 DEF HolderType
        <3> QED
            BY <2>1, <3>2 DEF CarriesOK
    <2> QED
        BY <2>2, <2>3
<1>4. CarriesOK(holder[p])'
    BY <1>2 DEF CarriesOK
<1>5. ASSUME NEW q \in Holders
      PROVE  /\ CarriesOK(holder[q])'
             /\ holder'[q].op = "load" /\ holder'[q].alone /\ marker'.backend = "none"
                  => AdoptOK(holder[q])'
    BY <1>3, <1>4
<1> QED
    BY <1>5 DEF AdoptionInd

(* A call that returns relies on nothing.                                  *)
LEMMA AdoptionEnds ==
    ASSUME CredentialInd, AdoptionInd, NEW p \in Holders, NEW v \in Int \X Int, Return(p, v),
           LayoutOK'
    PROVE  AdoptionInd'
<1> DEFINE x == [Resting EXCEPT !.loaded = v]
<1>1. x.op = "none" /\ x.pc = "rest"
    BY DEF Resting
<1>2. Step(p, x) /\ holder'[p] = x
    BY DEF Return, Step
<1> HIDE DEF x
<1>3. CarriesOK(x)
    BY <1>1 DEF CarriesOK, Carrying, Writing
<1> QED
    BY <1>1, <1>2, <1>3, AdoptionKept

(* A call that goes on.                                                    *)
LEMMA AdoptionGoesOn ==
    ASSUME CredentialInd, AdoptionInd, NEW p \in Holders, NEW pc \in PlacesOf(holder[p].op),
           NEW held \in CredentialCopy, NEW backend \in Backends, NEW loaded \in Int \X Int,
           NEW x, Becomes(x, holder[p], pc, held, backend, loaded), Step(p, x),
           LayoutOK', pc \in Carrying => held.epoch > 0 /\ held.credential > 0
    PROVE  /\ Becomes(holder'[p], holder[p], pc, held, backend, loaded)
           /\ (holder[p].op = "load" /\ holder[p].alone /\ marker'.backend = "none"
                 => AdoptOK(holder[p])') => AdoptionInd'
<1>1. holder'[p] = x
    BY DEF Step
<1>2. CarriesOK(x)
    BY DEF CarriesOK, Becomes
<1>3. ASSUME holder[p].op = "load" /\ holder[p].alone /\ marker'.backend = "none"
               => AdoptOK(holder[p])'
      PROVE  AdoptionInd'
    BY <1>1, <1>2, <1>3, AdoptionKept DEF Becomes
<1> QED
    BY <1>1, <1>3

(* What the invariants say about one call.                                 *)
LEMMA AdoptionHas ==
    ASSUME CredentialInd, AdoptionInd, NEW p \in Holders
    PROVE  /\ holder[p] \in HolderType /\ RecordFits(holder[p]) /\ CarriesOK(holder[p])
           /\ holder[p].held \in CredentialCopy /\ holder[p].held.epoch \in Nat
           /\ holder[p].held.revision \in Nat /\ holder[p].held.credential \in Int
           /\ holder[p].backend \in Backends /\ holder[p].loaded \in Int \X Int
           /\ holder[p].pc \in Carrying =>
                holder[p].held.epoch > 0 /\ holder[p].held.credential > 0
           /\ holder[p].op = "load" /\ holder[p].alone /\ marker.backend = "none"
                => AdoptOK(holder[p])
           /\ {slot, global, file} \subseteq CredentialCopy /\ LayoutOK
           /\ holder[p].op = "load" /\ holder[p].alone => LoadOK(holder[p])
BY CallHas DEF AdoptionInd, CarriesOK, CallOK

LEMMA SetPasswordAdopts ==
    ASSUME CredentialInd, AdoptionInd, Remember, NEW p \in Holders, SetPassword(p)
    PROVE  AdoptionInd' /\ Keeps(p)
<1> DEFINE y == holder[p]
<1>1. /\ y \in HolderType /\ RecordFits(y) /\ y.held \in CredentialCopy /\ y.held.epoch \in Nat
      /\ y.loaded \in Int \X Int /\ y.held.credential \in Int
      /\ y.pc \in Carrying => y.held.epoch > 0 /\ y.held.credential > 0
      /\ y.op = "load" /\ y.alone /\ marker.backend = "none" => AdoptOK(y)
      /\ LayoutOK
    BY AdoptionHas
<1>2. y.pc = "set" /\ UNCHANGED <<marker, global, file, spent>> /\ y.op \in {"save", "load"}
    BY <1>1 DEF SetPassword, RecordFits, PlacesOf, HolderType
<1>3. y.held.epoch > 0 /\ y.held.credential > 0
    BY <1>1, <1>2 DEF Carrying, Writing
<1>4. PICK pc, backend :
        /\ \/ pc = "mark" /\ backend = "keyring" /\ slot' = y.held
           \/ pc = "write" /\ backend = "file" /\ UNCHANGED slot
        /\ Step(p, [y EXCEPT !.pc = pc, !.backend = backend])
    BY DEF SetPassword
<1> DEFINE x == [y EXCEPT !.pc = pc, !.backend = backend]
<1>5. pc \in PlacesOf(y.op) /\ backend \in Backends
    BY <1>2, <1>4 DEF PlacesOf, Writing, Backends
<1>6. Becomes(x, y, pc, y.held, backend, y.loaded) /\ Step(p, x)
    BY <1>1, <1>4, <1>5, Rewritten
<1> HIDE DEF x
<1>7. LayoutOK'
    BY <1>1, <1>2, <1>3, <1>4, LayoutKept
<1>8. /\ Becomes(holder'[p], y, pc, y.held, backend, y.loaded)
      /\ (y.op = "load" /\ y.alone /\ marker'.backend = "none" => AdoptOK(holder[p])')
            => AdoptionInd'
    <2> HIDE DEF y
    <2> QED
        BY <1>1, <1>3, <1>5, <1>6, <1>7, AdoptionGoesOn DEF y
<1>9. ASSUME y.op = "load", y.alone, marker.backend = "none"
      PROVE  AdoptOK(holder[p])' /\ (Loadable # 0 => Loadable' \in Stray)
    <2>1. y.held.credential \in Stray /\ ~ GlobalInUse /\ ~ GlobalInUse'
        BY <1>1, <1>2, <1>9 DEF AdoptOK, GlobalInUse
    <2>2. CASE slot' = y.held /\ pc = "mark" /\ backend = "keyring"
        <3>1. Loadable' = y.held.credential
            BY <1>2, <1>3, <1>9, <2>1, <2>2, AdoptableIs, CredentialRecords DEF Loadable
        <3>2. AdoptOK(holder[p])'
            BY <1>8, <2>2 DEF AdoptOK, Becomes, Copied
        <3> QED
            BY <2>1, <3>1, <3>2
    <2>3. CASE slot' = slot /\ pc = "write"
        <3>1. Stray' = Stray /\ Keeps(p)
            BY <1>2, <1>1, <2>3, KeptAsItWas DEF Stray, stores
        <3>2. AdoptOK(holder[p])'
            BY <1>8, <2>1, <2>3, <3>1 DEF AdoptOK, Becomes
        <3> QED
            BY <1>9, <3>1, <3>2 DEF Keeps
    <2> QED
        BY <1>4, <2>2, <2>3
<1> QED
    BY <1>2, <1>8, <1>9 DEF Keeps

LEMMA WriteFileAdopts ==
    ASSUME CredentialInd, AdoptionInd, Remember, NEW p \in Holders, WriteFile(p)
    PROVE  AdoptionInd' /\ Keeps(p)
<1> DEFINE y == holder[p]
           x == [y EXCEPT !.pc = "mark"]
<1>1. /\ y \in HolderType /\ RecordFits(y) /\ y.held \in CredentialCopy /\ y.held.epoch \in Nat
      /\ y.loaded \in Int \X Int /\ y.held.credential \in Int /\ y.backend \in Backends
      /\ y.pc \in Carrying => y.held.epoch > 0 /\ y.held.credential > 0
      /\ y.op = "load" /\ y.alone /\ marker.backend = "none" => AdoptOK(y)
      /\ LayoutOK
    BY AdoptionHas
<1>2. /\ y.pc = "write" /\ marker' = marker /\ slot' = slot /\ global' = global
      /\ file' = y.held /\ y.op \in {"save", "load"} /\ Step(p, x) /\ y.backend = "file"
    BY <1>1 DEF WriteFile, GoTo, RecordFits, PlacesOf, HolderType
<1>3. y.held.epoch > 0 /\ y.held.credential > 0
    BY <1>1, <1>2 DEF Carrying, Writing
<1>5. "mark" \in PlacesOf(y.op)
    BY <1>2 DEF PlacesOf, Writing
<1>6. Becomes(x, y, "mark", y.held, y.backend, y.loaded)
    BY <1>1, <1>5, Rewritten
<1> HIDE DEF x
<1>7. LayoutOK'
    BY <1>1, <1>2, <1>3, LayoutKept
<1>8. /\ Becomes(holder'[p], y, "mark", y.held, y.backend, y.loaded)
      /\ (y.op = "load" /\ y.alone /\ marker'.backend = "none" => AdoptOK(holder[p])')
            => AdoptionInd'
    <2> HIDE DEF y
    <2> QED
        BY <1>1, <1>2, <1>3, <1>5, <1>6, <1>7, AdoptionGoesOn DEF y
<1>9. AdoptOK(holder[p])'
    BY <1>2, <1>8 DEF AdoptOK, Becomes, Copied
<1>10. ASSUME y.op = "load", y.alone, marker.backend = "none", Loadable # 0
       PROVE  Loadable' \in Stray
    <2>1. y.held.credential \in Stray /\ ~ GlobalInUse /\ ~ GlobalInUse'
        BY <1>1, <1>2, <1>10 DEF AdoptOK, GlobalInUse
    <2>2. CASE slot = Nothing
        BY <1>2, <1>10, <2>1, <2>2, AdoptableIs DEF Loadable
    <2>3. CASE slot # Nothing
        <3>1. Loadable = slot.credential
            BY <1>10, <2>1, <2>3 DEF Loadable, Adoptable
        <3>2. Loadable' = slot.credential
            BY <1>2, <1>10, <2>1, <2>3, AdoptableIs DEF Loadable
        <3>3. Loadable \in Stray
            BY <1>1, <1>10, FoundIsStray
        <3> QED
            BY <3>1, <3>2, <3>3
    <2> QED
        BY <2>2, <2>3
<1> QED
    BY <1>8, <1>9, <1>10 DEF Keeps

(* The marker names the copy that was written last.                        *)
LEMMA MarkedIsStray ==
    ASSUME NEW x, x.held.epoch \in Nat, x.held.epoch > 0, x.held.credential \in Int,
           x.held.credential > 0, Copied(x), slot' = slot, file' = file,
           marker' = [epoch |-> x.held.epoch, revision |-> x.held.revision, backend |-> x.backend]
    PROVE  Loadable' \in Stray
<1>1. marker'.backend = x.backend /\ Matches(x.held, marker')
    BY DEF Matches, VersionOf
<1>2. Authoritative' = x.held.credential /\ marker'.backend # "none"
    BY <1>1, AuthoritativeIs DEF Copied
<1>3. x.held.credential \in Stray
    BY StrayIs DEF Copied
<1> QED
    BY <1>2, <1>3, UnderMarker

LEMMA MarkSavedAdopts ==
    ASSUME CredentialInd, AdoptionInd, Remember, NEW p \in Holders, MarkSaved(p)
    PROVE  AdoptionInd' /\ Keeps(p)
<1> DEFINE y == holder[p]
           x == [y EXCEPT !.pc = "drop"]
<1>1. /\ y \in HolderType /\ RecordFits(y) /\ y.held \in CredentialCopy /\ y.held.epoch \in Nat
      /\ y.held.revision \in Nat
      /\ y.loaded \in Int \X Int /\ y.held.credential \in Int /\ y.backend \in Backends
      /\ y.pc \in Carrying => y.held.epoch > 0 /\ y.held.credential > 0
      /\ y.op = "load" /\ y.alone /\ marker.backend = "none" => AdoptOK(y)
      /\ LayoutOK
    BY AdoptionHas
<1>2. /\ y.pc = "mark" /\ slot' = slot /\ global' = global /\ file' = file
      /\ y.op \in {"save", "load"} /\ y.backend \in {"keyring", "file"}
      /\ marker' = [epoch |-> y.held.epoch, revision |-> y.held.revision, backend |-> y.backend]
    BY <1>1 DEF MarkSaved, Authority, RecordFits, PlacesOf, HolderType
<1>3. y.held.epoch > 0 /\ y.held.credential > 0
    BY <1>1, <1>2 DEF Carrying, Writing
<1>4. LayoutOK' /\ marker'.backend # "none"
    BY <1>1, <1>2, LayoutKept
<1>5. AdoptionInd'
    <2>1. CASE y.backend = "file"
        <3>1. VersionOf(y.held) \in Int \X Int /\ Return(p, VersionOf(y.held))
            BY <1>1, <2>1 DEF MarkSaved, VersionOf
        <3> QED
            BY <1>4, <3>1, AdoptionEnds
    <2>2. CASE y.backend = "keyring"
        <3>1. "drop" \in PlacesOf(y.op) /\ Step(p, x)
            BY <1>2, <2>2 DEF PlacesOf, MarkSaved, GoTo
        <3>2. Becomes(x, y, "drop", y.held, y.backend, y.loaded)
            BY <1>1, <3>1, Rewritten
        <3>3. "drop" \notin Carrying
            BY DEF Carrying, Writing
        <3> HIDE DEF x, y
        <3> QED
            BY <1>1, <1>4, <3>1, <3>2, <3>3, AdoptionGoesOn DEF y
    <2> QED
        BY <1>2, <2>1, <2>2
<1>6. ASSUME y.op = "load", y.alone, marker.backend = "none" PROVE Loadable' \in Stray
    <2>1. Copied(y)
        BY <1>1, <1>2, <1>6 DEF AdoptOK
    <2> HIDE DEF y
    <2> QED
        BY <1>1, <1>2, <1>3, <2>1, MarkedIsStray
<1> QED
    BY <1>5, <1>6 DEF Keeps

LEMMA AdoptMarkAdopts ==
    ASSUME CredentialInd, AdoptionInd, Remember, NEW p \in Holders, AdoptMark(p)
    PROVE  AdoptionInd' /\ Keeps(p)
<1> DEFINE y == holder[p]
<1>1. /\ y \in HolderType /\ y.held.epoch \in Nat /\ y.held.revision \in Nat
      /\ y.held.credential \in Int
      /\ y.pc \in Carrying => y.held.epoch > 0 /\ y.held.credential > 0
      /\ y.op = "load" /\ y.alone /\ marker.backend = "none" => AdoptOK(y)
      /\ LayoutOK
    BY AdoptionHas
<1>2. /\ y.pc = "adopt_mark" /\ slot' = slot /\ global' = global /\ file' = file
      /\ marker' = [epoch |-> y.held.epoch, revision |-> y.held.revision, backend |-> y.backend]
    BY DEF AdoptMark, Authority
<1>3. y.held.epoch > 0 /\ y.held.credential > 0
    BY <1>1, <1>2 DEF Carrying
<1>4. LayoutOK'
    BY <1>1, <1>2, LayoutKept
<1>5. AdoptionInd'
    <2>1. VersionOf(y.held) \in Int \X Int /\ Return(p, VersionOf(y.held))
        BY <1>1 DEF AdoptMark, VersionOf
    <2> QED
        BY <1>4, <2>1, AdoptionEnds
<1>6. ASSUME y.op = "load", y.alone, marker.backend = "none" PROVE Loadable' \in Stray
    <2>1. Copied(y)
        BY <1>1, <1>2, <1>6 DEF AdoptOK
    <2> HIDE DEF y
    <2> QED
        BY <1>1, <1>2, <1>3, <2>1, MarkedIsStray
<1> QED
    BY <1>5, <1>6 DEF Keeps

(* Calls that begin.                                                       *)
LEMMA StartsAdopt ==
    ASSUME CredentialInd, AdoptionInd, Remember, NEW p \in Holders,
           StartSave(p) \/ StartLoad(p) \/ StartDelete(p)
    PROVE  AdoptionInd' /\ Keeps(p)
<1>1. UNCHANGED stores /\ LayoutOK /\ holder[p].op = "none"
    BY AdoptionHas DEF StartSave, StartLoad, StartDelete, Start
<1>2. LayoutOK' /\ Keeps(p)
    BY <1>1, KeptAsItWas
<1>3. PICK x : /\ Step(p, x) /\ CarriesOK(x) /\ (x.op # "load" \/ x.pc \notin Carrying)
               /\ x.op = "load" => x.pc \in {"legacy", "purge", "promote", "get"}
    <2>1. CASE StartSave(p)
        <3>1. marker.epoch \in Nat /\ spent.saves \in Nat
            BY CallHas
        <3>2. PICK held, seen, alone : Step(p,
                 [[Resting EXCEPT !.held = held] EXCEPT !.op = "save", !.pc = "set", !.seen = seen,
                                                        !.alone = alone])
                 /\ held = Enveloped(spent.saves + 2)
            BY <2>1 DEF StartSave, Start
        <3>3. held.epoch > 0 /\ held.credential > 0
            BY <3>1, <3>2 DEF Enveloped
        <3> DEFINE x == [[Resting EXCEPT !.held = held] EXCEPT !.op = "save", !.pc = "set",
                                                               !.seen = seen, !.alone = alone]
        <3>4. x.op = "save" /\ x.held = held
            BY DEF Resting
        <3>5. CarriesOK(x)
            BY <3>3, <3>4 DEF CarriesOK
        <3> HIDE DEF x
        <3> QED
            BY <3>2, <3>4, <3>5 DEF x
    <2>2. CASE StartLoad(p)
        <3>1. PICK pc, loaded, seen, alone : Step(p,
                 [[Resting EXCEPT !.loaded = loaded] EXCEPT !.op = "load", !.pc = pc, !.seen = seen,
                                                            !.alone = alone])
                 /\ pc = PlaceOfMarker
            BY <2>2 DEF StartLoad, Start
        <3>2. pc \in {"legacy", "purge", "promote", "get"}
            BY <3>1, CallHas DEF PlaceOfMarker, Backends
        <3> DEFINE x == [[Resting EXCEPT !.loaded = loaded] EXCEPT !.op = "load", !.pc = pc,
                                                                   !.seen = seen, !.alone = alone]
        <3>3. x.op = "load" /\ x.pc = pc
            BY DEF Resting
        <3>4. pc \notin Carrying
            BY <3>2 DEF Carrying, Writing
        <3>5. CarriesOK(x)
            BY <3>3, <3>4 DEF CarriesOK
        <3> HIDE DEF x
        <3> QED
            BY <3>1, <3>2, <3>3, <3>4, <3>5 DEF x
    <2>3. CASE StartDelete(p)
        <3>1. PICK held, loaded, seen, alone : Step(p,
                 [[Resting EXCEPT !.held = held, !.backend = "deleted", !.loaded = loaded]
                    EXCEPT !.op = "delete", !.pc = "tombstone", !.seen = seen, !.alone = alone])
            BY <2>3 DEF StartDelete, Start
        <3> DEFINE x == [[Resting EXCEPT !.held = held, !.backend = "deleted", !.loaded = loaded]
                    EXCEPT !.op = "delete", !.pc = "tombstone", !.seen = seen, !.alone = alone]
        <3>2. x.op = "delete" /\ x.pc = "tombstone"
            BY DEF Resting
        <3>3. CarriesOK(x)
            BY <3>2 DEF CarriesOK, Carrying, Writing
        <3> HIDE DEF x
        <3> QED
            BY <3>1, <3>2, <3>3 DEF x
    <2> QED
        BY <2>1, <2>2, <2>3
<1>4. holder'[p] = x
    BY <1>3 DEF Step
<1>5. holder'[p].op = "load" => AdoptOK(holder[p])'
    BY <1>3, <1>4 DEF AdoptOK
<1> QED
    BY <1>2, <1>3, <1>5, AdoptionKept

(* Calls that only read, fail or delete.                                   *)
LEMMA OthersAdopt ==
    ASSUME CredentialInd, AdoptionInd, Remember, NEW p \in Holders,
           \/ DropFallback(p) \/ GetPassword(p) \/ PurgeFile(p) \/ PurgeSlot(p)
           \/ Tombstone(p) \/ DeletePassword(p) \/ Raise(p)
    PROVE  AdoptionInd' /\ Keeps(p)
<1> DEFINE y == holder[p]
<1>1. /\ y \in HolderType /\ RecordFits(y) /\ y.held \in CredentialCopy /\ y.held.epoch \in Nat
      /\ y.held.revision \in Nat /\ y.loaded \in Int \X Int /\ y.backend \in Backends
      /\ LayoutOK /\ (y.op = "load" /\ y.alone => LoadOK(y))
    BY AdoptionHas
<1>2. LayoutOK'
    <2>1. slot' \in {slot, Nothing} /\ file' \in {file, Nothing} /\ global' = global
        BY DEF DropFallback, GetPassword, PurgeFile, PurgeSlot, Tombstone, DeletePassword, Raise,
               stores
    <2> QED
        BY <1>1, <2>1, LayoutKept
<1>3. Keeps(p)
    <2>1. CASE GetPassword(p) \/ Raise(p)
        BY <1>1, <2>1, KeptAsItWas DEF GetPassword, Raise
    <2>2. CASE DropFallback(p) \/ PurgeFile(p) \/ PurgeSlot(p) \/ Tombstone(p) \/ DeletePassword(p)
        <3>1. \/ y.op # "load" \/ y.pc \in {"drop", "purge", "purge_slot"}
            BY <2>2 DEF DropFallback, PurgeFile, PurgeSlot, Tombstone, DeletePassword, In
        <3>2. y.op = "load" /\ y.alone => marker.backend # "none"
            BY <1>1, <3>1 DEF LoadOK
        <3> QED
            BY <3>2 DEF Keeps
    <2> QED
        BY <2>1, <2>2
<1>4. CASE \E v \in Int \X Int : Return(p, v)
    BY <1>2, <1>3, <1>4, AdoptionEnds
<1>5. CASE \E pc \in {"purge_slot", "drop", "unset"} : \E v \in Int \X Int :
              pc \in PlacesOf(y.op) /\ \/ Step(p, [y EXCEPT !.pc = pc, !.loaded = v])
                                       \/ Step(p, [y EXCEPT !.pc = pc]) /\ v = y.loaded
    <2>0. PICK pc \in {"purge_slot", "drop", "unset"}, v \in Int \X Int :
              pc \in PlacesOf(y.op) /\ \/ Step(p, [y EXCEPT !.pc = pc, !.loaded = v])
                                       \/ Step(p, [y EXCEPT !.pc = pc]) /\ v = y.loaded
        BY <1>5
    <2>1. PICK x :
              /\ pc \in PlacesOf(y.op) /\ Step(p, x)
              /\ x = [y EXCEPT !.pc = pc, !.loaded = v] \/ (x = [y EXCEPT !.pc = pc] /\ v = y.loaded)
        BY <2>0
    <2>2. Becomes(x, y, pc, y.held, y.backend, v)
        BY <1>1, <2>1, Rewritten
    <2>3. pc \notin Carrying
        BY DEF Carrying, Writing
    <2>4. /\ Becomes(holder'[p], y, pc, y.held, y.backend, v)
          /\ (y.op = "load" /\ y.alone /\ marker'.backend = "none" => AdoptOK(holder[p])')
                => AdoptionInd'
        <3> HIDE DEF y
        <3> QED
            BY <1>1, <1>2, <2>1, <2>2, <2>3, AdoptionGoesOn DEF y
    <2>5. AdoptOK(holder[p])'
        BY <2>4 DEF AdoptOK, Becomes
    <2> QED
        BY <1>3, <2>4, <2>5
<1>6. CASE DropFallback(p)
    <2>1. (IF y.op = "delete" THEN y.loaded ELSE VersionOf(y.held)) \in Int \X Int
        BY <1>1 DEF VersionOf
    <2> QED
        BY <1>3, <1>4, <1>6, <2>1 DEF DropFallback
<1>7. CASE GetPassword(p) \/ PurgeSlot(p)
    BY <1>1, <1>3, <1>4, <1>7 DEF GetPassword, PurgeSlot
<1>8. CASE Raise(p)
    BY <1>1, <1>3, <1>4, <1>8, CredentialRecords DEF Raise
<1>9. CASE PurgeFile(p)
    <2>1. "purge_slot" \in PlacesOf(y.op) /\ Step(p, [y EXCEPT !.pc = "purge_slot"])
        BY <1>9 DEF PurgeFile, In, GoTo, PlacesOf
    <2> QED
        BY <1>1, <1>5, <2>1
<1>10. CASE DeletePassword(p)
    <2>1. "drop" \in PlacesOf(y.op) /\ Step(p, [y EXCEPT !.pc = "drop"])
        BY <1>10 DEF DeletePassword, In, GoTo, PlacesOf
    <2> QED
        BY <1>1, <1>5, <2>1
<1>11. CASE Tombstone(p)
    <2>1. VersionOf(y.held) \in Int \X Int
        BY <1>1 DEF VersionOf
    <2>2. /\ "unset" \in PlacesOf(y.op)
          /\ Step(p, [y EXCEPT !.pc = "unset", !.loaded = VersionOf(y.held)])
        BY <1>11 DEF Tombstone, In, PlacesOf
    <2> QED
        BY <1>5, <2>1, <2>2
<1> QED
    BY <1>6, <1>7, <1>8, <1>9, <1>10, <1>11

LEMMA PromotionAdopts ==
    ASSUME CredentialInd, AdoptionInd, Remember, NEW p \in Holders,
           ReadFallback(p) \/ PromoteSet(p)
    PROVE  AdoptionInd' /\ Keeps(p)
<1> DEFINE y == holder[p]
<1>1. /\ y \in HolderType /\ RecordFits(y) /\ y.held \in CredentialCopy /\ y.held.epoch \in Nat
      /\ y.loaded \in Int \X Int /\ y.backend \in Backends /\ y.held.credential \in Int
      /\ y.pc \in Carrying => y.held.epoch > 0 /\ y.held.credential > 0
      /\ LayoutOK /\ (y.op = "load" /\ y.alone => LoadOK(y)) /\ file \in CredentialCopy
    BY AdoptionHas
<1>2. y.op = "load" /\ y.pc \in {"promote", "promote_set"} /\ marker' = marker
    BY DEF ReadFallback, PromoteSet, In, stores
<1>3. y.alone => marker.backend = "file"
    BY <1>1, <1>2 DEF LoadOK, Promoting
<1>4. Keeps(p)
    BY <1>3 DEF Keeps
<1>5. ASSUME NEW v \in Int \X Int, Return(p, v), UNCHANGED stores PROVE AdoptionInd'
    BY <1>1, <1>5, KeptAsItWas, AdoptionEnds
<1>6. CASE ReadFallback(p)
    <2>1. CASE ~ Matches(file, y.seen)
        BY <1>1, <1>4, <1>5, <1>6, <2>1 DEF ReadFallback
    <2>2. CASE Matches(file, y.seen)
        <3>1. PICK held : held = file
            OBVIOUS
        <3> DEFINE x == [y EXCEPT !.pc = "promote_set", !.held = held, !.backend = "keyring"]
        <3>2. "promote_set" \in PlacesOf(y.op) /\ "keyring" \in Backends /\ Step(p, x)
              /\ UNCHANGED stores
            BY <1>2, <1>6, <2>2, <3>1 DEF PlacesOf, Backends, ReadFallback
        <3>3. Becomes(x, y, "promote_set", held, "keyring", y.loaded)
            BY <1>1, <3>1, <3>2, Rewritten
        <3>4. held.epoch > 0 /\ held.credential > 0
            BY <1>1, <2>2, <3>1, CredentialRecords DEF Matches, LayoutOK
        <3>5. LayoutOK'
            BY <1>1, <3>2, KeptAsItWas
        <3> HIDE DEF x, y
        <3> QED
            BY <1>1, <1>2, <1>3, <1>4, <3>1, <3>2, <3>3, <3>4, <3>5, AdoptionGoesOn DEF y
    <2> QED
        BY <1>4, <2>1, <2>2
<1>7. CASE PromoteSet(p)
    <2>1. CASE slot' = slot /\ Return(p, y.loaded)
        BY <1>1, <1>4, <1>5, <1>7, <2>1 DEF PromoteSet, stores
    <2>2. CASE slot' = y.held /\ GoTo(p, "mark")
        <3> DEFINE x == [y EXCEPT !.pc = "mark"]
        <3>1. "mark" \in PlacesOf(y.op) /\ Step(p, x)
            BY <1>2, <2>2 DEF PlacesOf, Writing, GoTo
        <3>2. Becomes(x, y, "mark", y.held, y.backend, y.loaded)
            BY <1>1, <3>1, Rewritten
        <3>3. y.held.epoch > 0 /\ y.held.credential > 0
            BY <1>1, <1>7 DEF PromoteSet, In, Carrying
        <3>4. LayoutOK'
            BY <1>1, <1>7, <2>2, <3>3, LayoutKept DEF PromoteSet
        <3> HIDE DEF x, y
        <3> QED
            BY <1>1, <1>2, <1>3, <1>4, <3>1, <3>2, <3>3, <3>4, AdoptionGoesOn DEF y
    <2> QED
        BY <1>7, <2>1, <2>2 DEF PromoteSet
<1> QED
    BY <1>6, <1>7

(* The places of load_legacy that only read.                               *)
LEMMA LegacyReads ==
    ASSUME CredentialInd, AdoptionInd, Remember, NEW p \in Holders, holder[p].op = "load",
           NEW pc \in Legacy \cup {"set"}, NEW held \in CredentialCopy, NEW backend \in Backends,
           NEW x, Step(p, x), Becomes(x, holder[p], pc, held, backend, holder[p].loaded),
           pc \in Carrying => held.epoch > 0 /\ held.credential > 0,
           pc = "set" => held.credential \in Stray /\ ~ GlobalInUse,
           pc = "adopt_mark" => \/ backend = "keyring" /\ slot = held
                                \/ backend = "file" /\ file = held,
           pc = "legacy_global" => DefaultDirectory,
           pc = "migrate_set" => DefaultDirectory /\ global = Bare(held.credential),
           pc = "retire" => slot = held /\ backend = "keyring",
           pc # "migrate_retire", UNCHANGED stores
    PROVE  AdoptionInd' /\ Keeps(p)
<1>1. holder[p].loaded \in Int \X Int /\ LayoutOK
    BY AdoptionHas
<1>2. LayoutOK' /\ Keeps(p) /\ UNCHANGED <<marker, slot, global, file>>
    BY <1>1, KeptAsItWas DEF stores
<1>3. PICK loaded \in Int \X Int : loaded = holder[p].loaded
    BY <1>1
<1>4. pc \in PlacesOf(holder[p].op)
    BY DEF PlacesOf, Writing
<1>5. /\ Becomes(holder'[p], holder[p], pc, held, backend, loaded)
      /\ (holder[p].op = "load" /\ holder[p].alone /\ marker'.backend = "none"
            => AdoptOK(holder[p])') => AdoptionInd'
    BY <1>2, <1>3, <1>4, AdoptionGoesOn
<1>6. Stray' = Stray /\ (GlobalInUse' <=> GlobalInUse)
    BY <1>2 DEF Stray, GlobalInUse
<1>7. AdoptOK(holder[p])'
    BY <1>2, <1>5, <1>6 DEF AdoptOK, Becomes, Copied, Legacy
<1> QED
    BY <1>2, <1>5, <1>7

LEMMA AdoptAdopts ==
    ASSUME CredentialInd, AdoptionInd, Remember, NEW p \in Holders, holder[p].op = "load",
           NEW copy, NEW backend, NEW retire \in BOOLEAN,
           \/ copy = slot /\ backend = "keyring"
           \/ copy = file /\ backend = "file" /\ ~ retire,
           Adopt(p, copy, backend, retire), UNCHANGED stores
    PROVE  AdoptionInd' /\ Keeps(p)
<1> DEFINE y == holder[p]
<1>1. /\ y \in HolderType /\ y.held \in CredentialCopy /\ y.loaded \in Int \X Int
      /\ y.backend \in Backends /\ LayoutOK /\ copy \in CredentialCopy
    BY AdoptionHas
<1>2. backend \in Backends /\ copy.epoch \in Nat /\ copy.credential \in Int
    BY <1>1 DEF Backends, CredentialCopy
<1>3. LayoutOK' /\ Keeps(p)
    BY <1>1, KeptAsItWas
<1>4. CASE copy = Nothing \/ copy = Migrated
    BY <1>1, <1>3, <1>4, AdoptionEnds DEF Adopt
<1>5. CASE copy # Nothing /\ copy # Migrated /\ copy.epoch > 0
    <2>1. copy.credential > 0
        BY <1>1, <1>5 DEF LayoutOK
    <2>2. PICK pc : /\ pc = IF retire THEN "retire" ELSE "adopt_mark"
                    /\ Step(p, [y EXCEPT !.pc = pc, !.held = copy, !.backend = backend])
        BY <1>5 DEF Adopt
    <2> DEFINE x == [y EXCEPT !.pc = pc, !.held = copy, !.backend = backend]
    <2>3. pc \in PlacesOf(y.op) /\ pc \in Legacy \cup {"set"}
        BY <2>2 DEF PlacesOf, Legacy
    <2>4. Becomes(x, y, pc, copy, backend, y.loaded) /\ Step(p, x)
        BY <1>1, <1>2, <2>2, <2>3, Rewritten
    <2>5. /\ pc = "adopt_mark" => \/ backend = "keyring" /\ slot = copy
                                  \/ backend = "file" /\ file = copy
          /\ pc = "retire" => slot = copy /\ backend = "keyring"
          /\ pc \notin {"set", "legacy_global", "migrate_set", "migrate_retire"}
        BY <2>2
    <2> HIDE DEF x
    <2> QED
        BY <1>1, <1>2, <1>5, <2>1, <2>3, <2>4, <2>5, LegacyReads
<1>6. CASE copy # Nothing /\ copy # Migrated /\ ~ copy.epoch > 0
    <2>1. copy.credential > 0 /\ ~ GlobalInUse /\ copy.credential \in Stray
        BY <1>1, <1>2, <1>6, StrayIs DEF LayoutOK, GlobalInUse
    <2>2. PICK c, held : c \in Int /\ c = copy.credential /\ held = Enveloped(c)
        BY <1>2
    <2> DEFINE x == [y EXCEPT !.pc = "set", !.held = held]
    <2>3. "set" \in PlacesOf(y.op) /\ "set" \in Legacy \cup {"set"} /\ Step(p, x)
        BY <1>6, <2>2 DEF PlacesOf, Writing, Adopt
    <2>4. held \in CredentialCopy /\ held.credential = c /\ held.epoch = marker.epoch + 1
        BY <2>2, NextVersion
    <2>5. marker.epoch \in Nat
        BY CallHas
    <2>6. Becomes(x, y, "set", held, y.backend, y.loaded)
        BY <1>1, <2>3, <2>4, Rewritten
    <2>7. held.epoch > 0 /\ held.credential > 0 /\ held.credential \in Stray
        BY <2>1, <2>2, <2>4, <2>5
    <2>8. PICK b \in Backends : b = y.backend
        BY <1>1
    <2> HIDE DEF x
    <2> QED
        BY <1>1, <2>1, <2>3, <2>4, <2>6, <2>7, <2>8, LegacyReads
<1> QED
    BY <1>4, <1>5, <1>6

LEMMA LegacyAdopts ==
    ASSUME CredentialInd, AdoptionInd, Remember, NEW p \in Holders,
           LegacyProfile(p) \/ LegacyFile(p) \/ LegacyGlobal(p)
    PROVE  AdoptionInd' /\ Keeps(p)
<1> DEFINE y == holder[p]
<1>1. /\ y \in HolderType /\ y.held \in CredentialCopy /\ y.loaded \in Int \X Int
      /\ y.backend \in Backends /\ LayoutOK /\ global \in CredentialCopy
      /\ y.op = "load" /\ y.alone /\ marker.backend = "none" => AdoptOK(y)
      /\ y.op = "load" /\ y.alone => LoadOK(y)
      /\ DefaultDirectory \in BOOLEAN
    BY AdoptionHas, CredentialAssumption
<1>2. y.op = "load" /\ UNCHANGED stores
    BY DEF LegacyProfile, LegacyFile, LegacyGlobal, In
<1>3. ASSUME NEW pc \in {"legacy_file", "legacy_global"}, GoTo(p, pc),
             pc = "legacy_global" => DefaultDirectory
      PROVE  AdoptionInd' /\ Keeps(p)
    <2> DEFINE x == [y EXCEPT !.pc = pc]
    <2>1. pc \in PlacesOf(y.op) /\ pc \in Legacy \cup {"set"} /\ Step(p, x) /\ pc \notin Carrying
        BY <1>2, <1>3 DEF PlacesOf, Legacy, GoTo, Carrying, Writing
    <2>2. Becomes(x, y, pc, y.held, y.backend, y.loaded)
        BY <1>1, <2>1, Rewritten
    <2>3. PICK held \in CredentialCopy, b \in Backends : held = y.held /\ b = y.backend
        BY <1>1
    <2>4. pc \notin {"set", "adopt_mark", "migrate_set", "retire", "migrate_retire"}
        OBVIOUS
    <2> HIDE DEF x
    <2> QED
        BY <1>2, <1>3, <2>1, <2>2, <2>3, <2>4, LegacyReads
<1>4. CASE LegacyProfile(p)
    <2>1. CASE Adopt(p, slot, "keyring", DefaultDirectory)
        BY <1>1, <1>2, <2>1, AdoptAdopts
    <2>2. CASE GoTo(p, IF DefaultDirectory THEN "legacy_global" ELSE "legacy_file")
        BY <1>3, <2>2
    <2>3. CASE GoTo(p, "legacy_file")
        BY <1>3, <2>3
    <2> QED
        BY <1>4, <2>1, <2>2, <2>3 DEF LegacyProfile
<1>5. CASE LegacyFile(p)
    <2>1. FALSE \in BOOLEAN /\ Adopt(p, file, "file", FALSE)
        BY <1>5 DEF LegacyFile
    <2> QED
        BY <1>2, <2>1, AdoptAdopts
<1>6. CASE LegacyGlobal(p) /\ global \in {Nothing, Migrated}
    BY <1>3, <1>6 DEF LegacyGlobal
<1>7. CASE LegacyGlobal(p) /\ global \notin {Nothing, Migrated}
    <2>1. PICK c, held : c \in Int /\ c = global.credential /\ held = [Enveloped(c) EXCEPT !.epoch = 1]
        BY <1>1 DEF CredentialCopy
    <2> DEFINE x == [y EXCEPT !.pc = "migrate_set", !.backend = "keyring", !.held = held]
    <2>2. Step(p, x) /\ y.pc = "legacy_global"
        BY <1>7, <2>1 DEF LegacyGlobal, In
    <2>3. /\ held \in CredentialCopy /\ held.credential = c /\ held.epoch = 1 /\ c > 0
          /\ global = Bare(c)
        <3>1. Enveloped(c) \in CredentialCopy /\ held \in CredentialCopy /\ held.credential = c
            BY <2>1, NextVersion
        <3>2. held.epoch = 1
            BY <2>1, <3>1 DEF CredentialCopy
        <3> QED
            BY <1>1, <1>7, <2>1, <3>1, <3>2 DEF LayoutOK
    <2>4. "migrate_set" \in PlacesOf(y.op) /\ "keyring" \in Backends
        BY <1>2 DEF PlacesOf, Legacy, Backends
    <2>5. Becomes(x, y, "migrate_set", held, "keyring", y.loaded)
        BY <1>1, <2>3, <2>4, Rewritten
    <2>6. LayoutOK' /\ Keeps(p) /\ UNCHANGED <<marker, slot, global, file>>
        BY <1>1, <1>2, KeptAsItWas DEF stores
    <2>7. /\ Becomes(holder'[p], y, "migrate_set", held, "keyring", y.loaded)
          /\ (y.op = "load" /\ y.alone /\ marker'.backend = "none" => AdoptOK(holder[p])')
                => AdoptionInd'
        <3> HIDE DEF x, y
        <3> QED
            BY <1>1, <2>2, <2>3, <2>4, <2>5, <2>6, AdoptionGoesOn DEF y
    <2>8. y.op = "load" /\ y.alone /\ marker'.backend = "none" => AdoptOK(holder[p])'
        BY <1>1, <2>2, <2>3, <2>6, <2>7 DEF AdoptOK, Becomes
    <2> QED
        BY <2>6, <2>7, <2>8
<1> QED
    BY <1>4, <1>5, <1>6, <1>7

LEMMA MigrationAdopts ==
    ASSUME CredentialInd, AdoptionInd, Remember, NEW p \in Holders,
           MigrateSet(p) \/ RetireGlobal(p)
    PROVE  AdoptionInd' /\ Keeps(p)
<1> DEFINE y == holder[p]
<1>1. /\ y \in HolderType /\ RecordFits(y) /\ y.held \in CredentialCopy /\ y.held.epoch \in Nat
      /\ y.loaded \in Int \X Int /\ y.backend \in Backends /\ y.held.credential \in Int
      /\ y.pc \in Carrying => y.held.epoch > 0 /\ y.held.credential > 0
      /\ y.op = "load" /\ y.alone /\ marker.backend = "none" => AdoptOK(y)
      /\ LayoutOK
    BY AdoptionHas
<1>2. /\ y.pc \in {"migrate_set", "migrate_retire", "retire"} /\ y.op = "load"
      /\ marker' = marker /\ file' = file
    BY <1>1 DEF MigrateSet, RetireGlobal, In, RecordFits, PlacesOf, HolderType, Writing
<1>3. y.held.epoch > 0 /\ y.held.credential > 0 /\ y.held # Nothing
    BY <1>1, <1>2, CredentialRecords DEF Carrying
<1>4. CASE MigrateSet(p)
    <2> DEFINE x == [y EXCEPT !.pc = "migrate_retire"]
    <2>1. y.pc = "migrate_set" /\ slot' = y.held /\ global' = global /\ y.backend = "keyring"
        BY <1>1, <1>4 DEF MigrateSet, In, RecordFits
    <2>2. "migrate_retire" \in PlacesOf(y.op) /\ Step(p, x)
        BY <1>2, <1>4 DEF MigrateSet, GoTo, PlacesOf, Legacy
    <2>3. Becomes(x, y, "migrate_retire", y.held, y.backend, y.loaded)
        BY <1>1, <2>2, Rewritten
    <2>4. LayoutOK'
        BY <1>1, <1>2, <1>3, <2>1, LayoutKept
    <2>5. /\ Becomes(holder'[p], y, "migrate_retire", y.held, y.backend, y.loaded)
          /\ (y.op = "load" /\ y.alone /\ marker'.backend = "none" => AdoptOK(holder[p])')
                => AdoptionInd'
        <3> HIDE DEF x, y
        <3> QED
            BY <1>1, <1>3, <2>2, <2>3, <2>4, AdoptionGoesOn DEF y
    <2>6. AdoptOK(holder[p])'
        BY <2>1, <2>5 DEF AdoptOK, Becomes
    <2>7. ASSUME y.alone, marker.backend = "none" PROVE Loadable' \in Stray
        <3>1. DefaultDirectory /\ global = Bare(y.held.credential)
            BY <1>1, <1>2, <2>1, <2>7 DEF AdoptOK
        <3>2. Loadable' = y.held.credential
            BY <1>2, <1>3, <2>1, <2>7, <3>1, AdoptableIs DEF Loadable
        <3>3. global.credential = y.held.credential
            BY <3>1 DEF Bare, Nothing
        <3> QED
            BY <1>1, <1>3, <3>1, <3>2, <3>3, StrayIs
    <2> QED
        BY <2>5, <2>6, <2>7 DEF Keeps
<1>5. CASE RetireGlobal(p) /\ global \notin {Nothing, Migrated, Bare(y.held.credential)}
    <2>1. Return(p, y.loaded) /\ UNCHANGED stores
        BY <1>5 DEF RetireGlobal, stores
    <2> QED
        BY <1>1, <2>1, KeptAsItWas, AdoptionEnds
<1>6. CASE RetireGlobal(p) /\ global \in {Nothing, Migrated, Bare(y.held.credential)}
    <2>1. PICK pc \in {"adopt_mark", "mark"} : pc = IF y.pc = "retire" THEN "adopt_mark" ELSE "mark"
        OBVIOUS
    <2> DEFINE x == [y EXCEPT !.pc = pc]
    <2>2. Step(p, x) /\ global' \in {Nothing, Migrated} /\ slot' = slot
        BY <1>6, <2>1 DEF RetireGlobal, GoTo
    <2>3. pc \in PlacesOf(y.op)
        BY <1>2 DEF PlacesOf, Legacy, Writing
    <2>4. Becomes(x, y, pc, y.held, y.backend, y.loaded)
        BY <1>1, <2>3, Rewritten
    <2>5. LayoutOK'
        BY <1>1, <1>2, <2>2, LayoutKept
    <2>6. /\ Becomes(holder'[p], y, pc, y.held, y.backend, y.loaded)
          /\ (y.op = "load" /\ y.alone /\ marker'.backend = "none" => AdoptOK(holder[p])')
                => AdoptionInd'
        <3> HIDE DEF x, y
        <3> QED
            BY <1>1, <1>3, <2>2, <2>3, <2>4, <2>5, AdoptionGoesOn DEF y
    <2>7. ASSUME y.alone, marker.backend = "none"
          PROVE  AdoptOK(holder[p])' /\ Loadable' \in Stray
        <3>1. slot = y.held /\ y.backend = "keyring"
            BY <1>1, <1>2, <1>6, <2>7 DEF AdoptOK, RetireGlobal
        <3>2. AdoptOK(holder[p])'
            BY <2>1, <2>2, <2>6, <3>1 DEF AdoptOK, Becomes, Copied
        <3>3. Loadable' = y.held.credential
            BY <1>2, <1>3, <2>2, <2>7, <3>1, AdoptableIs DEF Loadable, GlobalInUse
        <3> QED
            BY <1>1, <1>3, <3>1, <3>2, <3>3, StrayIs
    <2> QED
        BY <1>2, <2>6, <2>7 DEF Keeps
<1> QED
    BY <1>4, <1>5, <1>6

LEMMA AdoptionStep ==
    ASSUME CredentialInd, AdoptionInd, Remember, NEW p \in Holders, CredentialStep(p)
    PROVE  AdoptionInd' /\ Keeps(p)
<1>1. CASE StartSave(p) \/ StartLoad(p) \/ StartDelete(p)
    BY <1>1, StartsAdopt
<1>2. CASE SetPassword(p) \/ WriteFile(p) \/ MarkSaved(p) \/ AdoptMark(p)
    BY <1>2, SetPasswordAdopts, WriteFileAdopts, MarkSavedAdopts, AdoptMarkAdopts
<1>3. CASE \/ DropFallback(p) \/ GetPassword(p) \/ PurgeFile(p) \/ PurgeSlot(p)
           \/ Tombstone(p) \/ DeletePassword(p) \/ Raise(p)
    BY <1>3, OthersAdopt
<1>4. CASE ReadFallback(p) \/ PromoteSet(p)
    BY <1>4, PromotionAdopts
<1>5. CASE LegacyProfile(p) \/ LegacyFile(p) \/ LegacyGlobal(p) \/ MigrateSet(p) \/ RetireGlobal(p)
    BY <1>5, LegacyAdopts, MigrationAdopts
<1> QED
    BY <1>1, <1>2, <1>3, <1>4, <1>5 DEF CredentialStep

(* The marker never becomes absent.                                        *)
LEMMA MarkerStays ==
    ASSUME CredentialInd, NEW p \in Holders, CredentialStep(p), marker.backend # "none"
    PROVE  marker'.backend # "none"
<1>1. CASE MarkSaved(p) \/ AdoptMark(p) \/ Tombstone(p)
    <2>1. RecordFits(holder[p]) /\ marker'.backend = holder[p].backend
        BY <1>1, CallHas DEF MarkSaved, AdoptMark, Tombstone, Authority
    <2>2. holder[p].pc \in {"mark", "adopt_mark"} \/ holder[p].op = "delete"
        BY <1>1 DEF MarkSaved, AdoptMark, Tombstone, In
    <2> QED
        BY <2>1, <2>2 DEF RecordFits
<1>2. CASE marker' = marker
    BY <1>2
<1> QED
    BY <1>1, <1>2 DEF CredentialStep, StartSave, SetPassword, WriteFile, DropFallback, StartLoad,
       GetPassword, PurgeFile, PurgeSlot, ReadFallback, PromoteSet, LegacyProfile, LegacyFile,
       LegacyGlobal, MigrateSet, RetireGlobal, StartDelete, DeletePassword, Raise, stores

-----------------------------------------------------------------------------
(* The credential: the theorems.                                           *)

LEMMA CredentialStart ==
    ASSUME CredentialInit
    PROVE  CredentialInd /\ AdoptionInd
<1>1. Bare(1) \in CredentialCopy /\ Bare(1).credential = 1
    BY CredentialRecords DEF Bare, CredentialCopy
<1>2. spent \in Counts /\ spent.saves = 0 /\ gone = {} /\ marker \in MarkerRow
    BY CredentialRecords DEF CredentialInit, Counts
<1>3. {slot, global, file} \subseteq {Nothing, Bare(1)}
    BY DEF CredentialInit
<1>4. holder \in [Holders -> Calls] /\ \A p \in Holders : holder[p] = Resting
    BY CredentialRecords DEF CredentialInit
<1>5. CredentialTypeOK
    BY <1>1, <1>2, <1>3, <1>4, CredentialRecords DEF CredentialTypeOK
<1>6. AllIssued
    BY <1>1, <1>2, <1>3, <1>4, CredentialRecords DEF AllIssued
<1>7. \A p \in Holders : CallOK(holder[p])
    BY <1>4, CredentialRecords DEF CallOK
<1>8. LayoutOK
    <2>1. /\ slot \in {Nothing, Bare(1)} /\ file \in {Nothing, Bare(1)}
          /\ global = Nothing \/ (global = Bare(1) /\ slot = Nothing /\ file = Nothing)
        BY DEF CredentialInit
    <2> QED
        BY <1>1, <2>1 DEF LayoutOK
<1>9. \A p \in Holders : CarriesOK(holder[p]) /\ holder[p].op # "load"
    BY <1>4 DEF CarriesOK, Carrying, Writing, Resting
<1> QED
    BY <1>5, <1>6, <1>7, <1>8, <1>9 DEF CredentialInd, AdoptionInd

LEMMA CredentialStays ==
    ASSUME CredentialInd, AdoptionInd, [CredentialNext]_credentialVars
    PROVE  CredentialInd' /\ AdoptionInd'
<1>1. CASE CredentialNext
    BY <1>1, CredentialStepKeeps, AdoptionStep DEF CredentialNext
<1>2. CASE UNCHANGED credentialVars
    <2>1. /\ UNCHANGED <<marker, slot, global, file, holder, gone, spent>>
        BY <1>2 DEF credentialVars
    <2>2. Authoritative' = Authoritative
        BY <2>1, AuthoritativeIs
    <2>3. CredentialTypeOK' /\ AllIssued'
        BY <2>1 DEF CredentialInd, CredentialTypeOK, AllIssued
    <2>4. ASSUME NEW p \in Holders PROVE CallOK(holder[p])'
        <3>1. CallOK(holder[p])
            BY DEF CredentialInd
        <3>2. Promoting(holder[p])' <=> Promoting(holder[p])
            BY <2>1 DEF Promoting, Matches, VersionOf
        <3> QED
            BY <2>1, <2>2, <3>1, <3>2 DEF CallOK, SaveOK, LoadOK, VersionOf
    <2>5. AdoptionInd'
        <3>1. Stray' = Stray /\ (GlobalInUse' <=> GlobalInUse)
            BY <2>1 DEF Stray, GlobalInUse
        <3> QED
            BY <2>1, <3>1 DEF AdoptionInd, LayoutOK, CarriesOK, AdoptOK, Copied
    <2> QED
        BY <2>3, <2>4, <2>5 DEF CredentialInd
<1> QED
    BY <1>1, <1>2

LEMMA CredentialAlways == CredentialSpec => [](CredentialInd /\ AdoptionInd)
<1>1. CredentialInit => CredentialInd /\ AdoptionInd
    BY CredentialStart
<1>2. CredentialInd /\ AdoptionInd /\ [CredentialNext]_credentialVars
        => (CredentialInd /\ AdoptionInd)'
    BY CredentialStays
<1> QED
    BY <1>1, <1>2, PTL DEF CredentialSpec

(* NoResurrection, for any number of processes, calls and failures: what   *)
(* was deleted, replaced or lost is never loaded again, unless by a save   *)
(* or a load that another process overlapped (credentials.py: delete,      *)
(* _load_authoritative_file).                                              *)
THEOREM GoneStaysGone == CredentialSpec => NoResurrection
<1>1. CredentialInd /\ [CredentialNext]_credentialVars
        => [Loadable' \in gone
              => Loadable' = Loadable \/ \E p \in Holders : Moves(p) /\ Disturbed(p)]_credentialVars
    <2> SUFFICES ASSUME CredentialInd, CredentialNext, Loadable' \in gone
                 PROVE  Loadable' = Loadable \/ \E p \in Holders : Moves(p) /\ Disturbed(p)
        OBVIOUS
    <2>1. PICK p \in Holders : CredentialStep(p) /\ Remember
        BY DEF CredentialNext
    <2>2. Promised(p)
        BY <2>1, CredentialStepKeeps
    <2>3. marker.backend # "none"
        BY DEF CredentialInd, AllIssued
    <2>4. Loadable = Authoritative /\ Loadable' = Authoritative'
        BY <2>1, <2>3, MarkerStays, UnderMarker
    <2> QED
        BY <2>2, <2>4, StepIsSeen DEF Promised
<1> QED
    BY <1>1, CredentialAlways, PTL DEF CredentialSpec, NoResurrection

(* UndisturbedCallsWork, for any number of processes: a load that nobody   *)
(* overlaps keeps the credential loadable at each of its steps, those of   *)
(* an adoption or a migration included, and a save that nobody overlaps    *)
(* takes effect (credentials.py: load, save; _credential_legacy.py:        *)
(* load_legacy).                                                           *)
THEOREM CallsKeepWord == CredentialSpec => UndisturbedCallsWork
<1>1. CredentialInd /\ AdoptionInd /\ [CredentialNext]_credentialVars
        => [\A p \in Holders :
              Moves(p) /\ holder[p].op = "load" /\ holder[p].alone /\ Loadable # 0
                  => Loadable' \in IF marker.backend = "none" THEN Stray
                                  ELSE {Loadable}]_credentialVars
    <2> SUFFICES ASSUME CredentialInd, AdoptionInd, CredentialNext, NEW q \in Holders, Moves(q),
                        holder[q].op = "load", holder[q].alone, Loadable # 0
                 PROVE  Loadable' \in IF marker.backend = "none" THEN Stray ELSE {Loadable}
        OBVIOUS
    <2>1. PICK p \in Holders : CredentialStep(p) /\ Remember
        BY DEF CredentialNext
    <2>2. Promised(p) /\ Keeps(p)
        BY <2>1, CredentialStepKeeps, AdoptionStep
    <2>3. q = p
        BY <2>2, StepIsSeen
    <2>4. CASE marker.backend = "none"
        BY <2>2, <2>3, <2>4 DEF Keeps
    <2>5. CASE marker.backend # "none"
        <3>1. Loadable = Authoritative /\ Loadable' = Authoritative'
            BY <2>1, <2>5, MarkerStays, UnderMarker
        <3> QED
            BY <2>2, <2>3, <2>5, <3>1 DEF Promised
    <2> QED
        BY <2>4, <2>5
<1>2. CredentialInd /\ [CredentialNext]_credentialVars
        => [\A p \in Holders :
              Moves(p) /\ In(p, "save", holder[p].pc) /\ holder[p].alone
                  /\ holder'[p].loaded = VersionOf(holder[p].held)
                  => Loadable' = holder[p].held.credential]_credentialVars
    <2> SUFFICES ASSUME CredentialInd, CredentialNext, NEW q \in Holders, Moves(q),
                        In(q, "save", holder[q].pc), holder[q].alone,
                        holder'[q].loaded = VersionOf(holder[q].held)
                 PROVE  Loadable' = holder[q].held.credential
        OBVIOUS
    <2>1. PICK p \in Holders : CredentialStep(p) /\ Remember
        BY DEF CredentialNext
    <2>2. Promised(p)
        BY <2>1, CredentialStepKeeps
    <2>3. q = p
        BY <2>2, StepIsSeen
    <2>4. Authoritative' = holder[q].held.credential
        BY <2>2, <2>3 DEF Promised, In
    <2>5. holder[q].held.credential \in Int /\ holder[q].held.credential > 0
        BY CallHas DEF In, RecordFits
    <2>6. marker'.backend # "none"
        BY <2>4, <2>5, AuthoritativeIs
    <2> QED
        BY <2>4, <2>6, UnderMarker
<1> QED
    BY <1>1, <1>2, CredentialAlways, PTL
    DEF CredentialSpec, UndisturbedCallsWork, LoadLosesNothing, SaveTakesEffect

-----------------------------------------------------------------------------
(* The service: types.                                                     *)

Sys == [art : Definitions, loaded : Definitions, enabled : BOOLEAN, running : Definitions]

UndoSteps ==
    CASE platform = "linux" -> {"stop", "disable", "put_back", "reload", "enable", "start"}
      [] platform = "darwin" -> {"bootout", "put_back", "enable", "disable", "bootstrap", "kickstart"}
      [] platform = "win32" -> {"stop", "delete", "put_back", "start"}
Steps == {"write", "reload", "enable", "start", "ready", "stop", "disable", "erase", "put_back",
          "bootout", "bootstrap", "kickstart", "register", "start_and_wait", "delete"}

CommandType == [action : {"install", "remove"}, plan : Seq(Steps), undoing : BOOLEAN, was : Sys,
                loaded : BOOLEAN, faults : Nat, blind : BOOLEAN, gaveUp : BOOLEAN]

(* What holds of an installation on each platform, whatever failed before: *)
(* launchd runs only what it has loaded, and what it has loaded is never   *)
(* older than the file of this version; the scheduler's definition is its  *)
(* registration.                                                           *)
PlatformOK(s) ==
    /\ platform = "darwin" => /\ Runs(s) => Loaded(s)
                              /\ s.art = "new" => {s.loaded, s.running} \subseteq {"none", "new"}
    /\ platform = "win32" => /\ s.art # "foreign" => s.loaded = s.art
                             /\ s.art = "none" => ~ s.enabled

-----------------------------------------------------------------------------
(* The service: what a command has reached, by the steps it has left.      *)

Idle(s) == ~ Runs(s) /\ ~ Loaded(s)
Current == sys.art = "new" /\ sys.loaded = "new" /\ sys.enabled

LinuxInstalling(plan, was) ==
    \/ plan = <<"write", "reload", "enable", "start", "ready">> /\ sys = was
    \/ /\ plan = <<"reload", "enable", "start", "ready">> /\ sys.art = "new"
       /\ sys.loaded = was.loaded /\ sys.enabled = was.enabled /\ sys.running = was.running
    \/ /\ plan = <<"enable", "start", "ready">>
       /\ sys.art = "new" /\ sys.loaded = "new" /\ sys.running = was.running
    \/ plan = <<"start", "ready">> /\ Current /\ sys.running = was.running
    \/ /\ plan \in {<<"ready">>, <<>>} /\ Current
       /\ sys.running = "new" \/ (Runs(was) /\ Runs(sys))

LinuxRemoving(plan, was) ==
    \/ plan = <<"stop", "disable", "erase", "reload">> /\ sys = was
    \/ /\ plan = <<"disable", "erase", "reload">>
       /\ sys.art = was.art /\ sys.loaded = was.loaded /\ sys.enabled = was.enabled /\ ~ Runs(sys)
    \/ /\ plan = <<"erase", "reload">>
       /\ sys.art = was.art /\ sys.loaded = was.loaded /\ ~ sys.enabled /\ ~ Runs(sys)
    \/ /\ plan = <<"reload">>
       /\ sys.art = "none" /\ sys.loaded = was.loaded /\ ~ sys.enabled /\ ~ Runs(sys)
    \/ plan = <<>> /\ sys = Absent("none")

DarwinInstalling(plan, was) ==
    \/ plan = <<"bootout", "write", "enable", "bootstrap", "kickstart", "ready">> /\ sys = was
       /\ ~ cmd.loaded
    \/ /\ plan = <<"write", "enable", "bootstrap", "kickstart", "ready">>
       /\ Idle(sys) /\ sys.art = was.art /\ ~ cmd.loaded
    \/ /\ plan = <<"enable", "bootstrap", "kickstart", "ready">>
       /\ Idle(sys) /\ sys.art = "new" /\ ~ cmd.loaded
    \/ /\ plan = <<"bootstrap", "kickstart", "ready">>
       /\ Idle(sys) /\ sys.art = "new" /\ sys.enabled /\ ~ cmd.loaded
    \/ plan = <<"kickstart", "ready">> /\ Current /\ sys.running = "new" /\ cmd.loaded
    \/ plan \in {<<"ready">>, <<>>} /\ Current /\ sys.running = "new" /\ (cmd.loaded \/ sys = was)

DarwinRemoving(plan, was) ==
    /\ ~ cmd.loaded
    /\ \/ plan = <<"bootout", "disable", "erase">> /\ sys = was
       \/ plan = <<"disable", "erase">> /\ Idle(sys) /\ sys.art = was.art
       \/ plan = <<"erase">> /\ Idle(sys) /\ sys.art = was.art /\ ~ sys.enabled
       \/ plan = <<>> /\ sys = Absent("none")

WindowsInstalling(plan, was) ==
    \/ plan = <<"register", "start_and_wait", "ready">> /\ sys = was /\ Changed(was)
    \/ plan = <<"start_and_wait", "ready">> /\ Current /\ (sys = was \/ Changed(was))
    \/ /\ plan \in {<<"ready">>, <<>>} /\ Current
       /\ sys.running = "new" \/ (Runs(sys) /\ sys = was)

WindowsRemoving(plan, was) ==
    \/ plan = <<"stop", "delete">> /\ sys = was
    \/ /\ plan = <<"delete">> /\ ~ Runs(sys)
       /\ sys.art = was.art /\ sys.loaded = was.loaded /\ sys.enabled = was.enabled
    \/ plan = <<>> /\ sys = Absent("none")

Going(plan, action, was) ==
    CASE platform = "linux" -> IF action = "install" THEN LinuxInstalling(plan, was)
                               ELSE LinuxRemoving(plan, was)
      [] platform = "darwin" -> IF action = "install" THEN DarwinInstalling(plan, was)
                                ELSE DarwinRemoving(plan, was)
      [] platform = "win32" -> IF action = "install" THEN WindowsInstalling(plan, was)
                               ELSE WindowsRemoving(plan, was)

(* What a rollback has restored so far.                                    *)
LinuxStarting(was) == If(Runs(was), <<"start">>)
LinuxUndoing(plan, was) ==
    \/ plan = <<"stop", "disable", "put_back", "reload">> \o LinuxRestore(was)
    \/ plan = <<"disable", "put_back", "reload">> \o LinuxRestore(was) /\ ~ Runs(sys)
    \/ /\ plan = <<"put_back", "reload">> \o LinuxRestore(was) /\ ~ Runs(sys) /\ ~ sys.enabled
    \/ /\ plan = <<"reload">> \o LinuxRestore(was) /\ ~ Runs(sys) /\ ~ sys.enabled
       /\ sys.art = was.art
    \/ /\ sys.loaded \in {"none", was.art} /\ (Runs(sys) => Runs(was))
       /\ \/ /\ plan = <<"put_back">> \o LinuxRestore(was) /\ (sys.enabled => was.enabled)
          \/ plan = LinuxRestore(was) /\ sys.art = was.art /\ (sys.enabled => was.enabled)
          \/ plan = LinuxStarting(was) /\ sys.art = was.art /\ sys.enabled = was.enabled
    \/ plan = <<>> /\ Restored(was)

DarwinLoading(was) == If(Loaded(was), <<"bootstrap">> \o If(Runs(was), <<"kickstart">>))
DarwinUndoing(plan, was) ==
    \/ plan = <<"bootout">> \o (<<"put_back">> \o (EnableAs(was) \o DarwinLoading(was)))
    \/ /\ ~ Loaded(was) => Idle(sys)
       /\ \/ plan = <<"put_back">> \o (EnableAs(was) \o DarwinLoading(was))
          \/ plan = EnableAs(was) \o DarwinLoading(was) /\ sys.art = was.art
          \/ plan = DarwinLoading(was) /\ sys.art = was.art /\ sys.enabled = was.enabled
    \/ plan = <<"kickstart">> /\ Restored(was) /\ Runs(sys)
    \/ plan = <<>> /\ Restored(was)

WindowsBack(was) ==
    IF was.art = "none" THEN <<"delete">> ELSE <<"put_back">> \o If(Runs(was), <<"start">>)
WindowsUndoing(plan, was) ==
    \/ plan = <<"stop">> \o WindowsBack(was) /\ (Runs(sys) => sys.art # "none")
    \/ plan = WindowsBack(was) /\ ~ Runs(sys)
    \/ /\ plan = If(Runs(was), <<"start">>) /\ was.art # "none"
       /\ sys.art = was.art /\ sys.enabled = was.enabled /\ ~ Runs(sys)
    \/ plan = <<>> /\ Restored(was)

Undoing(plan, was) ==
    CASE platform = "linux" -> LinuxUndoing(plan, was)
      [] platform = "darwin" -> DarwinUndoing(plan, was)
      [] platform = "win32" -> WindowsUndoing(plan, was)

CommandOK ==
    /\ cmd \in CommandType
    /\ ~ Refused(cmd.was) /\ PlatformOK(cmd.was)
    /\ cmd.action = "remove" => cmd.was.art # "none"
    /\ ~ cmd.undoing => Going(cmd.plan, cmd.action, cmd.was)
    /\ cmd.undoing =>
         /\ cmd.plan \in Seq(UndoSteps) /\ cmd.faults > 0
         /\ platform = "darwin" /\ cmd.was.art = "new" => sys.art = "new"
         /\ cmd.faults <= 1 /\ ~ cmd.blind /\ ~ cmd.gaveUp /\ InStep(cmd.was) =>
              Undoing(cmd.plan, cmd.was)
    /\ cmd.gaveUp => /\ cmd.undoing /\ cmd.plan = <<>> /\ platform # "darwin"
                     /\ cmd.faults <= 1 => LeftBehind

ServiceInd ==
    /\ platform \in {"linux", "darwin", "win32"}
    /\ sys \in Sys /\ PlatformOK(sys)
    /\ cmd = NoCommand \/ CommandOK
-----------------------------------------------------------------------------
(* The service: plans and calls.                                           *)

(* The steps of a plan, taken off one by one.                              *)
LEMMA FirstStep ==
    ASSUME NEW S, NEW a \in S, NEW rest \in Seq(S)
    PROVE  /\ <<a>> \o rest \in Seq(S) /\ <<a>> \o rest # <<>>
           /\ Head(<<a>> \o rest) = a /\ Tail(<<a>> \o rest) = rest
           /\ rest # <<>> => Head(rest) \in S /\ Tail(rest) \in Seq(S)
<1> DEFINE plan == <<a>> \o rest
<1>1. plan \in Seq(S) /\ Len(plan) = Len(rest) + 1 /\ plan[1] = a
      /\ \A i \in 1..Len(rest) : plan[i + 1] = rest[i]
    OBVIOUS
<1>2. plan # <<>> /\ Head(plan) = a
    BY <1>1
<1>3. Tail(plan) \in Seq(S) /\ Len(Tail(plan)) = Len(rest)
      /\ \A i \in 1..Len(rest) : Tail(plan)[i] = rest[i]
    BY <1>1, <1>2
<1>4. Tail(plan) = rest
    BY <1>3, SeqEqual
<1>5. rest # <<>> => Head(rest) \in S /\ Tail(rest) \in Seq(S)
    OBVIOUS
<1> QED
    BY <1>1, <1>2, <1>4, <1>5

(* The fields of what a call makes of the service.                         *)
SysIs(t, art, loaded, enabled, running) ==
    /\ t \in Sys /\ t.art = art /\ t.loaded = loaded /\ t.enabled = enabled
    /\ t.running = running

LEMMA SysFields ==
    ASSUME NEW s \in Sys
    PROVE  /\ s.art \in Definitions /\ s.loaded \in Definitions /\ s.enabled \in BOOLEAN
           /\ s.running \in Definitions /\ Effective(s) \in Definitions
BY DEF Sys, Effective

LEMMA CallEffects ==
    ASSUME sys \in Sys, cmd.was \in Sys
    PROVE  /\ \A step \in {"write", "register"} :
                SysIs(After(step), "new", IF platform = "win32" THEN "new" ELSE sys.loaded,
                      IF platform = "win32" THEN TRUE ELSE sys.enabled, sys.running)
           /\ SysIs(After("put_back"), cmd.was.art,
                    IF platform = "win32" THEN cmd.was.art ELSE sys.loaded,
                    IF platform = "win32" THEN cmd.was.enabled ELSE sys.enabled, sys.running)
           /\ \A step \in {"erase", "delete"} :
                SysIs(After(step), "none", IF platform = "win32" THEN "none" ELSE sys.loaded,
                      IF platform = "win32" THEN FALSE ELSE sys.enabled, sys.running)
           /\ SysIs(After("reload"), sys.art, sys.art, sys.enabled, sys.running)
           /\ SysIs(After("enable"), sys.art, sys.loaded, TRUE, sys.running)
           /\ SysIs(After("disable"), sys.art, sys.loaded, FALSE, sys.running)
           /\ \A step \in {"start", "kickstart", "start_and_wait"} :
                IF Runs(sys) THEN After(step) = sys
                ELSE SysIs(After(step), sys.art, Effective(sys), sys.enabled, Effective(sys))
           /\ SysIs(After("stop"), sys.art, sys.loaded, sys.enabled, "none")
           /\ SysIs(After("bootstrap"), sys.art, sys.art, sys.enabled, sys.art)
           /\ SysIs(After("bootout"), sys.art, "none", sys.enabled, "none")
           /\ After("ready") = sys
<1>1. /\ sys.art \in Definitions /\ sys.loaded \in Definitions /\ sys.enabled \in BOOLEAN
      /\ sys.running \in Definitions /\ Effective(sys) \in Definitions
      /\ cmd.was.art \in Definitions /\ cmd.was.enabled \in BOOLEAN
    BY SysFields
<1>2. "none" \in Definitions /\ "new" \in Definitions
    BY DEF Definitions
<1>3. ASSUME NEW art \in Definitions, NEW enabled \in BOOLEAN
      PROVE  SysIs(Defined(art, enabled), art, IF platform = "win32" THEN art ELSE sys.loaded,
                   IF platform = "win32" THEN enabled ELSE sys.enabled, sys.running)
    BY DEF Defined, SysIs, Sys
<1>4. \A step \in {"write", "register"} : After(step) = Defined("new", TRUE)
    BY DEF After
<1>5. After("put_back") = Defined(cmd.was.art, cmd.was.enabled)
    BY DEF After
<1>6. \A step \in {"erase", "delete"} : After(step) = Defined("none", FALSE)
    BY DEF After
<1>7. After("reload") = [sys EXCEPT !.loaded = sys.art]
    BY DEF After
<1>8. After("enable") = [sys EXCEPT !.enabled = TRUE]
    BY DEF After
<1>9. After("disable") = [sys EXCEPT !.enabled = FALSE]
    BY DEF After
<1>10. \A step \in {"start", "kickstart", "start_and_wait"} : After(step) = Started
    BY DEF After
<1>11. After("stop") = [sys EXCEPT !.running = "none"]
    BY DEF After
<1>12. After("bootstrap") = [sys EXCEPT !.loaded = sys.art, !.running = sys.art]
    BY DEF After
<1>13. After("bootout") = [sys EXCEPT !.loaded = "none", !.running = "none"]
    BY DEF After
<1>14. After("ready") = sys
    BY DEF After
<1>15. IF Runs(sys) THEN Started = sys
       ELSE SysIs(Started, sys.art, Effective(sys), sys.enabled, Effective(sys))
    BY <1>1 DEF Started, SysIs, Sys
<1>16. /\ SysIs([sys EXCEPT !.loaded = sys.art], sys.art, sys.art, sys.enabled, sys.running)
       /\ SysIs([sys EXCEPT !.enabled = TRUE], sys.art, sys.loaded, TRUE, sys.running)
       /\ SysIs([sys EXCEPT !.enabled = FALSE], sys.art, sys.loaded, FALSE, sys.running)
       /\ SysIs([sys EXCEPT !.running = "none"], sys.art, sys.loaded, sys.enabled, "none")
       /\ SysIs([sys EXCEPT !.loaded = sys.art, !.running = sys.art],
                sys.art, sys.art, sys.enabled, sys.art)
       /\ SysIs([sys EXCEPT !.loaded = "none", !.running = "none"],
                sys.art, "none", sys.enabled, "none")
    BY <1>1, <1>2 DEF SysIs, Sys
<1>17. \A step \in {"write", "register"} :
         SysIs(After(step), "new", IF platform = "win32" THEN "new" ELSE sys.loaded,
               IF platform = "win32" THEN TRUE ELSE sys.enabled, sys.running)
    BY <1>2, <1>3, <1>4
<1>18. \A step \in {"erase", "delete"} :
         SysIs(After(step), "none", IF platform = "win32" THEN "none" ELSE sys.loaded,
               IF platform = "win32" THEN FALSE ELSE sys.enabled, sys.running)
    BY <1>2, <1>3, <1>6
<1>19. SysIs(After("put_back"), cmd.was.art,
             IF platform = "win32" THEN cmd.was.art ELSE sys.loaded,
             IF platform = "win32" THEN cmd.was.enabled ELSE sys.enabled, sys.running)
    BY <1>1, <1>3, <1>5
<1> QED
    BY <1>7, <1>8, <1>9, <1>10, <1>11, <1>12, <1>13, <1>14, <1>15, <1>16, <1>17, <1>18, <1>19
(* Short plans are plans.                                                  *)
LEMMA ShortPlans ==
    ASSUME NEW S
    PROVE  /\ <<>> \in Seq(S) /\ \A a \in S : <<a>> \in Seq(S)
           /\ \A a, b, c, d \in S : <<a, b, c, d>> \in Seq(S)
OBVIOUS

(* What the calls of a plan do to the command.                             *)
LEMMA Proceeding ==
    ASSUME cmd \in CommandType, Proceed
    PROVE  /\ cmd.plan # <<>> /\ Call \in Steps /\ Possible(Call) /\ sys' = After(Call)
           /\ cmd' \in CommandType /\ cmd'.plan = Tail(cmd.plan) /\ cmd'.action = cmd.action
           /\ cmd'.undoing = cmd.undoing /\ cmd'.was = cmd.was /\ cmd'.faults = cmd.faults
           /\ cmd'.blind = cmd.blind /\ cmd'.gaveUp = cmd.gaveUp /\ platform' = platform
           /\ cmd'.loaded = (cmd.loaded \/ (Call = "bootstrap" /\ ~ cmd.undoing))
<1>1. /\ cmd.plan # <<>> /\ Possible(Call) /\ sys' = After(Call) /\ platform' = platform
      /\ cmd' = [cmd EXCEPT !.plan = Tail(@), !.loaded = @ \/ (Call = "bootstrap" /\ ~ cmd.undoing)]
    BY DEF Proceed
<1>2. cmd.plan \in Seq(Steps)
    BY DEF CommandType
<1>3. Head(cmd.plan) \in Steps /\ Tail(cmd.plan) \in Seq(Steps)
    BY <1>1, <1>2
<1>4. PICK rest, b : rest = Tail(cmd.plan) /\ b = (cmd.loaded \/ (Call = "bootstrap" /\ ~ cmd.undoing))
    OBVIOUS
<1>5. cmd' = [cmd EXCEPT !.plan = rest, !.loaded = b] /\ b \in BOOLEAN /\ rest \in Seq(Steps)
    BY <1>1, <1>3, <1>4
<1>6. /\ cmd' \in CommandType /\ cmd'.plan = rest /\ cmd'.action = cmd.action
      /\ cmd'.undoing = cmd.undoing /\ cmd'.was = cmd.was /\ cmd'.faults = cmd.faults
      /\ cmd'.blind = cmd.blind /\ cmd'.gaveUp = cmd.gaveUp /\ cmd'.loaded = b
    BY <1>5 DEF CommandType
<1> QED
    BY <1>1, <1>3, <1>4, <1>6 DEF Call

(* The plan after a failure.                                               *)
PlanAfterFailure ==
    IF ~ cmd.undoing THEN IF Call = "bootout" THEN <<>> ELSE UndoPlan
    ELSE IF platform # "darwin" \/ Call = "bootout" THEN Tail(cmd.plan)
    ELSE IF Call = "put_back" THEN EnableAs(cmd.was) ELSE <<>>

LEMMA Failing ==
    ASSUME cmd \in CommandType, Fail, UndoPlan \in Seq(Steps)
    PROVE  /\ cmd.plan # <<>> /\ Call \in Steps /\ ~ OnUnitFile /\ platform' = platform
           /\ cmd' \in CommandType /\ cmd'.plan = PlanAfterFailure /\ cmd'.undoing = TRUE
           /\ cmd'.action = cmd.action /\ cmd'.was = cmd.was /\ cmd'.loaded = cmd.loaded
           /\ cmd'.gaveUp = cmd.gaveUp
           /\ \/ /\ sys' = sys /\ cmd'.blind = cmd.blind
                 /\ cmd'.faults = IF cmd.undoing /\ ~ Possible(Call) THEN cmd.faults
                                  ELSE cmd.faults + 1
              \/ /\ Possible(Call) /\ MayBeLate(Call) /\ sys' = After(Call)
                 /\ cmd'.faults = cmd.faults + 1 /\ cmd'.blind = (cmd.blind \/ Call = "bootstrap")
<1>1. cmd.plan # <<>> /\ ~ OnUnitFile /\ platform' = platform
    BY DEF Fail
<1>2. /\ cmd.plan \in Seq(Steps) /\ cmd.faults \in Nat /\ cmd.undoing \in BOOLEAN
      /\ cmd.blind \in BOOLEAN
    BY DEF CommandType
<1>3. Call \in Steps /\ Tail(cmd.plan) \in Seq(Steps)
    BY <1>1, <1>2 DEF Call
<1>4. EnableAs(cmd.was) \in Seq(Steps) /\ <<>> \in Seq(Steps)
    <2>1. "enable" \in Steps /\ "disable" \in Steps
        BY DEF Steps
    <2> QED
        BY <2>1, ShortPlans DEF EnableAs
<1>5. PlanAfterFailure \in Seq(Steps)
    BY <1>3, <1>4 DEF PlanAfterFailure
<1>6. PICK plan \in Seq(Steps) : plan = PlanAfterFailure
    BY <1>5
<1>7. PICK turned : turned = AfterFailure
    OBVIOUS
<1>8. /\ turned \in CommandType /\ turned.plan = plan /\ turned.undoing = TRUE
      /\ turned.action = cmd.action /\ turned.was = cmd.was /\ turned.loaded = cmd.loaded
      /\ turned.faults = cmd.faults /\ turned.blind = cmd.blind /\ turned.gaveUp = cmd.gaveUp
    <2>1. CASE ~ cmd.undoing
        <3>1. turned = [cmd EXCEPT !.plan = plan, !.undoing = TRUE]
            BY <1>6, <1>7, <2>1 DEF AfterFailure, PlanAfterFailure
        <3> QED
            BY <3>1 DEF CommandType
    <2>2. CASE cmd.undoing
        <3>1. turned = [cmd EXCEPT !.plan = plan]
            BY <1>6, <1>7, <2>2 DEF AfterFailure, PlanAfterFailure
        <3> QED
            BY <1>2, <2>2, <3>1 DEF CommandType
    <2> QED
        BY <2>1, <2>2
<1>9. CASE /\ sys' = sys
           /\ cmd' = [turned EXCEPT !.faults = IF cmd.undoing /\ ~ Possible(Call) THEN @ ELSE @ + 1]
    <2>1. PICK n : n = IF cmd.undoing /\ ~ Possible(Call) THEN cmd.faults ELSE cmd.faults + 1
        OBVIOUS
    <2>2. n \in Nat /\ cmd' = [turned EXCEPT !.faults = n]
        BY <1>2, <1>8, <1>9, <2>1
    <2>3. /\ cmd' \in CommandType /\ cmd'.plan = plan /\ cmd'.undoing = TRUE
          /\ cmd'.action = cmd.action /\ cmd'.was = cmd.was /\ cmd'.loaded = cmd.loaded
          /\ cmd'.faults = n /\ cmd'.blind = cmd.blind /\ cmd'.gaveUp = cmd.gaveUp
        BY <1>8, <2>2 DEF CommandType
    <2> QED
        BY <1>1, <1>3, <1>6, <1>9, <2>1, <2>3
<1>10. CASE /\ Possible(Call) /\ MayBeLate(Call) /\ sys' = After(Call)
            /\ cmd' = [turned EXCEPT !.faults = @ + 1, !.blind = @ \/ Call = "bootstrap"]
    <2>1. PICK n, b : n = cmd.faults + 1 /\ b = (cmd.blind \/ Call = "bootstrap")
        OBVIOUS
    <2>2. n \in Nat /\ b \in BOOLEAN /\ cmd' = [turned EXCEPT !.faults = n, !.blind = b]
        BY <1>2, <1>8, <1>10, <2>1
    <2>3. /\ cmd' \in CommandType /\ cmd'.plan = plan /\ cmd'.undoing = TRUE
          /\ cmd'.action = cmd.action /\ cmd'.was = cmd.was /\ cmd'.loaded = cmd.loaded
          /\ cmd'.faults = n /\ cmd'.blind = b /\ cmd'.gaveUp = cmd.gaveUp
        BY <1>8, <2>2 DEF CommandType
    <2> QED
        BY <1>1, <1>3, <1>6, <1>10, <2>1, <2>3
<1> QED
    BY <1>7, <1>9, <1>10 DEF Fail

(* The plans of a rollback.                                                *)
LEMMA UndoPlans ==
    ASSUME platform \in {"linux", "darwin", "win32"}, cmd \in CommandType
    PROVE  /\ UndoSteps \subseteq Steps /\ UndoPlan \in Seq(UndoSteps)
           /\ platform = "linux" =>
                /\ LinuxRestore(cmd.was) \in Seq(UndoSteps)
                /\ LinuxStarting(cmd.was) \in Seq(UndoSteps)
                /\ LinuxRestore(cmd.was) = IF cmd.was.enabled THEN <<"enable">> \o LinuxStarting(cmd.was)
                                           ELSE LinuxStarting(cmd.was)
                /\ UndoPlan =
                     IF cmd.action = "install"
                     THEN <<"stop", "disable", "put_back", "reload">>
                          \o If(cmd.was.art # "none", LinuxRestore(cmd.was))
                     ELSE IF sys.art # cmd.was.art THEN <<"put_back">> \o LinuxRestore(cmd.was)
                     ELSE LinuxRestore(cmd.was)
           /\ platform = "darwin" =>
                /\ DarwinLoading(cmd.was) \in Seq(UndoSteps)
                /\ EnableAs(cmd.was) \o DarwinLoading(cmd.was) \in Seq(UndoSteps)
                /\ EnableAs(cmd.was) \in Seq(UndoSteps)
                /\ cmd.action = "install" /\ cmd.loaded =>
                     UndoPlan = <<"bootout">> \o (<<"put_back">> \o
                                    (EnableAs(cmd.was) \o DarwinLoading(cmd.was)))
                /\ cmd.action = "install" /\ ~ cmd.loaded =>
                     UndoPlan = <<"put_back">> \o (EnableAs(cmd.was) \o DarwinLoading(cmd.was))
                /\ cmd.action = "remove" /\ ~ cmd.loaded =>
                     UndoPlan = EnableAs(cmd.was) \o DarwinLoading(cmd.was)
           /\ platform = "win32" =>
                /\ WindowsBack(cmd.was) \in Seq(UndoSteps)
                /\ If(Runs(cmd.was), <<"start">>) \in Seq(UndoSteps)
                /\ UndoPlan = <<"stop">> \o WindowsBack(cmd.was)
<1> DEFINE was == cmd.was
<1>0. cmd.action \in {"install", "remove"} /\ cmd.loaded \in BOOLEAN /\ cmd.was \in Sys
    BY DEF CommandType
<1>1. UndoSteps \subseteq Steps
    BY DEF UndoSteps, Steps
<1>2. CASE platform = "linux"
    <2>1. UndoSteps = {"stop", "disable", "put_back", "reload", "enable", "start"}
        BY <1>2 DEF UndoSteps
    <2>2. /\ <<>> \in Seq(UndoSteps) /\ <<"enable">> \in Seq(UndoSteps)
          /\ <<"put_back">> \in Seq(UndoSteps)
          /\ <<"stop", "disable", "put_back", "reload">> \in Seq(UndoSteps)
          /\ LinuxStarting(was) \in Seq(UndoSteps)
        <3>1. {"enable", "put_back", "stop", "disable", "reload", "start"} \subseteq UndoSteps
            BY <2>1
        <3>2. LinuxStarting(was) \in {<<"start">>, <<>>}
            BY DEF LinuxStarting, If
        <3> QED
            BY <3>1, <3>2, ShortPlans
    <2>3. /\ was.enabled => LinuxRestore(was) = <<"enable">> \o LinuxStarting(was)
          /\ ~ was.enabled => LinuxRestore(was) = <<>> \o LinuxStarting(was)
        BY DEF LinuxRestore, LinuxStarting, If
    <2>4. <<>> \o LinuxStarting(was) = LinuxStarting(was)
        BY <2>2, ConcatEmptySeq
    <2>5. /\ LinuxRestore(was) = IF was.enabled THEN <<"enable">> \o LinuxStarting(was)
                                 ELSE LinuxStarting(was)
          /\ LinuxRestore(was) \in Seq(UndoSteps)
        BY <2>2, <2>3, <2>4, ConcatProperties
    <2>6. UndoPlan = LinuxUndo(was, cmd.action)
        BY <1>2 DEF UndoPlan
    <2>7. CASE cmd.action = "install"
        <3>1. UndoPlan = <<"stop", "disable", "put_back", "reload">>
                           \o If(was.art # "none", LinuxRestore(was))
            BY <2>6, <2>7 DEF LinuxUndo
        <3>2. If(was.art # "none", LinuxRestore(was)) \in Seq(UndoSteps)
            BY <2>2, <2>5 DEF If
        <3> QED
            BY <1>1, <1>2, <2>2, <2>5, <2>7, <3>1, <3>2, ConcatProperties
    <2>8. CASE cmd.action = "remove"
        <3>1. UndoPlan = IF sys.art # was.art THEN <<"put_back">> \o LinuxRestore(was)
                         ELSE <<>> \o LinuxRestore(was)
            BY <2>6, <2>8 DEF LinuxUndo, If
        <3>2. <<>> \o LinuxRestore(was) = LinuxRestore(was)
            BY <2>5, ConcatEmptySeq
        <3> QED
            BY <1>1, <1>2, <2>2, <2>5, <2>8, <3>1, <3>2, ConcatProperties
    <2> QED
        BY <1>0, <2>7, <2>8
<1>3. CASE platform = "darwin"
    <2>1. UndoSteps = {"bootout", "put_back", "enable", "disable", "bootstrap", "kickstart"}
        BY <1>3 DEF UndoSteps
    <2>2. /\ <<>> \in Seq(UndoSteps) /\ EnableAs(was) \in Seq(UndoSteps)
          /\ <<"put_back">> \in Seq(UndoSteps) /\ <<"bootout">> \in Seq(UndoSteps)
          /\ <<"bootstrap">> \in Seq(UndoSteps)
          /\ If(Runs(was), <<"kickstart">>) \in Seq(UndoSteps)
        <3>1. {"bootout", "put_back", "enable", "disable", "bootstrap", "kickstart"} \subseteq UndoSteps
            BY <2>1
        <3>2. /\ EnableAs(was) \in {<<"enable">>, <<"disable">>}
              /\ If(Runs(was), <<"kickstart">>) \in {<<"kickstart">>, <<>>}
            BY DEF EnableAs, If
        <3> QED
            BY <3>1, <3>2, ShortPlans
    <2>3. DarwinLoading(was) \in Seq(UndoSteps)
        <3>1. <<"bootstrap">> \o If(Runs(was), <<"kickstart">>) \in Seq(UndoSteps)
            BY <2>2, ConcatProperties
        <3> QED
            BY <2>2, <3>1 DEF DarwinLoading, If
    <2>4. EnableAs(was) \o DarwinLoading(was) \in Seq(UndoSteps)
        BY <2>2, <2>3, ConcatProperties
    <2>5. UndoPlan = ((If(cmd.loaded, <<"bootout">>) \o If(cmd.action = "install", <<"put_back">>))
                        \o EnableAs(was)) \o DarwinLoading(was)
        BY <1>3 DEF UndoPlan, DarwinUndo, DarwinLoading
    <2>6. ASSUME NEW a \in Seq(UndoSteps), NEW b \in Seq(UndoSteps)
          PROVE  /\ ((a \o b) \o EnableAs(was)) \o DarwinLoading(was)
                      = a \o (b \o (EnableAs(was) \o DarwinLoading(was)))
                 /\ a \o (b \o (EnableAs(was) \o DarwinLoading(was))) \in Seq(UndoSteps)
                 /\ <<>> \o (b \o (EnableAs(was) \o DarwinLoading(was)))
                      = b \o (EnableAs(was) \o DarwinLoading(was))
        <3>1. PICK e \in Seq(UndoSteps), l \in Seq(UndoSteps) :
                e = EnableAs(was) /\ l = DarwinLoading(was)
            BY <2>2, <2>3
        <3>2. a \o b \in Seq(UndoSteps) /\ e \o l \in Seq(UndoSteps)
            BY ConcatProperties
        <3>3. b \o (e \o l) \in Seq(UndoSteps)
            BY <3>2, ConcatProperties
        <3>4. a \o (b \o (e \o l)) \in Seq(UndoSteps)
            BY <3>3, ConcatProperties
        <3>5. ((a \o b) \o e) \o l = (a \o b) \o (e \o l)
            <4>1. PICK ab \in Seq(UndoSteps) : ab = a \o b
                BY <3>2
            <4>2. (ab \o e) \o l = ab \o (e \o l)
                BY ConcatAssociative
            <4> QED
                BY <4>1, <4>2
        <3>6. (a \o b) \o (e \o l) = a \o (b \o (e \o l))
            <4>1. PICK el \in Seq(UndoSteps) : el = e \o l
                BY <3>2
            <4>2. (a \o b) \o el = a \o (b \o el)
                BY ConcatAssociative
            <4> QED
                BY <4>1, <4>2
        <3>7. <<>> \o (b \o (e \o l)) = b \o (e \o l)
            BY <3>3, ConcatEmptySeq
        <3> QED
            BY <3>1, <3>4, <3>5, <3>6, <3>7
    <2>7. /\ If(cmd.loaded, <<"bootout">>) = (IF cmd.loaded THEN <<"bootout">> ELSE <<>>)
          /\ If(cmd.action = "install", <<"put_back">>)
               = (IF cmd.action = "install" THEN <<"put_back">> ELSE <<>>)
        BY DEF If
    <2>8. UndoPlan \in Seq(UndoSteps)
        <3>1. PICK a \in Seq(UndoSteps), b \in Seq(UndoSteps) :
                /\ a = If(cmd.loaded, <<"bootout">>)
                /\ b = If(cmd.action = "install", <<"put_back">>)
            BY <2>2, <2>7
        <3> QED
            BY <2>5, <2>6, <3>1
    <2>9. <<>> \o (EnableAs(was) \o DarwinLoading(was)) = EnableAs(was) \o DarwinLoading(was)
        BY <2>4, ConcatEmptySeq
    <2>10. /\ cmd.action = "install" /\ cmd.loaded =>
                UndoPlan = <<"bootout">> \o (<<"put_back">> \o (EnableAs(was) \o DarwinLoading(was)))
           /\ cmd.action = "install" /\ ~ cmd.loaded =>
                UndoPlan = <<"put_back">> \o (EnableAs(was) \o DarwinLoading(was))
           /\ cmd.action = "remove" /\ ~ cmd.loaded =>
                UndoPlan = EnableAs(was) \o DarwinLoading(was)
        <3>1. PICK a \in Seq(UndoSteps), b \in Seq(UndoSteps) :
                /\ a = If(cmd.loaded, <<"bootout">>)
                /\ b = If(cmd.action = "install", <<"put_back">>)
            BY <2>2, <2>7
        <3>2. UndoPlan = a \o (b \o (EnableAs(was) \o DarwinLoading(was)))
            BY <2>5, <2>6, <3>1
        <3>3. <<>> \o (b \o (EnableAs(was) \o DarwinLoading(was)))
                = b \o (EnableAs(was) \o DarwinLoading(was))
            BY <2>6
        <3> HIDE DEF was
        <3> QED
            BY <2>7, <2>9, <3>1, <3>2, <3>3
    <2> QED
        BY <1>1, <1>3, <2>2, <2>3, <2>4, <2>8, <2>10
<1>4. CASE platform = "win32"
    <2>1. UndoSteps = {"stop", "delete", "put_back", "start"}
        BY <1>4 DEF UndoSteps
    <2>2. /\ <<"delete">> \in Seq(UndoSteps) /\ <<"put_back">> \in Seq(UndoSteps)
          /\ <<"stop">> \in Seq(UndoSteps) /\ If(Runs(was), <<"start">>) \in Seq(UndoSteps)
        <3>1. {"stop", "delete", "put_back", "start"} \subseteq UndoSteps
            BY <2>1
        <3>2. If(Runs(was), <<"start">>) \in {<<"start">>, <<>>}
            BY DEF If
        <3> QED
            BY <3>1, <3>2, ShortPlans
    <2>3. WindowsBack(was) \in Seq(UndoSteps)
        BY <2>2, ConcatProperties DEF WindowsBack
    <2>4. UndoPlan = <<"stop">> \o WindowsBack(was)
        BY <1>4 DEF UndoPlan, WindowsUndo, WindowsBack
    <2>5. UndoPlan \in Seq(UndoSteps)
        BY <2>2, <2>3, <2>4, ConcatProperties
    <2> QED
        BY <1>1, <1>4, <2>2, <2>3, <2>4, <2>5
<1> QED
    BY <1>2, <1>3, <1>4
(* Each step of a plan reaches what the rest of the plan relies on.        *)
LEMMA LinuxInstallGoesOn ==
    ASSUME platform = "linux", sys \in Sys, cmd \in CommandType, ~ cmd.undoing,
           LinuxInstalling(cmd.plan, cmd.was), Proceed
    PROVE  LinuxInstalling(cmd.plan, cmd.was)'
<1>1. /\ cmd.was \in Sys /\ cmd.loaded \in BOOLEAN /\ cmd.plan # <<>> /\ sys' = After(Call)
      /\ cmd'.plan = Tail(cmd.plan) /\ cmd'.was = cmd.was /\ Possible(Call)
      /\ cmd'.loaded = (cmd.loaded \/ Call = "bootstrap")
    BY Proceeding DEF CommandType
<1>2. /\ sys.art \in Definitions /\ sys.loaded \in Definitions /\ sys.enabled \in BOOLEAN
      /\ sys.running \in Definitions
    BY SysFields
<1>3. CASE cmd.plan = <<"write", "reload", "enable", "start", "ready">>
    <2>1. Call = "write" /\ Tail(cmd.plan) = <<"reload", "enable", "start", "ready">>
        BY <1>3 DEF Call
    <2>2. SysIs(sys', "new", sys.loaded, sys.enabled, sys.running)
        BY <1>1, <2>1, CallEffects
    <2> QED
        BY <1>1, <1>2, <1>3, <2>1, <2>2 DEF LinuxInstalling, SysIs, Current, Runs, Effective, Loaded
<1>4. CASE cmd.plan = <<"reload", "enable", "start", "ready">>
    <2>1. Call = "reload" /\ Tail(cmd.plan) = <<"enable", "start", "ready">>
        BY <1>4 DEF Call
    <2>2. SysIs(sys', sys.art, sys.art, sys.enabled, sys.running)
        BY <1>1, <2>1, CallEffects
    <2> QED
        BY <1>1, <1>2, <1>4, <2>1, <2>2 DEF LinuxInstalling, SysIs, Current, Runs, Effective, Loaded
<1>5. CASE cmd.plan = <<"enable", "start", "ready">>
    <2>1. Call = "enable" /\ Tail(cmd.plan) = <<"start", "ready">>
        BY <1>5 DEF Call
    <2>2. SysIs(sys', sys.art, sys.loaded, TRUE, sys.running)
        BY <1>1, <2>1, CallEffects
    <2> QED
        BY <1>1, <1>2, <1>5, <2>1, <2>2 DEF LinuxInstalling, SysIs, Current, Runs, Effective, Loaded
<1>6. CASE cmd.plan = <<"start", "ready">>
    <2>1. Call = "start" /\ Tail(cmd.plan) = <<"ready">>
        BY <1>6 DEF Call
    <2>2. IF Runs(sys) THEN sys' = sys
              ELSE SysIs(sys', sys.art, Effective(sys), sys.enabled, Effective(sys))
        BY <1>1, <2>1, CallEffects
    <2>3. Runs(sys) \/ Effective(sys) # "none"
        BY <1>1, <2>1 DEF Possible, Effective, Loaded
    <2> QED
        BY <1>1, <1>2, <1>6, <2>1, <2>2, <2>3
           DEF LinuxInstalling, SysIs, Current, Runs, Effective, Loaded
<1>7. CASE cmd.plan = <<"ready">>
    <2>1. Call = "ready" /\ Tail(cmd.plan) = <<>>
        BY <1>7 DEF Call
    <2>2. sys' = sys
        BY <1>1, <2>1, CallEffects
    <2>3. Runs(sys)
        BY <1>1, <2>1 DEF Possible
    <2> QED
        BY <1>1, <1>2, <1>7, <2>1, <2>2, <2>3
           DEF LinuxInstalling, SysIs, Current, Runs, Effective, Loaded
<1> QED
    BY <1>1, <1>3, <1>4, <1>5, <1>6, <1>7 DEF LinuxInstalling


LEMMA LinuxRemoveGoesOn ==
    ASSUME platform = "linux", sys \in Sys, cmd \in CommandType, ~ cmd.undoing,
           LinuxRemoving(cmd.plan, cmd.was), Proceed
    PROVE  LinuxRemoving(cmd.plan, cmd.was)'
<1>1. /\ cmd.was \in Sys /\ cmd.loaded \in BOOLEAN /\ cmd.plan # <<>> /\ sys' = After(Call)
      /\ cmd'.plan = Tail(cmd.plan) /\ cmd'.was = cmd.was /\ Possible(Call)
      /\ cmd'.loaded = (cmd.loaded \/ Call = "bootstrap")
    BY Proceeding DEF CommandType
<1>2. /\ sys.art \in Definitions /\ sys.loaded \in Definitions /\ sys.enabled \in BOOLEAN
      /\ sys.running \in Definitions
    BY SysFields
<1>3. CASE cmd.plan = <<"stop", "disable", "erase", "reload">>
    <2>1. Call = "stop" /\ Tail(cmd.plan) = <<"disable", "erase", "reload">>
        BY <1>3 DEF Call
    <2>2. SysIs(sys', sys.art, sys.loaded, sys.enabled, "none")
        BY <1>1, <2>1, CallEffects
    <2> QED
        BY <1>1, <1>2, <1>3, <2>1, <2>2 DEF LinuxRemoving, SysIs, Runs, Absent, Sys
<1>4. CASE cmd.plan = <<"disable", "erase", "reload">>
    <2>1. Call = "disable" /\ Tail(cmd.plan) = <<"erase", "reload">>
        BY <1>4 DEF Call
    <2>2. SysIs(sys', sys.art, sys.loaded, FALSE, sys.running)
        BY <1>1, <2>1, CallEffects
    <2> QED
        BY <1>1, <1>2, <1>4, <2>1, <2>2 DEF LinuxRemoving, SysIs, Runs, Absent, Sys
<1>5. CASE cmd.plan = <<"erase", "reload">>
    <2>1. Call = "erase" /\ Tail(cmd.plan) = <<"reload">>
        BY <1>5 DEF Call
    <2>2. SysIs(sys', "none", sys.loaded, sys.enabled, sys.running)
        BY <1>1, <2>1, CallEffects
    <2> QED
        BY <1>1, <1>2, <1>5, <2>1, <2>2 DEF LinuxRemoving, SysIs, Runs, Absent, Sys
<1>6. CASE cmd.plan = <<"reload">>
    <2>1. Call = "reload" /\ Tail(cmd.plan) = <<>>
        BY <1>6 DEF Call
    <2>2. SysIs(sys', sys.art, sys.art, sys.enabled, sys.running)
        BY <1>1, <2>1, CallEffects
    <2> QED
        BY <1>1, <1>2, <1>6, <2>1, <2>2 DEF LinuxRemoving, SysIs, Runs, Absent, Sys
<1> QED
    BY <1>1, <1>3, <1>4, <1>5, <1>6 DEF LinuxRemoving


LEMMA DarwinInstallGoesOn ==
    ASSUME platform = "darwin", sys \in Sys, cmd \in CommandType, ~ cmd.undoing,
           DarwinInstalling(cmd.plan, cmd.was), Proceed
    PROVE  DarwinInstalling(cmd.plan, cmd.was)'
<1>1. /\ cmd.was \in Sys /\ cmd.loaded \in BOOLEAN /\ cmd.plan # <<>> /\ sys' = After(Call)
      /\ cmd'.plan = Tail(cmd.plan) /\ cmd'.was = cmd.was /\ Possible(Call)
      /\ cmd'.loaded = (cmd.loaded \/ Call = "bootstrap")
    BY Proceeding DEF CommandType
<1>2. /\ sys.art \in Definitions /\ sys.loaded \in Definitions /\ sys.enabled \in BOOLEAN
      /\ sys.running \in Definitions
    BY SysFields
<1>3. CASE cmd.plan = <<"bootout", "write", "enable", "bootstrap", "kickstart", "ready">>
    <2>1. Call = "bootout" /\ Tail(cmd.plan) = <<"write", "enable", "bootstrap", "kickstart", "ready">>
        BY <1>3 DEF Call
    <2>2. SysIs(sys', sys.art, "none", sys.enabled, "none")
        BY <1>1, <2>1, CallEffects
    <2> QED
        BY <1>1, <1>2, <1>3, <2>1, <2>2
           DEF DarwinInstalling, SysIs, Current, Runs, Effective, Loaded, Idle
<1>4. CASE cmd.plan = <<"write", "enable", "bootstrap", "kickstart", "ready">>
    <2>1. Call = "write" /\ Tail(cmd.plan) = <<"enable", "bootstrap", "kickstart", "ready">>
        BY <1>4 DEF Call
    <2>2. SysIs(sys', "new", sys.loaded, sys.enabled, sys.running)
        BY <1>1, <2>1, CallEffects
    <2> QED
        BY <1>1, <1>2, <1>4, <2>1, <2>2
           DEF DarwinInstalling, SysIs, Current, Runs, Effective, Loaded, Idle
<1>5. CASE cmd.plan = <<"enable", "bootstrap", "kickstart", "ready">>
    <2>1. Call = "enable" /\ Tail(cmd.plan) = <<"bootstrap", "kickstart", "ready">>
        BY <1>5 DEF Call
    <2>2. SysIs(sys', sys.art, sys.loaded, TRUE, sys.running)
        BY <1>1, <2>1, CallEffects
    <2> QED
        BY <1>1, <1>2, <1>5, <2>1, <2>2
           DEF DarwinInstalling, SysIs, Current, Runs, Effective, Loaded, Idle
<1>6. CASE cmd.plan = <<"bootstrap", "kickstart", "ready">>
    <2>1. Call = "bootstrap" /\ Tail(cmd.plan) = <<"kickstart", "ready">>
        BY <1>6 DEF Call
    <2>2. SysIs(sys', sys.art, sys.art, sys.enabled, sys.art)
        BY <1>1, <2>1, CallEffects
    <2> QED
        BY <1>1, <1>2, <1>6, <2>1, <2>2
           DEF DarwinInstalling, SysIs, Current, Runs, Effective, Loaded, Idle
<1>7. CASE cmd.plan = <<"kickstart", "ready">>
    <2>1. Call = "kickstart" /\ Tail(cmd.plan) = <<"ready">>
        BY <1>7 DEF Call
    <2>2. IF Runs(sys) THEN sys' = sys
              ELSE SysIs(sys', sys.art, Effective(sys), sys.enabled, Effective(sys))
        BY <1>1, <2>1, CallEffects
    <2>3. Runs(sys) \/ Effective(sys) # "none"
        BY <1>1, <2>1 DEF Possible, Effective, Loaded
    <2> QED
        BY <1>1, <1>2, <1>7, <2>1, <2>2, <2>3
           DEF DarwinInstalling, SysIs, Current, Runs, Effective, Loaded, Idle
<1>8. CASE cmd.plan = <<"ready">>
    <2>1. Call = "ready" /\ Tail(cmd.plan) = <<>>
        BY <1>8 DEF Call
    <2>2. sys' = sys
        BY <1>1, <2>1, CallEffects
    <2>3. Runs(sys)
        BY <1>1, <2>1 DEF Possible
    <2> QED
        BY <1>1, <1>2, <1>8, <2>1, <2>2, <2>3
           DEF DarwinInstalling, SysIs, Current, Runs, Effective, Loaded, Idle
<1> QED
    BY <1>1, <1>3, <1>4, <1>5, <1>6, <1>7, <1>8 DEF DarwinInstalling


LEMMA DarwinRemoveGoesOn ==
    ASSUME platform = "darwin", sys \in Sys, cmd \in CommandType, ~ cmd.undoing,
           DarwinRemoving(cmd.plan, cmd.was), Proceed
    PROVE  DarwinRemoving(cmd.plan, cmd.was)'
<1>1. /\ cmd.was \in Sys /\ cmd.loaded \in BOOLEAN /\ cmd.plan # <<>> /\ sys' = After(Call)
      /\ cmd'.plan = Tail(cmd.plan) /\ cmd'.was = cmd.was /\ Possible(Call)
      /\ cmd'.loaded = (cmd.loaded \/ Call = "bootstrap")
    BY Proceeding DEF CommandType
<1>2. /\ sys.art \in Definitions /\ sys.loaded \in Definitions /\ sys.enabled \in BOOLEAN
      /\ sys.running \in Definitions
    BY SysFields
<1>3. CASE cmd.plan = <<"bootout", "disable", "erase">>
    <2>1. Call = "bootout" /\ Tail(cmd.plan) = <<"disable", "erase">>
        BY <1>3 DEF Call
    <2>2. SysIs(sys', sys.art, "none", sys.enabled, "none")
        BY <1>1, <2>1, CallEffects
    <2> QED
        BY <1>1, <1>2, <1>3, <2>1, <2>2 DEF DarwinRemoving, SysIs, Runs, Loaded, Idle, Absent, Sys
<1>4. CASE cmd.plan = <<"disable", "erase">>
    <2>1. Call = "disable" /\ Tail(cmd.plan) = <<"erase">>
        BY <1>4 DEF Call
    <2>2. SysIs(sys', sys.art, sys.loaded, FALSE, sys.running)
        BY <1>1, <2>1, CallEffects
    <2> QED
        BY <1>1, <1>2, <1>4, <2>1, <2>2 DEF DarwinRemoving, SysIs, Runs, Loaded, Idle, Absent, Sys
<1>5. CASE cmd.plan = <<"erase">>
    <2>1. Call = "erase" /\ Tail(cmd.plan) = <<>>
        BY <1>5 DEF Call
    <2>2. SysIs(sys', "none", sys.loaded, sys.enabled, sys.running)
        BY <1>1, <2>1, CallEffects
    <2> QED
        BY <1>1, <1>2, <1>5, <2>1, <2>2 DEF DarwinRemoving, SysIs, Runs, Loaded, Idle, Absent, Sys
<1> QED
    BY <1>1, <1>3, <1>4, <1>5 DEF DarwinRemoving


LEMMA WindowsInstallGoesOn ==
    ASSUME platform = "win32", sys \in Sys, cmd \in CommandType, ~ cmd.undoing,
           WindowsInstalling(cmd.plan, cmd.was), Proceed
    PROVE  WindowsInstalling(cmd.plan, cmd.was)'
<1>1. /\ cmd.was \in Sys /\ cmd.loaded \in BOOLEAN /\ cmd.plan # <<>> /\ sys' = After(Call)
      /\ cmd'.plan = Tail(cmd.plan) /\ cmd'.was = cmd.was /\ Possible(Call)
      /\ cmd'.loaded = (cmd.loaded \/ Call = "bootstrap")
    BY Proceeding DEF CommandType
<1>2. /\ sys.art \in Definitions /\ sys.loaded \in Definitions /\ sys.enabled \in BOOLEAN
      /\ sys.running \in Definitions
    BY SysFields
<1>3. CASE cmd.plan = <<"register", "start_and_wait", "ready">>
    <2>1. Call = "register" /\ Tail(cmd.plan) = <<"start_and_wait", "ready">>
        BY <1>3 DEF Call
    <2>2. SysIs(sys', "new", "new", TRUE, sys.running)
        BY <1>1, <2>1, CallEffects
    <2> QED
        BY <1>1, <1>2, <1>3, <2>1, <2>2
           DEF WindowsInstalling, SysIs, Current, Runs, Effective, Loaded, Changed
<1>4. CASE cmd.plan = <<"start_and_wait", "ready">>
    <2>1. Call = "start_and_wait" /\ Tail(cmd.plan) = <<"ready">>
        BY <1>4 DEF Call
    <2>2. IF Runs(sys) THEN sys' = sys
              ELSE SysIs(sys', sys.art, Effective(sys), sys.enabled, Effective(sys))
        BY <1>1, <2>1, CallEffects
    <2>3. ~ Runs(sys)
        BY <1>1, <2>1 DEF Possible
    <2> QED
        BY <1>1, <1>2, <1>4, <2>1, <2>2, <2>3
           DEF WindowsInstalling, SysIs, Current, Runs, Effective, Loaded
<1>5. CASE cmd.plan = <<"ready">>
    <2>1. Call = "ready" /\ Tail(cmd.plan) = <<>>
        BY <1>5 DEF Call
    <2>2. sys' = sys
        BY <1>1, <2>1, CallEffects
    <2>3. Runs(sys)
        BY <1>1, <2>1 DEF Possible
    <2> QED
        BY <1>1, <1>2, <1>5, <2>1, <2>2, <2>3
           DEF WindowsInstalling, SysIs, Current, Runs, Effective, Loaded
<1> QED
    BY <1>1, <1>3, <1>4, <1>5 DEF WindowsInstalling


LEMMA WindowsRemoveGoesOn ==
    ASSUME platform = "win32", sys \in Sys, cmd \in CommandType, ~ cmd.undoing,
           WindowsRemoving(cmd.plan, cmd.was), Proceed
    PROVE  WindowsRemoving(cmd.plan, cmd.was)'
<1>1. /\ cmd.was \in Sys /\ cmd.loaded \in BOOLEAN /\ cmd.plan # <<>> /\ sys' = After(Call)
      /\ cmd'.plan = Tail(cmd.plan) /\ cmd'.was = cmd.was /\ Possible(Call)
      /\ cmd'.loaded = (cmd.loaded \/ Call = "bootstrap")
    BY Proceeding DEF CommandType
<1>2. /\ sys.art \in Definitions /\ sys.loaded \in Definitions /\ sys.enabled \in BOOLEAN
      /\ sys.running \in Definitions
    BY SysFields
<1>3. CASE cmd.plan = <<"stop", "delete">>
    <2>1. Call = "stop" /\ Tail(cmd.plan) = <<"delete">>
        BY <1>3 DEF Call
    <2>2. SysIs(sys', sys.art, sys.loaded, sys.enabled, "none")
        BY <1>1, <2>1, CallEffects
    <2> QED
        BY <1>1, <1>2, <1>3, <2>1, <2>2 DEF WindowsRemoving, SysIs, Runs, Absent, Sys
<1>4. CASE cmd.plan = <<"delete">>
    <2>1. Call = "delete" /\ Tail(cmd.plan) = <<>>
        BY <1>4 DEF Call
    <2>2. SysIs(sys', "none", "none", FALSE, sys.running)
        BY <1>1, <2>1, CallEffects
    <2> QED
        BY <1>1, <1>2, <1>4, <2>1, <2>2 DEF WindowsRemoving, SysIs, Runs, Absent, Sys
<1> QED
    BY <1>1, <1>3, <1>4 DEF WindowsRemoving
-----------------------------------------------------------------------------
(* The service: a failure finds what its rollback relies on.               *)

(* What there is to know of a command that fails for the first time.       *)
LEMMA FirstFailure ==
    ASSUME platform \in {"linux", "darwin", "win32"}, sys \in Sys, cmd \in CommandType,
           ~ cmd.undoing, Fail
    PROVE  /\ cmd.was \in Sys /\ cmd.loaded \in BOOLEAN /\ cmd.plan # <<>>
           /\ cmd'.plan = IF Call = "bootout" THEN <<>> ELSE UndoPlan
           /\ cmd'.was = cmd.was /\ cmd'.loaded = cmd.loaded /\ platform' = platform
           /\ ~ OnUnitFile /\ cmd'.undoing = TRUE
           /\ sys' = sys \/ (sys' = After(Call) /\ MayBeLate(Call) /\ (cmd'.blind \/ Call # "bootstrap"))
<1>1. UndoSteps \subseteq Steps /\ UndoPlan \in Seq(UndoSteps)
    BY UndoPlans
<1>2. UndoPlan \in Seq(Steps)
    BY <1>1, SeqMonotonic
<1>3. cmd.was \in Sys /\ cmd.loaded \in BOOLEAN /\ cmd.undoing \in BOOLEAN
    BY DEF CommandType
<1> QED
    BY <1>2, <1>3, Failing DEF PlanAfterFailure

LEMMA LinuxInstallTurns ==
    ASSUME platform = "linux", sys \in Sys, cmd \in CommandType, ~ cmd.undoing,
           cmd.action = "install", LinuxInstalling(cmd.plan, cmd.was), Fail, InStep(cmd.was)
    PROVE  LinuxUndoing(cmd.plan, cmd.was)'
<1>1. /\ cmd.was \in Sys /\ cmd.plan # <<>> /\ cmd'.was = cmd.was
      /\ cmd'.plan = IF Call = "bootout" THEN <<>> ELSE UndoPlan
    BY FirstFailure
<1>2. Call # "bootout"
    BY <1>1 DEF LinuxInstalling, Call
<1>3. UndoPlan = <<"stop", "disable", "put_back", "reload">>
                   \o If(cmd.was.art # "none", LinuxRestore(cmd.was))
    BY UndoPlans
<1>4. If(cmd.was.art # "none", LinuxRestore(cmd.was)) = LinuxRestore(cmd.was)
    <2>1. CASE cmd.was.art = "none"
        <3>1. ~ Runs(cmd.was) /\ ~ cmd.was.enabled
            BY <2>1 DEF InStep
        <3>2. LinuxRestore(cmd.was) = <<>> \o <<>>
            BY <3>1 DEF LinuxRestore, If
        <3> QED
            BY <2>1, <3>2 DEF If
    <2> QED
        BY <2>1 DEF If
<1> QED
    BY <1>1, <1>2, <1>3, <1>4 DEF LinuxUndoing

LEMMA LinuxRemoveTurns ==
    ASSUME platform = "linux", sys \in Sys, cmd \in CommandType, ~ cmd.undoing,
           cmd.action = "remove", cmd.was.art # "none", LinuxRemoving(cmd.plan, cmd.was), Fail,
           InStep(cmd.was)
    PROVE  LinuxUndoing(cmd.plan, cmd.was)'
<1>1. /\ cmd.was \in Sys /\ cmd.plan # <<>> /\ cmd'.was = cmd.was /\ ~ OnUnitFile
      /\ cmd'.plan = IF Call = "bootout" THEN <<>> ELSE UndoPlan
      /\ sys' = sys \/ sys' = After(Call)
    BY FirstFailure
<1>2. UndoPlan = IF sys.art # cmd.was.art THEN <<"put_back">> \o LinuxRestore(cmd.was)
                 ELSE LinuxRestore(cmd.was)
    BY UndoPlans
<1>3. /\ sys.art \in Definitions /\ sys.loaded \in Definitions /\ sys.enabled \in BOOLEAN
      /\ cmd.was.loaded \in {"none", cmd.was.art} /\ cmd.was.enabled \in BOOLEAN
    BY <1>1, SysFields DEF InStep
<1>4. CASE cmd.plan = <<"stop", "disable", "erase", "reload">>
    <2>1. Call = "stop"
        BY <1>4 DEF Call
    <2>2. sys' = sys \/ SysIs(sys', sys.art, sys.loaded, sys.enabled, "none")
        BY <1>1, <2>1, CallEffects
    <2> QED
        BY <1>1, <1>2, <1>3, <1>4, <2>1, <2>2 DEF LinuxRemoving, LinuxUndoing, SysIs, Runs
<1>5. CASE cmd.plan = <<"disable", "erase", "reload">>
    <2>1. Call = "disable"
        BY <1>5 DEF Call
    <2>2. sys' = sys \/ SysIs(sys', sys.art, sys.loaded, FALSE, sys.running)
        BY <1>1, <2>1, CallEffects
    <2> QED
        BY <1>1, <1>2, <1>3, <1>5, <2>1, <2>2 DEF LinuxRemoving, LinuxUndoing, SysIs, Runs
<1>6. CASE cmd.plan = <<"erase", "reload">>
    <2>1. Call = "erase"
        BY <1>6 DEF Call
    <2> QED
        BY <1>1, <2>1 DEF OnUnitFile
<1>7. CASE cmd.plan = <<"reload">>
    <2>1. Call = "reload"
        BY <1>7 DEF Call
    <2>2. sys' = sys \/ SysIs(sys', sys.art, sys.art, sys.enabled, sys.running)
        BY <1>1, <2>1, CallEffects
    <2> QED
        BY <1>1, <1>2, <1>3, <1>7, <2>1, <2>2 DEF LinuxRemoving, LinuxUndoing, SysIs, Runs
<1> QED
    BY <1>1, <1>4, <1>5, <1>6, <1>7 DEF LinuxRemoving

LEMMA DarwinInstallTurns ==
    ASSUME platform = "darwin", sys \in Sys, cmd \in CommandType, ~ cmd.undoing,
           cmd.action = "install", DarwinInstalling(cmd.plan, cmd.was), Fail, InStep(cmd.was),
           ~ cmd'.blind
    PROVE  DarwinUndoing(cmd.plan, cmd.was)'
<1>1. /\ cmd.was \in Sys /\ cmd.plan # <<>> /\ cmd'.was = cmd.was /\ platform' = platform
      /\ cmd'.plan = IF Call = "bootout" THEN <<>> ELSE UndoPlan
      /\ sys' = sys \/ (sys' = After(Call) /\ MayBeLate(Call) /\ Call # "bootstrap")
    BY FirstFailure
<1>2. /\ cmd.loaded => UndoPlan = <<"bootout">> \o (<<"put_back">> \o
                                     (EnableAs(cmd.was) \o DarwinLoading(cmd.was)))
      /\ ~ cmd.loaded => UndoPlan = <<"put_back">> \o (EnableAs(cmd.was) \o DarwinLoading(cmd.was))
    BY UndoPlans
<1>3. CASE cmd.plan = <<"bootout", "write", "enable", "bootstrap", "kickstart", "ready">>
    <2>1. Call = "bootout" /\ sys' = sys /\ sys = cmd.was
        BY <1>1, <1>3 DEF Call, MayBeLate, DarwinInstalling
    <2>2. Restored(cmd.was)'
        BY <1>1, <2>1 DEF Restored
    <2> QED
        BY <1>1, <2>1, <2>2 DEF DarwinUndoing
<1>4. CASE cmd.plan = <<"write", "enable", "bootstrap", "kickstart", "ready">>
    <2>1. Call = "write" /\ sys' = sys
        BY <1>1, <1>4 DEF Call, MayBeLate
    <2>2. Idle(sys') /\ ~ cmd.loaded
        BY <1>4, <2>1 DEF DarwinInstalling
    <2> QED
        BY <1>1, <1>2, <2>1, <2>2 DEF DarwinUndoing, Idle, Runs, Loaded
<1>5. CASE cmd.plan = <<"enable", "bootstrap", "kickstart", "ready">>
    <2>1. Call = "enable"
        BY <1>5 DEF Call
    <2>2. sys' = sys \/ SysIs(sys', sys.art, sys.loaded, TRUE, sys.running)
        BY <1>1, <2>1, CallEffects
    <2>3. Idle(sys') /\ ~ cmd.loaded
        BY <1>5, <2>2 DEF DarwinInstalling, Idle, Runs, Loaded, SysIs
    <2> QED
        BY <1>1, <1>2, <2>1, <2>3 DEF DarwinUndoing, Idle, Runs, Loaded
<1>6. CASE cmd.plan = <<"bootstrap", "kickstart", "ready">>
    <2>1. Call = "bootstrap" /\ sys' = sys
        BY <1>1, <1>6 DEF Call
    <2>2. Idle(sys') /\ ~ cmd.loaded
        BY <1>6, <2>1 DEF DarwinInstalling
    <2>3. cmd'.plan = <<"put_back">> \o (EnableAs(cmd.was) \o DarwinLoading(cmd.was))
        BY <1>1, <1>2, <2>1, <2>2
    <2> QED
        BY <1>1, <2>2, <2>3 DEF DarwinUndoing, Idle, Runs, Loaded
<1>7. CASE cmd.plan = <<"kickstart", "ready">>
    <2>1. Call = "kickstart" /\ cmd.loaded
        BY <1>7 DEF Call, DarwinInstalling
    <2> QED
        BY <1>1, <1>2, <2>1 DEF DarwinUndoing
<1>8. CASE cmd.plan = <<"ready">>
    <2>1. Call = "ready" /\ sys' = sys /\ (cmd.loaded \/ Loaded(cmd.was))
        BY <1>1, <1>8 DEF Call, MayBeLate, DarwinInstalling, Current, Loaded
    <2> QED
        BY <1>1, <1>2, <2>1 DEF DarwinUndoing
<1> QED
    BY <1>1, <1>3, <1>4, <1>5, <1>6, <1>7, <1>8 DEF DarwinInstalling

LEMMA DarwinRemoveTurns ==
    ASSUME platform = "darwin", sys \in Sys, cmd \in CommandType, ~ cmd.undoing,
           cmd.action = "remove", DarwinRemoving(cmd.plan, cmd.was), Fail, InStep(cmd.was)
    PROVE  DarwinUndoing(cmd.plan, cmd.was)'
<1>1. /\ cmd.was \in Sys /\ cmd.plan # <<>> /\ cmd'.was = cmd.was /\ platform' = platform
      /\ cmd'.plan = IF Call = "bootout" THEN <<>> ELSE UndoPlan
      /\ sys' = sys \/ (sys' = After(Call) /\ MayBeLate(Call))
    BY FirstFailure
<1>2. UndoPlan = EnableAs(cmd.was) \o DarwinLoading(cmd.was)
    BY UndoPlans DEF DarwinRemoving
<1>3. CASE cmd.plan = <<"bootout", "disable", "erase">>
    <2>1. Call = "bootout" /\ sys' = sys /\ sys = cmd.was
        BY <1>1, <1>3 DEF Call, MayBeLate, DarwinRemoving
    <2>2. Restored(cmd.was)'
        BY <1>1, <2>1 DEF Restored
    <2> QED
        BY <1>1, <2>1, <2>2 DEF DarwinUndoing
<1>4. CASE cmd.plan = <<"disable", "erase">>
    <2>1. Call = "disable"
        BY <1>4 DEF Call
    <2>2. sys' = sys \/ SysIs(sys', sys.art, sys.loaded, FALSE, sys.running)
        BY <1>1, <2>1, CallEffects
    <2> QED
        BY <1>1, <1>2, <1>4, <2>1, <2>2 DEF DarwinRemoving, DarwinUndoing, Idle, SysIs, Runs, Loaded
<1>5. CASE cmd.plan = <<"erase">>
    <2>1. Call = "erase" /\ sys' = sys
        BY <1>1, <1>5 DEF Call, MayBeLate
    <2> QED
        BY <1>1, <1>2, <1>5, <2>1 DEF DarwinRemoving, DarwinUndoing, Idle, Runs, Loaded
<1> QED
    BY <1>1, <1>3, <1>4, <1>5 DEF DarwinRemoving

LEMMA WindowsTurns ==
    ASSUME platform = "win32", sys \in Sys, cmd \in CommandType, ~ cmd.undoing,
           \/ cmd.action = "install" /\ WindowsInstalling(cmd.plan, cmd.was)
           \/ cmd.action = "remove" /\ cmd.was.art # "none" /\ WindowsRemoving(cmd.plan, cmd.was),
           Fail, InStep(cmd.was)
    PROVE  WindowsUndoing(cmd.plan, cmd.was)'
<1>1. /\ cmd.was \in Sys /\ cmd.plan # <<>> /\ cmd'.was = cmd.was
      /\ cmd'.plan = IF Call = "bootout" THEN <<>> ELSE UndoPlan
      /\ sys' = sys \/ (sys' = After(Call) /\ MayBeLate(Call))
    BY FirstFailure
<1>2. UndoPlan = <<"stop">> \o WindowsBack(cmd.was)
    BY UndoPlans
<1>3. cmd.was.art = "none" => ~ Runs(cmd.was)
    BY DEF InStep
<1>4. SUFFICES Call # "bootout" /\ (Runs(sys') => sys'.art # "none")
    BY <1>1, <1>2 DEF WindowsUndoing, Runs
<1>5. CASE cmd.plan = <<"register", "start_and_wait", "ready">> /\ sys = cmd.was
    <2>1. Call = "register"
        BY <1>5 DEF Call
    <2>2. sys' = sys \/ SysIs(sys', "new", "new", TRUE, sys.running)
        BY <1>1, <2>1, CallEffects
    <2> QED
        BY <1>3, <1>5, <2>1, <2>2 DEF SysIs, Runs
<1>6. CASE cmd.plan = <<"start_and_wait", "ready">> /\ sys.art = "new"
    <2>1. Call = "start_and_wait"
        BY <1>6 DEF Call
    <2>2. sys' = sys \/ SysIs(sys', sys.art, Effective(sys), sys.enabled, Effective(sys))
        BY <1>1, <2>1, CallEffects
    <2> QED
        BY <1>6, <2>1, <2>2 DEF SysIs
<1>7. CASE cmd.plan = <<"ready">> /\ sys.art = "new"
    <2>1. Call = "ready" /\ sys' = sys
        BY <1>1, <1>7 DEF Call, MayBeLate
    <2> QED
        BY <1>7, <2>1
<1>8. CASE cmd.plan = <<"stop", "delete">> /\ sys.art # "none"
    <2>1. Call = "stop"
        BY <1>8 DEF Call
    <2>2. sys' = sys \/ SysIs(sys', sys.art, sys.loaded, sys.enabled, "none")
        BY <1>1, <2>1, CallEffects
    <2> QED
        BY <1>8, <2>1, <2>2 DEF SysIs
<1>9. CASE cmd.plan = <<"delete">> /\ ~ Runs(sys)
    <2>1. Call = "delete"
        BY <1>9 DEF Call
    <2>2. sys' = sys \/ SysIs(sys', "none", "none", FALSE, sys.running)
        BY <1>1, <2>1, CallEffects
    <2> QED
        BY <1>9, <2>1, <2>2 DEF SysIs, Runs
<1> QED
    BY <1>1, <1>5, <1>6, <1>7, <1>8, <1>9 DEF WindowsInstalling, WindowsRemoving, Current
-----------------------------------------------------------------------------
(* The service: a rollback in which nothing else fails restores what was   *)
(* there.                                                                  *)

LEMMA LinuxUndoGoesOn ==
    ASSUME platform = "linux", sys \in Sys, cmd \in CommandType, cmd.undoing, InStep(cmd.was),
           LinuxUndoing(cmd.plan, cmd.was), cmd.plan # <<>>
    PROVE  Possible(Call) /\ (Proceed => LinuxUndoing(cmd.plan, cmd.was)')
<1> DEFINE was == cmd.was
           restore == LinuxRestore(cmd.was)
           starting == LinuxStarting(cmd.was)
<1>1. was \in Sys
    BY DEF CommandType
<1>2. /\ sys.art \in Definitions /\ sys.loaded \in Definitions /\ sys.enabled \in BOOLEAN
      /\ sys.running \in Definitions /\ was.enabled \in BOOLEAN /\ was.art \in Definitions
      /\ was.loaded \in {"none", was.art} /\ (was.art = "none" => ~ Runs(was) /\ ~ was.enabled)
    BY <1>1, SysFields DEF InStep
<1>3. Proceed => /\ sys' = After(Call) /\ cmd'.plan = Tail(cmd.plan) /\ cmd'.was = was
                 /\ platform' = platform
    BY Proceeding
<1>4. /\ UndoSteps = {"stop", "disable", "put_back", "reload", "enable", "start"}
      /\ restore \in Seq(UndoSteps) /\ starting \in Seq(UndoSteps)
      /\ restore = IF was.enabled THEN <<"enable">> \o starting ELSE starting
    BY UndoPlans DEF UndoSteps
<1>5. starting = IF Runs(was) THEN <<"start">> ELSE <<>>
    BY DEF LinuxStarting, If
<1>6. CASE cmd.plan = <<"stop", "disable", "put_back", "reload">> \o restore
    <2>1. Call = "stop" /\ Tail(cmd.plan) = <<"disable", "put_back", "reload">> \o restore
        BY <1>4, <1>6 DEF Call
    <2>2. Possible(Call)
        BY <2>1 DEF Possible
    <2>3. Proceed => SysIs(sys', sys.art, sys.loaded, sys.enabled, "none")
        BY <1>1, <1>3, <2>1, CallEffects
    <2> QED
        BY <1>3, <2>1, <2>2, <2>3 DEF LinuxUndoing, SysIs, Runs
<1>7. CASE cmd.plan = <<"disable", "put_back", "reload">> \o restore /\ ~ Runs(sys)
    <2>1. Call = "disable" /\ Tail(cmd.plan) = <<"put_back", "reload">> \o restore
        BY <1>4, <1>7 DEF Call
    <2>2. Possible(Call)
        BY <2>1 DEF Possible
    <2>3. Proceed => SysIs(sys', sys.art, sys.loaded, FALSE, sys.running)
        BY <1>1, <1>3, <2>1, CallEffects
    <2> QED
        BY <1>3, <1>7, <2>1, <2>2, <2>3 DEF LinuxUndoing, SysIs, Runs
<1>8. CASE cmd.plan = <<"put_back", "reload">> \o restore /\ ~ Runs(sys) /\ ~ sys.enabled
    <2>1. Call = "put_back" /\ Tail(cmd.plan) = <<"reload">> \o restore
        BY <1>4, <1>8 DEF Call
    <2>2. Possible(Call)
        BY <2>1 DEF Possible
    <2>3. Proceed => SysIs(sys', was.art, sys.loaded, sys.enabled, sys.running)
        BY <1>1, <1>3, <2>1, CallEffects
    <2> QED
        BY <1>3, <1>8, <2>1, <2>2, <2>3 DEF LinuxUndoing, SysIs, Runs
<1>9. CASE /\ cmd.plan = <<"reload">> \o restore /\ ~ Runs(sys) /\ ~ sys.enabled
           /\ sys.art = was.art
    <2>0. "reload" \in UndoSteps
        BY <1>4
    <2>1. Call = "reload" /\ Tail(cmd.plan) = restore
        BY <1>4, <1>9, <2>0, FirstStep DEF Call
    <2>2. Possible(Call)
        BY <2>1 DEF Possible
    <2>3. Proceed => SysIs(sys', sys.art, sys.art, sys.enabled, sys.running)
        BY <1>1, <1>3, <2>1, CallEffects
    <2> QED
        BY <1>3, <1>9, <2>1, <2>2, <2>3 DEF LinuxUndoing, SysIs, Runs
<1>10. CASE /\ sys.loaded \in {"none", was.art} /\ (Runs(sys) => Runs(was))
            /\ cmd.plan = <<"put_back">> \o restore /\ (sys.enabled => was.enabled)
    <2>0. "put_back" \in UndoSteps
        BY <1>4
    <2>1. Call = "put_back" /\ Tail(cmd.plan) = restore
        BY <1>4, <1>10, <2>0, FirstStep DEF Call
    <2>2. Possible(Call)
        BY <2>1 DEF Possible
    <2>3. Proceed => SysIs(sys', was.art, sys.loaded, sys.enabled, sys.running)
        BY <1>1, <1>3, <2>1, CallEffects
    <2> QED
        BY <1>3, <1>10, <2>1, <2>2, <2>3 DEF LinuxUndoing, SysIs, Runs
<1>11. CASE /\ sys.loaded \in {"none", was.art} /\ (Runs(sys) => Runs(was))
            /\ cmd.plan = starting /\ sys.art = was.art /\ sys.enabled = was.enabled
    <2>1. Runs(was) /\ cmd.plan = <<"start">>
        BY <1>5, <1>11
    <2>2. Call = "start" /\ Tail(cmd.plan) = <<>>
        BY <2>1 DEF Call
    <2>3. was.art # "none"
        BY <1>2, <2>1
    <2>4. Possible(Call)
        BY <1>11, <2>2, <2>3 DEF Possible
    <2>5. Proceed => IF Runs(sys) THEN sys' = sys
                     ELSE SysIs(sys', sys.art, Effective(sys), sys.enabled, Effective(sys))
        BY <1>1, <1>3, <2>2, CallEffects
    <2>6. Effective(sys) = was.art /\ Effective(was) = was.art
        BY <1>2, <1>11, <2>3 DEF Effective, Loaded
    <2>7. Proceed => Restored(was)'
        BY <1>3, <1>11, <2>1, <2>3, <2>5, <2>6 DEF Restored, SysIs, Effective, Loaded, Runs
    <2> QED
        BY <1>3, <2>2, <2>4, <2>7 DEF LinuxUndoing
<1>12. CASE /\ sys.loaded \in {"none", was.art} /\ (Runs(sys) => Runs(was))
            /\ cmd.plan = restore /\ sys.art = was.art /\ (sys.enabled => was.enabled)
    <2>1. CASE ~ was.enabled
        BY <1>2, <1>4, <1>11, <1>12, <2>1
    <2>2. CASE was.enabled
        <3>0. "enable" \in UndoSteps
            BY <1>4
        <3>1. Call = "enable" /\ Tail(cmd.plan) = starting
            BY <1>4, <1>12, <2>2, <3>0, FirstStep DEF Call
        <3>2. Possible(Call)
            BY <3>1 DEF Possible
        <3>3. Proceed => SysIs(sys', sys.art, sys.loaded, TRUE, sys.running)
            BY <1>1, <1>3, <3>1, CallEffects
        <3> QED
            BY <1>2, <1>3, <1>12, <2>2, <3>1, <3>2, <3>3 DEF LinuxUndoing, SysIs, Runs
    <2> QED
        BY <2>1, <2>2
<1> QED
    BY <1>6, <1>7, <1>8, <1>9, <1>10, <1>11, <1>12 DEF LinuxUndoing

LEMMA LinuxUndone ==
    ASSUME platform = "linux", sys \in Sys, cmd \in CommandType, InStep(cmd.was),
           LinuxUndoing(<<>>, cmd.was)
    PROVE  Restored(cmd.was)
<1> DEFINE was == cmd.was
           restore == LinuxRestore(cmd.was)
           starting == LinuxStarting(cmd.was)
<1>1. was \in Sys
    BY DEF CommandType
<1>2. /\ sys.art \in Definitions /\ sys.loaded \in Definitions /\ sys.enabled \in BOOLEAN
      /\ sys.running \in Definitions /\ was.enabled \in BOOLEAN /\ was.art \in Definitions
      /\ was.loaded \in {"none", was.art}
    BY <1>1, SysFields DEF InStep
<1>3. /\ UndoSteps = {"stop", "disable", "put_back", "reload", "enable", "start"}
      /\ restore \in Seq(UndoSteps) /\ starting \in Seq(UndoSteps)
      /\ restore = IF was.enabled THEN <<"enable">> \o starting ELSE starting
    BY UndoPlans DEF UndoSteps
<1>4. {"put_back", "reload", "enable"} \subseteq UndoSteps
    BY <1>3
<1>5. /\ <<"put_back">> \o restore # <<>> /\ <<"reload">> \o restore # <<>>
      /\ <<"enable">> \o starting # <<>>
    BY <1>3, <1>4, FirstStep
<1>6. /\ <<"stop", "disable", "put_back", "reload">> \o restore # <<>>
      /\ <<"disable", "put_back", "reload">> \o restore # <<>>
      /\ <<"put_back", "reload">> \o restore # <<>>
    BY <1>3
<1>7. Restored(was) \/ /\ sys.loaded \in {"none", was.art} /\ (Runs(sys) => Runs(was))
                       /\ sys.art = was.art /\ sys.enabled = was.enabled /\ <<>> = starting
    BY <1>2, <1>3, <1>5, <1>6 DEF LinuxUndoing
<1>8. <<>> = starting => ~ Runs(was)
    BY DEF LinuxStarting, If
<1> QED
    BY <1>2, <1>7, <1>8 DEF Restored, Effective, Loaded

LEMMA DarwinUndoGoesOn ==
    ASSUME platform = "darwin", sys \in Sys, PlatformOK(sys), cmd \in CommandType, cmd.undoing,
           InStep(cmd.was), DarwinUndoing(cmd.plan, cmd.was), cmd.plan # <<>>
    PROVE  Possible(Call) /\ (Proceed => DarwinUndoing(cmd.plan, cmd.was)')
<1> DEFINE was == cmd.was
           loading == DarwinLoading(cmd.was)
           enabling == EnableAs(cmd.was) \o DarwinLoading(cmd.was)
<1>1. was \in Sys
    BY DEF CommandType
<1>2. /\ sys.art \in Definitions /\ sys.loaded \in Definitions /\ sys.enabled \in BOOLEAN
      /\ sys.running \in Definitions /\ was.enabled \in BOOLEAN /\ was.art \in Definitions
      /\ was.loaded \in {"none", was.art}
    BY <1>1, SysFields DEF InStep
<1>3. Proceed => /\ sys' = After(Call) /\ cmd'.plan = Tail(cmd.plan) /\ cmd'.was = was
                 /\ platform' = platform
    BY Proceeding
<1>4. /\ UndoSteps = {"bootout", "put_back", "enable", "disable", "bootstrap", "kickstart"}
      /\ loading \in Seq(UndoSteps) /\ enabling \in Seq(UndoSteps)
    BY UndoPlans DEF UndoSteps
<1>5. {"bootout", "put_back", "enable", "disable"} \subseteq UndoSteps
    BY <1>4
<1>6. CASE cmd.plan = <<"bootout">> \o (<<"put_back">> \o enabling)
    <2>1. <<"put_back">> \o enabling \in Seq(UndoSteps)
        BY <1>4, <1>5, FirstStep
    <2>2. Call = "bootout" /\ Tail(cmd.plan) = <<"put_back">> \o enabling
        BY <1>5, <1>6, <2>1, FirstStep DEF Call
    <2>3. Possible(Call)
        BY <2>2 DEF Possible
    <2>4. Proceed => SysIs(sys', sys.art, "none", sys.enabled, "none")
        BY <1>1, <1>3, <2>2, CallEffects
    <2>5. Proceed => Idle(sys')
        BY <2>4 DEF SysIs, Idle, Runs, Loaded
    <2> QED
        BY <1>3, <2>2, <2>3, <2>5 DEF DarwinUndoing, Idle, Runs, Loaded
<1>7. CASE (~ Loaded(was) => Idle(sys)) /\ cmd.plan = <<"put_back">> \o enabling
    <2>1. Call = "put_back" /\ Tail(cmd.plan) = enabling
        BY <1>4, <1>5, <1>7, FirstStep DEF Call
    <2>2. Possible(Call)
        BY <2>1 DEF Possible
    <2>3. Proceed => SysIs(sys', was.art, sys.loaded, sys.enabled, sys.running)
        BY <1>1, <1>3, <2>1, CallEffects
    <2> QED
        BY <1>3, <1>7, <2>1, <2>2, <2>3 DEF DarwinUndoing, SysIs, Idle, Runs, Loaded
<1>8. CASE (~ Loaded(was) => Idle(sys)) /\ cmd.plan = enabling /\ sys.art = was.art
    <2>1. PICK step \in {"enable", "disable"} :
            EnableAs(was) = <<step>> /\ (step = "enable" <=> was.enabled)
        BY <1>2 DEF EnableAs
    <2>2. Call = step /\ Tail(cmd.plan) = loading
        <3>1. step \in UndoSteps /\ cmd.plan = <<step>> \o loading
            BY <1>5, <1>8, <2>1
        <3> QED
            BY <1>4, <3>1, FirstStep DEF Call
    <2>3. Possible(Call)
        BY <2>2 DEF Possible
    <2>4. Proceed => SysIs(sys', sys.art, sys.loaded, was.enabled, sys.running)
        BY <1>1, <1>2, <1>3, <2>1, <2>2, CallEffects
    <2> QED
        BY <1>3, <1>8, <2>2, <2>3, <2>4 DEF DarwinUndoing, SysIs, Idle, Runs, Loaded
<1>9. CASE cmd.plan = loading /\ sys.art = was.art /\ sys.enabled = was.enabled
    <2>1. Loaded(was) /\ cmd.plan = <<"bootstrap">> \o If(Runs(was), <<"kickstart">>)
        BY <1>9 DEF DarwinLoading, If
    <2>2. was.art # "none" /\ was.loaded = was.art
        BY <1>2, <2>1 DEF Loaded
    <2>3. Call = "bootstrap" /\ Tail(cmd.plan) = If(Runs(was), <<"kickstart">>)
        <3>1. "bootstrap" \in UndoSteps /\ "kickstart" \in UndoSteps
            BY <1>4
        <3>2. If(Runs(was), <<"kickstart">>) \in Seq(UndoSteps)
            BY <3>1, ShortPlans DEF If
        <3> QED
            BY <2>1, <3>1, <3>2, FirstStep DEF Call
    <2>4. Possible(Call)
        BY <1>9, <2>2, <2>3 DEF Possible
    <2>5. Proceed => SysIs(sys', sys.art, sys.art, sys.enabled, sys.art)
        BY <1>1, <1>3, <2>3, CallEffects
    <2>6. Proceed => Restored(was)' /\ Runs(sys')
        BY <1>3, <1>9, <2>1, <2>2, <2>5 DEF Restored, SysIs, Loaded, Runs
    <2> QED
        BY <1>3, <2>3, <2>4, <2>6 DEF DarwinUndoing, If, Runs
<1>10. CASE cmd.plan = <<"kickstart">> /\ Restored(was) /\ Runs(sys)
    <2>1. Call = "kickstart" /\ Tail(cmd.plan) = <<>>
        BY <1>10 DEF Call
    <2>2. Possible(Call)
        BY <1>10, <2>1 DEF Possible, PlatformOK
    <2>3. Proceed => sys' = sys
        BY <1>1, <1>3, <1>10, <2>1, CallEffects
    <2>4. Proceed => Restored(was)'
        BY <1>3, <1>10, <2>3 DEF Restored, Runs
    <2> QED
        BY <1>3, <2>1, <2>2, <2>4 DEF DarwinUndoing
<1> QED
    BY <1>6, <1>7, <1>8, <1>9, <1>10 DEF DarwinUndoing

LEMMA DarwinUndone ==
    ASSUME platform = "darwin", sys \in Sys, cmd \in CommandType, PlatformOK(cmd.was),
           DarwinUndoing(<<>>, cmd.was)
    PROVE  Restored(cmd.was)
<1> DEFINE was == cmd.was
           loading == DarwinLoading(cmd.was)
           enabling == EnableAs(cmd.was) \o DarwinLoading(cmd.was)
<1>1. was \in Sys
    BY DEF CommandType
<1>2. /\ UndoSteps = {"bootout", "put_back", "enable", "disable", "bootstrap", "kickstart"}
      /\ loading \in Seq(UndoSteps) /\ enabling \in Seq(UndoSteps)
    BY UndoPlans DEF UndoSteps
<1>3. {"bootout", "put_back", "enable", "disable"} \subseteq UndoSteps
    BY <1>2
<1>4. <<"put_back">> \o enabling \in Seq(UndoSteps) /\ <<"put_back">> \o enabling # <<>>
    BY <1>2, <1>3, FirstStep
<1>5. <<"bootout">> \o (<<"put_back">> \o enabling) # <<>>
    BY <1>3, <1>4, FirstStep
<1>6. enabling # <<>>
    <2>1. PICK step \in {"enable", "disable"} : EnableAs(was) = <<step>>
        BY DEF EnableAs
    <2>2. step \in UndoSteps /\ enabling = <<step>> \o loading
        BY <1>3, <2>1
    <2> QED
        BY <1>2, <2>2, FirstStep
<1>7. <<>> = loading => ~ Loaded(was)
    <2>1. "bootstrap" \in UndoSteps /\ "kickstart" \in UndoSteps
        BY <1>2
    <2>2. If(Runs(was), <<"kickstart">>) \in Seq(UndoSteps)
        BY <2>1, ShortPlans DEF If
    <2>3. <<"bootstrap">> \o If(Runs(was), <<"kickstart">>) # <<>>
        BY <2>1, <2>2, FirstStep
    <2> QED
        BY <2>3 DEF DarwinLoading, If
<1>8. Restored(was) \/ /\ ~ Loaded(was) => Idle(sys)
                       /\ <<>> = loading /\ sys.art = was.art /\ sys.enabled = was.enabled
    BY <1>4, <1>5, <1>6 DEF DarwinUndoing
<1> QED
    BY <1>7, <1>8 DEF Restored, PlatformOK, Idle, Loaded

LEMMA WindowsUndoGoesOn ==
    ASSUME platform = "win32", sys \in Sys, PlatformOK(sys), cmd \in CommandType, cmd.undoing,
           InStep(cmd.was), PlatformOK(cmd.was), ~ Refused(cmd.was),
           WindowsUndoing(cmd.plan, cmd.was), cmd.plan # <<>>,
           platform' = platform, cmd'.was = cmd.was, cmd'.plan = Tail(cmd.plan),
           IF Possible(Call) THEN sys' = After(Call) ELSE sys' = sys
    PROVE  WindowsUndoing(cmd.plan, cmd.was)'
<1> DEFINE was == cmd.was
           back == WindowsBack(cmd.was)
           starting == If(Runs(cmd.was), <<"start">>)
<1>1. was \in Sys
    BY DEF CommandType
<1>2. /\ sys.art \in Definitions /\ sys.loaded \in Definitions /\ sys.enabled \in BOOLEAN
      /\ sys.running \in Definitions /\ was.enabled \in BOOLEAN /\ was.art \in Definitions
      /\ was.loaded = was.art /\ (was.art = "none" => ~ Runs(was) /\ ~ was.enabled)
    BY <1>1, SysFields DEF InStep, PlatformOK, Refused
<1>3. /\ UndoSteps = {"stop", "delete", "put_back", "start"}
      /\ back \in Seq(UndoSteps) /\ starting \in Seq(UndoSteps)
    BY UndoPlans DEF UndoSteps
<1>4. {"stop", "put_back"} \subseteq UndoSteps
    BY <1>3
<1>5. CASE cmd.plan = <<"stop">> \o back /\ (Runs(sys) => sys.art # "none")
    <2>1. Call = "stop" /\ Tail(cmd.plan) = back
        BY <1>3, <1>4, <1>5, FirstStep DEF Call
    <2>2. Possible(Call) \/ sys.art = "none"
        BY <2>1 DEF Possible
    <2>3. Possible(Call) => SysIs(sys', sys.art, sys.loaded, sys.enabled, "none")
        BY <1>1, <2>1, CallEffects
    <2>4. ~ Runs(sys')
        BY <1>5, <2>2, <2>3 DEF SysIs, Runs
    <2> QED
        BY <2>1, <2>4 DEF WindowsUndoing, Runs
<1>6. CASE cmd.plan = back /\ ~ Runs(sys) /\ was.art = "none"
    <2>1. Call = "delete" /\ Tail(cmd.plan) = <<>>
        BY <1>6 DEF Call, WindowsBack
    <2>2. Possible(Call) \/ sys.art = "none"
        BY <2>1 DEF Possible
    <2>3. Possible(Call) => SysIs(sys', "none", "none", FALSE, sys.running)
        BY <1>1, <2>1, CallEffects
    <2>4. SysIs(sys', "none", "none", FALSE, "none")
        BY <1>2, <1>6, <2>2, <2>3 DEF SysIs, Runs, PlatformOK
    <2>5. Restored(was)'
        BY <1>2, <1>6, <2>4 DEF Restored, SysIs, Effective, Loaded, Runs
    <2> QED
        BY <2>1, <2>5 DEF WindowsUndoing
<1>7. CASE cmd.plan = back /\ ~ Runs(sys) /\ was.art # "none"
    <2>1. Call = "put_back" /\ Tail(cmd.plan) = starting
        <3>1. cmd.plan = <<"put_back">> \o starting
            BY <1>7 DEF WindowsBack
        <3> QED
            BY <1>3, <1>4, <3>1, FirstStep DEF Call
    <2>2. Possible(Call)
        BY <2>1 DEF Possible
    <2>3. SysIs(sys', was.art, was.art, was.enabled, sys.running)
        BY <1>1, <2>1, <2>2, CallEffects
    <2> QED
        BY <1>7, <2>1, <2>3 DEF WindowsUndoing, SysIs, Runs
<1>8. CASE /\ cmd.plan = starting /\ was.art # "none"
           /\ sys.art = was.art /\ sys.enabled = was.enabled /\ ~ Runs(sys)
    <2>1. Runs(was) /\ cmd.plan = <<"start">>
        BY <1>8 DEF If
    <2>2. Call = "start" /\ Tail(cmd.plan) = <<>>
        BY <2>1 DEF Call
    <2>3. Possible(Call)
        BY <1>8, <2>2 DEF Possible
    <2>4. sys.loaded = was.art
        BY <1>8 DEF PlatformOK, Refused
    <2>5. Effective(sys) = was.art /\ Effective(was) = was.art
        BY <1>2, <1>8, <2>4 DEF Effective, Loaded
    <2>6. SysIs(sys', was.art, was.art, was.enabled, was.art)
        BY <1>1, <1>8, <2>2, <2>3, <2>5, CallEffects
    <2>7. Restored(was)'
        BY <1>8, <2>1, <2>5, <2>6 DEF Restored, SysIs, Effective, Loaded, Runs
    <2> QED
        BY <2>2, <2>7 DEF WindowsUndoing
<1> QED
    BY <1>5, <1>6, <1>7, <1>8 DEF WindowsUndoing

LEMMA WindowsUndone ==
    ASSUME platform = "win32", sys \in Sys, PlatformOK(sys), cmd \in CommandType,
           PlatformOK(cmd.was), ~ Refused(cmd.was), WindowsUndoing(<<>>, cmd.was)
    PROVE  Restored(cmd.was)
<1> DEFINE was == cmd.was
           back == WindowsBack(cmd.was)
           starting == If(Runs(cmd.was), <<"start">>)
<1>1. was \in Sys /\ was.loaded = was.art
    BY DEF CommandType, PlatformOK, Refused
<1>2. /\ UndoSteps = {"stop", "delete", "put_back", "start"}
      /\ back \in Seq(UndoSteps) /\ starting \in Seq(UndoSteps)
    BY UndoPlans DEF UndoSteps
<1>3. {"stop", "put_back"} \subseteq UndoSteps
    BY <1>2
<1>4. <<"stop">> \o back # <<>> /\ <<"put_back">> \o starting # <<>>
    BY <1>2, <1>3, FirstStep
<1>5. back # <<>>
    BY <1>4 DEF WindowsBack
<1>6. Restored(was) \/ /\ <<>> = starting /\ was.art # "none"
                       /\ sys.art = was.art /\ sys.enabled = was.enabled /\ ~ Runs(sys)
    BY <1>4, <1>5 DEF WindowsUndoing
<1>7. <<>> = starting => ~ Runs(was)
    BY DEF If
<1>8. sys.art = was.art => sys.loaded = was.art
    BY DEF PlatformOK, Refused
<1> QED
    BY <1>1, <1>6, <1>7, <1>8 DEF Restored, Effective, Loaded
-----------------------------------------------------------------------------
(* The service: every call keeps the platform's own order.                 *)

DarwinCalls == {"bootout", "write", "enable", "disable", "bootstrap", "kickstart",
                "ready", "erase", "put_back"}
WindowsCalls == {"register", "start_and_wait", "ready", "stop", "delete", "put_back", "start"}

LEMMA CallsKeepPlatform ==
    ASSUME platform \in {"linux", "darwin", "win32"}, platform' = platform,
           sys \in Sys, PlatformOK(sys), cmd.was \in Sys, PlatformOK(cmd.was),
           NEW step \in Steps, sys' = After(step),
           platform = "darwin" =>
             /\ step \in DarwinCalls /\ (step = "write" => Idle(sys))
             /\ step = "put_back" /\ cmd.was.art = "new" => sys.art = "new",
           platform = "win32" => step \in WindowsCalls
    PROVE  sys' \in Sys /\ PlatformOK(sys)'
<1>1. /\ sys.art \in Definitions /\ sys.loaded \in Definitions /\ sys.enabled \in BOOLEAN
      /\ sys.running \in Definitions
    BY SysFields
<1>2. CASE step \in {"write", "register"}
    <2>1. SysIs(sys', "new", IF platform = "win32" THEN "new" ELSE sys.loaded,
                IF platform = "win32" THEN TRUE ELSE sys.enabled, sys.running)
        BY <1>2, CallEffects
    <2> QED
        BY <1>2, <2>1 DEF PlatformOK, SysIs, Idle, Runs, Loaded, DarwinCalls
<1>3. CASE step = "put_back"
    <2>1. SysIs(sys', cmd.was.art, IF platform = "win32" THEN cmd.was.art ELSE sys.loaded,
                IF platform = "win32" THEN cmd.was.enabled ELSE sys.enabled, sys.running)
        BY <1>3, CallEffects
    <2> QED
        BY <1>3, <2>1 DEF PlatformOK, SysIs, Runs, Loaded
<1>4. CASE step \in {"erase", "delete"}
    <2>1. SysIs(sys', "none", IF platform = "win32" THEN "none" ELSE sys.loaded,
                IF platform = "win32" THEN FALSE ELSE sys.enabled, sys.running)
        BY <1>4, CallEffects
    <2> QED
        BY <2>1 DEF PlatformOK, SysIs, Runs, Loaded
<1>5. CASE step = "reload"
    <2>1. SysIs(sys', sys.art, sys.art, sys.enabled, sys.running) /\ platform = "linux"
        BY <1>5, CallEffects DEF DarwinCalls, WindowsCalls
    <2> QED
        BY <2>1 DEF PlatformOK, SysIs
<1>6. CASE step \in {"enable", "disable"}
    <2>1. /\ SysIs(sys', sys.art, sys.loaded, sys'.enabled, sys.running)
          /\ platform # "win32"
        BY <1>6, CallEffects DEF SysIs, WindowsCalls
    <2> QED
        BY <2>1 DEF PlatformOK, SysIs, Runs, Loaded
<1>7. CASE step \in {"start", "kickstart", "start_and_wait"}
    <2>1. IF Runs(sys) THEN sys' = sys
          ELSE SysIs(sys', sys.art, Effective(sys), sys.enabled, Effective(sys))
        BY <1>7, CallEffects
    <2> QED
        BY <1>1, <2>1 DEF PlatformOK, SysIs, Runs, Loaded, Effective
<1>8. CASE step = "stop"
    <2>1. SysIs(sys', sys.art, sys.loaded, sys.enabled, "none")
        BY <1>8, CallEffects
    <2> QED
        BY <2>1 DEF PlatformOK, SysIs, Runs, Loaded
<1>9. CASE step = "bootstrap"
    <2>1. SysIs(sys', sys.art, sys.art, sys.enabled, sys.art) /\ platform # "win32"
        BY <1>9, CallEffects DEF WindowsCalls
    <2> QED
        BY <2>1 DEF PlatformOK, SysIs, Runs, Loaded
<1>10. CASE step = "bootout"
    <2>1. SysIs(sys', sys.art, "none", sys.enabled, "none") /\ platform # "win32"
        BY <1>10, CallEffects DEF WindowsCalls
    <2> QED
        BY <2>1 DEF PlatformOK, SysIs, Runs, Loaded
<1>11. CASE step = "ready"
    <2>1. sys' = sys
        BY <1>11, CallEffects
    <2> QED
        BY <2>1 DEF PlatformOK
<1> QED
    BY <1>2, <1>3, <1>4, <1>5, <1>6, <1>7, <1>8, <1>9, <1>10, <1>11 DEF Steps

(* The calls of a command that goes forward.                               *)
LEMMA GoingCalls ==
    ASSUME platform \in {"linux", "darwin", "win32"}, sys \in Sys, cmd \in CommandType,
           Going(cmd.plan, cmd.action, cmd.was), cmd.plan # <<>>
    PROVE  /\ platform = "darwin" =>
                /\ Call \in DarwinCalls \ {"put_back"} /\ (Call = "write" => Idle(sys))
                /\ sys.art \in {cmd.was.art, "new"}
           /\ platform = "win32" => Call \in WindowsCalls
<1>1. CASE platform = "darwin" /\ cmd.action = "install"
    <2>1. DarwinInstalling(cmd.plan, cmd.was)
        BY <1>1 DEF Going
    <2>2. CASE cmd.plan = <<"bootout", "write", "enable", "bootstrap", "kickstart", "ready">>
        BY <1>1, <2>1, <2>2 DEF DarwinInstalling, Current, Call, DarwinCalls
    <2>3. CASE cmd.plan = <<"write", "enable", "bootstrap", "kickstart", "ready">>
        BY <1>1, <2>1, <2>3 DEF DarwinInstalling, Current, Call, DarwinCalls
    <2>4. CASE cmd.plan = <<"enable", "bootstrap", "kickstart", "ready">>
        BY <1>1, <2>1, <2>4 DEF DarwinInstalling, Current, Call, DarwinCalls
    <2>5. CASE cmd.plan = <<"bootstrap", "kickstart", "ready">>
        BY <1>1, <2>1, <2>5 DEF DarwinInstalling, Current, Call, DarwinCalls
    <2>6. CASE cmd.plan = <<"kickstart", "ready">>
        BY <1>1, <2>1, <2>6 DEF DarwinInstalling, Current, Call, DarwinCalls
    <2>7. CASE cmd.plan = <<"ready">>
        BY <1>1, <2>1, <2>7 DEF DarwinInstalling, Current, Call, DarwinCalls
    <2> QED
        BY <2>1, <2>2, <2>3, <2>4, <2>5, <2>6, <2>7 DEF DarwinInstalling
<1>2. CASE platform = "darwin" /\ cmd.action = "remove"
    <2>1. DarwinRemoving(cmd.plan, cmd.was)
        BY <1>2 DEF Going
    <2>2. CASE cmd.plan = <<"bootout", "disable", "erase">>
        BY <1>2, <2>1, <2>2 DEF DarwinRemoving, Call, DarwinCalls
    <2>3. CASE cmd.plan = <<"disable", "erase">>
        BY <1>2, <2>1, <2>3 DEF DarwinRemoving, Call, DarwinCalls
    <2>4. CASE cmd.plan = <<"erase">>
        BY <1>2, <2>1, <2>4 DEF DarwinRemoving, Call, DarwinCalls
    <2> QED
        BY <2>1, <2>2, <2>3, <2>4 DEF DarwinRemoving
<1>3. CASE platform = "win32" /\ cmd.action = "install"
    <2>1. WindowsInstalling(cmd.plan, cmd.was)
        BY <1>3 DEF Going
    <2> QED
        BY <1>3, <2>1 DEF WindowsInstalling, Call, WindowsCalls
<1>4. CASE platform = "win32" /\ cmd.action = "remove"
    <2>1. WindowsRemoving(cmd.plan, cmd.was)
        BY <1>4 DEF Going
    <2> QED
        BY <1>4, <2>1 DEF WindowsRemoving, Call, WindowsCalls
<1> QED
    BY <1>1, <1>2, <1>3, <1>4 DEF CommandType
-----------------------------------------------------------------------------
(* The service: the steps of a command keep the invariant.                 *)

LEMMA CallsOfCommand ==
    ASSUME ServiceInd, CommandOK, cmd.plan # <<>>
    PROVE  /\ Call \in Steps
           /\ cmd.undoing => Call \in UndoSteps /\ Tail(cmd.plan) \in Seq(UndoSteps)
           /\ platform = "darwin" =>
                /\ Call \in DarwinCalls /\ (Call = "write" => Idle(sys))
                /\ Call = "put_back" => cmd.undoing
                /\ Call = "put_back" /\ cmd.was.art = "new" => sys.art = "new"
           /\ platform = "win32" => Call \in WindowsCalls
<1>1. /\ platform \in {"linux", "darwin", "win32"} /\ sys \in Sys /\ cmd \in CommandType
      /\ cmd.plan \in Seq(Steps) /\ cmd.undoing \in BOOLEAN
    BY DEF ServiceInd, CommandOK, CommandType
<1>2. Call \in Steps
    BY <1>1 DEF Call
<1>3. CASE ~ cmd.undoing
    <2>1. Going(cmd.plan, cmd.action, cmd.was)
        BY <1>3 DEF CommandOK
    <2> QED
        BY <1>1, <1>2, <1>3, <2>1, GoingCalls DEF DarwinCalls
<1>4. CASE cmd.undoing
    <2>1. cmd.plan \in Seq(UndoSteps)
        BY <1>4 DEF CommandOK
    <2>2. Call \in UndoSteps /\ Tail(cmd.plan) \in Seq(UndoSteps)
        BY <2>1 DEF Call
    <2>3. platform = "darwin" => Call \in DarwinCalls /\ Call # "write"
        BY <2>2 DEF UndoSteps, DarwinCalls
    <2>4. platform = "win32" => Call \in WindowsCalls
        BY <2>2 DEF UndoSteps, WindowsCalls
    <2>5. platform = "darwin" /\ cmd.was.art = "new" => sys.art = "new"
        BY <1>4 DEF CommandOK
    <2> QED
        BY <1>2, <1>4, <2>2, <2>3, <2>4, <2>5
<1> QED
    BY <1>1, <1>3, <1>4

(* On macOS a rollback never takes back more than there was.               *)
LEMMA ArtKept ==
    ASSUME ServiceInd, CommandOK, cmd.plan # <<>>, platform = "darwin", cmd.was.art = "new",
           cmd.undoing \/ sys' = sys \/ MayBeLate(Call),
           sys' = sys \/ sys' = After(Call)
    PROVE  sys'.art = "new"
<1>1. cmd.was \in Sys /\ sys \in Sys /\ cmd.undoing \in BOOLEAN
    BY DEF ServiceInd, CommandOK, CommandType
<1>2. Call \in DarwinCalls /\ (Call = "put_back" => cmd.undoing) /\ (cmd.undoing =>
          Call \in UndoSteps)
    BY CallsOfCommand
<1>3. sys.art = "new"
    <2>1. CASE cmd.undoing
        BY <2>1 DEF CommandOK
    <2>2. CASE ~ cmd.undoing
        <3>1. Going(cmd.plan, cmd.action, cmd.was)
            BY <2>2 DEF CommandOK
        <3> QED
            BY <3>1, GoingCalls DEF ServiceInd, CommandOK
    <2> QED
        BY <1>1, <2>1, <2>2
<1>4. CASE sys' = sys
    BY <1>3, <1>4
<1>5. CASE sys' = After(Call)
    <2>1. Call \in {"write", "put_back"} => sys'.art = "new"
        BY <1>1, <1>5, CallEffects DEF SysIs
    <2>2. Call \in {"enable", "disable", "bootstrap", "kickstart", "bootout", "ready"} =>
              sys'.art = sys.art
        BY <1>1, <1>5, CallEffects DEF SysIs
    <2>3. Call # "erase" \/ sys' = sys
        BY <1>2 DEF MayBeLate, UndoSteps
    <2> QED
        BY <1>2, <1>3, <2>1, <2>2, <2>3 DEF DarwinCalls
<1> QED
    BY <1>4, <1>5

LEMMA ProceedKeeps ==
    ASSUME ServiceInd, Proceed
    PROVE  ServiceInd'
<1>1. CommandOK /\ cmd.plan # <<>>
    <2>1. cmd.plan # <<>>
        BY DEF Proceed
    <2>2. NoCommand.plan = <<>>
        BY DEF NoCommand
    <2> QED
        BY <2>1, <2>2 DEF ServiceInd
<1>2. /\ platform \in {"linux", "darwin", "win32"} /\ sys \in Sys /\ PlatformOK(sys)
      /\ cmd \in CommandType /\ cmd.was \in Sys /\ PlatformOK(cmd.was) /\ ~ Refused(cmd.was)
      /\ cmd.undoing \in BOOLEAN /\ cmd.action \in {"install", "remove"}
      /\ (cmd.action = "remove" => cmd.was.art # "none")
    BY <1>1 DEF ServiceInd, CommandOK, CommandType
<1>3. /\ Possible(Call) /\ sys' = After(Call) /\ platform' = platform
      /\ cmd' \in CommandType /\ cmd'.plan = Tail(cmd.plan) /\ cmd'.action = cmd.action
      /\ cmd'.undoing = cmd.undoing /\ cmd'.was = cmd.was /\ cmd'.faults = cmd.faults
      /\ cmd'.blind = cmd.blind /\ ~ cmd'.gaveUp
    BY <1>1, <1>2, Proceeding DEF CommandOK
<1>4. /\ Call \in Steps
      /\ cmd.undoing => Call \in UndoSteps /\ Tail(cmd.plan) \in Seq(UndoSteps)
      /\ platform = "darwin" =>
           /\ Call \in DarwinCalls /\ (Call = "write" => Idle(sys))
           /\ Call = "put_back" /\ cmd.was.art = "new" => sys.art = "new"
      /\ platform = "win32" => Call \in WindowsCalls
    BY <1>1, CallsOfCommand
<1>5. sys' \in Sys /\ PlatformOK(sys)'
    BY <1>2, <1>3, <1>4, CallsKeepPlatform
<1>6. (~ Refused(cmd.was) /\ PlatformOK(cmd.was))'
    BY <1>2, <1>3 DEF Refused, PlatformOK, Runs, Loaded
<1>7. ~ cmd.undoing => Going(cmd.plan, cmd.action, cmd.was)'
    <2>1. HAVE ~ cmd.undoing
    <2>2. Going(cmd.plan, cmd.action, cmd.was)
        BY <1>1, <2>1 DEF CommandOK
    <2>3. CASE platform = "linux" /\ cmd.action = "install"
        <3>1. LinuxInstalling(cmd.plan, cmd.was)
            BY <2>2, <2>3 DEF Going
        <3> QED
            BY <1>2, <1>3, <2>1, <2>3, <3>1, LinuxInstallGoesOn DEF Going
    <2>4. CASE platform = "linux" /\ cmd.action = "remove"
        <3>1. LinuxRemoving(cmd.plan, cmd.was)
            BY <2>2, <2>4 DEF Going
        <3> QED
            BY <1>2, <1>3, <2>1, <2>4, <3>1, LinuxRemoveGoesOn DEF Going
    <2>5. CASE platform = "darwin" /\ cmd.action = "install"
        <3>1. DarwinInstalling(cmd.plan, cmd.was)
            BY <2>2, <2>5 DEF Going
        <3> QED
            BY <1>2, <1>3, <2>1, <2>5, <3>1, DarwinInstallGoesOn DEF Going
    <2>6. CASE platform = "darwin" /\ cmd.action = "remove"
        <3>1. DarwinRemoving(cmd.plan, cmd.was)
            BY <2>2, <2>6 DEF Going
        <3> QED
            BY <1>2, <1>3, <2>1, <2>6, <3>1, DarwinRemoveGoesOn DEF Going
    <2>7. CASE platform = "win32" /\ cmd.action = "install"
        <3>1. WindowsInstalling(cmd.plan, cmd.was)
            BY <2>2, <2>7 DEF Going
        <3> QED
            BY <1>2, <1>3, <2>1, <2>7, <3>1, WindowsInstallGoesOn DEF Going
    <2>8. CASE platform = "win32" /\ cmd.action = "remove"
        <3>1. WindowsRemoving(cmd.plan, cmd.was)
            BY <2>2, <2>8 DEF Going
        <3> QED
            BY <1>2, <1>3, <2>1, <2>8, <3>1, WindowsRemoveGoesOn DEF Going
    <2> QED
        BY <1>2, <2>3, <2>4, <2>5, <2>6, <2>7, <2>8
<1>8. cmd.undoing => /\ (cmd.plan \in Seq(UndoSteps))' /\ cmd'.faults > 0
                     /\ platform' = "darwin" /\ cmd'.was.art = "new" => sys'.art = "new"
    <2>1. HAVE cmd.undoing
    <2>2. UndoSteps' = UndoSteps
        BY <1>3 DEF UndoSteps
    <2>3. cmd.faults > 0
        BY <1>1, <2>1 DEF CommandOK
    <2> QED
        BY <1>1, <1>3, <1>4, <2>1, <2>2, <2>3, ArtKept
<1>9. cmd.undoing => ((cmd.faults <= 1 /\ ~ cmd.blind /\ ~ cmd.gaveUp /\ InStep(cmd.was) =>
          Undoing(cmd.plan, cmd.was))')
    <2>1. HAVE cmd.undoing
    <2>2. SUFFICES ASSUME cmd.faults <= 1, ~ cmd.blind, InStep(cmd.was)
                   PROVE  Undoing(cmd.plan, cmd.was)'
        BY <1>3 DEF InStep, Runs
    <2>3. Undoing(cmd.plan, cmd.was)
        BY <1>1, <1>3, <2>1, <2>2 DEF CommandOK
    <2>4. CASE platform = "linux"
        BY <1>1, <1>2, <1>3, <2>1, <2>2, <2>3, <2>4, LinuxUndoGoesOn DEF Undoing
    <2>5. CASE platform = "darwin"
        BY <1>1, <1>2, <1>3, <2>1, <2>2, <2>3, <2>5, DarwinUndoGoesOn DEF Undoing
    <2>6. CASE platform = "win32"
        BY <1>1, <1>2, <1>3, <2>1, <2>2, <2>3, <2>6, WindowsUndoGoesOn DEF Undoing
    <2> QED
        BY <1>2, <2>4, <2>5, <2>6
<1>10. CommandOK'
    BY <1>2, <1>3, <1>6, <1>7, <1>8, <1>9 DEF CommandOK
<1> QED
    BY <1>2, <1>3, <1>5, <1>10 DEF ServiceInd

LEMMA FailKeeps ==
    ASSUME ServiceInd, Fail
    PROVE  ServiceInd'
<1>1. CommandOK /\ cmd.plan # <<>>
    <2>1. cmd.plan # <<>>
        BY DEF Fail
    <2>2. NoCommand.plan = <<>>
        BY DEF NoCommand
    <2> QED
        BY <2>1, <2>2 DEF ServiceInd
<1>2. /\ platform \in {"linux", "darwin", "win32"} /\ sys \in Sys /\ PlatformOK(sys)
      /\ cmd \in CommandType /\ cmd.was \in Sys /\ PlatformOK(cmd.was) /\ ~ Refused(cmd.was)
      /\ cmd.undoing \in BOOLEAN /\ cmd.action \in {"install", "remove"} /\ cmd.faults \in Nat
      /\ (cmd.action = "remove" => cmd.was.art # "none") /\ cmd.blind \in BOOLEAN
    BY <1>1 DEF ServiceInd, CommandOK, CommandType
<1>3. UndoSteps \subseteq Steps /\ UndoPlan \in Seq(UndoSteps) /\ UndoPlan \in Seq(Steps)
    <2>1. UndoSteps \subseteq Steps /\ UndoPlan \in Seq(UndoSteps)
        BY <1>2, UndoPlans
    <2> QED
        BY <2>1, SeqMonotonic
<1>4. /\ platform' = platform
      /\ cmd' \in CommandType /\ cmd'.plan = PlanAfterFailure /\ cmd'.undoing = TRUE
      /\ cmd'.action = cmd.action /\ cmd'.was = cmd.was /\ ~ cmd'.gaveUp /\ ~ cmd.gaveUp
      /\ \/ /\ sys' = sys /\ cmd'.blind = cmd.blind
            /\ cmd'.faults = IF cmd.undoing /\ ~ Possible(Call) THEN cmd.faults
                             ELSE cmd.faults + 1
         \/ /\ Possible(Call) /\ MayBeLate(Call) /\ sys' = After(Call)
            /\ cmd'.faults = cmd.faults + 1 /\ cmd'.blind = (cmd.blind \/ Call = "bootstrap")
    BY <1>1, <1>2, <1>3, Failing DEF CommandOK
<1>5. /\ Call \in Steps
      /\ cmd.undoing => Call \in UndoSteps /\ Tail(cmd.plan) \in Seq(UndoSteps)
      /\ platform = "darwin" =>
           /\ Call \in DarwinCalls /\ (Call = "write" => Idle(sys))
           /\ Call = "put_back" /\ cmd.was.art = "new" => sys.art = "new"
      /\ platform = "win32" => Call \in WindowsCalls
    BY <1>1, CallsOfCommand
<1>6. sys' \in Sys /\ PlatformOK(sys)'
    <2>1. CASE sys' = sys
        BY <1>2, <1>4, <2>1 DEF PlatformOK
    <2>2. CASE sys' = After(Call)
        BY <1>2, <1>4, <1>5, <2>2, CallsKeepPlatform
    <2> QED
        BY <1>4, <2>1, <2>2
<1>7. (~ Refused(cmd.was) /\ PlatformOK(cmd.was))'
    BY <1>2, <1>4 DEF Refused, PlatformOK, Runs, Loaded
<1>8. /\ (cmd.plan \in Seq(UndoSteps))' /\ cmd'.faults > 0
      /\ platform' = "darwin" /\ cmd'.was.art = "new" => sys'.art = "new"
    <2>1. UndoSteps' = UndoSteps
        BY <1>4 DEF UndoSteps
    <2>2. <<>> \in Seq(UndoSteps) /\ (platform = "darwin" => EnableAs(cmd.was) \in Seq(UndoSteps))
        BY <1>2, UndoPlans, ShortPlans
    <2>3. PlanAfterFailure \in Seq(UndoSteps)
        BY <1>2, <1>3, <1>5, <2>2 DEF PlanAfterFailure
    <2>4. cmd'.faults > 0
        <3>1. cmd.undoing => cmd.faults > 0
            BY <1>1 DEF CommandOK
        <3> QED
            BY <1>2, <1>4, <3>1
    <2>5. platform = "darwin" /\ cmd.was.art = "new" => sys'.art = "new"
        BY <1>1, <1>4, ArtKept
    <2> QED
        BY <1>4, <2>1, <2>3, <2>4, <2>5
<1>9. (cmd.faults <= 1 /\ ~ cmd.blind /\ ~ cmd.gaveUp /\ InStep(cmd.was) =>
          Undoing(cmd.plan, cmd.was))'
    <2>1. SUFFICES ASSUME cmd'.faults <= 1, ~ cmd'.blind, InStep(cmd.was)
                   PROVE  Undoing(cmd.plan, cmd.was)'
        BY <1>4 DEF InStep, Runs
    <2>2. CASE ~ cmd.undoing
        <3>1. Going(cmd.plan, cmd.action, cmd.was)
            BY <1>1, <2>2 DEF CommandOK
        <3>2. CASE platform = "linux" /\ cmd.action = "install"
            <4>1. LinuxInstalling(cmd.plan, cmd.was)
                BY <3>1, <3>2 DEF Going
            <4> QED
                BY <1>2, <1>4, <2>1, <2>2, <3>2, <4>1, LinuxInstallTurns DEF Undoing
        <3>3. CASE platform = "linux" /\ cmd.action = "remove"
            <4>1. LinuxRemoving(cmd.plan, cmd.was)
                BY <3>1, <3>3 DEF Going
            <4> QED
                BY <1>2, <1>4, <2>1, <2>2, <3>3, <4>1, LinuxRemoveTurns DEF Undoing
        <3>4. CASE platform = "darwin" /\ cmd.action = "install"
            <4>1. DarwinInstalling(cmd.plan, cmd.was)
                BY <3>1, <3>4 DEF Going
            <4> QED
                BY <1>2, <1>4, <2>1, <2>2, <3>4, <4>1, DarwinInstallTurns DEF Undoing
        <3>5. CASE platform = "darwin" /\ cmd.action = "remove"
            <4>1. DarwinRemoving(cmd.plan, cmd.was)
                BY <3>1, <3>5 DEF Going
            <4> QED
                BY <1>2, <1>4, <2>1, <2>2, <3>5, <4>1, DarwinRemoveTurns DEF Undoing
        <3>6. CASE platform = "win32"
            <4>1. \/ cmd.action = "install" /\ WindowsInstalling(cmd.plan, cmd.was)
                  \/ cmd.action = "remove" /\ cmd.was.art # "none" /\ WindowsRemoving(cmd.plan, cmd.was)
                BY <1>2, <3>1, <3>6 DEF Going
            <4>2. WindowsUndoing(cmd.plan, cmd.was)'
                BY <1>2, <2>1, <2>2, <3>6, <4>1, WindowsTurns
            <4> QED
                BY <1>4, <3>6, <4>2 DEF Undoing
        <3> QED
            BY <1>2, <3>2, <3>3, <3>4, <3>5, <3>6
    <2>3. CASE cmd.undoing
        <3>1. cmd.faults > 0
            BY <1>1, <2>3 DEF CommandOK
        <3>2. sys' = sys /\ cmd'.blind = cmd.blind /\ ~ Possible(Call) /\ cmd.faults <= 1
            BY <1>2, <1>4, <2>1, <3>1
        <3>3. Undoing(cmd.plan, cmd.was)
            BY <1>1, <1>4, <2>1, <2>3, <3>2 DEF CommandOK
        <3>4. CASE platform = "linux"
            BY <1>1, <1>2, <2>1, <2>3, <3>2, <3>3, <3>4, LinuxUndoGoesOn DEF Undoing
        <3>5. CASE platform = "darwin"
            BY <1>1, <1>2, <2>1, <2>3, <3>2, <3>3, <3>5, DarwinUndoGoesOn DEF Undoing
        <3>6. CASE platform = "win32"
            <4>1. cmd'.plan = Tail(cmd.plan)
                BY <1>4, <2>3, <3>6 DEF PlanAfterFailure
            <4> QED
                BY <1>1, <1>2, <1>4, <2>1, <2>3, <3>2, <3>3, <3>6, <4>1, WindowsUndoGoesOn
                   DEF Undoing
        <3> QED
            BY <1>2, <3>4, <3>5, <3>6
    <2> QED
        BY <1>2, <2>2, <2>3
<1>10. CommandOK'
    BY <1>2, <1>4, <1>7, <1>8, <1>9 DEF CommandOK
<1> QED
    BY <1>2, <1>4, <1>6, <1>10 DEF ServiceInd
-----------------------------------------------------------------------------
(* The service: the commands as they are given.                            *)

(* A plan and its optional first step.                                     *)
LEMMA JoinTwo ==
    ASSUME NEW a, NEW b
    PROVE  <<a>> \o <<b>> = <<a, b>>
<1> DEFINE S == {a, b}
           s == <<a>> \o <<b>>
           t == <<a, b>>
<1>1. <<a>> \in Seq(S) /\ <<b>> \in Seq(S) /\ t \in Seq(S)
    OBVIOUS
<1>2. s \in Seq(S)
    BY <1>1, ConcatProperties
<1>3. Len(s) = 2 /\ Len(t) = 2 /\ \A i \in 1..2 : s[i] = t[i]
    OBVIOUS
<1> HIDE DEF S, s, t
<1>4. s = t
    BY <1>1, <1>2, <1>3, SeqEqual
<1> QED
    BY <1>4 DEF s, t

LEMMA JoinThree ==
    ASSUME NEW a, NEW b, NEW c
    PROVE  <<a>> \o <<b, c>> = <<a, b, c>>
<1> DEFINE S == {a, b, c}
           s == <<a>> \o <<b, c>>
           t == <<a, b, c>>
<1>1. <<a>> \in Seq(S) /\ <<b, c>> \in Seq(S) /\ t \in Seq(S)
    OBVIOUS
<1>2. s \in Seq(S)
    BY <1>1, ConcatProperties
<1>3. Len(s) = 3 /\ Len(t) = 3 /\ \A i \in 1..3 : s[i] = t[i]
    OBVIOUS
<1> HIDE DEF S, s, t
<1>4. s = t
    BY <1>1, <1>2, <1>3, SeqEqual
<1> QED
    BY <1>4 DEF s, t

LEMMA JoinOne ==
    ASSUME NEW a, NEW b, NEW c
    PROVE  <<a, b>> \o <<c>> = <<a, b, c>>
<1> DEFINE S == {a, b, c}
           s == <<a, b>> \o <<c>>
           t == <<a, b, c>>
<1>1. <<a, b>> \in Seq(S) /\ <<c>> \in Seq(S) /\ t \in Seq(S)
    OBVIOUS
<1>2. s \in Seq(S)
    BY <1>1, ConcatProperties
<1>3. Len(s) = 3 /\ Len(t) = 3 /\ \A i \in 1..3 : s[i] = t[i]
    OBVIOUS
<1> HIDE DEF S, s, t
<1>4. s = t
    BY <1>1, <1>2, <1>3, SeqEqual
<1> QED
    BY <1>4 DEF s, t

LEMMA JoinFive ==
    ASSUME NEW a, NEW b, NEW c, NEW d, NEW e
    PROVE  <<a>> \o <<b, c, d, e>> = <<a, b, c, d, e>>
<1> DEFINE S == {a, b, c, d, e}
           s == <<a>> \o <<b, c, d, e>>
           t == <<a, b, c, d, e>>
<1>1. <<a>> \in Seq(S) /\ <<b, c, d, e>> \in Seq(S) /\ t \in Seq(S)
    OBVIOUS
<1>2. s \in Seq(S)
    BY <1>1, ConcatProperties
<1>3. Len(s) = 5 /\ Len(t) = 5 /\ \A i \in 1..5 : s[i] = t[i]
    OBVIOUS
<1> HIDE DEF S, s, t
<1>4. s = t
    BY <1>1, <1>2, <1>3, SeqEqual
<1> QED
    BY <1>4 DEF s, t

LEMMA JoinSix ==
    ASSUME NEW a, NEW b, NEW c, NEW d, NEW e, NEW f
    PROVE  <<a>> \o <<b, c, d, e, f>> = <<a, b, c, d, e, f>>
<1> DEFINE S == {a, b, c, d, e, f}
           s == <<a>> \o <<b, c, d, e, f>>
           t == <<a, b, c, d, e, f>>
<1>1. <<a>> \in Seq(S) /\ <<b, c, d, e, f>> \in Seq(S) /\ t \in Seq(S)
    OBVIOUS
<1>2. s \in Seq(S)
    BY <1>1, ConcatProperties
<1>3. Len(s) = 6 /\ Len(t) = 6 /\ \A i \in 1..6 : s[i] = t[i]
    OBVIOUS
<1> HIDE DEF S, s, t
<1>4. s = t
    BY <1>1, <1>2, <1>3, SeqEqual
<1> QED
    BY <1>4 DEF s, t

LEMMA LongPlans ==
    ASSUME NEW S, NEW a \in S, NEW b \in S, NEW c \in S, NEW d \in S, NEW e \in S, NEW f \in S
    PROVE  /\ <<a>> \in Seq(S) /\ <<a, b>> \in Seq(S) /\ <<a, b, c>> \in Seq(S)
           /\ <<a, b, c, d>> \in Seq(S) /\ <<a, b, c, d, e>> \in Seq(S)
           /\ <<a, b, c, d, e, f>> \in Seq(S)
OBVIOUS

(* The plan of a command starts where the service is.                      *)
LEMMA GivenPlan ==
    ASSUME platform \in {"linux", "darwin", "win32"}, platform' = platform,
           sys \in Sys, sys' = sys, PlatformOK(sys), ~ Refused(sys),
           NEW action \in {"install", "remove"},
           cmd'.plan = PlanOf(action), cmd'.action = action, cmd'.was = sys, cmd'.loaded = FALSE
    PROVE  PlanOf(action) \in Seq(Steps) /\ Going(cmd.plan, cmd.action, cmd.was)'
<1>1. /\ sys.art \in Definitions /\ sys.loaded \in Definitions /\ sys.enabled \in BOOLEAN
      /\ sys.running \in Definitions
    BY SysFields
<1>2. /\ "write" \in Steps /\ "reload" \in Steps /\ "enable" \in Steps /\ "start" \in Steps
      /\ "ready" \in Steps /\ "stop" \in Steps /\ "disable" \in Steps /\ "erase" \in Steps
      /\ "bootout" \in Steps /\ "bootstrap" \in Steps /\ "kickstart" \in Steps
      /\ "register" \in Steps /\ "start_and_wait" \in Steps /\ "delete" \in Steps
    BY DEF Steps
<1>3. CASE platform = "linux" /\ action = "install"
    <2>1. PlanOf(action) = If(sys.art # "new", <<"write">>) \o <<"reload", "enable", "start", "ready">>
        BY <1>3 DEF PlanOf, LinuxInstall
    <2>2. CASE sys.art = "new"
        <3>1. PlanOf(action) = <<"reload", "enable", "start", "ready">>
            BY <2>1, <2>2 DEF If
        <3>2. PlanOf(action) \in Seq(Steps)
            BY <1>2, <3>1, LongPlans
        <3> QED
            BY <1>3, <2>2, <3>1, <3>2 DEF Going, LinuxInstalling
    <2>3. CASE sys.art # "new"
        <3>1. PlanOf(action) = <<"write", "reload", "enable", "start", "ready">>
            <4>1. PlanOf(action) = <<"write">> \o <<"reload", "enable", "start", "ready">>
                BY <2>1, <2>3 DEF If
            <4>2. <<"write">> \o <<"reload", "enable", "start", "ready">>
                    = <<"write", "reload", "enable", "start", "ready">>
                BY JoinFive
            <4> QED
                BY <4>1, <4>2
        <3>2. PlanOf(action) \in Seq(Steps)
            BY <1>2, <3>1, LongPlans
        <3> QED
            BY <1>3, <3>1, <3>2 DEF Going, LinuxInstalling
    <2> QED
        BY <2>2, <2>3
<1>4. CASE platform = "linux" /\ action = "remove"
    <2>1. PlanOf(action) = <<"stop", "disable", "erase", "reload">>
        BY <1>4 DEF PlanOf, LinuxRemove
    <2>2. PlanOf(action) \in Seq(Steps)
        BY <1>2, <2>1, LongPlans
    <2> QED
        BY <1>4, <2>1, <2>2 DEF Going, LinuxRemoving
<1>5. CASE platform = "darwin" /\ action = "install"
    <2>1. PlanOf(action) = If(Loaded(sys), <<"bootout">>)
                             \o <<"write", "enable", "bootstrap", "kickstart", "ready">>
        BY <1>5 DEF PlanOf, DarwinInstall
    <2>2. CASE Loaded(sys)
        <3>1. PlanOf(action) = <<"bootout", "write", "enable", "bootstrap", "kickstart", "ready">>
            <4>1. PlanOf(action) = <<"bootout">>
                    \o <<"write", "enable", "bootstrap", "kickstart", "ready">>
                BY <2>1, <2>2 DEF If
            <4>2. <<"bootout">> \o <<"write", "enable", "bootstrap", "kickstart", "ready">>
                    = <<"bootout", "write", "enable", "bootstrap", "kickstart", "ready">>
                BY JoinSix
            <4> QED
                BY <4>1, <4>2
        <3>2. PlanOf(action) \in Seq(Steps)
            BY <1>2, <3>1, LongPlans
        <3> QED
            BY <1>5, <3>1, <3>2 DEF Going, DarwinInstalling
    <2>3. CASE ~ Loaded(sys)
        <3>1. PlanOf(action) = <<"write", "enable", "bootstrap", "kickstart", "ready">>
            BY <2>1, <2>3 DEF If
        <3>2. PlanOf(action) \in Seq(Steps)
            BY <1>2, <3>1, LongPlans
        <3>3. Idle(sys)'
            BY <1>5, <2>3 DEF PlatformOK, Idle, Runs, Loaded
        <3> QED
            BY <1>5, <3>1, <3>2, <3>3 DEF Going, DarwinInstalling
    <2> QED
        BY <2>2, <2>3
<1>6. CASE platform = "darwin" /\ action = "remove"
    <2>1. PlanOf(action) = If(Loaded(sys), <<"bootout">>) \o <<"disable", "erase">>
        BY <1>6 DEF PlanOf, DarwinRemove
    <2>2. CASE Loaded(sys)
        <3>1. PlanOf(action) = <<"bootout", "disable", "erase">>
            <4>1. PlanOf(action) = <<"bootout">> \o <<"disable", "erase">>
                BY <2>1, <2>2 DEF If
            <4>2. <<"bootout">> \o <<"disable", "erase">> = <<"bootout", "disable", "erase">>
                BY JoinThree
            <4> QED
                BY <4>1, <4>2
        <3>2. PlanOf(action) \in Seq(Steps)
            BY <1>2, <3>1, LongPlans
        <3> QED
            BY <1>6, <3>1, <3>2 DEF Going, DarwinRemoving
    <2>3. CASE ~ Loaded(sys)
        <3>1. PlanOf(action) = <<"disable", "erase">>
            BY <2>1, <2>3 DEF If
        <3>2. PlanOf(action) \in Seq(Steps)
            BY <1>2, <3>1, LongPlans
        <3>3. Idle(sys)'
            BY <1>6, <2>3 DEF PlatformOK, Idle, Runs, Loaded
        <3> QED
            BY <1>6, <3>1, <3>2, <3>3 DEF Going, DarwinRemoving
    <2> QED
        BY <2>2, <2>3
<1>7. CASE platform = "win32" /\ action = "install"
    <2>1. PlanOf(action) = (If(Changed(sys), <<"register">>)
                             \o If(Changed(sys) \/ ~ Runs(sys), <<"start_and_wait">>)) \o <<"ready">>
        BY <1>7 DEF PlanOf, WindowsInstall
    <2>2. CASE Changed(sys)
        <3>1. PlanOf(action) = <<"register", "start_and_wait", "ready">>
            <4>1. PlanOf(action) = (<<"register">> \o <<"start_and_wait">>) \o <<"ready">>
                BY <2>1, <2>2 DEF If
            <4>2. /\ <<"register">> \o <<"start_and_wait">> = <<"register", "start_and_wait">>
                  /\ <<"register", "start_and_wait">> \o <<"ready">>
                       = <<"register", "start_and_wait", "ready">>
                BY JoinTwo, JoinOne
            <4> QED
                BY <4>1, <4>2
        <3>2. PlanOf(action) \in Seq(Steps)
            BY <1>2, <3>1, LongPlans
        <3> QED
            BY <1>7, <2>2, <3>1, <3>2 DEF Going, WindowsInstalling, Changed
    <2>3. CASE ~ Changed(sys) /\ ~ Runs(sys)
        <3>1. PlanOf(action) = <<"start_and_wait", "ready">>
            <4>1. PlanOf(action) = (<<>> \o <<"start_and_wait">>) \o <<"ready">>
                BY <2>1, <2>3 DEF If
            <4>2. /\ <<>> \o <<"start_and_wait">> = <<"start_and_wait">>
                  /\ <<"start_and_wait">> \o <<"ready">> = <<"start_and_wait", "ready">>
                BY JoinTwo
            <4> QED
                BY <4>1, <4>2
        <3>2. PlanOf(action) \in Seq(Steps)
            BY <1>2, <3>1, LongPlans
        <3>3. Current'
            BY <1>7, <2>3 DEF Changed, Current, PlatformOK
        <3> QED
            BY <1>7, <3>1, <3>2, <3>3 DEF Going, WindowsInstalling
    <2>4. CASE ~ Changed(sys) /\ Runs(sys)
        <3>1. PlanOf(action) = <<"ready">>
            BY <2>1, <2>4 DEF If
        <3>2. PlanOf(action) \in Seq(Steps)
            BY <1>2, <3>1, LongPlans
        <3>3. Current' /\ Runs(sys)'
            BY <1>7, <2>4 DEF Changed, Current, PlatformOK, Runs
        <3> QED
            BY <1>7, <3>1, <3>2, <3>3 DEF Going, WindowsInstalling
    <2> QED
        BY <2>2, <2>3, <2>4
<1>8. CASE platform = "win32" /\ action = "remove"
    <2>1. PlanOf(action) = If(Runs(sys), <<"stop">>) \o <<"delete">>
        BY <1>8 DEF PlanOf, WindowsRemove
    <2>2. CASE Runs(sys)
        <3>1. PlanOf(action) = <<"stop", "delete">>
            BY <2>1, <2>2, JoinTwo DEF If
        <3>2. PlanOf(action) \in Seq(Steps)
            BY <1>2, <3>1, LongPlans
        <3> QED
            BY <1>8, <3>1, <3>2 DEF Going, WindowsRemoving
    <2>3. CASE ~ Runs(sys)
        <3>1. PlanOf(action) = <<"delete">>
            BY <2>1, <2>3 DEF If
        <3>2. PlanOf(action) \in Seq(Steps)
            BY <1>2, <3>1, LongPlans
        <3> QED
            BY <1>8, <2>3, <3>1, <3>2 DEF Going, WindowsRemoving, Runs
    <2> QED
        BY <2>2, <2>3
<1> QED
    BY <1>3, <1>4, <1>5, <1>6, <1>7, <1>8

(* A command that is given is under way.                                   *)
LEMMA GivenCommand ==
    ASSUME ServiceInd, NEW action \in {"install", "remove"}, NEW plan \in Seq(Steps),
           Give(action, plan), action = "remove" => sys.art # "none",
           Going(cmd.plan, cmd.action, cmd.was)'
    PROVE  ServiceInd'
<1>1. /\ ~ Refused(sys) /\ platform' = platform /\ sys' = sys
      /\ cmd' = [NoCommand EXCEPT !.action = action, !.plan = plan, !.was = sys]
    BY DEF Give
<1>2. platform \in {"linux", "darwin", "win32"} /\ sys \in Sys /\ PlatformOK(sys)
    BY DEF ServiceInd
<1>3. cmd' = [action |-> action, plan |-> plan, undoing |-> FALSE, was |-> sys,
              loaded |-> FALSE, faults |-> 0, blind |-> FALSE, gaveUp |-> FALSE]
    BY <1>1 DEF NoCommand
<1>4. cmd' \in CommandType
    BY <1>2, <1>3 DEF CommandType
<1>5. cmd'.was = sys /\ cmd'.action = action /\ cmd'.undoing = FALSE /\ cmd'.gaveUp = FALSE
    BY <1>3
<1>6. PlatformOK(sys)'
    BY <1>1, <1>2 DEF PlatformOK
<1>7. (~ Refused(cmd.was) /\ PlatformOK(cmd.was))'
    BY <1>1, <1>2, <1>5 DEF Refused, PlatformOK, Loaded, Runs
<1>8. CommandOK'
    BY <1>4, <1>5, <1>7 DEF CommandOK
<1> QED
    BY <1>1, <1>2, <1>6, <1>8 DEF ServiceInd

(* What a command that is given starts with.                               *)
LEMMA GivenStart ==
    ASSUME NEW action, NEW plan, Give(action, plan)
    PROVE  /\ ~ Refused(sys) /\ platform' = platform /\ sys' = sys /\ cmd'.plan = plan
           /\ cmd'.action = action /\ cmd'.was = sys /\ cmd'.loaded = FALSE
<1>1. cmd' = [NoCommand EXCEPT !.action = action, !.plan = plan, !.was = sys]
    BY DEF Give
<1>2. cmd' = [action |-> action, plan |-> plan, undoing |-> FALSE, was |-> sys,
              loaded |-> FALSE, faults |-> 0, blind |-> FALSE, gaveUp |-> FALSE]
    BY <1>1 DEF NoCommand
<1>3. cmd'.plan = plan /\ cmd'.action = action /\ cmd'.was = sys /\ cmd'.loaded = FALSE
    BY <1>2
<1>4. ~ Refused(sys) /\ platform' = platform /\ sys' = sys
    BY DEF Give
<1> QED
    BY <1>3, <1>4

LEMMA GiveKeeps ==
    ASSUME ServiceInd, Install \/ InstallAgain \/ Uninstall
    PROVE  ServiceInd'
<1>1. platform \in {"linux", "darwin", "win32"} /\ sys \in Sys /\ PlatformOK(sys)
    BY DEF ServiceInd
<1>2. ASSUME NEW action \in {"install", "remove"}, Give(action, PlanOf(action)),
             action = "remove" => sys.art # "none"
      PROVE  ServiceInd'
    <2>1. PICK plan : plan = PlanOf(action)
        OBVIOUS
    <2>2. Give(action, plan)
        BY <1>2, <2>1
    <2>3. /\ ~ Refused(sys) /\ platform' = platform /\ sys' = sys /\ cmd'.plan = plan
          /\ cmd'.action = action /\ cmd'.was = sys /\ cmd'.loaded = FALSE
        BY <2>2, GivenStart
    <2>4. plan \in Seq(Steps) /\ Going(cmd.plan, cmd.action, cmd.was)'
        BY <1>1, <2>1, <2>3, GivenPlan
    <2> QED
        BY <1>2, <2>2, <2>4, GivenCommand
<1>3. CASE Install
    BY <1>2, <1>3 DEF Install
<1>4. CASE Uninstall
    BY <1>2, <1>4 DEF Uninstall
<1>5. CASE InstallAgain
    <2>1. PICK plan : plan = <<"ready">>
        OBVIOUS
    <2>2. platform # "linux" /\ sys.art = "new" /\ sys.enabled /\ Runs(sys) /\ Give("install", plan)
        BY <1>5, <2>1 DEF InstallAgain
    <2>3. /\ platform' = platform /\ sys' = sys /\ cmd'.plan = plan
          /\ cmd'.action = "install" /\ cmd'.was = sys
        BY <2>2, GivenStart
    <2>4. plan \in Seq(Steps)
        <3>1. "ready" \in Steps
            BY DEF Steps
        <3> QED
            BY <2>1, <3>1, LongPlans
    <2>5. Current' /\ Runs(sys)' /\ (platform = "darwin" => sys'.running = "new")
        BY <1>1, <2>2, <2>3 DEF Current, PlatformOK, Runs, Loaded
    <2>6. Going(cmd.plan, cmd.action, cmd.was)'
        BY <1>1, <2>1, <2>2, <2>3, <2>5 DEF Going, DarwinInstalling, WindowsInstalling
    <2> QED
        BY <2>2, <2>4, <2>6, GivenCommand
<1> QED
    BY <1>3, <1>4, <1>5

-----------------------------------------------------------------------------
(* The service: the invariant, and what it says of every command.          *)

LEMMA ServiceInitially == ServiceInit => ServiceInd
<1> SUFFICES ASSUME ServiceInit PROVE ServiceInd
    OBVIOUS
<1>1. platform \in {"linux", "darwin", "win32"} /\ cmd = NoCommand
    BY ServiceAssumption DEF ServiceInit
<1>2. CASE sys \in {Absent("none"), Absent("foreign")}
    <2>1. PICK art \in {"none", "foreign"} : sys = Absent(art)
        BY <1>2
    <2>2. SysIs(sys, art, "none", FALSE, "none")
        BY <2>1 DEF Absent, SysIs, Sys, Definitions
    <2> QED
        BY <1>1, <2>1, <2>2 DEF ServiceInd, SysIs, PlatformOK, Runs, Loaded
<1>3. CASE platform = "darwin" /\ sys = [Absent("none") EXCEPT !.enabled = TRUE]
    BY <1>1, <1>3 DEF ServiceInd, Absent, Sys, Definitions, PlatformOK, Runs, Loaded
<1>4. CASE \E art \in {"old", "new"}, enabled \in BOOLEAN, running \in BOOLEAN :
             /\ running => enabled
             /\ sys = [art |-> art, enabled |-> enabled,
                       loaded |-> IF platform = "darwin" /\ ~ running THEN "none" ELSE art,
                       running |-> IF running THEN art ELSE "none"]
    BY <1>1, <1>4 DEF ServiceInd, Sys, Definitions, PlatformOK, Runs, Loaded
<1> QED
    BY <1>2, <1>3, <1>4 DEF ServiceInit

(* A file error ends the command with what LeftBehind says.                *)
LEMMA GivingUp ==
    ASSUME cmd \in CommandType, NEW n \in Nat, GiveUp(n)
    PROVE  /\ cmd.plan # <<>> /\ platform' = platform /\ cmd' \in CommandType
           /\ cmd'.plan = <<>> /\ cmd'.undoing = TRUE /\ cmd'.gaveUp = TRUE
           /\ cmd'.faults = cmd.faults + n /\ cmd'.was = cmd.was /\ cmd'.action = cmd.action
<1>1. PICK k : k = cmd.faults + n
    OBVIOUS
<1>2. /\ cmd.plan # <<>> /\ platform' = platform
      /\ cmd' = [cmd EXCEPT !.plan = <<>>, !.undoing = TRUE, !.gaveUp = TRUE, !.faults = k]
    BY <1>1 DEF GiveUp
<1>3. k \in Nat /\ <<>> \in Seq(Steps)
    BY <1>1, ShortPlans DEF CommandType
<1>4. /\ cmd' \in CommandType /\ cmd'.plan = <<>> /\ cmd'.undoing = TRUE /\ cmd'.gaveUp = TRUE
      /\ cmd'.faults = k /\ cmd'.was = cmd.was /\ cmd'.action = cmd.action
    BY <1>2, <1>3 DEF CommandType
<1> QED
    BY <1>1, <1>2, <1>4

LEMMA GivingUpKeeps ==
    ASSUME ServiceInd, NEW n \in 1..2, GiveUp(n), platform # "darwin",
           sys' \in Sys, PlatformOK(sys)',
           n = 1 /\ ~ cmd.undoing => LeftBehind'
    PROVE  ServiceInd'
<1>1. CommandOK
    <2>1. cmd.plan # <<>>
        BY DEF GiveUp
    <2>2. NoCommand.plan = <<>>
        BY DEF NoCommand
    <2> QED
        BY <2>1, <2>2 DEF ServiceInd
<1>2. /\ platform \in {"linux", "darwin", "win32"} /\ cmd \in CommandType /\ cmd.was \in Sys
      /\ PlatformOK(cmd.was) /\ ~ Refused(cmd.was) /\ cmd.faults \in Nat
      /\ cmd.undoing \in BOOLEAN /\ (cmd.undoing => cmd.faults > 0)
      /\ (cmd.action = "remove" => cmd.was.art # "none")
    BY <1>1 DEF ServiceInd, CommandOK, CommandType
<1>3. /\ platform' = platform /\ cmd' \in CommandType
      /\ cmd'.plan = <<>> /\ cmd'.undoing = TRUE /\ cmd'.gaveUp = TRUE
      /\ cmd'.faults = cmd.faults + n /\ cmd'.was = cmd.was /\ cmd'.action = cmd.action
    <2>1. n \in Nat /\ GiveUp(n)
        OBVIOUS
    <2> QED
        BY <1>2, <2>1, GivingUp
<1>4. (~ Refused(cmd.was) /\ PlatformOK(cmd.was))'
    BY <1>2, <1>3 DEF Refused, PlatformOK, Runs, Loaded
<1>5. (cmd.plan \in Seq(UndoSteps))' /\ cmd'.faults > 0
    BY <1>2, <1>3, ShortPlans
<1>6. cmd'.faults <= 1 => LeftBehind'
    BY <1>2, <1>3
<1>7. CommandOK'
    BY <1>2, <1>3, <1>4, <1>5, <1>6 DEF CommandOK
<1> QED
    BY <1>2, <1>3, <1>7 DEF ServiceInd

LEMMA UnitFileFailsKeeps ==
    ASSUME ServiceInd, UnitFileFails
    PROVE  ServiceInd'
<1>1. /\ GiveUp(1) /\ platform = "linux" /\ platform' = platform
      /\ Call \in {"write", "put_back", "erase"} /\ cmd.plan # <<>>
    BY DEF UnitFileFails, OnUnitFile, GiveUp
<1>2. CommandOK
    <2>1. NoCommand.plan = <<>>
        BY DEF NoCommand
    <2> QED
        BY <1>1, <2>1 DEF ServiceInd
<1>3. /\ sys \in Sys /\ cmd \in CommandType /\ cmd.was \in Sys
      /\ cmd.action \in {"install", "remove"}
    BY <1>2 DEF ServiceInd, CommandOK, CommandType
<1>4. PICK art \in Leftovers(Call) : sys' = [sys EXCEPT !.art = art]
    BY DEF UnitFileFails
<1>5. After("write").art = "new" /\ After("erase").art = "none"
      /\ After("put_back").art \in Definitions
    BY <1>3, CallEffects, SysFields DEF SysIs
<1>6. art \in Definitions /\ (Call = "erase" => art = sys.art)
    BY <1>1, <1>3, <1>4, <1>5, SysFields DEF Leftovers, Definitions
<1>7. SysIs(sys', art, sys.loaded, sys.enabled, sys.running)
    BY <1>3, <1>4, <1>6 DEF SysIs, Sys
<1>8. sys' \in Sys /\ PlatformOK(sys)'
    BY <1>1, <1>7 DEF SysIs, PlatformOK
<1>9. ASSUME ~ cmd.undoing PROVE LeftBehind'
    <2>1. cmd'.was = cmd.was /\ cmd'.action = cmd.action
        BY <1>1, <1>3, GivingUp
    <2>2. Going(cmd.plan, cmd.action, cmd.was)
        BY <1>2, <1>9 DEF CommandOK
    <2>3. CASE cmd.action = "install"
        <3>1. LinuxInstalling(cmd.plan, cmd.was)
            BY <1>1, <2>2, <2>3 DEF Going
        <3>2. sys = cmd.was
            BY <1>1, <3>1 DEF LinuxInstalling, Call
        <3>3. sys' = [cmd'.was EXCEPT !.art = sys'.art]
            BY <1>4, <1>7, <2>1, <3>2 DEF SysIs
        <3> QED
            BY <1>1, <2>1, <2>3, <3>3 DEF LeftBehind
    <2>4. CASE cmd.action = "remove"
        <3>1. LinuxRemoving(cmd.plan, cmd.was)
            BY <1>1, <2>2, <2>4 DEF Going
        <3>2. /\ Call = "erase" /\ sys.art = cmd.was.art /\ sys.loaded = cmd.was.loaded
              /\ ~ sys.enabled /\ ~ Runs(sys)
            BY <1>1, <3>1 DEF LinuxRemoving, Call
        <3>3. SysIs(sys', cmd.was.art, cmd.was.loaded, FALSE, "none")
            BY <1>3, <1>6, <1>7, <3>2, SysFields DEF SysIs, Runs
        <3>4. SysIs([cmd.was EXCEPT !.enabled = FALSE, !.running = "none"],
                    cmd.was.art, cmd.was.loaded, FALSE, "none")
            BY <1>3 DEF SysIs, Sys, Definitions
        <3>5. sys' = [cmd.was EXCEPT !.enabled = FALSE, !.running = "none"]
            BY <3>3, <3>4 DEF SysIs, Sys
        <3> QED
            BY <1>1, <2>1, <2>4, <3>5 DEF LeftBehind
    <2> QED
        BY <1>3, <2>3, <2>4
<1> QED
    BY <1>1, <1>8, <1>9, GivingUpKeeps

LEMMA InstallFileFailsKeeps ==
    ASSUME ServiceInd, InstallFileFails
    PROVE  ServiceInd'
<1>1. /\ GiveUp(1) /\ cmd.plan # <<>> /\ cmd.action = "install" /\ ~ cmd.undoing /\ sys' = sys
      /\ platform' = platform
      /\ \/ platform = "linux" /\ cmd.plan = LinuxInstall(cmd.was)
         \/ platform = "win32" /\ cmd.plan = WindowsInstall(cmd.was)
         \/ platform # "darwin" /\ Call = "ready"
    BY DEF InstallFileFails, GiveUp
<1>2. CommandOK
    <2>1. NoCommand.plan = <<>>
        BY DEF NoCommand
    <2> QED
        BY <1>1, <2>1 DEF ServiceInd
<1>3. /\ platform \in {"linux", "win32"} /\ sys \in Sys /\ cmd \in CommandType
      /\ cmd.was \in Sys /\ PlatformOK(sys) /\ PlatformOK(cmd.was)
      /\ cmd'.was = cmd.was /\ cmd'.action = cmd.action
    BY <1>1, <1>2, GivingUp DEF ServiceInd, CommandOK, CommandType
<1>4. Going(cmd.plan, cmd.action, cmd.was)
    BY <1>1, <1>2 DEF CommandOK
<1>5. Installed \/ sys = cmd.was \/ (platform = "linux" /\ sys = [cmd.was EXCEPT !.art = sys.art])
    <2>1. CASE Call = "ready"
        <3>1. CASE platform = "linux"
            BY <1>1, <1>4, <2>1, <3>1 DEF Going, LinuxInstalling, Call, Installed, Current
        <3>2. CASE platform = "win32"
            BY <1>1, <1>4, <2>1, <3>2 DEF Going, WindowsInstalling, Call, Installed, Current
        <3> QED
            BY <1>3, <3>1, <3>2
    <2>2. CASE platform = "linux" /\ cmd.plan = LinuxInstall(cmd.was)
        <3>1. LinuxInstalling(cmd.plan, cmd.was)
            BY <1>1, <1>4, <2>2 DEF Going
        <3>2. CASE cmd.was.art = "new"
            <4>1. cmd.plan = <<"reload", "enable", "start", "ready">>
                BY <2>2, <3>2 DEF LinuxInstall, If
            <4>2. SysIs(sys, "new", cmd.was.loaded, cmd.was.enabled, cmd.was.running)
                BY <1>3, <3>1, <4>1 DEF LinuxInstalling, SysIs
            <4> QED
                BY <1>3, <3>2, <4>2 DEF SysIs, Sys
        <3>3. CASE cmd.was.art # "new"
            <4>1. cmd.plan = <<"write">> \o <<"reload", "enable", "start", "ready">>
                BY <2>2, <3>3 DEF LinuxInstall, If
            <4>2. cmd.plan = <<"write", "reload", "enable", "start", "ready">>
                BY <4>1, JoinFive
            <4> QED
                BY <3>1, <4>2 DEF LinuxInstalling
        <3> QED
            BY <3>2, <3>3
    <2>3. CASE platform = "win32" /\ cmd.plan = WindowsInstall(cmd.was)
        <3>1. WindowsInstalling(cmd.plan, cmd.was)
            BY <1>1, <1>4, <2>3 DEF Going
        <3>2. CASE cmd.plan = <<"ready">>
            BY <1>1, <2>1, <3>2 DEF Call
        <3>3. CASE cmd.plan = <<"start_and_wait", "ready">>
            <4>1. CASE Changed(cmd.was)
                <5>1. cmd.plan = (<<"register">> \o <<"start_and_wait">>) \o <<"ready">>
                    BY <2>3, <4>1 DEF WindowsInstall, If
                <5>2. /\ <<"register">> \o <<"start_and_wait">> = <<"register", "start_and_wait">>
                      /\ <<"register", "start_and_wait">> \o <<"ready">>
                           = <<"register", "start_and_wait", "ready">>
                    BY JoinTwo, JoinOne
                <5>3. cmd.plan = <<"register", "start_and_wait", "ready">>
                    BY <5>1, <5>2
                <5> QED
                    BY <3>3, <5>3
            <4>2. CASE ~ Changed(cmd.was)
                BY <3>1, <3>3, <4>2 DEF WindowsInstalling
            <4> QED
                BY <4>1, <4>2
        <3> QED
            BY <1>1, <3>1, <3>2, <3>3 DEF WindowsInstalling
    <2> QED
        BY <1>1, <2>1, <2>2, <2>3
<1>6. LeftBehind'
    BY <1>1, <1>3, <1>5 DEF LeftBehind, Installed, Runs
<1>7. sys' \in Sys /\ PlatformOK(sys)'
    BY <1>1, <1>3 DEF PlatformOK
<1> QED
    BY <1>1, <1>3, <1>6, <1>7, GivingUpKeeps

LEMMA ReadyFileStaysKeeps ==
    ASSUME ServiceInd, ReadyFileStays
    PROVE  ServiceInd'
<1>1. /\ GiveUp(2) /\ cmd.plan # <<>> /\ platform = "win32" /\ platform' = platform
      /\ Call \in {"register", "start_and_wait"} /\ (sys' = sys \/ sys' = After(Call))
    BY DEF ReadyFileStays, GiveUp
<1>2. CommandOK
    <2>1. NoCommand.plan = <<>>
        BY DEF NoCommand
    <2> QED
        BY <1>1, <2>1 DEF ServiceInd
<1>3. /\ sys \in Sys /\ PlatformOK(sys) /\ cmd.was \in Sys /\ PlatformOK(cmd.was)
    BY <1>2 DEF ServiceInd, CommandOK, CommandType
<1>4. sys' \in Sys /\ PlatformOK(sys)'
    <2>1. CASE sys' = sys
        BY <1>1, <1>3, <2>1 DEF PlatformOK
    <2>2. CASE sys' = After(Call)
        BY <1>1, <1>3, <2>2, CallsKeepPlatform DEF WindowsCalls, Steps
    <2> QED
        BY <1>1, <2>1, <2>2
<1> QED
    BY <1>1, <1>4, GivingUpKeeps

LEMMA ServiceStep == ServiceInd /\ [ServiceNext]_serviceVars => ServiceInd'
<1> SUFFICES ASSUME ServiceInd, [ServiceNext]_serviceVars PROVE ServiceInd'
    OBVIOUS
<1>1. CASE Install \/ InstallAgain \/ Uninstall
    BY <1>1, GiveKeeps
<1>2. CASE Proceed
    BY <1>2, ProceedKeeps
<1>3. CASE Fail
    BY <1>3, FailKeeps
<1>4. CASE Report
    BY <1>4 DEF Report, ServiceInd, PlatformOK, Runs, Loaded
<1>5. CASE Exit
    <2>1. /\ cmd = NoCommand /\ cmd' = cmd /\ platform' = platform
          /\ sys' = [sys EXCEPT !.running = "none"] /\ sys \in Sys
        BY <1>5 DEF Exit, ServiceInd
    <2>2. SysIs(sys', sys.art, sys.loaded, sys.enabled, "none")
        BY <2>1 DEF SysIs, Sys, Definitions
    <2> QED
        BY <2>1, <2>2 DEF ServiceInd, SysIs, PlatformOK, Runs, Loaded
<1>6. CASE Login
    <2>1. /\ cmd = NoCommand /\ cmd' = cmd /\ platform' = platform /\ sys \in Sys
          /\ sys.art \in {"old", "new"} /\ sys' = [Started EXCEPT !.loaded = sys.art]
        BY <1>6 DEF Login, ServiceInd
    <2>2. /\ sys.art \in Definitions /\ sys.loaded \in Definitions /\ sys.enabled \in BOOLEAN
          /\ sys.running \in Definitions /\ Effective(sys) \in Definitions
        BY <2>1, SysFields
    <2>3. IF Runs(sys) THEN SysIs(sys', sys.art, sys.art, sys.enabled, sys.running)
          ELSE SysIs(sys', sys.art, sys.art, sys.enabled, Effective(sys))
        BY <2>1, <2>2 DEF Started, SysIs, Sys
    <2>4. PlatformOK(sys)
        BY DEF ServiceInd
    <2>5. PlatformOK(sys)' /\ sys' \in Sys
        BY <2>1, <2>2, <2>3, <2>4 DEF SysIs, PlatformOK, Runs, Loaded, Effective
    <2> QED
        BY <2>1, <2>5 DEF ServiceInd
<1>7. CASE UNCHANGED serviceVars
    <2>1. platform' = platform /\ sys' = sys /\ cmd' = cmd
        BY <1>7 DEF serviceVars
    <2>2. CASE cmd = NoCommand
        BY <2>1, <2>2 DEF ServiceInd, PlatformOK
    <2>3. CASE CommandOK
        <3>1. /\ Refused(cmd.was)' <=> Refused(cmd.was)
              /\ PlatformOK(cmd.was)' <=> PlatformOK(cmd.was)
              /\ InStep(cmd.was)' <=> InStep(cmd.was)
            BY <2>1 DEF PlatformOK, Refused, InStep
        <3>2. Restored(cmd.was)' <=> Restored(cmd.was)
            BY <2>1 DEF Restored
        <3>3. LeftBehind' <=> LeftBehind
            BY <2>1 DEF LeftBehind, Installed, Changed
        <3>4. Going(cmd.plan, cmd.action, cmd.was)' <=> Going(cmd.plan, cmd.action, cmd.was)
            BY <2>1 DEF Going, LinuxInstalling, LinuxRemoving, DarwinInstalling,
                DarwinRemoving, WindowsInstalling, WindowsRemoving, Current
        <3>5. Undoing(cmd.plan, cmd.was)' <=> Undoing(cmd.plan, cmd.was)
            BY <2>1, <3>2 DEF Undoing, LinuxUndoing, DarwinUndoing, WindowsUndoing
        <3>6. CommandOK'
            BY <2>1, <2>3, <3>1, <3>3, <3>4, <3>5 DEF CommandOK, UndoSteps
        <3> QED
            BY <2>1, <3>6 DEF ServiceInd, PlatformOK
    <2> QED
        BY <2>2, <2>3 DEF ServiceInd
<1>8. CASE UnitFileFails
    BY <1>8, UnitFileFailsKeeps
<1>9. CASE InstallFileFails
    BY <1>9, InstallFileFailsKeeps
<1>10. CASE ReadyFileStays
    BY <1>10, ReadyFileStaysKeeps
<1> QED
    BY <1>1, <1>2, <1>3, <1>4, <1>5, <1>6, <1>7, <1>8, <1>9, <1>10 DEF ServiceNext

LEMMA WordKept == ServiceInd => CommandKeepsWord
<1> SUFFICES ASSUME ServiceInd, Ended PROVE CommandKeepsWord
    BY DEF CommandKeepsWord, FailureRestores, FileErrorLeaves, SuccessIsTrue
<1>1. CommandOK /\ cmd.plan = <<>>
    BY DEF ServiceInd, Ended
<1>2. /\ platform \in {"linux", "darwin", "win32"} /\ sys \in Sys /\ PlatformOK(sys)
      /\ cmd \in CommandType /\ cmd.was \in Sys /\ PlatformOK(cmd.was) /\ ~ Refused(cmd.was)
      /\ cmd.undoing \in BOOLEAN /\ cmd.action \in {"install", "remove"}
    BY <1>1 DEF ServiceInd, CommandOK, CommandType
<1>3. FailureRestores
    <2>1. SUFFICES ASSUME cmd.undoing, ~ cmd.gaveUp, cmd.faults <= 1, ~ cmd.blind,
                          InStep(cmd.was)
                   PROVE  Restored(cmd.was)
        BY DEF FailureRestores
    <2>2. Undoing(<<>>, cmd.was)
        BY <1>1, <2>1 DEF CommandOK
    <2> QED
        BY <1>2, <2>1, <2>2, LinuxUndone, DarwinUndone, WindowsUndone DEF Undoing
<1>4. SuccessIsTrue
    <2>1. SUFFICES ASSUME ~ cmd.undoing
                   PROVE  IF cmd.action = "install"
                          THEN /\ Current
                               /\ \/ sys.running = "new"
                                  \/ /\ Runs(cmd.was) /\ Runs(sys)
                                     /\ \/ platform = "linux"
                                        \/ platform = "win32" /\ cmd.was.running # cmd.was.art
                          ELSE sys = Absent("none")
        BY DEF SuccessIsTrue, Installed, Current
    <2>2. Going(<<>>, cmd.action, cmd.was)
        BY <1>1, <2>1 DEF CommandOK
    <2>3. CASE platform = "linux"
        BY <1>2, <2>2, <2>3 DEF Going, LinuxInstalling, LinuxRemoving
    <2>4. CASE platform = "darwin"
        BY <1>2, <2>2, <2>4 DEF Going, DarwinInstalling, DarwinRemoving
    <2>5. CASE platform = "win32"
        BY <1>2, <2>2, <2>5 DEF Going, WindowsInstalling, WindowsRemoving, Current
    <2> QED
        BY <1>2, <2>3, <2>4, <2>5
<1>5. FileErrorLeaves
    BY <1>1 DEF FileErrorLeaves, CommandOK
<1> QED
    BY <1>3, <1>4, <1>5 DEF CommandKeepsWord

(* However many commands are given and however often their calls and their *)
(* files fail, on every platform a command that ends has done everything   *)
(* it reports, or, when one call of the manager went wrong, has put        *)
(* everything back; one file error, which Linux and Windows do not roll    *)
(* back, leaves what LeftBehind says (service.py: _install and _remove,    *)
(* service_darwin.py, service_task_scheduler_lifecycle.py).                *)
THEOREM AllOrNothing == ServiceSpec => []CommandKeepsWord
<1>1. ServiceSpec => []ServiceInd
    BY ServiceInitially, ServiceStep, PTL DEF ServiceSpec
<1> QED
    BY <1>1, WordKept, PTL
=============================================================================
