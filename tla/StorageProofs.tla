--------------------------- MODULE StorageProofs ---------------------------
(***************************************************************************)
(* What the storage layer promises, for any number of processes: the       *)
(* erasure of old tokens behind the migrations (Database), the atomic and  *)
(* durable replacement of a private file (PrivateFile), and the unique     *)
(* dated facts and the quotas of the memory store (MemoryStore).           *)
(***************************************************************************)
EXTENDS Database, PrivateFile, MemoryStore, FiniteSetTheorems,
        SequenceTheorems, WellFoundedInduction, TLAPS

-----------------------------------------------------------------------------
(* Database: the erasure of raw tokens                                     *)

MigrationRows == [applied : Seq(Nat), pending : BOOLEAN]
OpenerSteps == {"closed", "waiting", "begin", "migrating", "check", "erase",
                "clear", "secure", "open"}

DatabaseTypeOK ==
    /\ schema \in MigrationRows
    /\ opener \in [Openers -> [pc : OpenerSteps, rows : MigrationRows]]
    /\ current \in [Openers -> Nat]

InOrder(rows) == rows.applied = [i \in 1..Version(rows) |-> i]

(* What a transaction has not committed yet: the migrations so far in      *)
(* order, and the marker if it stepped over the erasing one.               *)
Uncommitted(rows) ==
    /\ InOrder(rows)
    /\ Version(schema) <= Version(rows) /\ Version(rows) <= Latest
    /\ schema.pending => rows.pending
    /\ Version(schema) < Erasing /\ Erasing <= Version(rows) => rows.pending

(* From the lock to the end of it one process is alone, inside the         *)
(* transaction it is the writer and the version it began with is still the *)
(* committed one, after it the schema is the latest and     *)
(* after the checkpoint the tokens are gone for good.                      *)
OpenerOK(p) ==
    /\ opener[p].pc \in {"begin", "migrating", "check", "erase", "clear", "secure"}
            => initLock = p
    /\ At(p, "migrating") =>
            writer = p /\ Uncommitted(opener[p].rows) /\ current[p] = Version(schema)
    /\ opener[p].pc \in {"check", "erase", "clear", "secure", "open"}
            => Version(schema) = Latest
    /\ opener[p].pc \in {"clear", "secure", "open"} => tokens = {}

DatabaseInd ==
    /\ DatabaseTypeOK
    /\ MigratedOnce
    /\ ErasureRemembered
    /\ \A p \in Openers : OpenerOK(p)

(* Initially nobody is at work and the file is as an earlier open left it. *)
LEMMA DatabaseIndInit == DatabaseInit => DatabaseInd
<1> SUFFICES ASSUME DatabaseInit PROVE DatabaseInd
    OBVIOUS
<1>1. PICK v \in StartVersions, b \in BOOLEAN :
            schema = [applied |-> [i \in 1..v |-> i], pending |-> b]
    BY DEF DatabaseInit
<1>2. v \in Nat /\ [i \in 1..v |-> i] \in Seq(Nat) /\ Len([i \in 1..v |-> i]) = v
    BY DatabaseAssumption
<1>3. Version(schema) = v /\ schema \in MigrationRows
    BY <1>1, <1>2 DEF Version, MigrationRows
<1>4. MigratedOnce
    BY <1>1, <1>3 DEF MigratedOnce
<1>5. ErasureRemembered
    BY DEF DatabaseInit, ErasureRemembered
<1>6. DatabaseTypeOK
    BY <1>3 DEF DatabaseInit, DatabaseTypeOK, Closed, OpenerSteps
<1>7. \A p \in Openers : OpenerOK(p)
    BY DEF DatabaseInit, OpenerOK, Closed, At
<1> QED
    BY <1>4, <1>5, <1>6, <1>7 DEF DatabaseInd

(* A migration more is a row more, at the end.                             *)
LEMMA MigrationAppends ==
    ASSUME NEW rows \in MigrationRows, InOrder(rows),
           NEW b \in BOOLEAN
    PROVE  LET next == [applied |-> Append(rows.applied, NextMigration(rows)),
                        pending |-> b]
           IN  /\ next \in MigrationRows
               /\ InOrder(next)
               /\ Version(next) = Version(rows) + 1
<1> DEFINE next == [applied |-> Append(rows.applied, NextMigration(rows)), pending |-> b]
<1>1. rows.applied \in Seq(Nat) /\ Len(rows.applied) \in Nat
    BY DEF MigrationRows
<1>2. Append(rows.applied, Len(rows.applied) + 1) \in Seq(Nat)
    BY <1>1
<1>3. next \in MigrationRows /\ Version(next) = Version(rows) + 1
    BY <1>1, <1>2 DEF MigrationRows, Version, NextMigration
<1>4. next.applied \in Seq(Nat) /\ Len(next.applied) = Len(rows.applied) + 1
    BY <1>3 DEF MigrationRows, Version
<1>5. \A i \in 1..(Len(rows.applied) + 1) : next.applied[i] = i
    BY <1>1 DEF InOrder, Version, NextMigration
<1>6. next.applied = [i \in 1..Version(next) |-> i]
    BY <1>4, <1>5 DEF Version
<1> QED
    BY <1>3, <1>6 DEF InOrder

(* The migrations that a transaction adds to the committed ones are those  *)
(* after the version it began with.                                        *)
LEMMA RestAppended ==
    ASSUME NEW done \in MigrationRows, NEW rows \in MigrationRows, InOrder(done), InOrder(rows),
           Version(done) <= Version(rows)
    PROVE  done.applied \o SubSeq(rows.applied, Version(done) + 1, Version(rows)) = rows.applied
<1>1. PICK d \in Seq(Nat), r \in Seq(Nat) : d = done.applied /\ r = rows.applied
    BY DEF MigrationRows
<1>2. PICK k \in Nat, n \in Nat : k = Len(d) /\ n = Len(r) /\ k <= n
    BY <1>1 DEF Version
<1>3. (\A i \in 1..k : d[i] = i) /\ (\A i \in 1..n : r[i] = i)
    BY <1>1, <1>2 DEF InOrder, Version
<1>4. PICK rest \in Seq(Nat) : rest = SubSeq(r, k + 1, n) /\ Len(rest) = n - k
                              /\ \A i \in 1..(n - k) : rest[i] = k + i
    <2>1. \A i \in (k + 1)..n : r[i] \in Nat
        BY <1>2
    <2>2. /\ SubSeq(r, k + 1, n) \in Seq(Nat)
          /\ Len(SubSeq(r, k + 1, n)) = IF k + 1 <= n THEN n - (k + 1) + 1 ELSE 0
          /\ \A i \in 1..(n - (k + 1) + 1) : SubSeq(r, k + 1, n)[i] = r[k + 1 + i - 1]
        BY <2>1, SubSeqProperties
    <2>3. \A i \in 1..(n - k) : SubSeq(r, k + 1, n)[i] = k + i
        BY <1>2, <1>3, <2>2
    <2>4. Len(SubSeq(r, k + 1, n)) = n - k
        BY <1>2, <2>2
    <2> QED
        BY <2>2, <2>3, <2>4
<1>5. PICK both \in Seq(Nat) : both = d \o rest /\ Len(both) = n
          /\ \A i \in 1..n : both[i] = IF i <= k THEN d[i] ELSE rest[i - k]
    <2>1. /\ d \o rest \in Seq(Nat) /\ Len(d \o rest) = Len(d) + Len(rest)
          /\ \A i \in 1..(Len(d) + Len(rest)) :
                (d \o rest)[i] = IF i <= Len(d) THEN d[i] ELSE rest[i - Len(d)]
        BY ConcatProperties
    <2>2. Len(d) = k /\ Len(d) + Len(rest) = n
        BY <1>2, <1>4
    <2> QED
        BY <2>1, <2>2
<1>6. ASSUME NEW i \in 1..n PROVE both[i] = r[i]
    <2>1. CASE i <= k
        BY <1>3, <1>5, <2>1
    <2>2. CASE i > k
        <3>1. i - k \in 1..(n - k) /\ k + (i - k) = i
            BY <2>2
        <3>2. rest[i - k] = k + (i - k)
            BY <1>4, <3>1
        <3>3. both[i] = rest[i - k]
            BY <1>5, <2>2
        <3> QED
            BY <1>3, <3>1, <3>2, <3>3
    <2> QED
        BY <2>1, <2>2
<1>7. both = r
    <2>1. Len(both) = Len(r) /\ \A i \in 1..Len(both) : both[i] = r[i]
        BY <1>2, <1>5, <1>6
    <2> QED
        BY <2>1, SeqEqual
<1> QED
    BY <1>1, <1>2, <1>4, <1>5, <1>7 DEF Version

(* Whoever lets go of the store takes nothing with it but its own lock and *)
(* its own transaction.                                                    *)
LEMMA ReleaseKeeps ==
    ASSUME DatabaseInd, NEW p \in Openers, Release(p),
           UNCHANGED schema, tokens' \subseteq tokens
    PROVE  DatabaseInd'
<1>1. DatabaseTypeOK /\ MigratedOnce /\ ErasureRemembered
      /\ \A q \in Openers : OpenerOK(q)
    BY DEF DatabaseInd
<1>2. Closed(schema) \in [pc : OpenerSteps, rows : MigrationRows]
    BY <1>1 DEF Closed, DatabaseTypeOK, OpenerSteps
<1>3. DatabaseTypeOK'
    BY <1>1, <1>2 DEF DatabaseTypeOK, Release
<1>4. MigratedOnce' /\ ErasureRemembered'
    BY <1>1 DEF MigratedOnce, ErasureRemembered, Version
<1>5. ASSUME NEW q \in Openers PROVE OpenerOK(q)'
    <2>1. CASE q = p
        <3>1. opener'[q].pc = "closed"
            BY <1>1, <2>1 DEF Release, Closed, DatabaseTypeOK
        <3> QED
            BY <3>1 DEF OpenerOK, At
    <2>2. CASE q # p
        <3>1. opener'[q] = opener[q]
            BY <1>1, <2>2 DEF Release, DatabaseTypeOK
        <3>2. initLock = q => initLock' = q
            BY <2>2 DEF Release
        <3>3. writer = q => writer' = q
            BY <2>2 DEF Release
        <3>4. OpenerOK(q)
            BY <1>1
        <3>5. current'[q] = current[q]
            BY <1>1, <2>2 DEF Release, DatabaseTypeOK
        <3> QED
            BY <3>1, <3>2, <3>3, <3>4, <3>5 DEF OpenerOK, At, Uncommitted, Version
    <2> QED
        BY <2>1, <2>2
<1> QED
    BY <1>3, <1>4, <1>5 DEF DatabaseInd

(* A step of a process that leaves the schema alone and adds no token      *)
(* keeps what the others rely on.                                          *)
LEMMA OpenersKept ==
    ASSUME DatabaseInd, NEW p \in Openers,
           NEW pc \in OpenerSteps, NEW rows \in MigrationRows,
           opener' = [opener EXCEPT ![p] = [pc |-> pc, rows |-> rows]],
           UNCHANGED schema, tokens' \subseteq tokens,
           \A q \in Openers \ {p} : initLock = q => initLock' = q,
           \A q \in Openers \ {p} : writer = q => writer' = q,
           current' \in [Openers -> Nat], \A q \in Openers \ {p} : current'[q] = current[q],
           OpenerOK(p)'
    PROVE  DatabaseInd'
<1>1. DatabaseTypeOK /\ MigratedOnce /\ ErasureRemembered
      /\ \A q \in Openers : OpenerOK(q)
    BY DEF DatabaseInd
<1>2. [pc |-> pc, rows |-> rows] \in [pc : OpenerSteps, rows : MigrationRows]
    OBVIOUS
<1>3. DatabaseTypeOK'
    BY <1>1, <1>2 DEF DatabaseTypeOK
<1>4. MigratedOnce' /\ ErasureRemembered'
    BY <1>1 DEF MigratedOnce, ErasureRemembered, Version
<1>5. ASSUME NEW q \in Openers, q # p PROVE OpenerOK(q)'
    <2>1. opener'[q] = opener[q]
        BY <1>1, <1>5 DEF DatabaseTypeOK
    <2>2. OpenerOK(q)
        BY <1>1
    <2>3. (initLock = q => initLock' = q) /\ (writer = q => writer' = q) /\ current'[q] = current[q]
        BY <1>5
    <2> QED
        BY <2>1, <2>2, <2>3 DEF OpenerOK, At, Uncommitted, Version
<1> QED
    BY <1>3, <1>4, <1>5 DEF DatabaseInd

(* To move is to be at another step with the same rows.                    *)
LEMMA MovesTo ==
    ASSUME DatabaseTypeOK, NEW p \in Openers, NEW pc \in OpenerSteps, MoveTo(p, pc)
    PROVE  /\ opener[p].rows \in MigrationRows
           /\ opener' = [opener EXCEPT ![p] = [pc |-> pc, rows |-> opener[p].rows]]
           /\ opener'[p].pc = pc
<1>1. opener[p] \in [pc : OpenerSteps, rows : MigrationRows]
    BY DEF DatabaseTypeOK
<1>2. [opener[p] EXCEPT !.pc = pc] = [pc |-> pc, rows |-> opener[p].rows]
    BY <1>1
<1>3. opener' = [opener EXCEPT ![p] = [opener[p] EXCEPT !.pc = pc]]
    BY DEF MoveTo
<1> QED
    BY <1>1, <1>2, <1>3 DEF DatabaseTypeOK

(* Every step of an opener, of a legacy process or of death keeps the      *)
(* invariant.  The transaction is the crossing: the schema changes under   *)
(* nobody else, because everyone at work holds the lock.                   *)
LEMMA DatabaseIndStep == DatabaseInd /\ [DatabaseNext]_databaseVars => DatabaseInd'
<1> SUFFICES ASSUME DatabaseInd, [DatabaseNext]_databaseVars PROVE DatabaseInd'
    OBVIOUS
<1>0. /\ DatabaseTypeOK /\ MigratedOnce /\ ErasureRemembered
      /\ \A q \in Openers : OpenerOK(q)
      /\ Latest \in Nat /\ Erasing \in 1..Latest /\ Version(schema) \in Nat
      /\ current \in [Openers -> Nat]
    BY DatabaseAssumption DEF DatabaseInd, DatabaseTypeOK, MigrationRows, Version
<1>1. ASSUME NEW p \in Openers, Prepare(p) PROVE DatabaseInd'
    <2>1. /\ opener[p].rows \in MigrationRows
          /\ opener' = [opener EXCEPT ![p] = [pc |-> "waiting", rows |-> opener[p].rows]]
          /\ opener'[p].pc = "waiting"
        BY <1>0, <1>1, MovesTo DEF Prepare, OpenerSteps
    <2>2. OpenerOK(p)'
        BY <2>1 DEF OpenerOK, At
    <2> QED
        BY <1>0, <1>1, <2>1, <2>2, OpenersKept DEF Prepare, OpenerSteps
<1>2. ASSUME NEW p \in Openers, Lock(p) PROVE DatabaseInd'
    <2>1. /\ opener[p].rows \in MigrationRows
          /\ opener' = [opener EXCEPT ![p] = [pc |-> "begin", rows |-> opener[p].rows]]
          /\ opener'[p].pc = "begin"
        BY <1>0, <1>2, MovesTo DEF Lock, OpenerSteps
    <2>2. OpenerOK(p)'
        BY <1>2, <2>1 DEF OpenerOK, At, Lock
    <2>3. \A q \in Openers \ {p} : initLock # q
        BY <1>2, DatabaseAssumption DEF Lock
    <2> QED
        BY <1>0, <1>2, <2>1, <2>2, <2>3, OpenersKept DEF Lock, OpenerSteps
<1>3. ASSUME NEW p \in Openers, BeginMigrations(p) PROVE DatabaseInd'
    <2>1. /\ schema \in MigrationRows
          /\ opener' = [opener EXCEPT ![p] = [pc |-> "migrating", rows |-> schema]]
          /\ opener'[p] = [pc |-> "migrating", rows |-> schema]
        BY <1>0, <1>3 DEF BeginMigrations, DatabaseTypeOK
    <2>2. Uncommitted(schema)'
        BY <1>0, <1>3, DatabaseAssumption
        DEF Uncommitted, InOrder, MigratedOnce, BeginMigrations, Version
    <2>3. OpenerOK(p)'
        BY <1>0, <1>3, <2>1, <2>2 DEF OpenerOK, At, BeginMigrations, Uncommitted
    <2>4. \A q \in Openers \ {p} : writer # q
        BY <1>3, DatabaseAssumption DEF BeginMigrations
    <2>5. current' \in [Openers -> Nat] /\ \A q \in Openers \ {p} : current'[q] = current[q]
        BY <1>0, <1>3 DEF BeginMigrations
    <2> QED
        BY <1>3, <2>1, <2>3, <2>4, <2>5, OpenersKept DEF BeginMigrations, OpenerSteps
<1>4. ASSUME NEW p \in Openers, ApplyMigration(p) PROVE DatabaseInd'
    <2> DEFINE rows == opener[p].rows
               later == [applied |-> Append(rows.applied, NextMigration(rows)),
                         pending |-> rows.pending \/ NextMigration(rows) = Erasing]
    <2>1. /\ rows \in MigrationRows /\ Uncommitted(rows) /\ initLock = p /\ writer = p
          /\ At(p, "migrating") /\ Version(rows) < Latest /\ Version(rows) \in Nat
          /\ opener[p] \in [pc : OpenerSteps, rows : MigrationRows]
        BY <1>0, <1>4
        DEF ApplyMigration, DatabaseTypeOK, OpenerOK, At, Version, MigrationRows
    <2>2. later \in MigrationRows /\ InOrder(later) /\ Version(later) = Version(rows) + 1
        BY <2>1, MigrationAppends DEF Uncommitted
    <2>3. opener' = [opener EXCEPT ![p] = [opener[p] EXCEPT !.rows = later]]
        BY <1>4 DEF ApplyMigration
    <2>5. later.pending = (rows.pending \/ Version(rows) + 1 = Erasing)
        BY DEF NextMigration
    <2> HIDE DEF later
    <2>4. [opener[p] EXCEPT !.rows = later] = [pc |-> "migrating", rows |-> later]
        BY <2>1 DEF At
    <2>6. /\ opener' = [opener EXCEPT ![p] = [pc |-> "migrating", rows |-> later]]
          /\ opener'[p] = [pc |-> "migrating", rows |-> later]
        BY <1>0, <2>3, <2>4 DEF DatabaseTypeOK
    <2>7. Uncommitted(later)
        <3>1. Version(schema) <= Version(later) /\ Version(later) <= Latest
            BY <1>0, <2>1, <2>2 DEF Uncommitted
        <3>2. schema.pending => later.pending
            BY <2>1, <2>5 DEF Uncommitted
        <3>3. Version(schema) < Erasing /\ Erasing <= Version(later) => later.pending
            <4>1. Erasing <= Version(later) =>
                    Erasing <= Version(rows) \/ Version(rows) + 1 = Erasing
                BY <1>0, <2>1, <2>2
            <4>2. Version(schema) < Erasing /\ Erasing <= Version(rows) => rows.pending
                BY <2>1 DEF Uncommitted
            <4> QED
                BY <2>5, <4>1, <4>2
        <3> QED
            BY <2>2, <3>1, <3>2, <3>3 DEF Uncommitted
    <2>8. UNCHANGED <<schema, tokens, initLock, writer, current>>
        BY <1>4 DEF ApplyMigration
    <2>9. OpenerOK(p)'
        BY <1>0, <2>1, <2>6, <2>7, <2>8 DEF OpenerOK, At, Uncommitted, Version, InOrder
    <2> QED
        BY <1>0, <2>2, <2>6, <2>8, <2>9, OpenersKept DEF OpenerSteps
<1>5. ASSUME NEW p \in Openers, CommitMigrations(p) PROVE DatabaseInd'
    <2> DEFINE rows == opener[p].rows
    <2>0. /\ rows \in MigrationRows /\ Uncommitted(rows) /\ initLock = p
          /\ current[p] = Version(schema) /\ Version(rows) = Latest
          /\ schema' = [applied |-> schema.applied \o SubSeq(rows.applied, current[p] + 1, Latest),
                        pending |-> schema.pending \/ rows.pending]
          /\ UNCHANGED <<tokens, initLock>>
          /\ current' \in [Openers -> Nat] /\ \A q \in Openers \ {p} : current'[q] = current[q]
        BY <1>0, <1>5 DEF CommitMigrations, OpenerOK, DatabaseTypeOK, At
    <2>1. schema' = rows
        <3>1. schema.applied \o SubSeq(rows.applied, current[p] + 1, Latest) = rows.applied
            <4>1. schema \in MigrationRows /\ InOrder(schema) /\ InOrder(rows)
                  /\ Version(schema) <= Version(rows)
                BY <1>0, <2>0 DEF Uncommitted, MigratedOnce, InOrder, DatabaseTypeOK
            <4>2. schema.applied \o SubSeq(rows.applied, Version(schema) + 1, Version(rows))
                    = rows.applied
                BY <2>0, <4>1, RestAppended
            <4> QED
                BY <2>0, <4>2
        <3>2. (schema.pending \/ rows.pending) = rows.pending
            BY <1>0, <2>0 DEF Uncommitted, MigrationRows, DatabaseTypeOK
        <3>3. rows = [applied |-> rows.applied, pending |-> rows.pending]
            BY <2>0 DEF MigrationRows
        <3> QED
            BY <2>0, <3>1, <3>2, <3>3
    <2>2. /\ opener' = [opener EXCEPT ![p] = [pc |-> "check", rows |-> rows]]
          /\ opener'[p].pc = "check"
        BY <1>0, <1>5, MovesTo DEF CommitMigrations, OpenerSteps
    <2>3. Version(schema)' = Latest
        BY <2>0, <2>1 DEF Version
    <2>4. DatabaseTypeOK'
        BY <1>0, <2>0, <2>1, <2>2 DEF DatabaseTypeOK, OpenerSteps
    <2>5. MigratedOnce'
        BY <2>0, <2>1, <2>3 DEF MigratedOnce, Uncommitted, InOrder, Version
    <2>6. rows.pending \in BOOLEAN /\ schema.pending \in BOOLEAN
        BY <1>0, <2>0, <2>1 DEF MigrationRows, DatabaseTypeOK
    <2>7. tokens # {} => rows.pending
        BY <1>0, <2>0, <2>1 DEF ErasureRemembered, Uncommitted
    <2>8. ErasureRemembered'
        BY <2>0, <2>1, <2>7 DEF ErasureRemembered
    <2>9. ASSUME NEW q \in Openers, q # p PROVE OpenerOK(q)'
        <3>1. opener'[q] = opener[q] /\ OpenerOK(q)
            BY <1>0, <2>2, <2>9 DEF DatabaseTypeOK
        <3>2. opener[q].pc \in {"closed", "waiting", "open"}
            BY <1>0, <2>0, <2>1, <2>9, <3>1 DEF OpenerOK, DatabaseTypeOK, OpenerSteps
        <3> QED
            BY <2>0, <2>1, <2>3, <3>1, <3>2 DEF OpenerOK, At
    <2>10. OpenerOK(p)'
        BY <2>0, <2>1, <2>2, <2>3 DEF OpenerOK, At
    <2> QED
        BY <2>4, <2>5, <2>8, <2>9, <2>10 DEF DatabaseInd
<1>6. ASSUME NEW p \in Openers, CheckPending(p) PROVE DatabaseInd'
    <2> DEFINE pc == IF schema.pending THEN "erase" ELSE "secure"
    <2>1. pc \in OpenerSteps /\ MoveTo(p, pc)
        BY <1>6 DEF CheckPending, OpenerSteps
    <2>2. /\ opener[p].rows \in MigrationRows
          /\ opener' = [opener EXCEPT ![p] = [pc |-> pc, rows |-> opener[p].rows]]
          /\ opener'[p].pc = pc
        BY <1>0, <2>1, MovesTo
    <2>3. Version(schema) = Latest /\ initLock = p
        BY <1>0, <1>6 DEF CheckPending, OpenerOK, At
    <2>4. ~schema.pending => tokens = {}
        BY <1>0, <2>3 DEF ErasureRemembered
    <2>5. OpenerOK(p)'
        BY <1>6, <2>2, <2>3, <2>4 DEF OpenerOK, At, CheckPending, Version
    <2> HIDE DEF pc
    <2> QED
        BY <1>0, <1>6, <2>1, <2>2, <2>5, OpenersKept DEF CheckPending
<1>7. ASSUME NEW p \in Openers, CheckpointTruncates(p) PROVE DatabaseInd'
    <2>1. /\ opener[p].rows \in MigrationRows
          /\ opener' = [opener EXCEPT ![p] = [pc |-> "clear", rows |-> opener[p].rows]]
          /\ opener'[p].pc = "clear"
        BY <1>0, <1>7, MovesTo DEF CheckpointTruncates, OpenerSteps
    <2>2. OpenerOK(p)'
        BY <1>0, <1>7, <2>1 DEF OpenerOK, At, CheckpointTruncates, Version
    <2> QED
        BY <1>0, <1>7, <2>1, <2>2, OpenersKept DEF CheckpointTruncates, OpenerSteps
<1>8. ASSUME NEW p \in Openers, CheckpointBusy(p) PROVE DatabaseInd'
    BY <1>8, ReleaseKeeps DEF CheckpointBusy
<1>9. ASSUME NEW p \in Openers, ClearMarker(p) PROVE DatabaseInd'
    <2>1. /\ initLock = p /\ Version(schema) = Latest /\ tokens = {} /\ writer = "none"
          /\ UNCHANGED <<tokens, initLock, writer, current>>
        BY <1>0, <1>9 DEF ClearMarker, OpenerOK, At
    <2>2. /\ opener[p].rows \in MigrationRows
          /\ opener' = [opener EXCEPT ![p] = [pc |-> "secure", rows |-> opener[p].rows]]
          /\ opener'[p].pc = "secure"
        BY <1>0, <1>9, MovesTo DEF ClearMarker, OpenerSteps
    <2>3. schema' \in MigrationRows /\ schema'.applied = schema.applied
        BY <1>0, <1>9 DEF ClearMarker, DatabaseTypeOK, MigrationRows
    <2>4. DatabaseTypeOK'
        BY <1>0, <2>1, <2>2, <2>3 DEF DatabaseTypeOK, OpenerSteps
    <2>5. MigratedOnce' /\ ErasureRemembered' /\ Version(schema)' = Latest
        BY <1>0, <2>1, <2>3 DEF MigratedOnce, ErasureRemembered, Version
    <2>6. ASSUME NEW q \in Openers, q # p PROVE OpenerOK(q)'
        <3>1. opener'[q] = opener[q] /\ OpenerOK(q)
            BY <1>0, <2>2, <2>6 DEF DatabaseTypeOK
        <3>2. opener[q].pc \in {"closed", "waiting", "open"}
            BY <1>0, <2>1, <2>6, <3>1 DEF OpenerOK, DatabaseTypeOK, OpenerSteps
        <3> QED
            BY <2>1, <2>5, <3>1, <3>2 DEF OpenerOK, At
    <2>7. OpenerOK(p)'
        BY <2>1, <2>2, <2>5 DEF OpenerOK, At
    <2> QED
        BY <2>4, <2>5, <2>6, <2>7 DEF DatabaseInd
<1>10. ASSUME NEW p \in Openers, Expose(p) PROVE DatabaseInd'
    <2>1. /\ opener[p].rows \in MigrationRows
          /\ opener' = [opener EXCEPT ![p] = [pc |-> "open", rows |-> opener[p].rows]]
          /\ opener'[p].pc = "open"
        BY <1>0, <1>10, MovesTo DEF Expose, OpenerSteps
    <2>2. OpenerOK(p)'
        BY <1>0, <1>10, <2>1 DEF OpenerOK, At, Expose, Version
    <2>3. \A q \in Openers \ {p} : initLock # q
        BY <1>0, <1>10 DEF Expose, OpenerOK, At
    <2> QED
        BY <1>0, <1>10, <2>1, <2>2, <2>3, OpenersKept DEF Expose, OpenerSteps
<1>11. ASSUME NEW p \in Openers, Close(p) \/ Abandon(p) PROVE DatabaseInd'
    BY <1>11, ReleaseKeeps DEF Close, Abandon
<1>12. CASE UNCHANGED <<schema, tokens, initLock, writer, opener, current>>
    BY <1>0, <1>12
    DEF DatabaseInd, DatabaseTypeOK, MigratedOnce, ErasureRemembered, OpenerOK, At,
        Uncommitted, InOrder, Version
<1>13. CASE LegacyLease
    <2>1. /\ Version(schema) < Erasing /\ Version(schema) # Latest
          /\ UNCHANGED <<schema, initLock, writer, opener, current>>
        BY <1>0, <1>13 DEF LegacyLease
    <2>2. DatabaseTypeOK' /\ MigratedOnce'
        BY <1>0, <2>1 DEF DatabaseTypeOK, MigratedOnce, Version
    <2>3. ErasureRemembered'
        BY <1>0, <2>1 DEF ErasureRemembered, Version
    <2>4. ASSUME NEW q \in Openers PROVE OpenerOK(q)'
        BY <1>0, <2>1 DEF OpenerOK, At, Uncommitted, InOrder, Version
    <2> QED
        BY <2>2, <2>3, <2>4 DEF DatabaseInd
<1> QED
    BY <1>1, <1>2, <1>3, <1>4, <1>5, <1>6, <1>7, <1>8, <1>9, <1>10, <1>11, <1>12, <1>13
    DEF DatabaseNext, databaseVars, LegacyRead, LegacyReadEnds

(* However many processes open the store, die in the middle of it or read  *)
(* it with the version before: migrations are committed whole and once,    *)
(* the marker outlives the tokens, and no store is handed out before its   *)
(* old tokens are gone.                                                    *)
THEOREM StoreExposedErased == DatabaseSpec => []ErasureInv
<1>1. DatabaseInd => ErasureInv
    BY DEF DatabaseInd, ErasureInv, OpenerOK, ExposedOnlyErased, At
<1> QED
    BY <1>1, DatabaseIndInit, DatabaseIndStep, PTL DEF DatabaseSpec

-----------------------------------------------------------------------------
(* PrivateFile: atomic and durable replacement                             *)

InodeRow == [whole : BOOLEAN, synced : BOOLEAN]
FileSteps == {"idle", "create", "fill", "sync", "verify", "replace", "confirm",
              "syncdir", "read", "reread", "return", "check", "unlink", "unlinked"}
UserRow == [pc : FileSteps, opened : Nat, own : Nat]

FileTypeOK ==
    /\ names \in Seq(Nat) /\ Len(names) >= 1
    /\ durable \in Nat \ {0} /\ promised \in Nat
    /\ inodes \in Seq(InodeRow)
    /\ user \in [FileUsers -> UserRow]

(* The text is complete and on disk: it can be given a name.               *)
Flushed(n) == n \in 1..Len(inodes) /\ inodes[n].whole /\ inodes[n].synced

(* Not only the name of now: each name the directory may fall back to.     *)
NamesFlushed == \A i \in 1..Len(names) : names[i] # 0 => Flushed(names[i])

UserOK(p) ==
    /\ user[p].pc \in {"fill", "sync"} => user[p].own \in 1..Len(inodes)
    /\ user[p].pc = "sync" => inodes[user[p].own].whole
    /\ user[p].pc \in {"verify", "replace", "confirm", "syncdir"} => Flushed(user[p].own)
    /\ user[p].pc \in {"confirm", "syncdir"} =>
            \E i \in 1..Len(names) : names[i] = user[p].own
    /\ user[p].pc \in {"read", "reread", "return"} => Flushed(user[p].opened)

FileInd ==
    /\ FileTypeOK
    /\ NamesFlushed
    /\ promised <= durable /\ durable <= Len(names)
    /\ \A p \in FileUsers : UserOK(p)

(* Contents only grow: what was written or flushed stays so.               *)
InodesGrow ==
    /\ Len(inodes) <= Len(inodes')
    /\ \A n \in 1..Len(inodes) :
            /\ inodes[n].whole => inodes'[n].whole
            /\ inodes[n].synced => inodes'[n].synced

(* At first the path names nothing and nobody is at work.                  *)
LEMMA FileIndInit == FileInit => FileInd
<1> SUFFICES ASSUME FileInit PROVE FileInd
    OBVIOUS
<1>1. FileTypeOK
    <2>1. <<0>> \in Seq(Nat) /\ Len(<<0>>) = 1 /\ <<>> \in Seq(InodeRow)
        OBVIOUS
    <2>2. Idle \in UserRow
        BY DEF Idle, UserRow, FileSteps
    <2> QED
        BY <2>1, <2>2 DEF FileInit, FileTypeOK
<1>2. NamesFlushed /\ promised <= durable /\ durable <= Len(names)
    BY DEF FileInit, NamesFlushed
<1>3. \A p \in FileUsers : UserOK(p)
    BY DEF FileInit, UserOK, Idle
<1> QED
    BY <1>1, <1>2, <1>3 DEF FileInd

(* Whoever steps, the others keep their own file and their own place.      *)
LEMMA UsersKept ==
    ASSUME FileInd, NEW p \in FileUsers, NEW row \in UserRow,
           user' = [user EXCEPT ![p] = row],
           names' \in Seq(Nat), Len(names) <= Len(names'),
           \A i \in 1..Len(names) : names'[i] = names[i],
           inodes' \in Seq(InodeRow), InodesGrow
    PROVE  /\ user' \in [FileUsers -> UserRow]
           /\ user'[p] = row
           /\ \A n : Flushed(n) => Flushed(n)'
           /\ \A q \in FileUsers \ {p} : UserOK(q)'
<1>1. /\ FileTypeOK /\ \A q \in FileUsers : UserOK(q)
      /\ Len(names) \in Nat /\ Len(names') \in Nat
      /\ Len(inodes) \in Nat /\ Len(inodes') \in Nat
    BY DEF FileInd, FileTypeOK
<1>2. user' \in [FileUsers -> UserRow] /\ user'[p] = row
    BY <1>1 DEF FileTypeOK
<1>3. ASSUME NEW n, Flushed(n) PROVE Flushed(n)'
    BY <1>1, <1>3 DEF Flushed, InodesGrow
<1>4. ASSUME NEW q \in FileUsers \ {p} PROVE UserOK(q)'
    <2>1. user'[q] = user[q] /\ UserOK(q)
        BY <1>1 DEF FileTypeOK
    <2>2. user[q].own \in 1..Len(inodes) =>
            /\ user[q].own \in 1..Len(inodes')
            /\ inodes[user[q].own].whole => inodes'[user[q].own].whole
        BY <1>1 DEF InodesGrow
    <2>3. (\E i \in 1..Len(names) : names[i] = user[q].own) =>
                \E i \in 1..Len(names') : names'[i] = user[q].own
        BY <1>1
    <2>4. PICK n : n = user[q].own
        OBVIOUS
    <2>5. Flushed(n) => Flushed(n)'
        BY <1>3
    <2>6. /\ user'[q].pc \in {"fill", "sync"} => user'[q].own \in 1..Len(inodes')
          /\ user'[q].pc = "sync" => inodes'[user'[q].own].whole
        BY <2>1, <2>2 DEF UserOK
    <2>7. user'[q].pc \in {"verify", "replace", "confirm", "syncdir"}
            => Flushed(user[q].own)'
        BY <2>1, <2>4, <2>5 DEF UserOK, Flushed
    <2>8. user'[q].pc \in {"confirm", "syncdir"} =>
            \E i \in 1..Len(names') : names'[i] = user'[q].own
        BY <2>1, <2>3 DEF UserOK
    <2>9. user'[q].pc \in {"read", "reread", "return"} => Flushed(user[q].opened)'
        <3>1. PICK m : m = user[q].opened
            OBVIOUS
        <3>2. Flushed(m) => Flushed(m)'
            BY <1>3
        <3> QED
            BY <2>1, <3>1, <3>2 DEF UserOK, Flushed
    <2> QED
        BY <2>1, <2>6, <2>7, <2>8, <2>9 DEF UserOK, Flushed
<1> QED
    BY <1>2, <1>3, <1>4

(* A step that gives the path no new name needs an eye on its user only.   *)
LEMMA NamesKept ==
    ASSUME FileInd, NEW p \in FileUsers, NEW row \in UserRow,
           user' = [user EXCEPT ![p] = row],
           UNCHANGED names, durable' \in {durable, Len(names)},
           promised' \in Nat, promised' <= durable',
           inodes' \in Seq(InodeRow), InodesGrow, UserOK(p)'
    PROVE  FileInd'
<1>1. /\ FileTypeOK /\ NamesFlushed /\ durable <= Len(names)
      /\ Len(names) \in Nat \ {0} /\ durable \in Nat \ {0}
    BY DEF FileInd, FileTypeOK
<1>2. /\ names' \in Seq(Nat) /\ Len(names) <= Len(names')
      /\ \A i \in 1..Len(names) : names'[i] = names[i]
    BY <1>1 DEF FileTypeOK
<1>3. /\ user' \in [FileUsers -> UserRow]
      /\ \A n : Flushed(n) => Flushed(n)'
      /\ \A q \in FileUsers \ {p} : UserOK(q)'
    BY <1>2, UsersKept
<1>4. durable' \in Nat \ {0} /\ durable' <= Len(names')
    BY <1>1
<1>5. FileTypeOK'
    BY <1>1, <1>3, <1>4 DEF FileTypeOK
<1>6. NamesFlushed'
    BY <1>1, <1>3 DEF NamesFlushed, Flushed
<1> QED
    BY <1>3, <1>4, <1>5, <1>6 DEF FileInd

(* A step that only moves its user to a place that asks for nothing.       *)
LEMMA UserMoves ==
    ASSUME FileInd, NEW p \in FileUsers, NEW row \in UserRow,
           user' = [user EXCEPT ![p] = row],
           UNCHANGED <<names, durable, promised, inodes>>, UserOK(p)'
    PROVE  FileInd'
<1>1. FileTypeOK /\ promised <= durable
    BY DEF FileInd
<1>2. InodesGrow /\ inodes' \in Seq(InodeRow) /\ promised' \in Nat /\ promised' <= durable'
    BY <1>1 DEF InodesGrow, FileTypeOK
<1> QED
    BY <1>2, NamesKept

(* Advance leaves the files of its user alone.                             *)
LEMMA Advances ==
    ASSUME FileTypeOK, NEW p \in FileUsers, NEW from, NEW to \in FileSteps,
           Advance(p, from, to)
    PROVE  LET row == [pc |-> to, opened |-> user[p].opened, own |-> user[p].own]
           IN  /\ row \in UserRow
               /\ user' = [user EXCEPT ![p] = row]
               /\ user'[p] = row
<1>1. user[p] \in UserRow
    BY DEF FileTypeOK
<1>2. [user[p] EXCEPT !.pc = to] =
            [pc |-> to, opened |-> user[p].opened, own |-> user[p].own]
    BY <1>1 DEF UserRow
<1>3. user' = [user EXCEPT ![p] = [user[p] EXCEPT !.pc = to]]
    BY DEF Advance
<1>4. [pc |-> to, opened |-> user[p].opened, own |-> user[p].own] \in UserRow
    BY <1>1 DEF UserRow
<1> QED
    BY <1>2, <1>3, <1>4 DEF FileTypeOK

(* To end a call is to be idle, and to begin one holds no file of one's    *)
(* own yet.                                                                *)
LEMMA CallEdges ==
    ASSUME FileInd, NEW p \in FileUsers,
           \/ EndCall(p) /\ UNCHANGED <<names, inodes>>
                /\ durable' \in {durable, Len(names)}
                /\ promised' \in Nat /\ promised' <= durable'
           \/ \E pc \in {"create", "read", "check"} : OpenAs(p, pc) /\ (pc = "read" => Named # 0)
    PROVE  FileInd'
<1>0. FileTypeOK /\ NamesFlushed /\ promised <= durable
    BY DEF FileInd
<1>1. CASE /\ EndCall(p) /\ UNCHANGED <<names, inodes>>
           /\ durable' \in {durable, Len(names)}
           /\ promised' \in Nat /\ promised' <= durable'
    <2>1. Idle \in UserRow /\ user' = [user EXCEPT ![p] = Idle]
        BY <1>1 DEF EndCall, Idle, UserRow, FileSteps
    <2>2. user'[p].pc = "idle"
        BY <1>0, <2>1 DEF FileTypeOK, Idle
    <2>3. UserOK(p)'
        BY <2>2 DEF UserOK
    <2>4. InodesGrow /\ inodes' \in Seq(InodeRow)
        BY <1>0, <1>1 DEF InodesGrow, FileTypeOK
    <2> QED
        BY <1>1, <2>1, <2>3, <2>4, NamesKept
<1>2. ASSUME NEW pc \in {"create", "read", "check"}, OpenAs(p, pc), pc = "read" => Named # 0
      PROVE  FileInd'
    <2> DEFINE row == [Idle EXCEPT !.pc = pc, !.opened = Named]
    <2>1. Named \in Nat /\ pc \in FileSteps
        BY <1>0 DEF FileTypeOK, Named, FileSteps
    <2>2. row \in UserRow /\ row.pc = pc /\ row.opened = Named
        <3>1. Idle \in UserRow
            BY DEF Idle, UserRow, FileSteps
        <3> QED
            BY <2>1, <3>1 DEF UserRow
    <2>3. user' = [user EXCEPT ![p] = row]
        BY <1>2 DEF OpenAs
    <2>4. user'[p].pc = pc /\ user'[p].opened = Named
        BY <1>0, <2>2, <2>3 DEF FileTypeOK
    <2>5. UserOK(p)'
        <3>1. pc = "read" => Flushed(Named)
            <4>1. Len(names) \in 1..Len(names)
                BY <1>0 DEF FileTypeOK
            <4> QED
                BY <1>0, <1>2, <4>1 DEF NamesFlushed, Named
        <3>2. inodes' = inodes
            BY <1>2 DEF OpenAs
        <3> QED
            BY <2>4, <3>1, <3>2 DEF UserOK, Flushed
    <2> HIDE DEF row
    <2> QED
        BY <1>2, <2>2, <2>3, <2>5, UserMoves DEF OpenAs
<1> QED
    BY <1>1, <1>2

(* Every system call of any process, its death and a loss of power keep    *)
(* the invariant.  A file is flushed before it gets its name, so every     *)
(* name the directory may fall back to has its text.                       *)
LEMMA FileIndStep == FileInd /\ [FileNext]_fileVars => FileInd'
<1> SUFFICES ASSUME FileInd, [FileNext]_fileVars PROVE FileInd'
    OBVIOUS
<1>0. /\ FileTypeOK /\ NamesFlushed /\ promised <= durable /\ durable <= Len(names)
      /\ \A q \in FileUsers : UserOK(q)
      /\ Len(names) \in Nat /\ Len(inodes) \in Nat
    BY DEF FileInd, FileTypeOK
<1>1. ASSUME NEW p \in FileUsers, WriteOpen(p) \/ ReadOpen(p) \/ DeleteOpen(p)
      PROVE  FileInd'
    BY <1>1, CallEdges DEF WriteOpen, ReadOpen, DeleteOpen
<1>2. ASSUME NEW p \in FileUsers, CreateTemporary(p) PROVE FileInd'
    <2> DEFINE row == [user[p] EXCEPT !.pc = "fill", !.own = Len(inodes) + 1]
               new == [whole |-> FALSE, synced |-> FALSE]
    <2>1. user[p] \in UserRow
        BY <1>0 DEF FileTypeOK
    <2>2. row \in UserRow /\ row.pc = "fill" /\ row.own = Len(inodes) + 1
        <3>1. "fill" \in FileSteps /\ Len(inodes) + 1 \in Nat
            BY <1>0 DEF FileSteps
        <3> QED
            BY <2>1, <3>1 DEF UserRow
    <2>3. user' = [user EXCEPT ![p] = row]
        <3>1. user' = [user EXCEPT ![p].pc = "fill", ![p].own = Len(inodes) + 1]
            BY <1>2 DEF CreateTemporary
        <3> QED
            BY <1>0, <3>1, Zenon DEF FileTypeOK
    <2>4. user'[p] = row
        BY <1>0, <2>3 DEF FileTypeOK
    <2>5. inodes' = Append(inodes, new) /\ new \in InodeRow
        BY <1>2 DEF CreateTemporary, InodeRow
    <2>6. /\ inodes' \in Seq(InodeRow) /\ Len(inodes') = Len(inodes) + 1
          /\ \A n \in 1..Len(inodes) : inodes'[n] = inodes[n]
        BY <1>0, <2>5 DEF FileTypeOK
    <2>7. InodesGrow
        BY <1>0, <2>6 DEF InodesGrow
    <2>8. UserOK(p)'
        BY <1>0, <2>2, <2>4, <2>6 DEF UserOK
    <2>9. UNCHANGED <<names, durable, promised>> /\ promised' \in Nat
        BY <1>0, <1>2 DEF CreateTemporary, FileTypeOK
    <2> HIDE DEF row, new
    <2> QED
        BY <1>0, <2>2, <2>3, <2>6, <2>7, <2>8, <2>9, NamesKept
<1>3. ASSUME NEW p \in FileUsers, NEW to \in FileSteps,
             \/ Advance(p, "fill", "sync") /\ to = "sync"
                /\ inodes' = [inodes EXCEPT ![user[p].own].whole = TRUE]
             \/ Advance(p, "sync", "verify") /\ to = "verify"
                /\ inodes' = [inodes EXCEPT ![user[p].own].synced = TRUE],
             UNCHANGED <<names, durable, promised>>
      PROVE  FileInd'
    <2> DEFINE row == [pc |-> to, opened |-> user[p].opened, own |-> user[p].own]
               own == user[p].own
    <2>1. row \in UserRow /\ user' = [user EXCEPT ![p] = row] /\ user'[p] = row
        BY <1>0, <1>3, Advances DEF FileSteps
    <2>2. own \in 1..Len(inodes) /\ (user[p].pc = "sync" => inodes[own].whole)
        BY <1>0, <1>3 DEF UserOK, Advance
    <2>3. inodes[own] \in InodeRow
        BY <1>0, <2>2 DEF FileTypeOK
    <2>4. \/ /\ to = "sync"
             /\ inodes' = [inodes EXCEPT ![own] = [whole |-> TRUE, synced |-> inodes[own].synced]]
          \/ /\ to = "verify" /\ inodes[own].whole
             /\ inodes' = [inodes EXCEPT ![own] = [whole |-> inodes[own].whole, synced |-> TRUE]]
        <3>1. CASE Advance(p, "fill", "sync") /\ to = "sync"
                /\ inodes' = [inodes EXCEPT ![user[p].own].whole = TRUE]
            <4>1. inodes' = [inodes EXCEPT ![own] = [inodes[own] EXCEPT !.whole = TRUE]]
                BY <3>1
            <4> QED
                BY <2>3, <3>1, <4>1 DEF InodeRow
        <3>2. CASE Advance(p, "sync", "verify") /\ to = "verify"
                /\ inodes' = [inodes EXCEPT ![user[p].own].synced = TRUE]
            <4>1. inodes' = [inodes EXCEPT ![own] = [inodes[own] EXCEPT !.synced = TRUE]]
                BY <3>2
            <4> QED
                BY <2>2, <2>3, <3>2, <4>1 DEF InodeRow, Advance
        <3> QED
            BY <1>3, <3>1, <3>2
    <2>5. PICK text \in InodeRow :
            /\ inodes' = [inodes EXCEPT ![own] = text]
            /\ inodes[own].whole => text.whole
            /\ inodes[own].synced => text.synced
            /\ text.whole /\ (to = "verify" => text.synced)
            /\ to \in {"sync", "verify"}
        <3>1. /\ inodes[own].whole \in BOOLEAN /\ inodes[own].synced \in BOOLEAN
            BY <2>3 DEF InodeRow
        <3>2. /\ [whole |-> TRUE, synced |-> inodes[own].synced] \in InodeRow
              /\ [whole |-> inodes[own].whole, synced |-> TRUE] \in InodeRow
            BY <3>1 DEF InodeRow
        <3> HIDE DEF own
        <3>3. CASE to = "sync"
            BY <2>4, <3>2, <3>3
        <3>4. CASE to = "verify"
            BY <2>4, <3>2, <3>4
        <3> QED
            BY <2>4, <3>3, <3>4
    <2>6. /\ inodes' \in Seq(InodeRow) /\ Len(inodes') = Len(inodes)
          /\ inodes'[own] = text
          /\ \A n \in 1..Len(inodes) : n # own => inodes'[n] = inodes[n]
        BY <1>0, <2>2, <2>5 DEF FileTypeOK
    <2>7. InodesGrow
        BY <1>0, <2>5, <2>6 DEF InodesGrow
    <2>8. UserOK(p)'
        BY <1>0, <2>1, <2>2, <2>5, <2>6 DEF UserOK, Flushed
    <2>9. promised' \in Nat /\ promised' <= durable'
        BY <1>0, <1>3 DEF FileTypeOK
    <2> HIDE DEF row, own
    <2> QED
        BY <1>3, <2>1, <2>6, <2>7, <2>8, <2>9, NamesKept

<1>4. ASSUME NEW p \in FileUsers, FillTemporary(p) \/ SyncTemporary(p) PROVE FileInd'
    BY <1>3, <1>4 DEF FillTemporary, SyncTemporary, FileSteps
<1>5. ASSUME NEW p \in FileUsers, NEW from, NEW to \in FileSteps, Advance(p, from, to),
             UNCHANGED <<names, durable, promised, inodes>>,
             to \in {"replace", "syncdir"} => Flushed(user[p].own),
             to = "syncdir" => \E i \in 1..Len(names) : names[i] = user[p].own,
             to \in {"reread", "return"} => Flushed(user[p].opened),
             to \in {"replace", "syncdir", "reread", "return", "unlink"}
      PROVE  FileInd'
    <2> DEFINE row == [pc |-> to, opened |-> user[p].opened, own |-> user[p].own]
    <2>1. row \in UserRow /\ user' = [user EXCEPT ![p] = row] /\ user'[p] = row
        BY <1>0, <1>5, Advances
    <2>2. user'[p].pc = to /\ user'[p].own = user[p].own /\ user'[p].opened = user[p].opened
        BY <2>1
    <2>3. UserOK(p)'
        BY <1>5, <2>2 DEF UserOK, Flushed
    <2> HIDE DEF row
    <2> QED
        BY <1>5, <2>1, <2>3, UserMoves
<1>6. ASSUME NEW p \in FileUsers, VerifyDestination(p) PROVE FileInd'
    <2>1. user[p].pc = "verify"
        BY <1>6 DEF VerifyDestination, Advance
    <2>2. Flushed(user[p].own)
        BY <1>0, <2>1 DEF UserOK
    <2> QED
        BY <1>5, <1>6, <2>2 DEF VerifyDestination, FileSteps
<1>7. ASSUME NEW p \in FileUsers, ConfirmReplaced(p) PROVE FileInd'
    <2>1. user[p].pc = "confirm"
        BY <1>7 DEF ConfirmReplaced, Advance
    <2>2. Flushed(user[p].own) /\ \E i \in 1..Len(names) : names[i] = user[p].own
        BY <1>0, <2>1 DEF UserOK
    <2> QED
        BY <1>5, <1>7, <2>2 DEF ConfirmReplaced, FileSteps
<1>8. ASSUME NEW p \in FileUsers, ReadText(p) \/ ReadVerify(p) \/ DeleteVerify(p) PROVE FileInd'
    <2>1. ReadText(p) \/ ReadVerify(p) => Flushed(user[p].opened)
        BY <1>0 DEF ReadText, ReadVerify, Advance, UserOK
    <2> QED
        BY <1>5, <1>8, <2>1 DEF ReadText, ReadVerify, DeleteVerify, FileSteps
<1>9. ASSUME NEW p \in FileUsers, NEW from, NEW to \in {"confirm", "unlinked"},
             Advance(p, from, to), NEW n \in Nat, names' = Append(names, n),
             n # 0 => Flushed(n), to = "confirm" => n = user[p].own /\ Flushed(n),
             UNCHANGED <<durable, promised, inodes>>
      PROVE  FileInd'
    <2> DEFINE row == [pc |-> to, opened |-> user[p].opened, own |-> user[p].own]
    <2>0. to \in FileSteps
        BY DEF FileSteps
    <2>1. row \in UserRow /\ user' = [user EXCEPT ![p] = row] /\ user'[p] = row
        BY <1>0, <1>9, <2>0, Advances
    <2>2. user'[p].pc = to /\ user'[p].own = user[p].own
        BY <2>1
    <2>3. /\ names' \in Seq(Nat) /\ Len(names') = Len(names) + 1
          /\ names'[Len(names) + 1] = n
          /\ \A i \in 1..Len(names) : names'[i] = names[i]
        BY <1>0, <1>9 DEF FileTypeOK
    <2>4. InodesGrow /\ inodes' \in Seq(InodeRow)
        BY <1>0, <1>9 DEF InodesGrow, FileTypeOK
    <2>5. Len(names) <= Len(names') /\ Len(names) + 1 \in 1..Len(names')
        BY <1>0, <2>3
    <2> HIDE DEF row
    <2>6. /\ user' \in [FileUsers -> UserRow]
          /\ \A q \in FileUsers \ {p} : UserOK(q)'
        BY <2>1, <2>3, <2>4, <2>5, UsersKept
    <2>7. UserOK(p)'
        BY <1>9, <2>2, <2>3, <2>5 DEF UserOK, Flushed
    <2>8. FileTypeOK'
        BY <1>0, <1>9, <2>3, <2>4, <2>6 DEF FileTypeOK
    <2>9. NamesFlushed'
        <3>1. ASSUME NEW i \in 1..Len(names'), names'[i] # 0
              PROVE  Flushed(names[i])'
            <4>1. CASE i \in 1..Len(names)
                BY <1>0, <1>9, <2>3, <3>1, <4>1 DEF NamesFlushed, Flushed
            <4>2. CASE i = Len(names) + 1
                BY <1>9, <2>3, <3>1, <4>2 DEF Flushed
            <4> QED
                BY <1>0, <2>3, <4>1, <4>2
        <3> QED
            BY <3>1 DEF NamesFlushed
    <2>10. promised' <= durable' /\ durable' <= Len(names')
        BY <1>0, <1>9, <2>3 DEF FileTypeOK
    <2> QED
        BY <2>6, <2>7, <2>8, <2>9, <2>10 DEF FileInd
<1>10. ASSUME NEW p \in FileUsers, ReplaceFile(p) PROVE FileInd'
    <2>1. user[p].pc = "replace"
        BY <1>10 DEF ReplaceFile, Advance
    <2>2. Flushed(user[p].own) /\ user[p].own \in Nat
        BY <1>0, <2>1 DEF UserOK, FileTypeOK, UserRow
    <2> QED
        BY <1>9, <1>10, <2>2 DEF ReplaceFile
<1>11. ASSUME NEW p \in FileUsers, Unlink(p) PROVE FileInd'
    BY <1>9, <1>11 DEF Unlink
<1>12. ASSUME NEW p \in FileUsers, WriteReturns(p) PROVE FileInd'
    <2>1. \E i \in 1..Len(names) : names[i] = user[p].own
        BY <1>0, <1>12 DEF WriteReturns, UserOK
    <2>2. DOMAIN names = 1..Len(names)
        BY <1>0 DEF FileTypeOK
    <2>3. promised' \in 1..Len(names)
        BY <1>12, <2>1, <2>2 DEF WriteReturns
    <2> QED
        BY <1>0, <1>12, <2>3, CallEdges DEF WriteReturns
<1>13. ASSUME NEW p \in FileUsers, DeleteReturns(p) \/ ReadReturns(p) \/ Breaks(p)
       PROVE  FileInd'
    BY <1>0, <1>13, CallEdges DEF DeleteReturns, ReadReturns, Breaks, FileTypeOK
<1>14. CASE PowerLoss
    <2>1. PICK k \in durable..Len(names) : names' = SubSeq(names, 1, k) /\ durable' = k
        BY <1>14 DEF PowerLoss
    <2>3. k \in Nat /\ k <= Len(names) /\ promised <= k
        BY <1>0, <2>1 DEF FileTypeOK
    <2>4. k >= 1
        BY <1>0, <2>1 DEF FileTypeOK
    <2>5. /\ names' \in Seq(Nat) /\ Len(names') = k
          /\ \A i \in 1..k : names'[i] = names[i]
        BY <1>0, <2>1, <2>3, <2>4 DEF FileTypeOK
    <2>6. /\ inodes' \in Seq(InodeRow) /\ Len(inodes') = Len(inodes)
          /\ \A n \in 1..Len(inodes) :
                inodes[n].whole /\ inodes[n].synced => inodes'[n].whole /\ inodes'[n].synced
        <3>1. DOMAIN inodes = 1..Len(inodes)
            BY <1>0 DEF FileTypeOK
        <3>2. \A n \in 1..Len(inodes) : inodes[n] \in InodeRow
            BY <1>0 DEF FileTypeOK
        <3>3. inodes' = [n \in 1..Len(inodes) |->
                            [inodes[n] EXCEPT !.whole = inodes[n].whole /\ inodes[n].synced]]
            BY <1>14, <3>1 DEF PowerLoss
        <3>4. \A n \in 1..Len(inodes) :
                    [inodes[n] EXCEPT !.whole = inodes[n].whole /\ inodes[n].synced]
                        \in InodeRow
            BY <3>2 DEF InodeRow
        <3>5. inodes' \in Seq(InodeRow) /\ Len(inodes') = Len(inodes)
            BY <1>0, <3>3, <3>4
        <3>6. ASSUME NEW n \in 1..Len(inodes), inodes[n].whole, inodes[n].synced
              PROVE  inodes'[n].whole /\ inodes'[n].synced
            BY <3>2, <3>3, <3>6 DEF InodeRow
        <3> QED
            BY <3>5, <3>6
    <2>7. Idle \in UserRow
        BY DEF Idle, UserRow, FileSteps
    <2>8. user' = [q \in FileUsers |-> Idle] /\ promised' = promised
        BY <1>14 DEF PowerLoss
    <2>9. FileTypeOK'
        BY <1>0, <2>1, <2>3, <2>4, <2>5, <2>6, <2>7, <2>8 DEF FileTypeOK
    <2>10. NamesFlushed'
        BY <1>0, <2>3, <2>5, <2>6 DEF NamesFlushed, Flushed
    <2>11. \A q \in FileUsers : UserOK(q)'
        BY <2>8 DEF UserOK, Idle
    <2> QED
        BY <2>1, <2>3, <2>5, <2>8, <2>9, <2>10, <2>11 DEF FileInd
<1>15. CASE UNCHANGED fileVars
    BY <1>0, <1>15
    DEF FileInd, fileVars, FileTypeOK, NamesFlushed, UserOK, Flushed
<1> QED
    BY <1>1, <1>2, <1>4, <1>6, <1>7, <1>8, <1>10, <1>11, <1>12, <1>13, <1>14, <1>15
    DEF FileNext

(* A half-written file never has the name and is never read, and a write   *)
(* that has returned is still there after any loss of power, for any       *)
(* number of processes and deaths between any two system calls.            *)
THEOREM ReplacementDurable == FileSpec => []FileInv
<1>1. FileInd => FileInv
    <2> SUFFICES ASSUME FileInd PROVE FileInv
        OBVIOUS
    <2>1. /\ FileTypeOK /\ NamesFlushed /\ promised <= durable /\ durable <= Len(names)
          /\ \A p \in FileUsers : UserOK(p)
        BY DEF FileInd
    <2>2. Len(names) \in 1..Len(names)
        BY <2>1 DEF FileTypeOK
    <2>3. NamedFileWhole
        BY <2>1, <2>2 DEF NamedFileWhole, Named, NamesFlushed, Flushed
    <2>4. ReturnedWriteSurvives
        BY <2>1 DEF ReturnedWriteSurvives, FileTypeOK
    <2>5. ReadersHoldWholeText
        BY <2>1 DEF ReadersHoldWholeText, UserOK, Flushed
    <2> QED
        BY <2>3, <2>4, <2>5 DEF FileInv
<1> QED
    BY <1>1, FileIndInit, FileIndStep, PTL DEF FileSpec

-----------------------------------------------------------------------------
(* MemoryStore: unique facts and quotas                                    *)

Abouts == {m.about : m \in NewMemories}
MemoryRow ==
    [kind : {m.kind : m \in NewMemories}, entity : Nat,
     date : {m.date : m \in NewMemories}, attribute : {m.attribute : m \in NewMemories},
     content : {m.content : m \in NewMemories}, archived : BOOLEAN]

MemoryTypeOK ==
    /\ memories \in Seq(MemoryRow)
    /\ entities \in Seq(Abouts)
    /\ aliases \in [Names -> Nat]
    /\ forgetting \in [Callers -> 0..Len(memories)]

MemoryInd == MemoryTypeOK /\ MemoryInv

(* Aliases are normalized names.                                           *)
LEMMA AliasesAreNames == \A about \in Abouts : EntityAliases(about) \subseteq Names
    BY MemoryAssumption DEF Abouts, EntityAliases, NoName

(* resolve_entity keeps the alias index: a new entity takes aliases that   *)
(* nobody has, so those of every earlier entity stay where they are.       *)
LEMMA ResolveKeepsAliases ==
    ASSUME MemoryInd, NEW about \in Abouts, ResolveEntity(about)
    PROVE  /\ entities' \in Seq(Abouts) /\ aliases' \in [Names -> Nat]
           /\ Len(entities') <= MaxEntityRows
           /\ Len(entities) <= Len(entities')
           /\ \A e \in 1..Len(entities) : entities'[e] = entities[e]
           /\ \A e \in DOMAIN entities' : \A n \in EntityAliases(entities'[e]) :
                    aliases'[n] = e
<1>0. /\ entities \in Seq(Abouts) /\ aliases \in [Names -> Nat] /\ Len(entities) \in Nat
      /\ DOMAIN entities = 1..Len(entities)
      /\ \A e \in 1..Len(entities) : \A n \in EntityAliases(entities[e]) : aliases[n] = e
    BY DEF MemoryInd, MemoryTypeOK, MemoryInv, DatedFactsUnique
<1>1. Len(entities') <= MaxEntityRows
    BY DEF ResolveEntity
<1>2. CASE ~Creates(about)
    BY <1>0, <1>1, <1>2 DEF ResolveEntity
<1>3. CASE Creates(about)
    <2> DEFINE new == Len(entities) + 1
    <2>1. /\ entities' = Append(entities, about)
          /\ aliases' = [n \in Names |-> IF n \in EntityAliases(about) THEN new ELSE aliases[n]]
        BY <1>3 DEF ResolveEntity
    <2>2. \A n \in EntityAliases(about) : aliases[n] = 0
        BY <1>3 DEF ResolveEntity, Resolvable, Creates, NoEntity
    <2>3. /\ entities' \in Seq(Abouts) /\ Len(entities') = new
          /\ entities'[new] = about
          /\ \A e \in 1..Len(entities) : entities'[e] = entities[e]
        BY <1>0, <2>1
    <2>4. aliases' \in [Names -> Nat]
        BY <1>0, <2>1
    <2>5. ASSUME NEW e \in DOMAIN entities', NEW n \in EntityAliases(entities'[e])
          PROVE  aliases'[n] = e
        <3>1. e \in 1..new
            BY <2>3
        <3>2. entities'[e] \in Abouts
            BY <2>3, <3>1
        <3>3. n \in Names
            BY <3>2, AliasesAreNames
        <3>4. CASE e = new
            BY <2>1, <2>3, <3>3, <3>4
        <3>5. CASE e \in 1..Len(entities)
            <4>1. aliases[n] = e /\ e # 0
                BY <1>0, <2>3, <3>5
            <4>2. n \notin EntityAliases(about)
                BY <2>2, <4>1
            <4> QED
                BY <2>1, <3>3, <4>1, <4>2
        <3> QED
            BY <1>0, <3>1, <3>4, <3>5
    <2>6. Len(entities) <= Len(entities')
        BY <1>0, <2>3
    <2> QED
        BY <1>1, <2>3, <2>4, <2>5, <2>6
<1> QED
    BY <1>2, <1>3

(* A row that remember or update would store, and what its owner's state   *)
(* makes of it.                                                            *)
LEMMA RowTyped ==
    ASSUME MemoryInd, NEW m \in NewMemories
    PROVE  Row(m) \in MemoryRow /\ ~Row(m).archived /\ m.about \in Abouts
<1>1. aliases \in [Names -> Nat] /\ Len(entities) \in Nat
    BY DEF MemoryInd, MemoryTypeOK
<1>2. m.about \in Abouts
    BY DEF Abouts
<1>3. m.about.label = NoName \/ m.about.label \in Names
    BY MemoryAssumption DEF NoName
<1>4. ResolvedId(m.about) \in Nat
    BY <1>1, <1>3 DEF ResolvedId, NoEntity
<1> QED
    BY <1>2, <1>4 DEF Row, MemoryRow

(* The identity of a dated fact does not depend on the order.              *)
LEMMA SameFactSymmetric ==
    \A r, s \in MemoryRow : SameDatedFact(r, s) => SameDatedFact(s, r)
    BY DEF SameDatedFact

(* Active rows are finitely many.                                          *)
LEMMA ActiveFinite ==
    ASSUME MemoryTypeOK
    PROVE  IsFiniteSet(ActiveRows) /\ Cardinality(ActiveRows) \in Nat
<1>1. ActiveRows \subseteq 1..Len(memories) /\ Len(memories) \in Nat
    BY DEF MemoryTypeOK, ActiveRows
<1>2. IsFiniteSet(1..Len(memories))
    BY <1>1, FS_Interval
<1>3. IsFiniteSet(ActiveRows)
    BY <1>1, <1>2, FS_Subset
<1> QED
    BY <1>3, FS_CardinalityType

(* The empty store.                                                        *)
LEMMA MemoryIndInit == MemoryInit => MemoryInd
<1> SUFFICES ASSUME MemoryInit PROVE MemoryInd
    OBVIOUS
<1>1. memories = <<>> /\ entities = <<>> /\ Len(<<>>) = 0 /\ DOMAIN <<>> = {}
    BY DEF MemoryInit
<1>2. MemoryTypeOK
    BY <1>1 DEF MemoryInit, MemoryTypeOK, NoEntity
<1>3. ActiveRows = {}
    BY <1>1 DEF ActiveRows
<1>4. Cardinality(ActiveRows) = 0
    BY <1>3, FS_EmptySet
<1>5. DatedFactsUnique
    BY <1>1, <1>3 DEF DatedFactsUnique
<1>6. QuotasHold
    BY <1>1, <1>4, MemoryAssumption DEF QuotasHold
<1> QED
    BY <1>2, <1>5, <1>6 DEF MemoryInd, MemoryInv

(* Only the row that a call stores can break a unique index, and the call  *)
(* looked for its duplicates.                                              *)
LEMMA StoredRowUnique ==
    ASSUME MemoryInd, NEW k, NEW row \in MemoryRow,
           memories' \in Seq(MemoryRow), memories'[k] = row,
           \A i \in 1..Len(memories') :
                i # k => i \in 1..Len(memories) /\ memories'[i] = memories[i],
           \A i \in ActiveRows : i # k => ~SameDatedFact(row, memories[i])
    PROVE  \A i, j \in ActiveRows' : i # j => ~SameDatedFact(memories'[i], memories'[j])
<1>0. /\ MemoryTypeOK /\ Len(memories) \in Nat /\ Len(memories') \in Nat
      /\ DOMAIN memories = 1..Len(memories) /\ DOMAIN memories' = 1..Len(memories')
      /\ \A i, j \in ActiveRows : i # j => ~SameDatedFact(memories[i], memories[j])
    BY DEF MemoryInd, MemoryTypeOK, MemoryInv, DatedFactsUnique
<1>1. ASSUME NEW i \in ActiveRows', i # k
      PROVE  i \in ActiveRows /\ memories'[i] = memories[i] /\ memories[i] \in MemoryRow
    <2>1. i \in 1..Len(memories') /\ ~memories'[i].archived
        BY <1>0 DEF ActiveRows
    <2>2. i \in 1..Len(memories) /\ memories'[i] = memories[i]
        BY <1>1, <2>1
    <2> QED
        BY <1>0, <2>1, <2>2 DEF ActiveRows, MemoryTypeOK
<1>2. ASSUME NEW i \in ActiveRows', NEW j \in ActiveRows', i # j,
             SameDatedFact(memories'[i], memories'[j])
      PROVE  FALSE
    <2>1. CASE i = k
        BY <1>1, <1>2, <2>1
    <2>2. CASE j = k
        BY <1>1, <1>2, <2>2, SameFactSymmetric
    <2>3. CASE i # k /\ j # k
        BY <1>0, <1>1, <1>2, <2>3
    <2> QED
        BY <2>1, <2>2, <2>3
<1> QED
    BY <1>2

(* What one more active row, one changed in place or one archived does to  *)
(* the number of active ones.                                              *)
LEMMA ActiveQuota ==
    ASSUME MemoryTypeOK, Cardinality(ActiveRows) <= MaxMemoryRows,
           \/ ActiveRows' \subseteq ActiveRows
           \/ /\ Cardinality(ActiveRows) < MaxMemoryRows
              /\ \E k : ActiveRows' = ActiveRows \union {k}
    PROVE  Cardinality(ActiveRows') <= MaxMemoryRows
<1>0. IsFiniteSet(ActiveRows) /\ Cardinality(ActiveRows) \in Nat /\ MaxMemoryRows \in Nat
    BY ActiveFinite, MemoryAssumption
<1>1. CASE ActiveRows' \subseteq ActiveRows
    <2>1. IsFiniteSet(ActiveRows') /\ Cardinality(ActiveRows') <= Cardinality(ActiveRows)
        BY <1>0, <1>1, FS_Subset
    <2>2. Cardinality(ActiveRows') \in Nat
        BY <2>1, FS_CardinalityType
    <2> QED
        BY <1>0, <2>1, <2>2
<1>2. ASSUME Cardinality(ActiveRows) < MaxMemoryRows,
             NEW k, ActiveRows' = ActiveRows \union {k}
      PROVE  Cardinality(ActiveRows') <= MaxMemoryRows
    <2>1. \/ Cardinality(ActiveRows \union {k}) = Cardinality(ActiveRows)
          \/ Cardinality(ActiveRows \union {k}) = Cardinality(ActiveRows) + 1
        BY <1>0, FS_AddElement
    <2> QED
        BY <1>0, <1>2, <2>1
<1> QED
    BY <1>1, <1>2

(* Every call of the memory tools keeps the indexes and the quotas.        *)
LEMMA MemoryIndStep == MemoryInd /\ [MemoryNext]_memoryVars => MemoryInd'
<1> SUFFICES ASSUME MemoryInd, [MemoryNext]_memoryVars PROVE MemoryInd'
    OBVIOUS
<1>0. /\ MemoryTypeOK /\ DatedFactsUnique /\ QuotasHold
      /\ Len(memories) \in Nat /\ DOMAIN memories = 1..Len(memories)
    BY DEF MemoryInd, MemoryInv, MemoryTypeOK
<1>1. ASSUME NEW m \in NewMemories, RememberAgain(m) PROVE MemoryInd'
    <2>1. UNCHANGED <<memories, forgetting>> /\ ResolveEntity(m.about)
        BY <1>1 DEF RememberAgain
    <2>2. m.about \in Abouts
        BY RowTyped
    <2>3. /\ entities' \in Seq(Abouts) /\ aliases' \in [Names -> Nat]
          /\ Len(entities') <= MaxEntityRows
          /\ \A e \in DOMAIN entities' : \A n \in EntityAliases(entities'[e]) :
                    aliases'[n] = e
        BY <2>1, <2>2, ResolveKeepsAliases
    <2>4. ActiveRows' = ActiveRows
        BY <2>1 DEF ActiveRows
    <2>5. MemoryTypeOK'
        BY <1>0, <2>1, <2>3 DEF MemoryTypeOK
    <2>6. DatedFactsUnique' /\ QuotasHold'
        BY <1>0, <2>1, <2>3, <2>4 DEF DatedFactsUnique, QuotasHold
    <2> QED
        BY <2>5, <2>6 DEF MemoryInd, MemoryInv
<1>2. ASSUME NEW m \in NewMemories, RememberNew(m) PROVE MemoryInd'
    <2> DEFINE row == Row(m)
               k == Len(memories) + 1
    <2>1. row \in MemoryRow /\ ~row.archived /\ m.about \in Abouts
        BY RowTyped
    <2>2. /\ ResolveEntity(m.about) /\ memories' = Append(memories, row)
          /\ UNCHANGED forgetting
          /\ Cardinality(ActiveRows) < MaxMemoryRows
          /\ DatedDuplicates(row, 0) = {}
        BY <1>2 DEF RememberNew, HasMemoryCapacity
    <2>3. /\ entities' \in Seq(Abouts) /\ aliases' \in [Names -> Nat]
          /\ Len(entities') <= MaxEntityRows
          /\ \A e \in DOMAIN entities' : \A n \in EntityAliases(entities'[e]) :
                    aliases'[n] = e
        BY <2>1, <2>2, ResolveKeepsAliases
    <2> HIDE DEF row
    <2>4. /\ memories' \in Seq(MemoryRow) /\ Len(memories') = k /\ memories'[k] = row
          /\ \A i \in 1..Len(memories) : memories'[i] = memories[i]
        BY <1>0, <2>1, <2>2 DEF MemoryTypeOK
    <2>5. \A i \in ActiveRows : i # k => ~SameDatedFact(row, memories[i])
        BY <1>0, <2>2 DEF ActiveRows, DatedDuplicates
    <2>6. \A i, j \in ActiveRows' : i # j => ~SameDatedFact(memories'[i], memories'[j])
        BY <1>0, <2>1, <2>4, <2>5, StoredRowUnique
    <2>7. ActiveRows' = ActiveRows \union {k}
        <3>1. DOMAIN memories' = 1..k
            BY <2>4
        <3> QED
            BY <1>0, <2>1, <2>4, <3>1 DEF ActiveRows
    <2>8. Cardinality(ActiveRows') <= MaxMemoryRows
        BY <1>0, <2>2, <2>7, ActiveQuota DEF QuotasHold
    <2>9. MemoryTypeOK'
        BY <1>0, <2>2, <2>3, <2>4 DEF MemoryTypeOK
    <2> QED
        BY <2>3, <2>6, <2>8, <2>9
        DEF MemoryInd, MemoryInv, DatedFactsUnique, QuotasHold
<1>3. ASSUME NEW k \in DOMAIN memories, NEW m \in NewMemories, Update(k, m)
      PROVE  MemoryInd'
    <2> DEFINE row == [Row(m) EXCEPT !.archived = memories[k].archived]
    <2>1. Row(m) \in MemoryRow /\ m.about \in Abouts
        BY RowTyped
    <2>2. memories[k] \in MemoryRow /\ k \in 1..Len(memories)
        BY <1>0, <1>3 DEF MemoryTypeOK
    <2>3. /\ row \in MemoryRow /\ row.archived = memories[k].archived
          /\ \A s : SameDatedFact(row, s) => SameDatedFact(Row(m), s)
        <3>1. row \in MemoryRow /\ row.archived = memories[k].archived
            BY <2>1, <2>2 DEF MemoryRow
        <3>2. /\ row.kind = Row(m).kind /\ row.entity = Row(m).entity
              /\ row.date = Row(m).date /\ row.attribute = Row(m).attribute
              /\ row.content = Row(m).content
            BY <2>1 DEF MemoryRow
        <3> HIDE DEF row
        <3> QED
            BY <3>1, <3>2 DEF SameDatedFact
    <2>4. /\ ResolveEntity(m.about) /\ memories' = [memories EXCEPT ![k] = row]
          /\ UNCHANGED forgetting
          /\ DatedDuplicates(Row(m), k) = {}
        BY <1>3 DEF Update
    <2>5. /\ entities' \in Seq(Abouts) /\ aliases' \in [Names -> Nat]
          /\ Len(entities') <= MaxEntityRows
          /\ \A e \in DOMAIN entities' : \A n \in EntityAliases(entities'[e]) :
                    aliases'[n] = e
        BY <2>1, <2>4, ResolveKeepsAliases
    <2> HIDE DEF row
    <2>6. /\ memories' \in Seq(MemoryRow) /\ Len(memories') = Len(memories)
          /\ memories'[k] = row
          /\ \A i \in 1..Len(memories) : i # k => memories'[i] = memories[i]
        BY <1>0, <2>2, <2>3, <2>4 DEF MemoryTypeOK
    <2>7. \A i \in ActiveRows : i # k => ~SameDatedFact(row, memories[i])
        BY <1>0, <2>3, <2>4 DEF ActiveRows, DatedDuplicates
    <2>8. \A i, j \in ActiveRows' : i # j => ~SameDatedFact(memories'[i], memories'[j])
        BY <1>0, <2>2, <2>3, <2>6, <2>7, StoredRowUnique
    <2>9. ActiveRows' = ActiveRows
        <3>1. DOMAIN memories' = 1..Len(memories)
            BY <2>6
        <3> QED
            BY <1>0, <2>2, <2>3, <2>6, <3>1 DEF ActiveRows
    <2>10. MemoryTypeOK'
        BY <1>0, <2>4, <2>5, <2>6 DEF MemoryTypeOK
    <2> QED
        BY <1>0, <2>5, <2>8, <2>9, <2>10
        DEF MemoryInd, MemoryInv, DatedFactsUnique, QuotasHold
<1>4. ASSUME NEW p \in Callers, NEW i \in DOMAIN memories, ForgetFinds(p, i)
      PROVE  MemoryInd'
    <2>1. UNCHANGED <<memories, entities, aliases>>
        BY <1>4 DEF ForgetFinds
    <2>2. MemoryTypeOK'
        BY <1>0, <1>4 DEF MemoryTypeOK, ForgetFinds
    <2>3. ActiveRows' = ActiveRows
        BY <2>1 DEF ActiveRows
    <2> QED
        BY <1>0, <2>1, <2>2, <2>3
        DEF MemoryInd, MemoryInv, DatedFactsUnique, QuotasHold
<1>5. ASSUME NEW p \in Callers, ForgetArchives(p) PROVE MemoryInd'
    <2> DEFINE k == forgetting[p]
               row == [memories[k] EXCEPT !.archived = TRUE]
    <2>1. k \in 1..Len(memories) /\ memories[k] \in MemoryRow
        BY <1>0, <1>5 DEF ForgetArchives, MemoryTypeOK
    <2>2. row \in MemoryRow /\ row.archived
        BY <2>1 DEF MemoryRow
    <2>3. /\ memories' = [memories EXCEPT ![k] = row]
          /\ forgetting' = [forgetting EXCEPT ![p] = 0]
          /\ UNCHANGED <<entities, aliases>>
        BY <1>5 DEF ForgetArchives
    <2> HIDE DEF row, k
    <2>4. /\ memories' \in Seq(MemoryRow) /\ Len(memories') = Len(memories)
          /\ DOMAIN memories' = 1..Len(memories) /\ memories'[k] = row
          /\ \A i \in 1..Len(memories) : i # k => memories'[i] = memories[i]
        BY <1>0, <2>1, <2>2, <2>3 DEF MemoryTypeOK
    <2>5. \A i \in ActiveRows' : i \in ActiveRows /\ memories'[i] = memories[i]
        BY <1>0, <2>2, <2>4 DEF ActiveRows
    <2>6. MemoryTypeOK'
        <3>1. forgetting' \in [Callers -> 0..Len(memories)]
            BY <1>0, <2>3 DEF MemoryTypeOK
        <3> QED
            BY <1>0, <2>3, <2>4, <3>1 DEF MemoryTypeOK
    <2>7. Cardinality(ActiveRows') <= MaxMemoryRows
        BY <1>0, <2>5, ActiveQuota DEF QuotasHold
    <2>8. DatedFactsUnique'
        BY <1>0, <2>3, <2>5 DEF DatedFactsUnique
    <2> QED
        BY <1>0, <2>3, <2>6, <2>7, <2>8 DEF MemoryInd, MemoryInv, QuotasHold
<1>6. CASE UNCHANGED <<memories, entities, aliases, forgetting>>
    <2>1. ActiveRows' = ActiveRows
        BY <1>6 DEF ActiveRows
    <2> QED
        BY <1>0, <1>6, <2>1
        DEF MemoryInd, MemoryInv, MemoryTypeOK, DatedFactsUnique, QuotasHold
<1> QED
    BY <1>1, <1>2, <1>3, <1>4, <1>5, <1>6
    DEF MemoryNext, memoryVars, ListFirstPage, ListNextPage, ListEnds

(* Over any sequence of remember, update and forget of any callers no      *)
(* dated fact is active twice, no alias names two entities, and neither    *)
(* quota is exceeded.                                                      *)
THEOREM MemorySound == MemorySpec => []MemoryInv
<1>1. MemoryInd => MemoryInv
    BY DEF MemoryInd
<1> QED
    BY <1>1, MemoryIndInit, MemoryIndStep, PTL DEF MemorySpec

-----------------------------------------------------------------------------
(* MemoryStore: the walk through the pages                                 *)

(* A finite set has an element below which the set has none, whatever the  *)
(* strict order, given as a set of pairs.                                  *)
LEMMA FiniteMinimum ==
    ASSUME NEW S, IsFiniteSet(S), S # {}, NEW Less,
           \A x \in S : <<x, x>> \notin Less,
           \A x, y, z \in S : <<x, y>> \in Less /\ <<y, z>> \in Less => <<x, z>> \in Less
    PROVE  \E x \in S : \A y \in S : <<y, x>> \notin Less
<1> DEFINE Below(x) == {y \in S : <<y, x>> \in Less}
           R == StrictSubsetOrdering(S)
           T == {Below(x) : x \in S}
<1>1. IsWellFoundedOn(R, FiniteSubsetsOf(S))
    BY FS_StrictSubsetOrderingWellFounded
<1>2. T \subseteq FiniteSubsetsOf(S) /\ T # {}
    <2>1. \A x \in S : Below(x) \subseteq S
        OBVIOUS
    <2>2. \A x \in S : IsFiniteSet(Below(x))
        BY <2>1, FS_Subset
    <2>3. \A u \in T : \E x \in S : u = Below(x)
        OBVIOUS
    <2>4. PICK x \in S : Below(x) \in T
        OBVIOUS
    <2> HIDE DEF T, Below
    <2> QED
        BY <2>1, <2>2, <2>3, <2>4 DEF FiniteSubsetsOf
<1>3. PICK u \in T : \A v \in T : ~(<<v, u>> \in R)
    <2> HIDE DEF T, R
    <2> QED
        BY <1>1, <1>2, WFMin
<1>4. PICK x \in S : u = Below(x)
    OBVIOUS
<1>5. ASSUME NEW y \in S, <<y, x>> \in Less PROVE FALSE
    <2>1. /\ Below(y) \in T /\ Below(y) \subseteq S /\ Below(x) \subseteq S
          /\ y \in Below(x) /\ y \notin Below(y)
        BY <1>5
    <2>2. Below(y) \subseteq Below(x)
        BY <1>5
    <2> HIDE DEF Below, T
    <2>3. <<Below(y), u>> \in R
        BY <1>4, <2>1, <2>2 DEF R, StrictSubsetOrdering
    <2> QED
        BY <1>3, <2>1, <2>3
<1> QED
    BY <1>5

(* ORDER BY kind, path, label, id, column by column.                       *)
LEMMA PrecedesColumns ==
    ASSUME NEW d, NEW e
    PROVE  Precedes(d, e) <=>
             \/ entities[d].kind < entities[e].kind
             \/ /\ entities[d].kind = entities[e].kind
                /\ entities[d].leaf < entities[e].leaf
             \/ /\ entities[d].kind = entities[e].kind
                /\ entities[d].leaf = entities[e].leaf
                /\ entities[d].label < entities[e].label
             \/ /\ entities[d].kind = entities[e].kind
                /\ entities[d].leaf = entities[e].leaf
                /\ entities[d].label = entities[e].label
                /\ d < e
<1> DEFINE x == EntityKey(d)
           y == EntityKey(e)
<1>1. /\ x[1] = entities[d].kind /\ x[2] = entities[d].leaf
      /\ x[3] = entities[d].label /\ x[4] = d
      /\ y[1] = entities[e].kind /\ y[2] = entities[e].leaf
      /\ y[3] = entities[e].label /\ y[4] = e
    BY DEF EntityKey
<1> HIDE DEF x, y
<1>2. Precedes(d, e) <=>
        \E i \in 1..4 : x[i] < y[i] /\ \A j \in 1..(i - 1) : x[j] = y[j]
    BY DEF Precedes, x, y
<1>3. (\E i \in 1..4 : x[i] < y[i] /\ \A j \in 1..(i - 1) : x[j] = y[j]) <=>
        \/ x[1] < y[1]
        \/ x[1] = y[1] /\ x[2] < y[2]
        \/ x[1] = y[1] /\ x[2] = y[2] /\ x[3] < y[3]
        \/ x[1] = y[1] /\ x[2] = y[2] /\ x[3] = y[3] /\ x[4] < y[4]
    <2>1. 1..4 = {1, 2, 3, 4} /\ 1..0 = {} /\ 1..1 = {1} /\ 1..2 = {1, 2} /\ 1..3 = {1, 2, 3}
        OBVIOUS
    <2>2. 1 - 1 = 0 /\ 2 - 1 = 1 /\ 3 - 1 = 2 /\ 4 - 1 = 3
        OBVIOUS
    <2> QED
        BY <2>1, <2>2
<1> QED
    BY <1>1, <1>2, <1>3

(* The columns are numbers, so the rows are in a strict total order.       *)
LEMMA EntityOrder ==
    ASSUME entities \in Seq(Abouts)
    PROVE  /\ \A e \in 1..Len(entities) : ~Precedes(e, e)
           /\ \A d, e \in 1..Len(entities) : d = e \/ Precedes(d, e) \/ Precedes(e, d)
           /\ \A c, d, e \in 1..Len(entities) :
                    Precedes(c, d) /\ Precedes(d, e) => Precedes(c, e)
<1>1. \A a \in Abouts : a.kind \in Nat /\ a.leaf \in Nat /\ a.label \in Nat
    <2> SUFFICES ASSUME NEW m \in NewMemories
                 PROVE  m.about.kind \in Nat /\ m.about.leaf \in Nat /\ m.about.label \in Nat
        BY DEF Abouts
    <2>1. /\ m.about.kind \in Nat /\ m.about.leaf \in Names \union {0}
          /\ m.about.label \in Names \/ m.about = [label |-> 0, kind |-> 0, leaf |-> 0]
        BY MemoryAssumption, Zenon
    <2>2. \A n \in Names \union {0} : n \in Nat
        BY MemoryAssumption
    <2>3. m.about = [label |-> 0, kind |-> 0, leaf |-> 0] => m.about.label = 0
        OBVIOUS
    <2>4. m.about.label \in Names \union {0}
        BY <2>1, <2>3, Zenon
    <2> QED
        BY <2>1, <2>2, <2>4, Zenon
<1>2. ASSUME NEW e \in 1..Len(entities)
      PROVE  /\ entities[e].kind \in Nat /\ entities[e].leaf \in Nat
             /\ entities[e].label \in Nat /\ e \in Nat
    BY <1>1
<1>3. ASSUME NEW e \in 1..Len(entities) PROVE ~Precedes(e, e)
    BY <1>2, PrecedesColumns
<1>4. ASSUME NEW d \in 1..Len(entities), NEW e \in 1..Len(entities)
      PROVE  d = e \/ Precedes(d, e) \/ Precedes(e, d)
    <2>1. /\ entities[d].kind \in Nat /\ entities[d].leaf \in Nat
          /\ entities[d].label \in Nat /\ d \in Nat
          /\ entities[e].kind \in Nat /\ entities[e].leaf \in Nat
          /\ entities[e].label \in Nat /\ e \in Nat
        BY <1>2
    <2>2. CASE entities[d].kind # entities[e].kind
        BY <2>1, <2>2, PrecedesColumns
    <2>3. CASE entities[d].kind = entities[e].kind /\ entities[d].leaf # entities[e].leaf
        BY <2>1, <2>3, PrecedesColumns
    <2>4. CASE /\ entities[d].kind = entities[e].kind /\ entities[d].leaf = entities[e].leaf
               /\ entities[d].label # entities[e].label
        BY <2>1, <2>4, PrecedesColumns
    <2>5. CASE /\ entities[d].kind = entities[e].kind /\ entities[d].leaf = entities[e].leaf
               /\ entities[d].label = entities[e].label
        BY <2>1, <2>5, PrecedesColumns
    <2> QED
        BY <2>2, <2>3, <2>4, <2>5
<1>5. ASSUME NEW c \in 1..Len(entities), NEW d \in 1..Len(entities),
             NEW e \in 1..Len(entities), Precedes(c, d), Precedes(d, e)
      PROVE  Precedes(c, e)
    <2> DEFINE Lex(a, b) ==
            \/ a[1] < b[1]
            \/ a[1] = b[1] /\ a[2] < b[2]
            \/ a[1] = b[1] /\ a[2] = b[2] /\ a[3] < b[3]
            \/ a[1] = b[1] /\ a[2] = b[2] /\ a[3] = b[3] /\ a[4] < b[4]
    <2>1. \A x, y : Precedes(x, y) <=> Lex(EntityKey(x), EntityKey(y))
        BY PrecedesColumns DEF EntityKey
    <2>2. Lex(EntityKey(c), EntityKey(d)) /\ Lex(EntityKey(d), EntityKey(e))
        BY <1>5, <2>1
    <2>3. Lex(EntityKey(c), EntityKey(e))
        <3>1. PICK x1, x2, x3, x4 \in Nat : EntityKey(c) = <<x1, x2, x3, x4>>
            BY <1>2 DEF EntityKey
        <3>2. PICK y1, y2, y3, y4 \in Nat : EntityKey(d) = <<y1, y2, y3, y4>>
            BY <1>2 DEF EntityKey
        <3>3. PICK z1, z2, z3, z4 \in Nat : EntityKey(e) = <<z1, z2, z3, z4>>
            BY <1>2 DEF EntityKey
        <3>4. \/ x1 < y1
              \/ x1 = y1 /\ x2 < y2
              \/ x1 = y1 /\ x2 = y2 /\ x3 < y3
              \/ x1 = y1 /\ x2 = y2 /\ x3 = y3 /\ x4 < y4
            BY <2>2, <3>1, <3>2
        <3>5. \/ y1 < z1
              \/ y1 = z1 /\ y2 < z2
              \/ y1 = z1 /\ y2 = z2 /\ y3 < z3
              \/ y1 = z1 /\ y2 = z2 /\ y3 = z3 /\ y4 < z4
            BY <2>2, <3>2, <3>3
        <3>6. \/ x1 < z1
              \/ x1 = z1 /\ x2 < z2
              \/ x1 = z1 /\ x2 = z2 /\ x3 < z3
              \/ x1 = z1 /\ x2 = z2 /\ x3 = z3 /\ x4 < z4
            BY <3>4, <3>5
        <3> QED
            BY <3>1, <3>3, <3>6
    <2> QED
        BY <2>1, <2>3
<1> QED
    BY <1>3, <1>4, <1>5

(* A page that is not empty has a last row, the cursor of the next.        *)
LEMMA LastOfPage ==
    ASSUME entities \in Seq(Abouts), NEW page \in SUBSET (1..Len(entities)), page # {}
    PROVE  LastOf(page) \in page /\ \A d \in page \ {LastOf(page)} : Precedes(d, LastOf(page))
<1> DEFINE After == {pair \in page \X page : Precedes(pair[2], pair[1])}
<1>1. IsFiniteSet(page)
    <2>1. Len(entities) \in Int /\ 1 \in Int
        OBVIOUS
    <2>2. IsFiniteSet(1..Len(entities))
        BY <2>1, FS_Interval
    <2> QED
        BY <2>2, FS_Subset
<1>2. \A x, y \in page : <<x, y>> \in After <=> Precedes(y, x)
    OBVIOUS
<1> HIDE DEF After
<1>3. /\ \A x \in page : <<x, x>> \notin After
      /\ \A x, y, z \in page :
            <<x, y>> \in After /\ <<y, z>> \in After => <<x, z>> \in After
    BY <1>2, EntityOrder
<1>4. PICK x \in page : \A y \in page : <<y, x>> \notin After
    BY <1>1, <1>3, FiniteMinimum
<1>5. \A d \in page \ {x} : Precedes(d, x)
    BY <1>2, <1>4, EntityOrder
<1> QED
    BY <1>5 DEF LastOf

(* What a page leaves out comes after all of it, and a page leaves nothing *)
(* out unless it is full: the first row left out has PageSize rows before  *)
(* it, and all of those are on the page.                                   *)
LEMMA PageLeavesTheRest ==
    ASSUME entities \in Seq(Abouts), NEW cursor, NEW e \in Beyond(cursor) \ Page(cursor)
    PROVE  /\ ~(Cardinality(Page(cursor)) < PageSize)
           /\ \A d \in Page(cursor) : Precedes(d, e)
<1> DEFINE B == Beyond(cursor)
           P == Page(cursor)
           Before(x) == {d \in B : Precedes(d, x)}
<1>1. B \subseteq 1..Len(entities) /\ P \subseteq B /\ Len(entities) \in Nat
    BY DEF Beyond, Page
<1>2. \A x \in B : x \in P <=> Cardinality(Before(x)) < PageSize
    BY DEF Page
<1>3. IsFiniteSet(B) /\ IsFiniteSet(P) /\ IsFiniteSet(B \ P)
    <2>1. IsFiniteSet(1..Len(entities))
        BY <1>1, FS_Interval
    <2>2. IsFiniteSet(B)
        BY <1>1, <2>1, FS_Subset
    <2> HIDE DEF B, P
    <2> QED
        BY <1>1, <2>2, FS_Subset
<1>4. \A x \in B : IsFiniteSet(Before(x)) /\ Before(x) \subseteq B
                   /\ Cardinality(Before(x)) \in Nat
    BY <1>3, FS_Subset, FS_CardinalityType
<1>5. Cardinality(P) \in Nat /\ PageSize \in Nat
    BY <1>3, FS_CardinalityType, MemoryAssumption
<1>6. /\ \A x \in B : ~Precedes(x, x)
      /\ \A x, y \in B : x = y \/ Precedes(x, y) \/ Precedes(y, x)
      /\ \A x, y, z \in B : Precedes(x, y) /\ Precedes(y, z) => Precedes(x, z)
    BY <1>1, EntityOrder
<1>7. \A x, d : d \in Before(x) <=> d \in B /\ Precedes(d, x)
    OBVIOUS
<1> HIDE DEF B, P, Before
<1>8. ASSUME NEW d \in P PROVE Precedes(d, e)
    <2>1. d \in B /\ e \in B /\ e \notin P /\ d # e
        BY <1>1, <1>8 DEF B, P
    <2>2. SUFFICES ASSUME Precedes(e, d) PROVE FALSE
        BY <1>6, <2>1
    <2>3. Before(e) \subseteq Before(d)
        BY <1>6, <1>7, <2>1, <2>2
    <2>4. Cardinality(Before(e)) <= Cardinality(Before(d))
        BY <1>4, <2>1, <2>3, FS_Subset
    <2> QED
        BY <1>2, <1>4, <1>5, <1>8, <2>1, <2>4
<1>9. ~(Cardinality(P) < PageSize)
    <2> DEFINE Less == {pair \in B \X B : Precedes(pair[1], pair[2])}
               Rest == B \ P
    <2>1. \A x, y \in B : <<x, y>> \in Less <=> Precedes(x, y)
        OBVIOUS
    <2> HIDE DEF Less
    <2>2. /\ \A x \in Rest : <<x, x>> \notin Less
          /\ \A x, y, z \in Rest :
                <<x, y>> \in Less /\ <<y, z>> \in Less => <<x, z>> \in Less
        BY <1>6, <2>1
    <2>3. Rest # {} /\ IsFiniteSet(Rest)
        BY <1>3 DEF B, P
    <2> HIDE DEF Rest
    <2>4. PICK x \in Rest : \A y \in Rest : <<y, x>> \notin Less
        BY <2>2, <2>3, FiniteMinimum
    <2>5. x \in B \ P /\ Before(x) \subseteq P
        BY <1>7, <2>1, <2>4 DEF Rest
    <2>6. Cardinality(Before(x)) <= Cardinality(P)
        BY <1>3, <2>5, FS_Subset
    <2> QED
        BY <1>2, <1>4, <1>5, <2>5, <2>6
<1> QED
    BY <1>8, <1>9 DEF P

(* Where an entity stands in a walk: on a page, or after a full last page. *)
Met(e) == \E i \in 1..Len(listing.pages) : e \in listing.pages[i]
Ahead(e) == ~(Cardinality(LastPage) < PageSize) /\ \A d \in LastPage : Precedes(d, e)

WalkInd ==
    /\ listing \in [on : BOOLEAN, start : Nat, pages : Seq(SUBSET Nat)]
    /\ listing.start <= Len(entities)
    /\ \A i \in 1..Len(listing.pages) : listing.pages[i] \subseteq 1..Len(entities)
    /\ \A i, j \in 1..Len(listing.pages) : i < j =>
            \A d \in listing.pages[i], e \in listing.pages[j] : Precedes(d, e)
    /\ listing.on => /\ Len(listing.pages) >= 1
                     /\ \A e \in 1..listing.start : Met(e) \/ Ahead(e)

(* Entities are only added at the end, so what has an order keeps it and a *)
(* walk that is under way keeps its place.                                 *)
LEMMA WalkKept ==
    ASSUME MemoryInd, WalkInd, UNCHANGED listing,
           Len(entities) <= Len(entities'), entities' \in Seq(Abouts),
           \A e \in 1..Len(entities) : entities'[e] = entities[e]
    PROVE  WalkInd'
<1>0. /\ entities \in Seq(Abouts) /\ Len(entities) \in Nat /\ Len(entities') \in Nat
      /\ listing \in [on : BOOLEAN, start : Nat, pages : Seq(SUBSET Nat)]
      /\ listing.start \in Nat /\ listing.start <= Len(entities)
      /\ listing.pages \in Seq(SUBSET Nat) /\ Len(listing.pages) \in Nat
      /\ \A i \in 1..Len(listing.pages) : listing.pages[i] \subseteq 1..Len(entities)
    BY DEF MemoryInd, MemoryTypeOK, WalkInd
<1>1. ASSUME NEW d \in 1..Len(entities), NEW e \in 1..Len(entities), Precedes(d, e)
      PROVE  Precedes(d, e)'
    <2>1. entities'[d] = entities[d] /\ entities'[e] = entities[e]
        OBVIOUS
    <2>2. EntityKey(d)' = EntityKey(d) /\ EntityKey(e)' = EntityKey(e)
        BY <2>1 DEF EntityKey
    <2> QED
        BY <1>1, <2>2 DEF Precedes
<1>2. \A i, j \in 1..Len(listing.pages) : i < j =>
            \A d \in listing.pages[i], e \in listing.pages[j] : Precedes(d, e)'
    BY <1>0, <1>1 DEF WalkInd
<1>3. listing.on => \A e \in 1..listing.start : Met(e)' \/ Ahead(e)'
    <2> SUFFICES ASSUME listing.on, NEW e \in 1..listing.start PROVE Met(e)' \/ Ahead(e)'
        OBVIOUS
    <2>1. Met(e) \/ Ahead(e)
        BY DEF WalkInd
    <2>2. Met(e) => Met(e)'
        BY DEF Met
    <2>3. ASSUME Ahead(e) PROVE Ahead(e)'
        <3>1. LastPage \subseteq 1..Len(entities) /\ LastPage' = LastPage
            BY <1>0 DEF LastPage, WalkInd
        <3>2. e \in 1..Len(entities)
            BY <1>0
        <3> QED
            BY <1>1, <2>3, <3>1, <3>2 DEF Ahead
    <2> QED
        BY <2>1, <2>2, <2>3
<1>4. listing.start <= Len(entities') /\ \A n \in 1..Len(entities) : n \in 1..Len(entities')
    BY <1>0
<1> QED
    BY <1>0, <1>2, <1>3, <1>4 DEF WalkInd

(* A page taken at a cursor that every page so far reaches.                *)
LEMMA PageTaken ==
    ASSUME MemoryInd, UNCHANGED entities, NEW start \in Nat, start <= Len(entities),
           NEW pages \in Seq(SUBSET Nat), NEW cursor,
           listing' = [on |-> TRUE, start |-> start, pages |-> Append(pages, Page(cursor))],
           \A i \in 1..Len(pages) : pages[i] \subseteq 1..Len(entities),
           \A i, j \in 1..Len(pages) : i < j =>
                \A d \in pages[i], e \in pages[j] : Precedes(d, e),
           \A i \in 1..Len(pages) : \A d \in pages[i] :
                \A e \in Beyond(cursor) : Precedes(d, e),
           \A e \in 1..start : (\E i \in 1..Len(pages) : e \in pages[i]) \/ e \in Beyond(cursor)
    PROVE  WalkInd'
<1> DEFINE all == Append(pages, Page(cursor))
           n == Len(pages) + 1
<1>0. entities \in Seq(Abouts) /\ Len(entities) \in Nat /\ Len(pages) \in Nat
    BY DEF MemoryInd, MemoryTypeOK
<1>1. Page(cursor) \subseteq Beyond(cursor) /\ Beyond(cursor) \subseteq 1..Len(entities)
    BY <1>0 DEF Page, Beyond
<1>2. Page(cursor) \in SUBSET Nat
    BY <1>0, <1>1
<1>3. /\ all \in Seq(SUBSET Nat) /\ Len(all) = n /\ all[n] = Page(cursor)
      /\ \A i \in 1..Len(pages) : all[i] = pages[i]
    BY <1>0, <1>2
<1>4. \A i \in 1..n : i = n \/ i \in 1..Len(pages)
    BY <1>0
<1>5. listing' \in [on : BOOLEAN, start : Nat, pages : Seq(SUBSET Nat)]
    BY <1>3
<1>6. listing'.pages = all /\ listing'.start = start /\ listing'.on
    OBVIOUS
<1> HIDE DEF all
<1>7. \A i \in 1..n : all[i] \subseteq 1..Len(entities)
    BY <1>1, <1>3, <1>4
<1>8. ASSUME NEW i \in 1..n, NEW j \in 1..n, i < j, NEW d \in all[i], NEW e \in all[j]
      PROVE  Precedes(d, e)
    <2>1. i \in 1..Len(pages) /\ d \in pages[i]
        BY <1>0, <1>3, <1>8
    <2>2. CASE j = n
        BY <1>1, <1>3, <2>1, <2>2
    <2>3. CASE j \in 1..Len(pages)
        BY <1>3, <1>8, <2>1, <2>3
    <2> QED
        BY <1>4, <2>2, <2>3
<1>9. ASSUME NEW e \in 1..start PROVE Met(e)' \/ Ahead(e)'
    <2>1. CASE \E i \in 1..Len(pages) : e \in pages[i]
        <3>1. PICK i \in 1..Len(pages) : e \in pages[i]
            BY <2>1
        <3>2. i \in 1..n /\ e \in all[i]
            BY <1>0, <1>3, <3>1
        <3> QED
            BY <1>3, <1>6, <3>2 DEF Met
    <2>2. CASE e \in Page(cursor)
        <3>1. n \in 1..n /\ e \in all[n]
            BY <1>0, <1>3, <2>2
        <3> QED
            BY <1>3, <1>6, <3>1 DEF Met
    <2>3. CASE e \in Beyond(cursor) \ Page(cursor)
        <3>1. /\ ~(Cardinality(Page(cursor)) < PageSize)
              /\ \A d \in Page(cursor) : Precedes(d, e)
            BY <1>0, <2>3, PageLeavesTheRest
        <3>2. LastPage' = Page(cursor)
            BY <1>3, <1>6 DEF LastPage
        <3>3. \A d : Precedes(d, e)' <=> Precedes(d, e)
            BY DEF Precedes, EntityKey
        <3> QED
            BY <3>1, <3>2, <3>3 DEF Ahead
    <2> QED
        BY <2>1, <2>2, <2>3
<1>10. \A d, e : Precedes(d, e)' <=> Precedes(d, e)
    BY DEF Precedes, EntityKey
<1>11. n >= 1
    BY <1>0
<1> QED
    BY <1>3, <1>5, <1>6, <1>7, <1>8, <1>9, <1>10, <1>11 DEF WalkInd

(* Calls that remember leave the walk its place, and the next page begins  *)
(* where the last one ended.                                               *)
LEMMA WalkIndStep ==
    MemoryInd /\ WalkInd /\ [MemoryNext]_memoryVars => WalkInd'
<1> SUFFICES ASSUME MemoryInd, WalkInd, [MemoryNext]_memoryVars PROVE WalkInd'
    OBVIOUS
<1>0. /\ entities \in Seq(Abouts) /\ Len(entities) \in Nat
      /\ listing \in [on : BOOLEAN, start : Nat, pages : Seq(SUBSET Nat)]
      /\ listing.start \in Nat /\ listing.start <= Len(entities)
      /\ listing.pages \in Seq(SUBSET Nat) /\ Len(listing.pages) \in Nat
      /\ \A i \in 1..Len(listing.pages) : listing.pages[i] \subseteq 1..Len(entities)
    BY DEF MemoryInd, MemoryTypeOK, WalkInd
<1>1. ASSUME NEW m \in NewMemories, ResolveEntity(m.about), UNCHANGED listing
      PROVE  WalkInd'
    <2>1. m.about \in Abouts
        BY DEF Abouts
    <2> QED
        BY <1>1, <2>1, ResolveKeepsAliases, WalkKept
<1>2. CASE UNCHANGED <<entities, listing>>
    BY <1>0, <1>2, WalkKept
<1>3. CASE ListFirstPage
    <2>0. <<>> \in Seq(SUBSET Nat) /\ Len(<<>>) = 0
        OBVIOUS
    <2>1. PICK none : none \in Seq(SUBSET Nat) /\ none = <<>>
        BY <2>0
    <2>2. Append(none, Page(0)) = <<Page(0)>> /\ 1..Len(none) = {}
        BY <2>1
    <2>3. \A e \in 1..Len(entities) : e \in Beyond(0)
        BY <1>0 DEF Beyond
    <2>4. /\ listing' = [on |-> TRUE, start |-> Len(entities),
                         pages |-> Append(none, Page(0))]
          /\ UNCHANGED entities
        BY <1>3, <2>2 DEF ListFirstPage
    <2>5. /\ \A i \in 1..Len(none) : none[i] \subseteq 1..Len(entities)
          /\ \A i, j \in 1..Len(none) : i < j =>
                \A d \in none[i], e \in none[j] : Precedes(d, e)
          /\ \A i \in 1..Len(none) : \A d \in none[i] :
                \A e \in Beyond(0) : Precedes(d, e)
          /\ \A e \in 1..Len(entities) :
                (\E i \in 1..Len(none) : e \in none[i]) \/ e \in Beyond(0)
        BY <2>2, <2>3
    <2>6. Len(entities) <= Len(entities)
        BY <1>0
    <2> QED
        BY <1>0, <2>1, <2>4, <2>5, <2>6, PageTaken
<1>4. CASE ListNextPage
    <2> DEFINE pages == listing.pages
               last == LastOf(LastPage)
    <2>1. /\ listing.on /\ Cardinality(LastPage) = PageSize /\ UNCHANGED entities
          /\ listing' = [listing EXCEPT !.pages = Append(listing.pages, Page(last))]
        BY <1>4 DEF ListNextPage
    <2>2. /\ Len(pages) \in 1..Len(pages) /\ LastPage = pages[Len(pages)]
          /\ LastPage \in SUBSET (1..Len(entities))
        BY <1>0, <2>1 DEF WalkInd, LastPage
    <2>3. LastPage # {}
        BY <2>1, FS_EmptySet, MemoryAssumption
    <2>4. last \in LastPage /\ \A d \in LastPage \ {last} : Precedes(d, last)
        BY <1>0, <2>2, <2>3, LastOfPage
    <2>5. last \in 1..Len(entities) /\ last # 0
        BY <1>0, <2>2, <2>4
    <2>6. listing' = [on |-> TRUE, start |-> listing.start,
                      pages |-> Append(pages, Page(last))]
        BY <1>0, <2>1
    <2> HIDE DEF last
    <2>7. \A e \in Beyond(last) : e \in 1..Len(entities) /\ Precedes(last, e)
        BY <1>0, <2>5 DEF Beyond
    <2>8. ASSUME NEW i \in 1..Len(pages), NEW d \in pages[i], NEW e \in Beyond(last)
          PROVE  Precedes(d, e)
        <3>1. d \in 1..Len(entities)
            BY <1>0
        <3>2. d = last \/ Precedes(d, last)
            <4>1. CASE i = Len(pages)
                BY <2>2, <2>4, <4>1
            <4>2. CASE i < Len(pages)
                BY <2>2, <2>4, <4>2 DEF WalkInd
            <4> QED
                BY <1>0, <4>1, <4>2
        <3> QED
            BY <1>0, <2>5, <2>7, <3>1, <3>2, EntityOrder
    <2>9. ASSUME NEW e \in 1..listing.start
          PROVE  (\E i \in 1..Len(pages) : e \in pages[i]) \/ e \in Beyond(last)
        <3>1. Met(e) \/ Ahead(e)
            BY <2>1 DEF WalkInd
        <3>2. CASE Met(e)
            BY <3>2 DEF Met
        <3>3. CASE Ahead(e)
            <4>1. Precedes(last, e) /\ e \in 1..Len(entities)
                BY <1>0, <2>4, <3>3 DEF Ahead
            <4> QED
                BY <1>0, <4>1 DEF Beyond
        <3> QED
            BY <3>1, <3>2, <3>3
    <2>10. \A i, j \in 1..Len(pages) : i < j =>
                \A d \in pages[i], e \in pages[j] : Precedes(d, e)
        BY DEF WalkInd
    <2> HIDE DEF pages
    <2>11. /\ pages \in Seq(SUBSET Nat)
           /\ \A i \in 1..Len(pages) : pages[i] \subseteq 1..Len(entities)
        BY <1>0 DEF pages
    <2> QED
        BY <1>0, <2>1, <2>6, <2>8, <2>9, <2>10, <2>11, PageTaken
<1>5. CASE ListEnds
    <2>1. listing' = [on |-> FALSE, start |-> 0, pages |-> <<>>] /\ UNCHANGED entities
        BY <1>5 DEF ListEnds
    <2>2. <<>> \in Seq(SUBSET Nat) /\ Len(<<>>) = 0
        OBVIOUS
    <2> QED
        BY <1>0, <2>1, <2>2 DEF WalkInd
<1> QED
    BY <1>1, <1>2, <1>3, <1>4, <1>5
    DEF MemoryNext, memoryVars, RememberAgain, RememberNew, Update, ForgetFinds,
        ForgetArchives

(* Whatever is remembered, renamed or forgotten between two pages, a walk  *)
(* through list_entities meets every entity that was there when it began,  *)
(* and none twice.                                                         *)
THEOREM WalkComplete == MemorySpec => []WalkMeetsAll
<1>1. MemoryInit => WalkInd
    <2>1. <<>> \in Seq(SUBSET Nat) /\ Len(<<>>) = 0
        OBVIOUS
    <2> QED
        BY <2>1 DEF MemoryInit, WalkInd
<1>2. MemoryInd /\ WalkInd => WalkMeetsAll
    <2> SUFFICES ASSUME MemoryInd, WalkInd PROVE WalkMeetsAll
        OBVIOUS
    <2>0. /\ entities \in Seq(Abouts) /\ Len(listing.pages) \in Nat
          /\ DOMAIN listing.pages = 1..Len(listing.pages)
          /\ \A i \in 1..Len(listing.pages) : listing.pages[i] \subseteq 1..Len(entities)
        BY DEF MemoryInd, MemoryTypeOK, WalkInd
    <2>1. ASSUME NEW i \in 1..Len(listing.pages), NEW j \in 1..Len(listing.pages), i # j
          PROVE  listing.pages[i] \intersect listing.pages[j] = {}
        <3>1. i < j \/ j < i
            BY <2>0, <2>1
        <3>2. \A e \in listing.pages[i] \intersect listing.pages[j] : Precedes(e, e)
            BY <3>1 DEF WalkInd
        <3>3. \A e \in listing.pages[i] : ~Precedes(e, e)
            BY <2>0, EntityOrder
        <3> QED
            BY <3>2, <3>3
    <2>2. ASSUME listing.on, Cardinality(LastPage) < PageSize, NEW e \in 1..listing.start
          PROVE  \E i \in DOMAIN listing.pages : e \in listing.pages[i]
        BY <2>0, <2>2 DEF WalkInd, Met, Ahead
    <2> QED
        BY <2>0, <2>1, <2>2 DEF WalkMeetsAll
<1> QED
    BY <1>1, <1>2, MemoryIndInit, MemoryIndStep, WalkIndStep, PTL DEF MemorySpec

=============================================================================
