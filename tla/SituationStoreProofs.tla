------------------------ MODULE SituationStoreProofs ------------------------
(***************************************************************************)
(* Theorems about SituationStore for every set of situations and tokens    *)
(* and every value of the policy's limits.                                 *)
(***************************************************************************)
EXTENDS SituationStore, FiniteSetTheorems, TLAPS

-----------------------------------------------------------------------------
(* What the operators of the model return.                                 *)

DetectionRecord ==
    [priority : Priorities, expires : Nat \cup {Null}, fits : BOOLEAN]

(* A batch of one detector holds keys of that detector's type only, each   *)
(* with a well-formed record.  (upsert_batch and its expected_type)        *)
LEMMA DetectionsType ==
    ASSUME NEW type \in Types, NEW snapshot \in Detections(type)
    PROVE  /\ DOMAIN snapshot \subseteq OfType(type)
           /\ \A s \in DOMAIN snapshot : snapshot[s] \in DetectionRecord
<1>1. PICK present \in SUBSET OfType(type) :
        snapshot \in [present -> [priority : PriorityInputs(type),
                                  expires : ExpiryInputs(type),
                                  fits : Sizes]]
  BY DEF Detections
<1>2. PriorityInputs(type) \subseteq Priorities
  BY StoreAssumption DEF PriorityInputs, Priorities, Types
<1>3. ExpiryInputs(type) \subseteq Nat \cup {Null}
  BY StoreAssumption DEF ExpiryInputs
<1>4. Sizes \subseteq BOOLEAN
  BY StoreAssumption
<1> QED
  BY <1>1, <1>2, <1>3, <1>4 DEF DetectionRecord

(* What _upsert_detection leaves in the table is a well-formed row.        *)
LEMMA UpsertedType ==
    ASSUME TypeOK, NEW s \in Situations, NEW d \in DetectionRecord,
           NEW n \in Nat
    PROVE  Upserted(s, d, n) \in Row
<1>1. rows[s] \in Row /\ now \in Nat
  BY DEF TypeOK
<1>2. [rows[s] EXCEPT !.priority = d.priority, !.expires = d.expires,
                      !.generation = n] \in Row
  BY <1>1 DEF Row, DetectionRecord
<1>3. [[rows[s] EXCEPT !.priority = d.priority, !.expires = d.expires,
                       !.generation = n]
         EXCEPT !.state = "pending", !.detected = now,
                !.snoozedUntil = Null, !.exempt = FALSE] \in Row
  BY <1>1, <1>2 DEF Row, States
<1> QED
  BY <1>1, <1>2, <1>3 DEF Upserted

(* A batch with its resolutions leaves well-formed rows.                   *)
LEMMA AppliedType ==
    ASSUME TypeOK, NEW type \in Types, NEW snapshot \in Detections(type),
           NEW admitted, NEW scope, NEW n \in Nat
    PROVE  Applied(snapshot, admitted, scope, n) \in [Situations -> Row]
<1>1. ASSUME NEW s \in Situations
      PROVE  Resolved(rows[s]) \in Row
  BY DEF TypeOK, Resolved, Row, States
<1>2. ASSUME NEW s \in Situations, s \in DOMAIN snapshot
      PROVE  Upserted(s, snapshot[s], n) \in Row
  BY <1>2, DetectionsType, UpsertedType
<1>3. \A s \in Situations : rows[s] \in Row
  BY DEF TypeOK
<1> QED
  BY <1>1, <1>2, <1>3 DEF Applied

(* DeliveryReceipts.expire removes claims and changes none.                *)
LEMMA UnexpiredType ==
    ASSUME TypeOK, NEW t
    PROVE  /\ Unexpired(t) \in [Situations -> Claim \cup {NoClaim}]
           /\ \A s \in Situations : Unexpired(t)[s] \in {claims[s], NoClaim}
BY DEF TypeOK, Unexpired

-----------------------------------------------------------------------------
(* Type correctness, one lemma for each group of actions.                  *)

(* A batch keeps rows and claims well formed.  (upsert_batch)              *)
LEMMA ApplyDetectionsType ==
    ASSUME TypeOK, NEW type \in Types, NEW snapshot \in Detections(type),
           NEW scope, NEW n \in Nat, ApplyDetections(snapshot, scope, n)
    PROVE  /\ rows' \in [Situations -> Row]
           /\ claims' \in [Situations -> Claim \cup {NoClaim}]
<1>1. rows' \in [Situations -> Row]
  BY AppliedType DEF ApplyDetections
<1>2. \A s \in Situations : claims[s] \in Claim \cup {NoClaim}
  BY DEF TypeOK
<1>3. \A s \in Situations : claims[s] # NoClaim =>
        [claims[s] EXCEPT !.repriced = TRUE] \in Claim
  BY <1>2 DEF Claim
<1>4. claims' \in [Situations -> Claim \cup {NoClaim}]
  BY <1>2, <1>3 DEF ApplyDetections, ClaimsRepriced
<1> QED
  BY <1>1, <1>4

(* Detection steps keep TypeOK.  (the engine's evaluate)                   *)
LEMMA DetectType == TypeOK /\ Detect => TypeOK'
<1> SUFFICES ASSUME TypeOK, Detect PROVE TypeOK'
  OBVIOUS
<1>1. ASSUME NEW c \in Sources, ReserveGeneration(c) PROVE TypeOK'
  <2>1. generations' \in [Sources -> Generation]
    BY <1>1 DEF TypeOK, ReserveGeneration, Generation
  <2> QED
    BY <1>1, <2>1 DEF TypeOK, ReserveGeneration
<1>2. ASSUME NEW c \in Sources, NEW n \in 1 .. MaxGeneration,
             NEW status \in {"complete", "degraded"},
             ApplySourceGeneration(c, n, status)
      PROVE  TypeOK'
  <2>1. n \in Nat
    BY StoreAssumption
  <2>2. SourceType[c] \in Types
    BY DEF Sources, SourceType, Types
  <2>3. PICK snapshot \in Detections(SourceType[c]),
             scope \in SUBSET Situations :
          /\ ApplyDetections(snapshot, scope, n)
          /\ vouched' \in {vouched,
               DOMAIN snapshot \cup
                 (InState({"snoozed"}) \cap OfType(SourceType[c]))}
    BY <1>2 DEF ApplySourceGeneration, OfType
  <2>4. /\ rows' \in [Situations -> Row]
        /\ claims' \in [Situations -> Claim \cup {NoClaim}]
    BY <2>1, <2>2, <2>3, ApplyDetectionsType
  <2>5. generations' \in [Sources -> Generation]
    BY <1>2, <2>1 DEF TypeOK, ApplySourceGeneration, Generation
  <2>6. vouched' \subseteq Situations
    BY <2>2, <2>3, DetectionsType DEF TypeOK, OfType
  <2> QED
    BY <1>2, <2>4, <2>5, <2>6 DEF TypeOK, ApplySourceGeneration
<1>3. ASSUME ApplyLocalDetections PROVE TypeOK'
  <2>1. PICK snapshot \in Detections("personal_occasion") :
          ApplyDetections(snapshot, OfType("personal_occasion"), 0)
    BY <1>3 DEF ApplyLocalDetections
  <2>2. /\ rows' \in [Situations -> Row]
        /\ claims' \in [Situations -> Claim \cup {NoClaim}]
    BY <2>1, ApplyDetectionsType DEF Types
  <2> QED
    BY <1>3, <2>2 DEF TypeOK, ApplyLocalDetections
<1>4. ASSUME WakeSnoozed PROVE TypeOK'
  <2>1. \A s \in Situations :
          [rows[s] EXCEPT !.state = "pending", !.snoozedUntil = Null] \in Row
    BY DEF TypeOK, Row, States
  <2>2. rows' \in [Situations -> Row]
    BY <1>4, <2>1 DEF TypeOK, WakeSnoozed
  <2> QED
    BY <1>4, <2>2 DEF TypeOK, WakeSnoozed
<1>5. ASSUME ExpireLapsed PROVE TypeOK'
  <2>1. rows' \in [Situations -> Row]
    BY <1>5 DEF TypeOK, ExpireLapsed, Row, States
  <2> QED
    BY <1>5, <2>1 DEF TypeOK, ExpireLapsed
<1> QED
  BY <1>1, <1>2, <1>3, <1>4, <1>5 DEF Detect

(* Taking and confirming a lease keep TypeOK.  (reserve_for_delivery,      *)
(* confirm_delivery)                                                       *)
LEMMA DeliverType == TypeOK /\ Deliver => TypeOK'
<1> SUFFICES ASSUME TypeOK, Deliver PROVE TypeOK'
  OBVIOUS
<1>1. ASSUME NEW token \in Tokens, NEW t \in 0 .. MaxTime,
             ReserveForDelivery(t, token)
      PROVE  TypeOK'
  <2>1. PICK leased \in SUBSET Candidates :
          /\ shown' = IF leased = {} THEN shown
                      ELSE [shown EXCEPT ![token] =
                              [situations |-> leased,
                               until |-> t + LeaseLength]]
          /\ claims' = [s \in Situations |->
                          IF s \in leased
                          THEN [token |-> token, claimed |-> t,
                                expires |-> t + LeaseLength,
                                priority |-> rows[s].priority,
                                repriced |-> FALSE]
                          ELSE Unexpired(t)[s]]
    BY <1>1 DEF ReserveForDelivery
  <2>2. t \in Nat /\ t + LeaseLength \in Nat
    BY StoreAssumption
  <2>3. leased \subseteq Situations
    BY <2>1 DEF Candidates, InState
  <2>4. shown' \in [Tokens -> Lease]
    BY <2>1, <2>2, <2>3 DEF TypeOK, Lease
  <2>5. \A s \in Situations :
          [token |-> token, claimed |-> t, expires |-> t + LeaseLength,
           priority |-> rows[s].priority, repriced |-> FALSE] \in Claim
    BY <2>2 DEF TypeOK, Row, Claim
  <2>6. claims' \in [Situations -> Claim \cup {NoClaim}]
    BY <2>1, <2>5, UnexpiredType
  <2> QED
    BY <1>1, <2>4, <2>6 DEF TypeOK, ReserveForDelivery
<1>2. ASSUME NEW token \in Tokens, ConfirmDelivery(token) PROVE TypeOK'
  <2> DEFINE live == Unexpired(now)
             lease == LeaseOf(live, token)
  <2>1. lease \subseteq Situations
    BY DEF LeaseOf
  <2>2. \A s \in Situations :
          [rows[s] EXCEPT !.state = "delivered", !.snoozedUntil = Null,
                          !.exempt = FALSE] \in Row
    BY DEF TypeOK, Row, States
  <2>3. rows' \in [Situations -> Row]
    BY <1>2, <2>2 DEF TypeOK, ConfirmDelivery
  <2>4. ASSUME NEW s \in lease PROVE DeliveryOf(s) \in Delivery
    <3>1. claims[s] \in Claim
      BY <2>1, UnexpiredType, StoreAssumption
         DEF TypeOK, LeaseOf, NoClaim, Unexpired
    <3> QED
      BY <2>1, <3>1 DEF TypeOK, DeliveryOf, Delivery, Row, Claim
  <2>5. deliveries' \subseteq Delivery
    BY <1>2, <2>4 DEF TypeOK, ConfirmDelivery
  <2>6. claims' \in [Situations -> Claim \cup {NoClaim}]
    BY <1>2, UnexpiredType DEF ConfirmDelivery
  <2>7. Cardinality(lease) \in Nat
    BY <2>1, StoreAssumption, FS_Subset, FS_CardinalityType
  <2>8. receipts' \in [Tokens -> Nat]
    BY <1>2, <2>7 DEF TypeOK, ConfirmDelivery
  <2>9. snoozedSince' \in [Situations -> BOOLEAN]
    BY <1>2 DEF TypeOK, ConfirmDelivery
  <2> QED
    BY <1>2, <2>3, <2>5, <2>6, <2>8, <2>9 DEF TypeOK, ConfirmDelivery
<1> QED
  BY <1>1, <1>2 DEF Deliver

(* The user's answers keep TypeOK.  (_transition, snooze_situation,        *)
(* mute_situation_type)                                                    *)
LEMMA RespondType == TypeOK /\ Respond => TypeOK'
<1> SUFFICES ASSUME TypeOK, NEW s \in Situations,
                    \/ AcknowledgeSituation(s)
                    \/ \E until \in Wakes : SnoozeSituation(s, until)
                    \/ MuteSituation(s)
                    \/ MuteSituationType(s)
             PROVE  TypeOK'
  BY DEF Respond
<1>1. ASSUME NEW row \in Row, Answer(s, row)
      PROVE  rows' \in [Situations -> Row]
  BY <1>1 DEF TypeOK, Answer
<1>2. CASE AcknowledgeSituation(s)
  <2>1. [rows[s] EXCEPT !.state = "acknowledged"] \in Row
    BY DEF TypeOK, Row, States
  <2> QED
    BY <1>1, <1>2, <2>1 DEF TypeOK, AcknowledgeSituation, Answer
<1>3. ASSUME NEW until \in Wakes, SnoozeSituation(s, until) PROVE TypeOK'
  <2>1. [rows[s] EXCEPT !.state = "snoozed", !.snoozedUntil = until,
                        !.exempt = TRUE] \in Row
    <3>1. until \in Nat
      BY StoreAssumption
    <3> QED
      BY <3>1 DEF TypeOK, Row, States
  <2>2. rows' \in [Situations -> Row]
    BY <1>1, <1>3, <2>1 DEF SnoozeSituation
  <2>3. snoozedSince' \in [Situations -> BOOLEAN]
    BY <1>3 DEF TypeOK, SnoozeSituation
  <2> QED
    BY <1>3, <2>2, <2>3 DEF TypeOK, SnoozeSituation, Answer
<1>4. [rows[s] EXCEPT !.state = "muted"] \in Row
  BY DEF TypeOK, Row, States
<1>5. CASE MuteSituation(s)
  BY <1>1, <1>4, <1>5 DEF TypeOK, MuteSituation, Answer
<1>6. CASE MuteSituationType(s)
  <2>1. mutedTypes' \subseteq Types
    BY <1>6, StoreAssumption DEF TypeOK, MuteSituationType
  <2> QED
    BY <1>1, <1>4, <1>6, <2>1 DEF TypeOK, MuteSituationType, Answer
<1> QED
  BY <1>2, <1>3, <1>5, <1>6

(* Every reachable state is well typed.                                    *)
THEOREM TypeCorrect == Spec => []TypeOK
<1>1. Init => TypeOK
  <2> SUFFICES ASSUME Init PROVE TypeOK
    OBVIOUS
  <2>1. NoRow \in Row
    BY DEF NoRow, Row, States, Priorities
  <2>2. [issued |-> 0, applied |-> 0, status |-> "none"] \in Generation
    BY DEF Generation
  <2>3. NoLease \in Lease
    BY DEF NoLease, Lease
  <2> QED
    BY <2>1, <2>2, <2>3 DEF Init, TypeOK
<1>2. TypeOK /\ [Next]_vars => TypeOK'
  <2> SUFFICES ASSUME TypeOK, [Next]_vars PROVE TypeOK'
    OBVIOUS
  <2>1. CASE Tick
    BY <2>1 DEF TypeOK, Tick
  <2>2. CASE UNCHANGED vars
    BY <2>2 DEF TypeOK, vars
  <2> QED
    BY <2>1, <2>2, DetectType, DeliverType, RespondType DEF Next
<1> QED
  BY <1>1, <1>2, PTL DEF Spec

-----------------------------------------------------------------------------
(* What a detection step may do to one row and its claim.                  *)

Open == {"pending", "resolved", "expired"}
Answered == {"acknowledged", "muted"}

RowStep(old, new) ==
    /\ new.exempt => old.exempt
    /\ old.state \in Open => new.state \in Open
    /\ old.state \in Answered => new.state = old.state
    /\ new.state = "snoozed" => /\ old.state = "snoozed"
                                /\ new.snoozedUntil = old.snoozedUntil
    /\ old.state = "snoozed" /\ new.state # "snoozed" =>
         old.snoozedUntil \in Nat /\ old.snoozedUntil <= now

ClaimStep(old, new) ==
    /\ new = NoClaim <=> old = NoClaim
    /\ new.token = old.token /\ new.claimed = old.claimed
    /\ new.expires = old.expires

(* A record that _upsert_detection writes makes a legal row step.          *)
LEMMA UpsertedStep ==
    ASSUME TypeOK, NEW s \in Situations, NEW d \in DetectionRecord,
           NEW n \in Nat
    PROVE  RowStep(rows[s], Upserted(s, d, n))
<1>1. rows[s] \in Row
  BY DEF TypeOK
<1> QED
  BY <1>1 DEF Upserted, RowStep, Row, States, Open, Answered

(* A batch with its resolutions makes legal steps of rows and claims only. *)
LEMMA ApplyDetectionsStep ==
    ASSUME TypeOK, NEW type \in Types, NEW snapshot \in Detections(type),
           NEW scope, NEW n \in Nat, ApplyDetections(snapshot, scope, n),
           NEW s \in Situations
    PROVE  /\ RowStep(rows[s], rows'[s])
           /\ ClaimStep(claims[s], claims'[s])
<1>1. PICK admitted : rows' = Applied(snapshot, admitted, scope, n)
  BY DEF ApplyDetections
<1>2. rows[s] \in Row
  BY DEF TypeOK
<1>3. RowStep(rows[s], rows[s]) /\ RowStep(rows[s], Resolved(rows[s]))
  BY <1>2 DEF RowStep, Resolved, Row, States, Open, Answered
<1>4. ASSUME s \in DOMAIN snapshot
      PROVE  RowStep(rows[s], Upserted(s, snapshot[s], n))
  BY <1>4, DetectionsType, UpsertedStep
<1>5. rows'[s] \in {rows[s], Resolved(rows[s])} \cup
        (IF s \in DOMAIN snapshot THEN {Upserted(s, snapshot[s], n)} ELSE {})
  BY <1>1 DEF Applied
<1>6. RowStep(rows[s], rows'[s])
  BY <1>3, <1>4, <1>5
<1>7. claims[s] \in Claim \cup {NoClaim}
  BY DEF TypeOK
<1>8. claims'[s] \in {claims[s]} \cup
        (IF claims[s] # NoClaim THEN {[claims[s] EXCEPT !.repriced = TRUE]}
                                ELSE {})
  BY DEF ApplyDetections, ClaimsRepriced
<1>9. claims[s] # NoClaim => [claims[s] EXCEPT !.repriced = TRUE].token # NoToken
  BY <1>7, StoreAssumption DEF Claim
<1>10. ClaimStep(claims[s], claims'[s])
  BY <1>7, <1>8, <1>9 DEF ClaimStep, Claim, NoClaim
<1> QED
  BY <1>6, <1>10

(* No detection step touches time, receipts, deliveries or answers.        *)
LEMMA DetectStep ==
    ASSUME TypeOK, Detect
    PROVE  /\ \A s \in Situations : /\ RowStep(rows[s], rows'[s])
                                    /\ ClaimStep(claims[s], claims'[s])
           /\ UNCHANGED <<now, receipts, deliveries, mutedTypes, shown,
                          snoozedSince>>
<1>1. \A s \in Situations : /\ rows[s] \in Row
                            /\ RowStep(rows[s], rows[s])
                            /\ ClaimStep(claims[s], claims[s])
  BY DEF TypeOK, RowStep, ClaimStep
<1>2. ASSUME NEW c \in Sources, ReserveGeneration(c)
      PROVE  rows' = rows /\ claims' = claims
  BY <1>2 DEF ReserveGeneration
<1>3. ASSUME NEW c \in Sources, NEW n \in 1 .. MaxGeneration,
             NEW status \in {"complete", "degraded"},
             ApplySourceGeneration(c, n, status), NEW s \in Situations
      PROVE  RowStep(rows[s], rows'[s]) /\ ClaimStep(claims[s], claims'[s])
  <2>1. n \in Nat /\ SourceType[c] \in Types
    BY StoreAssumption DEF Sources, SourceType, Types
  <2>2. PICK snapshot \in Detections(SourceType[c]),
             scope \in SUBSET Situations :
          ApplyDetections(snapshot, scope, n)
    BY <1>3 DEF ApplySourceGeneration, OfType
  <2> QED
    BY <2>1, <2>2, ApplyDetectionsStep
<1>4. ASSUME ApplyLocalDetections, NEW s \in Situations
      PROVE  RowStep(rows[s], rows'[s]) /\ ClaimStep(claims[s], claims'[s])
  <2>1. PICK snapshot \in Detections("personal_occasion") :
          ApplyDetections(snapshot, OfType("personal_occasion"), 0)
    BY <1>4 DEF ApplyLocalDetections
  <2> QED
    BY <2>1, ApplyDetectionsStep DEF Types
<1>5. ASSUME WakeSnoozed, NEW s \in Situations
      PROVE  RowStep(rows[s], rows'[s]) /\ claims' = claims
  BY <1>1, <1>5 DEF WakeSnoozed, InState, RowStep, Row, Open, Answered
<1>6. ASSUME ExpireLapsed, NEW s \in Situations
      PROVE  RowStep(rows[s], rows'[s]) /\ claims' = claims
  BY <1>1, <1>6 DEF ExpireLapsed, InState, RowStep, Row, Open, Answered
<1>7. UNCHANGED <<now, receipts, deliveries, mutedTypes, shown, snoozedSince>>
  BY DEF Detect, ReserveGeneration, ApplySourceGeneration,
         ApplyLocalDetections, WakeSnoozed, ExpireLapsed
<1> QED
  BY <1>1, <1>2, <1>3, <1>4, <1>5, <1>6, <1>7 DEF Detect

-----------------------------------------------------------------------------
(* The cooldown.  CooldownHonoured speaks of past deliveries only; the     *)
(* induction carries what a live lease already knows of them: a lease was  *)
(* taken a cooldown after every delivery unless the user snoozed, and a    *)
(* snooze ends strictly later than every delivery before it.               *)

DeliveredBy(s, t) == \A d \in deliveries : d.situation = s => d.at <= t

ClaimCooled(s) ==
    claims[s] # NoClaim =>
        /\ rows[s].state \in Open
        /\ claims[s].claimed <= now
        /\ snoozedSince[s] \/ DeliveredBy(s, claims[s].claimed - Cooldown)

SnoozeOutlasts(s) ==
    snoozedSince[s] =>
        IF rows[s].state = "snoozed"
        THEN DeliveredBy(s, rows[s].snoozedUntil - 1)
        ELSE DeliveredBy(s, now - 1)

CooldownInv ==
    /\ \A s \in Situations : /\ DeliveredBy(s, now)
                             /\ rows[s].exempt => snoozedSince[s]
                             /\ ClaimCooled(s)
                             /\ SnoozeOutlasts(s)
    /\ CooldownHonoured

(* Detection steps keep the invariant: a claim survives them as it was,    *)
(* and only an elapsed snooze wakes.  (wake_snoozed, upsert_batch)         *)
LEMMA DetectCooldown == TypeOK /\ CooldownInv /\ Detect => CooldownInv'
<1> SUFFICES ASSUME TypeOK, CooldownInv, Detect PROVE CooldownInv'
  OBVIOUS
<1>1. UNCHANGED <<now, deliveries, snoozedSince>>
  BY DetectStep
<1>2. CooldownHonoured'
  BY <1>1 DEF CooldownInv, CooldownHonoured
<1>3. ASSUME NEW s \in Situations
      PROVE  (/\ DeliveredBy(s, now)
              /\ rows[s].exempt => snoozedSince[s]
              /\ ClaimCooled(s)
              /\ SnoozeOutlasts(s))'
  <2>1. RowStep(rows[s], rows'[s]) /\ ClaimStep(claims[s], claims'[s])
    BY DetectStep
  <2>2. /\ DeliveredBy(s, now)
        /\ rows[s].exempt => snoozedSince[s]
        /\ ClaimCooled(s) /\ SnoozeOutlasts(s)
    BY DEF CooldownInv
  <2>3. DeliveredBy(s, now)'
    BY <1>1, <2>2 DEF DeliveredBy
  <2>4. (rows[s].exempt => snoozedSince[s])'
    BY <1>1, <2>1, <2>2 DEF RowStep
  <2>5. ClaimCooled(s)'
    BY <1>1, <2>1, <2>2 DEF ClaimCooled, ClaimStep, RowStep, DeliveredBy
  <2>6. SnoozeOutlasts(s)'
    <3> SUFFICES ASSUME snoozedSince[s]
                 PROVE  SnoozeOutlasts(s)'
      BY <1>1 DEF SnoozeOutlasts
    <3>1. CASE rows'[s].state = "snoozed"
      BY <1>1, <2>1, <2>2, <3>1 DEF SnoozeOutlasts, RowStep, DeliveredBy
    <3>2. CASE rows[s].state = "snoozed" /\ rows'[s].state # "snoozed"
      <4>1. /\ rows[s].snoozedUntil \in Nat /\ now \in Nat
            /\ rows[s].snoozedUntil <= now
        BY <2>1, <3>2 DEF RowStep, TypeOK
      <4>2. DeliveredBy(s, rows[s].snoozedUntil - 1)
        BY <2>2, <3>2 DEF SnoozeOutlasts
      <4>3. \A d \in deliveries : d.at \in Nat
        BY DEF TypeOK, Delivery
      <4>4. DeliveredBy(s, now - 1)
        BY <4>1, <4>2, <4>3 DEF DeliveredBy
      <4> QED
        BY <1>1, <3>2, <4>4 DEF SnoozeOutlasts, DeliveredBy
    <3>3. CASE rows[s].state # "snoozed" /\ rows'[s].state # "snoozed"
      BY <1>1, <2>2, <3>3 DEF SnoozeOutlasts, DeliveredBy
    <3> QED
      BY <3>1, <3>2, <3>3
  <2> QED
    BY <2>3, <2>4, <2>5, <2>6
<1> QED
  BY <1>2, <1>3 DEF CooldownInv

(* A new lease knows that its situation is cooled down or was snoozed.     *)
(* (the cooldown test of reserve_for_delivery)                             *)
LEMMA ReserveCooldown ==
    ASSUME TypeOK, CooldownInv, NEW t \in 0 .. MaxTime, NEW token \in Tokens,
           ReserveForDelivery(t, token)
    PROVE  CooldownInv'
<1>1. /\ UNCHANGED <<now, rows, deliveries, snoozedSince>>
      /\ t \in Nat /\ t <= now /\ now \in Nat
  BY DEF ReserveForDelivery, TypeOK
<1>2. PICK leased \in SUBSET Candidates :
        /\ LeasedBy(leased, t, Unexpired(t))
        /\ claims' = [s \in Situations |->
                        IF s \in leased
                        THEN [token |-> token, claimed |-> t,
                              expires |-> t + LeaseLength,
                              priority |-> rows[s].priority,
                              repriced |-> FALSE]
                        ELSE Unexpired(t)[s]]
  BY DEF ReserveForDelivery
<1>3. ASSUME NEW s \in Situations PROVE ClaimCooled(s)'
  <2>1. CASE s \in leased
    <3>1. rows[s].state = "pending"
      BY <2>1 DEF Candidates, InState
    <3>2. CooledDown(s, t)
      BY <1>2, <2>1 DEF LeasedBy, Consumable
    <3>3. snoozedSince[s] \/ DeliveredBy(s, t - Cooldown)
      BY <3>2 DEF CooledDown, CooldownInv, DeliveriesOf, DeliveredBy
    <3>4. claims'[s].claimed = t
      BY <1>2, <2>1
    <3> QED
      BY <1>1, <3>1, <3>3, <3>4 DEF ClaimCooled, Open, DeliveredBy
  <2>2. CASE s \notin leased
    <3>1. claims'[s] \in {claims[s], NoClaim}
      BY <1>2, <2>2, UnexpiredType
    <3> QED
      BY <1>1, <3>1 DEF CooldownInv, ClaimCooled, DeliveredBy
  <2> QED
    BY <2>1, <2>2
<1> QED
  BY <1>1, <1>3 DEF CooldownInv, CooldownHonoured, SnoozeOutlasts, DeliveredBy

(* A confirmation delivers what its lease vouches for.  (confirm_delivery) *)
LEMMA ConfirmCooldown ==
    ASSUME TypeOK, CooldownInv, NEW token \in Tokens, ConfirmDelivery(token)
    PROVE  CooldownInv'
<1> DEFINE live == Unexpired(now)
           lease == LeaseOf(live, token)
<1>1. now' = now /\ now \in Nat /\ Cooldown \in Nat \ {0}
  BY StoreAssumption DEF ConfirmDelivery, TypeOK
<1>2. /\ deliveries' = deliveries \cup {DeliveryOf(s) : s \in lease}
      /\ lease \subseteq InState({"pending"})
      /\ lease \subseteq Situations
      /\ \A s \in Situations : claims'[s] = IF s \in lease THEN NoClaim
                                                            ELSE live[s]
      /\ \A s \in Situations : snoozedSince'[s] = (s \notin lease
                                                    /\ snoozedSince[s])
  BY DEF ConfirmDelivery, InState
<1>3. ASSUME NEW s \in lease
      PROVE  /\ claims[s] # NoClaim /\ claims[s].claimed \in Nat
             /\ DeliveryOf(s).situation = s /\ DeliveryOf(s).at = now
             /\ DeliveryOf(s).afterSnooze = snoozedSince[s]
  <2>1. claims[s].token = token
    BY <1>2, UnexpiredType, StoreAssumption DEF LeaseOf, NoClaim
  <2>2. claims[s] \in Claim
    BY <1>2, <2>1, StoreAssumption DEF TypeOK, NoClaim
  <2> QED
    BY <2>1, <2>2, StoreAssumption DEF NoClaim, Claim, DeliveryOf
<1>4. ASSUME NEW d \in deliveries' \ deliveries
      PROVE  \E s \in lease : d = DeliveryOf(s)
  BY <1>2
<1>5. \A d \in deliveries : d.at \in Nat /\ d.situation \in Situations
  BY DEF TypeOK, Delivery
<1>6. CooldownHonoured'
  <2> SUFFICES ASSUME NEW d \in deliveries', NEW e \in deliveries',
                      d.situation = e.situation, d # e, d.at <= e.at
               PROVE  e.afterSnooze \/ e.at - d.at >= Cooldown
    BY DEF CooldownHonoured
  <2>1. CASE d \in deliveries /\ e \in deliveries
    BY <2>1 DEF CooldownInv, CooldownHonoured
  <2>2. CASE d \in deliveries /\ e \notin deliveries
    <3>1. PICK s \in lease : e = DeliveryOf(s)
      BY <1>4, <2>2
    <3>2. /\ claims[s] # NoClaim /\ claims[s].claimed \in Nat
          /\ e.situation = s /\ e.at = now /\ e.afterSnooze = snoozedSince[s]
      BY <1>3, <3>1
    <3>3. /\ claims[s].claimed <= now
          /\ snoozedSince[s] \/ DeliveredBy(s, claims[s].claimed - Cooldown)
      BY <1>2, <3>2 DEF CooldownInv, ClaimCooled
    <3>4. d.at \in Nat /\ d.situation = s
      BY <1>5, <2>2, <3>2
    <3> QED
      BY <1>1, <2>2, <3>2, <3>3, <3>4 DEF DeliveredBy
  <2>3. CASE d \notin deliveries /\ e \in deliveries
    <3>1. PICK s \in lease : d = DeliveryOf(s)
      BY <1>4, <2>3
    <3>2. /\ claims[s] # NoClaim /\ claims[s].claimed \in Nat
          /\ d.situation = s /\ d.at = now
      BY <1>3, <3>1
    <3>3. rows[s].state = "pending" /\ s \in Situations
      BY <1>2 DEF InState
    <3>4. /\ claims[s].claimed <= now
          /\ snoozedSince[s] \/ DeliveredBy(s, claims[s].claimed - Cooldown)
          /\ snoozedSince[s] => DeliveredBy(s, now - 1)
      BY <3>2, <3>3 DEF CooldownInv, ClaimCooled, SnoozeOutlasts
    <3>5. e.at \in Nat /\ e.situation = s
      BY <1>5, <2>3, <3>2
    <3>6. e.at < now
      BY <1>1, <2>3, <3>2, <3>4, <3>5 DEF DeliveredBy
    <3> QED
      BY <1>1, <3>2, <3>5, <3>6
  <2>4. CASE d \notin deliveries /\ e \notin deliveries
    BY <1>3, <1>4, <2>4
  <2> QED
    BY <2>1, <2>2, <2>3, <2>4
<1>7. ASSUME NEW s \in Situations
      PROVE  (/\ DeliveredBy(s, now)
              /\ rows[s].exempt => snoozedSince[s]
              /\ ClaimCooled(s)
              /\ SnoozeOutlasts(s))'
  <2>1. DeliveredBy(s, now)'
    BY <1>1, <1>2, <1>3 DEF CooldownInv, DeliveredBy
  <2>2. CASE s \in lease
    <3>1. rows'[s].exempt = FALSE /\ snoozedSince'[s] = FALSE
      BY <1>2, <2>2 DEF ConfirmDelivery, TypeOK, Row
    <3>2. claims'[s] = NoClaim
      BY <1>2, <2>2
    <3> QED
      BY <2>1, <3>1, <3>2 DEF ClaimCooled, SnoozeOutlasts
  <2>3. CASE s \notin lease
    <3>1. rows'[s] = rows[s] /\ snoozedSince'[s] = snoozedSince[s]
      BY <1>2, <2>3 DEF ConfirmDelivery, TypeOK
    <3>2. claims'[s] \in {claims[s], NoClaim}
      BY <1>2, <2>3, UnexpiredType
    <3>3. \A d \in deliveries' : d.situation = s => d \in deliveries
      BY <1>3, <1>4, <2>3
    <3> QED
      BY <1>1, <2>1, <3>1, <3>2, <3>3
         DEF CooldownInv, ClaimCooled, SnoozeOutlasts, DeliveredBy
  <2> QED
    BY <2>2, <2>3
<1> QED
  BY <1>6, <1>7 DEF CooldownInv

(* An answer concerns a delivered situation, which holds no claim.         *)
LEMMA RespondCooldown == TypeOK /\ CooldownInv /\ Respond => CooldownInv'
<1> SUFFICES ASSUME TypeOK, CooldownInv, NEW s \in Situations,
                    \/ AcknowledgeSituation(s)
                    \/ \E until \in Wakes : SnoozeSituation(s, until)
                    \/ MuteSituation(s)
                    \/ MuteSituationType(s)
             PROVE  CooldownInv'
  BY DEF Respond
<1>1. /\ UNCHANGED <<now, claims, deliveries>> /\ rows[s].state = "delivered"
      /\ claims[s] = NoClaim
  BY DEF AcknowledgeSituation, SnoozeSituation, MuteSituation,
         MuteSituationType, Answer, CooldownInv, ClaimCooled, Open
<1>2. \A r \in Situations \ {s} :
        rows'[r] = rows[r] /\ snoozedSince'[r] = snoozedSince[r]
  BY DEF AcknowledgeSituation, SnoozeSituation, MuteSituation,
         MuteSituationType, Answer, TypeOK
<1>3. \A r \in Situations \ {s} :
        (/\ DeliveredBy(r, now)
         /\ rows[r].exempt => snoozedSince[r]
         /\ ClaimCooled(r) /\ SnoozeOutlasts(r))'
  BY <1>1, <1>2 DEF CooldownInv, ClaimCooled, SnoozeOutlasts, DeliveredBy
<1>4. (/\ DeliveredBy(s, now) /\ ClaimCooled(s) /\ CooldownHonoured)'
  BY <1>1 DEF CooldownInv, ClaimCooled, DeliveredBy, CooldownHonoured
<1>5. ((rows[s].exempt => snoozedSince[s]) /\ SnoozeOutlasts(s))'
  <2>1. CASE \/ AcknowledgeSituation(s) \/ MuteSituation(s)
             \/ MuteSituationType(s)
    <3>1. /\ rows'[s].exempt = rows[s].exempt /\ rows'[s].state # "snoozed"
          /\ snoozedSince'[s] = snoozedSince[s]
      BY <2>1 DEF AcknowledgeSituation, MuteSituation, MuteSituationType,
                  Answer, TypeOK, Row
    <3> QED
      BY <1>1, <3>1 DEF CooldownInv, SnoozeOutlasts, DeliveredBy
  <2>2. ASSUME NEW until \in Wakes, SnoozeSituation(s, until)
        PROVE  ((rows[s].exempt => snoozedSince[s]) /\ SnoozeOutlasts(s))'
    <3>1. /\ rows'[s].state = "snoozed" /\ rows'[s].snoozedUntil = until
          /\ snoozedSince'[s] = TRUE
      BY <2>2 DEF SnoozeSituation, Answer, TypeOK, Row
    <3>2. until \in Nat /\ until > now /\ now \in Nat
      BY <2>2, StoreAssumption DEF SnoozeSituation, TypeOK
    <3>3. DeliveredBy(s, now)
      BY DEF CooldownInv
    <3>4. \A d \in deliveries : d.at \in Nat
      BY DEF TypeOK, Delivery
    <3>5. DeliveredBy(s, until - 1)
      BY <3>2, <3>3, <3>4 DEF DeliveredBy
    <3> QED
      BY <1>1, <3>1, <3>5 DEF SnoozeOutlasts, DeliveredBy
  <2> QED
    BY <2>1, <2>2
<1> QED
  BY <1>3, <1>4, <1>5 DEF CooldownInv

(* For every cooldown, lease length and schedule of checks, confirmations, *)
(* refreshes, reactivations and snoozes: two deliveries of one situation   *)
(* are a cooldown apart, or the user snoozed in between.                   *)
THEOREM CooldownSafe == Spec => []CooldownHonoured
<1>1. Init => CooldownInv
  BY DEF Init, CooldownInv, CooldownHonoured, DeliveredBy, ClaimCooled,
         SnoozeOutlasts, NoRow
<1>2. TypeOK /\ CooldownInv /\ [Next]_vars => CooldownInv'
  <2> SUFFICES ASSUME TypeOK, CooldownInv, [Next]_vars PROVE CooldownInv'
    OBVIOUS
  <2>1. CASE Tick
    <3>1. /\ now' = now + 1 /\ now \in Nat
          /\ UNCHANGED <<rows, claims, deliveries, snoozedSince>>
      BY <2>1 DEF Tick, TypeOK
    <3>2. \A d \in deliveries : d.at \in Nat
      BY DEF TypeOK, Delivery
    <3>3. \A s \in Situations : claims[s] # NoClaim => claims[s].claimed \in Nat
      BY DEF TypeOK, Claim
    <3> QED
      BY <3>1, <3>2, <3>3 DEF CooldownInv, CooldownHonoured, DeliveredBy,
                              ClaimCooled, SnoozeOutlasts
  <2>2. CASE UNCHANGED vars
    BY <2>2 DEF vars, CooldownInv, CooldownHonoured, DeliveredBy,
                ClaimCooled, SnoozeOutlasts
  <2>3. CASE Deliver
    BY <2>3, ReserveCooldown, ConfirmCooldown DEF Deliver
  <2> QED
    BY <2>1, <2>2, <2>3, DetectCooldown, RespondCooldown DEF Next
<1>3. CooldownInv => CooldownHonoured
  BY DEF CooldownInv
<1> QED
  BY <1>1, <1>2, <1>3, TypeCorrect, PTL DEF Spec

-----------------------------------------------------------------------------
(* The leases.  Claims of one token share the expiry their host was told,  *)
(* so that a sweep takes all of them or none.                              *)

Claims(s, k) == claims[s].token = k

LeaseInv(k) ==
    /\ \A s \in Situations :
         Claims(s, k) => /\ s \in shown[k].situations
                         /\ claims[s].expires = shown[k].until
                         /\ receipts[k] = 0
    /\ (\/ \E s \in Situations : Claims(s, k)
        \/ receipts[k] = 0 /\ shown[k].until > now)
         => \A s \in shown[k].situations : Claims(s, k)
    /\ \A d \in deliveries :
         d.token = k => receipts[k] # 0 /\ d.situation \in shown[k].situations
    /\ receipts[k] # 0 =>
         /\ receipts[k] = Cardinality(shown[k].situations)
         /\ \A s \in shown[k].situations :
              \E d \in deliveries : d.token = k /\ d.situation = s

LeasesInv == \A k \in Tokens : LeaseInv(k)

(* A sweep at a time that is not in the future keeps the claims of a token *)
(* together.  (DeliveryReceipts.expire with an old stamp)                  *)
LEMMA SweepKeepsLease ==
    ASSUME TypeOK, LeasesInv, NEW t \in Nat, t <= now, NEW k \in Tokens
    PROVE  /\ \A s \in Situations :
                Unexpired(t)[s].token = k =>
                    Claims(s, k) /\ Unexpired(t)[s] = claims[s]
           /\ (\/ \E s \in Situations : Unexpired(t)[s].token = k
               \/ receipts[k] = 0 /\ shown[k].until > now)
                => \A s \in shown[k].situations :
                     Unexpired(t)[s] = claims[s] /\ Claims(s, k)
<1>1. \A s \in Situations : Unexpired(t)[s].token = k =>
        Claims(s, k) /\ Unexpired(t)[s] = claims[s]
  BY UnexpiredType, StoreAssumption DEF NoClaim, Claims
<1>2. LeaseInv(k) /\ now \in Nat /\ shown[k].until \in Nat
        /\ shown[k].situations \subseteq Situations
  BY DEF LeasesInv, TypeOK, Lease
<1>3. ASSUME \/ \E s \in Situations : Unexpired(t)[s].token = k
             \/ receipts[k] = 0 /\ shown[k].until > now
      PROVE  shown[k].until > t
  <2>1. CASE receipts[k] = 0 /\ shown[k].until > now
    BY <1>2, <2>1
  <2>2. CASE \E s \in Situations : Unexpired(t)[s].token = k
    <3>1. PICK s \in Situations : Unexpired(t)[s].token = k
      BY <2>2
    <3>2. Claims(s, k) /\ Unexpired(t)[s] = claims[s] /\ claims[s] # NoClaim
      BY <1>1, <3>1, StoreAssumption DEF Claims, NoClaim
    <3>3. claims[s].expires = shown[k].until
      BY <1>2, <3>2 DEF LeaseInv
    <3> QED
      BY <1>2, <3>2, <3>3 DEF Unexpired
  <2> QED
    BY <1>3, <2>1, <2>2
<1>4. ASSUME \/ \E s \in Situations : Unexpired(t)[s].token = k
             \/ receipts[k] = 0 /\ shown[k].until > now
      PROVE  \A s \in shown[k].situations :
               Unexpired(t)[s] = claims[s] /\ Claims(s, k)
  <2>1. \A s \in shown[k].situations :
          Claims(s, k) /\ claims[s].expires = shown[k].until
    BY <1>1, <1>2, <1>4 DEF LeaseInv
  <2> QED
    BY <1>2, <1>3, <1>4, <2>1 DEF Unexpired
<1> QED
  BY <1>1, <1>4

(* A token with no lease yet has neither claims, receipt nor deliveries.   *)
LEMMA FreshToken ==
    ASSUME LeasesInv, NEW k \in Tokens, shown[k] = NoLease
    PROVE  /\ receipts[k] = 0
           /\ \A s \in Situations : ~Claims(s, k)
           /\ \A d \in deliveries : d.token # k
<1>1. LeaseInv(k) /\ shown[k].situations = {}
  BY DEF LeasesInv, NoLease
<1> QED
  BY <1>1, FS_EmptySet DEF LeaseInv

(* A new lease is whole and disturbs no other.  (reserve_for_delivery)     *)
LEMMA ReserveLease ==
    ASSUME TypeOK, LeasesInv, NEW t \in 0 .. MaxTime, NEW token \in Tokens,
           ReserveForDelivery(t, token)
    PROVE  LeasesInv'
<1>1. /\ UNCHANGED <<now, receipts, deliveries>>
      /\ t \in Nat /\ t <= now /\ shown[token] = NoLease
  BY DEF ReserveForDelivery
<1>2. PICK leased \in SUBSET Candidates :
        /\ LeasedBy(leased, t, Unexpired(t))
        /\ shown' = IF leased = {} THEN shown
                    ELSE [shown EXCEPT ![token] =
                            [situations |-> leased,
                             until |-> t + LeaseLength]]
        /\ claims' = [s \in Situations |->
                        IF s \in leased
                        THEN [token |-> token, claimed |-> t,
                              expires |-> t + LeaseLength,
                              priority |-> rows[s].priority,
                              repriced |-> FALSE]
                        ELSE Unexpired(t)[s]]
  BY DEF ReserveForDelivery
<1>3. \A s \in leased : s \in Situations /\ Unexpired(t)[s] = NoClaim
  BY <1>2 DEF LeasedBy, Consumable, Candidates, InState
<1>4. ASSUME NEW k \in Tokens, k # token PROVE LeaseInv(k)'
  <2>1. shown'[k] = shown[k]
    BY <1>2, <1>4 DEF TypeOK
  <2>2. \A s \in Situations : Claims(s, k)' =>
          Claims(s, k) /\ claims'[s] = claims[s] /\ Unexpired(t)[s].token = k
    BY <1>1, <1>2, <1>4, SweepKeepsLease DEF Claims
  <2>3. (\/ \E s \in Situations : Claims(s, k)'
         \/ receipts[k] = 0 /\ shown[k].until > now)
          => \A s \in shown[k].situations : Claims(s, k)'
    <3> SUFFICES ASSUME \/ \E s \in Situations : Claims(s, k)'
                        \/ receipts[k] = 0 /\ shown[k].until > now,
                        NEW s \in shown[k].situations
                 PROVE  Claims(s, k)'
      OBVIOUS
    <3>1. Unexpired(t)[s] = claims[s] /\ Claims(s, k) /\ s \in Situations
      BY <1>1, <2>2, SweepKeepsLease DEF TypeOK, Lease
    <3>2. claims[s] # NoClaim
      BY <3>1, StoreAssumption DEF Claims, NoClaim
    <3> QED
      BY <1>2, <1>3, <3>1, <3>2 DEF Claims
  <2>4. LeaseInv(k)
    BY DEF LeasesInv
  <2> QED
    BY <1>1, <2>1, <2>2, <2>3, <2>4 DEF LeaseInv
<1>5. /\ receipts[token] = 0 /\ \A d \in deliveries : d.token # token
      /\ \A s \in Situations : Unexpired(t)[s].token # token
  BY <1>1, FreshToken, SweepKeepsLease
<1>6. LeaseInv(token)'
  <2>1. CASE leased = {}
    <3>1. \A s \in Situations : ~Claims(s, token)'
      BY <1>2, <1>5, <2>1 DEF Claims
    <3>2. shown'[token].situations = {}
      BY <1>1, <1>2, <2>1 DEF NoLease
    <3> QED
      BY <1>1, <1>5, <3>1, <3>2 DEF LeaseInv
  <2>2. CASE leased # {}
    <3>1. shown'[token] = [situations |-> leased, until |-> t + LeaseLength]
      BY <1>2, <2>2 DEF TypeOK
    <3>2. \A s \in Situations :
            /\ Claims(s, token)' <=> s \in leased
            /\ s \in leased => claims'[s].expires = t + LeaseLength
      BY <1>2, <1>5 DEF Claims
    <3> QED
      BY <1>1, <1>3, <1>5, <3>1, <3>2 DEF LeaseInv
  <2> QED
    BY <2>1, <2>2
<1> QED
  BY <1>4, <1>6 DEF LeasesInv

(* A confirmation turns the whole lease into deliveries and its receipt.   *)
(* (confirm_delivery, DeliveryReceipts.consume and record)                 *)
LEMMA ConfirmLease ==
    ASSUME TypeOK, LeasesInv, NEW token \in Tokens, ConfirmDelivery(token)
    PROVE  LeasesInv'
<1> DEFINE live == Unexpired(now)
           lease == LeaseOf(live, token)
<1>1. /\ UNCHANGED <<now, shown>> /\ now \in Nat
      /\ lease # {} /\ lease \subseteq Situations
      /\ deliveries' = deliveries \cup {DeliveryOf(s) : s \in lease}
      /\ \A s \in Situations : claims'[s] = IF s \in lease THEN NoClaim
                                                            ELSE live[s]
      /\ receipts' = [receipts EXCEPT ![token] = Cardinality(lease)]
  BY DEF ConfirmDelivery, TypeOK, LeaseOf
<1>2. lease = shown[token].situations /\ \A s \in lease : Claims(s, token)
  <2>1. \A s \in lease : live[s].token = token
    BY DEF LeaseOf
  <2>2. \A s \in lease : Claims(s, token) /\ s \in shown[token].situations
    BY <1>1, <2>1, SweepKeepsLease DEF LeasesInv, LeaseInv
  <2>3. \A s \in shown[token].situations : live[s].token = token
    BY <1>1, <2>1, SweepKeepsLease DEF Claims
  <2> QED
    BY <2>2, <2>3 DEF LeaseOf, TypeOK, Lease
<1>3. \A s \in lease : DeliveryOf(s).token = token /\ DeliveryOf(s).situation = s
  BY <1>2 DEF DeliveryOf, Claims
<1>4. IsFiniteSet(lease) /\ Cardinality(lease) \in Nat /\ Cardinality(lease) # 0
  BY <1>1, StoreAssumption, FS_Subset, FS_CardinalityType, FS_EmptySet
<1>5. ASSUME NEW k \in Tokens, k # token PROVE LeaseInv(k)'
  <2>1. receipts'[k] = receipts[k]
    BY <1>1, <1>5 DEF TypeOK
  <2>2. \A s \in Situations : Claims(s, k)' =>
          Claims(s, k) /\ claims'[s] = claims[s] /\ live[s].token = k
    BY <1>1, SweepKeepsLease, StoreAssumption DEF Claims, NoClaim
  <2>3. (\/ \E s \in Situations : Claims(s, k)'
         \/ receipts[k] = 0 /\ shown[k].until > now)
          => \A s \in shown[k].situations : Claims(s, k)'
    <3> SUFFICES ASSUME \/ \E s \in Situations : Claims(s, k)'
                        \/ receipts[k] = 0 /\ shown[k].until > now,
                        NEW s \in shown[k].situations
                 PROVE  Claims(s, k)'
      OBVIOUS
    <3>1. live[s] = claims[s] /\ Claims(s, k) /\ s \in Situations
      BY <1>1, <2>2, SweepKeepsLease DEF TypeOK, Lease
    <3> QED
      BY <1>1, <1>5, <3>1 DEF Claims, LeaseOf
  <2>4. \A d \in deliveries' : d.token = k => d \in deliveries
    BY <1>1, <1>3, <1>5
  <2>5. LeaseInv(k)
    BY DEF LeasesInv
  <2> QED
    BY <1>1, <2>1, <2>2, <2>3, <2>4, <2>5 DEF LeaseInv
<1>6. LeaseInv(token)'
  <2>1. receipts'[token] = Cardinality(shown[token].situations)
          /\ receipts'[token] # 0
    BY <1>1, <1>2, <1>4 DEF TypeOK
  <2>2. \A s \in Situations : ~Claims(s, token)'
    BY <1>1, StoreAssumption DEF Claims, NoClaim, LeaseOf
  <2>3. \A d \in deliveries' : d.token = token =>
          d.situation \in shown[token].situations
    BY <1>1, <1>2, <1>3 DEF LeasesInv, LeaseInv
  <2>4. \A s \in shown[token].situations :
          \E d \in deliveries' : d.token = token /\ d.situation = s
    BY <1>1, <1>2, <1>3
  <2> QED
    BY <1>1, <2>1, <2>2, <2>3, <2>4 DEF LeaseInv
<1> QED
  BY <1>5, <1>6 DEF LeasesInv

(* Every step keeps every lease.                                           *)
LEMMA LeasesInvariant == Spec => []LeasesInv
<1>1. Init => LeasesInv
  BY StoreAssumption DEF Init, LeasesInv, LeaseInv, Claims, NoClaim, NoLease
<1>2. TypeOK /\ LeasesInv /\ [Next]_vars => LeasesInv'
  <2> SUFFICES ASSUME TypeOK, LeasesInv, [Next]_vars PROVE LeasesInv'
    OBVIOUS
  <2>1. CASE Detect
    <3>1. UNCHANGED <<now, receipts, deliveries, shown>>
      BY <2>1, DetectStep
    <3>2. \A s \in Situations :
            claims'[s].token = claims[s].token
              /\ claims'[s].expires = claims[s].expires
      BY <2>1, DetectStep DEF ClaimStep
    <3>3. \A k \in Tokens : shown[k].situations \subseteq Situations
      BY DEF TypeOK, Lease
    <3> QED
      BY <3>1, <3>2, <3>3 DEF LeasesInv, LeaseInv, Claims
  <2>2. CASE Deliver
    BY <2>2, ReserveLease, ConfirmLease DEF Deliver
  <2>3. CASE Respond
    <3>1. UNCHANGED <<now, claims, receipts, deliveries, shown>>
      BY <2>3 DEF Respond, AcknowledgeSituation, SnoozeSituation,
                  MuteSituation, MuteSituationType, Answer
    <3> QED
      BY <3>1 DEF LeasesInv, LeaseInv, Claims
  <2>4. CASE Tick
    <3>1. /\ now' = now + 1 /\ now \in Nat
          /\ UNCHANGED <<claims, receipts, deliveries, shown>>
          /\ \A k \in Tokens : shown[k].until \in Nat
      BY <2>4 DEF Tick, TypeOK, Lease
    <3> QED
      BY <3>1 DEF LeasesInv, LeaseInv, Claims
  <2>5. CASE UNCHANGED vars
    BY <2>5 DEF vars, LeasesInv, LeaseInv, Claims
  <2> QED
    BY <2>1, <2>2, <2>3, <2>4, <2>5 DEF Next
<1> QED
  BY <1>1, <1>2, TypeCorrect, PTL DEF Spec

(* The receipt protocol is all or nothing for every number of tokens,      *)
(* situations and concurrent checks with old stamps.                       *)
THEOREM ReceiptsSafe == Spec => []ReceiptCoversWholeLease
<1>1. TypeOK /\ LeasesInv => ReceiptCoversWholeLease
  <2> SUFFICES ASSUME TypeOK, LeasesInv, NEW k \in Tokens
               PROVE  /\ LeaseOf(claims, k) \in {{}, shown[k].situations}
                      /\ {d.situation : d \in {e \in deliveries : e.token = k}}
                           = IF receipts[k] = 0 THEN {}
                             ELSE shown[k].situations
                      /\ receipts[k] # 0 =>
                           /\ receipts[k] = Cardinality(shown[k].situations)
                           /\ LeaseOf(claims, k) = {}
    BY DEF ReceiptCoversWholeLease
  <2>1. LeaseInv(k) /\ shown[k].situations \subseteq Situations
    BY DEF LeasesInv, TypeOK, Lease
  <2> QED
    BY <2>1 DEF LeaseInv, LeaseOf, Claims
<1> QED
  BY <1>1, LeasesInvariant, TypeCorrect, PTL

(* No step of anyone takes a situation out of an unconfirmed lease before  *)
(* the expiry that its host was told.                                      *)
THEOREM LeasesHeld == Spec => []LeaseHeldUntilExpiry
<1>1. TypeOK /\ LeasesInv => LeaseHeldUntilExpiry
  <2> SUFFICES ASSUME TypeOK, LeasesInv, NEW k \in Tokens, receipts[k] = 0,
                      shown[k].until > now
               PROVE  LeaseOf(claims, k) = shown[k].situations
    BY DEF LeaseHeldUntilExpiry
  <2>1. LeaseInv(k) /\ shown[k].situations \subseteq Situations
    BY DEF LeasesInv, TypeOK, Lease
  <2> QED
    BY <2>1 DEF LeaseInv, LeaseOf, Claims
<1> QED
  BY <1>1, LeasesInvariant, TypeCorrect, PTL

-----------------------------------------------------------------------------
(* Generations.  No row is ahead of its source, so an accepted number is   *)
(* newer than every row it may write.                                      *)

GenerationInv ==
    /\ \A c \in Sources :
         /\ generations[c].applied <= generations[c].issued
         /\ \A s \in OfType(SourceType[c]) :
              rows[s].generation <= generations[c].applied
    /\ \A s \in OfType("personal_occasion") : rows[s].generation = 0

(* A batch writes its own generation into rows of its own type, or leaves  *)
(* a row's generation alone.  (_upsert_detection, resolve)                 *)
LEMMA AppliedGeneration ==
    ASSUME TypeOK, NEW type \in Types, NEW snapshot \in Detections(type),
           NEW scope, NEW n \in Nat, ApplyDetections(snapshot, scope, n),
           NEW s \in Situations
    PROVE  \/ rows'[s].generation = rows[s].generation
           \/ TypeOf[s] = type /\ rows'[s].generation = n
<1>1. PICK admitted : rows' = Applied(snapshot, admitted, scope, n)
  BY DEF ApplyDetections
<1>2. rows[s] \in Row
  BY DEF TypeOK
<1>3. Resolved(rows[s]).generation = rows[s].generation
  BY <1>2 DEF Resolved, Row
<1>4. ASSUME s \in DOMAIN snapshot
      PROVE  Upserted(s, snapshot[s], n).generation \in {rows[s].generation, n}
  BY <1>2, <1>4 DEF Upserted, Row
<1>5. s \in DOMAIN snapshot => TypeOf[s] = type
  BY DetectionsType DEF OfType
<1> QED
  BY <1>1, <1>3, <1>4, <1>5 DEF Applied

(* An answer concerns one delivered situation and leaves its generation    *)
(* and every other row alone.                                              *)
LEMMA RespondStep ==
    ASSUME TypeOK, Respond
    PROVE  /\ UNCHANGED <<claims, deliveries, generations>>
           /\ \A s \in Situations :
                /\ rows'[s].generation = rows[s].generation
                /\ rows[s].state # "delivered" => rows'[s] = rows[s]
<1>1. ASSUME NEW r \in Situations, NEW row, Answer(r, row),
             row.generation = rows[r].generation, NEW s \in Situations
      PROVE  /\ UNCHANGED <<claims, deliveries, generations>>
             /\ rows'[s].generation = rows[s].generation
             /\ rows[s].state # "delivered" => rows'[s] = rows[s]
  BY <1>1 DEF Answer, TypeOK
<1>2. ASSUME NEW r \in Situations, NEW s \in Situations,
             \/ AcknowledgeSituation(r)
             \/ \E until \in Wakes : SnoozeSituation(r, until)
             \/ MuteSituation(r)
             \/ MuteSituationType(r)
      PROVE  /\ UNCHANGED <<claims, deliveries, generations>>
             /\ rows'[s].generation = rows[s].generation
             /\ rows[s].state # "delivered" => rows'[s] = rows[s]
  <2>1. rows[r] \in Row
    BY DEF TypeOK
  <2>2. CASE AcknowledgeSituation(r)
    BY <1>1, <2>1, <2>2 DEF AcknowledgeSituation, Row
  <2>3. ASSUME NEW until \in Wakes, SnoozeSituation(r, until)
        PROVE  /\ UNCHANGED <<claims, deliveries, generations>>
               /\ rows'[s].generation = rows[s].generation
               /\ rows[s].state # "delivered" => rows'[s] = rows[s]
    BY <1>1, <2>1, <2>3 DEF SnoozeSituation, Row
  <2>4. CASE MuteSituation(r)
    BY <1>1, <2>1, <2>4 DEF MuteSituation, Row
  <2>5. CASE MuteSituationType(r)
    BY <1>1, <2>1, <2>5 DEF MuteSituationType, Row
  <2> QED
    BY <1>2, <2>2, <2>3, <2>4, <2>5
<1>3. UNCHANGED <<claims, deliveries, generations>>
  BY DEF Respond, AcknowledgeSituation, SnoozeSituation, MuteSituation,
         MuteSituationType, Answer
<1> QED
  BY <1>2, <1>3 DEF Respond

(* One step keeps the invariant and moves every generation forward.        *)
LEMMA GenerationStep ==
    ASSUME TypeOK, GenerationInv, [Next]_vars
    PROVE  GenerationInv' /\ GenerationsForward
<1> DEFINE Goal == GenerationInv' /\ GenerationsForward
<1>1. /\ \A c \in Sources : /\ generations[c].applied \in Nat
                             /\ generations[c].issued \in Nat
      /\ \A s \in Situations : rows[s].generation \in Nat
  BY DEF TypeOK, Generation, Row
<1>2. \A s \in Situations, c \in Sources :
        s \in OfType(SourceType[c]) <=> TypeOf[s] = SourceType[c]
  BY DEF OfType
<1>3. ASSUME generations' = generations,
             \A s \in Situations : rows'[s].generation = rows[s].generation
      PROVE  Goal
  BY <1>1, <1>3 DEF GenerationInv, GenerationsForward, OfType
<1>4. ASSUME NEW c \in Sources, ReserveGeneration(c) PROVE Goal
  <2>1. /\ rows' = rows
        /\ \A b \in Sources : /\ generations'[b].applied = generations[b].applied
                               /\ generations'[b].issued >= generations[b].issued
    BY <1>1, <1>4 DEF ReserveGeneration, TypeOK, Generation
  <2>2. \A b \in Sources : generations'[b].issued \in Nat
    BY <1>1, <1>4 DEF ReserveGeneration, TypeOK, Generation
  <2> QED
    BY <1>1, <2>1, <2>2 DEF GenerationInv, GenerationsForward
<1>5. ASSUME NEW c \in Sources, NEW n \in 1 .. MaxGeneration,
             NEW status \in {"complete", "degraded"},
             ApplySourceGeneration(c, n, status)
      PROVE  Goal
  <2>1. n \in Nat /\ SourceType[c] \in Types
    BY StoreAssumption DEF Sources, SourceType, Types
  <2>2. PICK snapshot \in Detections(SourceType[c]),
             scope \in SUBSET Situations :
          ApplyDetections(snapshot, scope, n)
    BY <1>5 DEF ApplySourceGeneration, OfType
  <2>3. \A s \in Situations :
          \/ rows'[s].generation = rows[s].generation
          \/ TypeOf[s] = SourceType[c] /\ rows'[s].generation = n
    BY <2>1, <2>2, AppliedGeneration
  <2>4. /\ n <= generations[c].issued /\ generations[c].applied < n
        /\ generations'[c].applied = n
        /\ generations'[c].issued = generations[c].issued
        /\ \A b \in Sources \ {c} : generations'[b] = generations[b]
    BY <1>5 DEF ApplySourceGeneration, Acceptable, TypeOK, Generation
  <2>5. /\ \A b \in Sources \ {c} : SourceType[b] # SourceType[c]
        /\ SourceType[c] # "personal_occasion"
    BY DEF Sources, SourceType
  <2>6. \A s \in Situations : rows'[s].generation >= rows[s].generation
    BY <1>1, <1>2, <2>1, <2>3, <2>4 DEF GenerationInv
  <2>7. \A b \in Sources : /\ generations'[b].applied >= generations[b].applied
                           /\ generations'[b].issued >= generations'[b].applied
    BY <1>1, <2>1, <2>4 DEF GenerationInv
  <2>8. \A b \in Sources : \A s \in OfType(SourceType[b]) :
          rows'[s].generation <= generations'[b].applied
    BY <1>1, <2>1, <2>3, <2>4, <2>5 DEF GenerationInv, OfType
  <2>9. \A s \in OfType("personal_occasion") : rows'[s].generation = 0
    BY <2>3, <2>5 DEF GenerationInv, OfType
  <2>10. \A b \in Sources : generations'[b].applied <= generations'[b].issued
    BY <1>1, <2>1, <2>4 DEF GenerationInv
  <2> QED
    BY <2>6, <2>7, <2>8, <2>9, <2>10
       DEF GenerationInv, GenerationsForward, OfType
<1>6. ASSUME ApplyLocalDetections PROVE Goal
  <2>1. PICK snapshot \in Detections("personal_occasion") :
          ApplyDetections(snapshot, OfType("personal_occasion"), 0)
    BY <1>6 DEF ApplyLocalDetections
  <2>2. \A s \in Situations :
          \/ rows'[s].generation = rows[s].generation
          \/ TypeOf[s] = "personal_occasion" /\ rows'[s].generation = 0
    BY <2>1, AppliedGeneration DEF Types
  <2>3. \A s \in Situations : rows'[s].generation = rows[s].generation
    BY <2>2 DEF GenerationInv, OfType
  <2> QED
    BY <1>3, <1>6, <2>3 DEF ApplyLocalDetections
<1>7. CASE WakeSnoozed
  BY <1>3, <1>7 DEF WakeSnoozed, TypeOK, Row
<1>8. CASE ExpireLapsed
  BY <1>3, <1>8 DEF ExpireLapsed, TypeOK, Row
<1>9. CASE Deliver
  <2>1. ASSUME NEW s \in Situations
        PROVE  rows'[s].generation = rows[s].generation
    <3>1. rows'[s] \in {rows[s],
                        [rows[s] EXCEPT !.state = "delivered",
                                        !.snoozedUntil = Null,
                                        !.exempt = FALSE]}
      BY <1>9 DEF Deliver, ReserveForDelivery, ConfirmDelivery
    <3> QED
      BY <3>1 DEF TypeOK, Row
  <2>2. generations' = generations
    BY <1>9 DEF Deliver, ReserveForDelivery, ConfirmDelivery
  <2> QED
    BY <1>3, <2>1, <2>2
<1>10. CASE Respond
  BY <1>3, <1>10, RespondStep
<1>11. CASE Tick \/ UNCHANGED vars
  BY <1>3, <1>11 DEF Tick, vars
<1> QED
  BY <1>4, <1>5, <1>6, <1>7, <1>8, <1>9, <1>10, <1>11 DEF Next, Detect

(* However results overtake one another, none is written over a newer one. *)
THEOREM GenerationsMonotone == Spec => NoStaleOverwrite
<1>1. Init => GenerationInv
  BY DEF Init, GenerationInv, NoRow, OfType
<1>2. TypeOK /\ GenerationInv /\ [Next]_vars => GenerationInv'
  BY GenerationStep
<1>3. TypeOK /\ GenerationInv /\ [Next]_vars => [GenerationsForward]_vars
  BY GenerationStep
<1> QED
  BY <1>1, <1>2, <1>3, TypeCorrect, PTL DEF Spec, NoStaleOverwrite

-----------------------------------------------------------------------------
(* What the user acknowledged or muted stays settled, whatever detections, *)
(* expiries, wakes, leases and late confirmations follow.                  *)
THEOREM AnswersFinal == Spec => AnsweredIsFinal
<1> DEFINE Settled == \A s \in InState({"acknowledged", "muted"}) :
                        /\ rows'[s].state = rows[s].state
                        /\ DeliveriesOf(s)' = DeliveriesOf(s)
                        /\ claims'[s] # NoClaim => claims[s] # NoClaim
<1>1. TypeOK /\ [Next]_vars => [Settled]_vars
  <2> SUFFICES ASSUME TypeOK, Next, NEW s \in Situations,
                      rows[s].state \in Answered
               PROVE  /\ rows'[s].state = rows[s].state
                      /\ DeliveriesOf(s)' = DeliveriesOf(s)
                      /\ claims'[s] # NoClaim => claims[s] # NoClaim
    BY DEF InState, Answered
  <2>1. CASE Detect
    BY <2>1, DetectStep DEF RowStep, ClaimStep, DeliveriesOf
  <2>2. ASSUME NEW token \in Tokens, NEW t \in 0 .. MaxTime,
               ReserveForDelivery(t, token)
        PROVE  /\ rows' = rows /\ deliveries' = deliveries
               /\ claims'[s] # NoClaim => claims[s] # NoClaim
    <3>1. s \notin Candidates
      BY DEF Candidates, InState, Answered
    <3> QED
      BY <2>2, <3>1, UnexpiredType DEF ReserveForDelivery
  <2>3. ASSUME NEW token \in Tokens, ConfirmDelivery(token)
        PROVE  /\ rows'[s] = rows[s] /\ DeliveriesOf(s)' = DeliveriesOf(s)
               /\ claims'[s] # NoClaim => claims[s] # NoClaim
    <3> DEFINE lease == LeaseOf(Unexpired(now), token)
    <3>1. s \notin lease
      BY <2>3 DEF ConfirmDelivery, InState, Answered
    <3>2. \A r \in lease : DeliveryOf(r).situation = r
      BY DEF DeliveryOf
    <3>3. DeliveriesOf(s)' = DeliveriesOf(s)
      BY <2>3, <3>1, <3>2 DEF ConfirmDelivery, DeliveriesOf
    <3> QED
      BY <2>3, <3>1, <3>3, UnexpiredType DEF ConfirmDelivery
  <2>4. CASE Respond
    BY <2>4, RespondStep DEF Answered, DeliveriesOf
  <2>5. CASE Tick
    BY <2>5 DEF Tick, DeliveriesOf
  <2> QED
    BY <2>1, <2>2, <2>3, <2>4, <2>5 DEF Next, Deliver, DeliveriesOf
<1> QED
  BY <1>1, TypeCorrect, PTL DEF Spec, AnsweredIsFinal

=============================================================================
