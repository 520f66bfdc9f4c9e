--------------------------- MODULE AttentionProofs --------------------------
(***************************************************************************)
(* What the attention policy promises the user, for every set of           *)
(* situations and every limit: an occasion repeats only after a snooze, a  *)
(* reply is leased only while the newest Gmail result vouches for it,      *)
(* replies yield to conflicts and occasions, and a day's settled           *)
(* deliveries stay within its budget.  And the refinement of               *)
(* ReceiptContract: the store's rows, claims, receipts and delivery log,   *)
(* swept with old stamps by concurrent checks, do what a host is promised  *)
(* with its token.                                                         *)
(***************************************************************************)
EXTENDS SituationStoreProofs, StoreReceipts

-----------------------------------------------------------------------------
(* Occasions.  Once delivered, an occasion's row can only rest, unless the *)
(* user's snooze reopens it.                                               *)

Finished == {"delivered", "resolved", "expired", "acknowledged", "muted"}

OccasionInv ==
    /\ \A s \in OfType("personal_occasion") :
         /\ rows[s].state = "snoozed" => snoozedSince[s]
         /\ HasDelivery(s) /\ ~snoozedSince[s] => rows[s].state \in Finished
    /\ OccasionRepeatsOnlyAfterSnooze

(* No detection, resolution, wake or expiry reopens a delivered occasion.  *)
(* (has_delivery in _upsert_detection)                                     *)
LEMMA DetectOccasion ==
    ASSUME TypeOK, Detect, NEW s \in OfType("personal_occasion"),
           HasDelivery(s), rows[s].state \in Finished
    PROVE  rows'[s].state \in Finished
<1>1. s \in Situations /\ rows[s] \in Row /\ TypeOf[s] = "personal_occasion"
  BY DEF TypeOK, OfType
<1>2. ASSUME NEW d, NEW n
      PROVE  Upserted(s, d, n).state \in Finished
  BY <1>1 DEF Upserted, Finished, Row
<1>3. Resolved(rows[s]).state \in Finished
  BY <1>1 DEF Resolved, Finished, Row
<1>4. ASSUME NEW snapshot, NEW scope, NEW n, ApplyDetections(snapshot, scope, n)
      PROVE  rows'[s].state \in Finished
  BY <1>1, <1>2, <1>3, <1>4 DEF ApplyDetections, Applied
<1>5. ASSUME NEW c \in Sources, ReserveGeneration(c)
      PROVE  rows'[s].state \in Finished
  BY <1>5 DEF ReserveGeneration
<1>6. ASSUME NEW c \in Sources, NEW n, NEW status,
             ApplySourceGeneration(c, n, status)
      PROVE  rows'[s].state \in Finished
  BY <1>4, <1>6 DEF ApplySourceGeneration
<1>7. CASE ApplyLocalDetections
  BY <1>4, <1>7 DEF ApplyLocalDetections
<1>8. CASE WakeSnoozed
  BY <1>1, <1>8 DEF WakeSnoozed, InState, Finished
<1>9. CASE ExpireLapsed
  BY <1>1, <1>9 DEF ExpireLapsed, InState, Finished, Row
<1> QED
  BY <1>5, <1>6, <1>7, <1>8, <1>9 DEF Detect

(* A confirmation delivers an occasion again only after a snooze.          *)
(* (confirm_delivery)                                                      *)
LEMMA ConfirmOccasion ==
    ASSUME TypeOK, OccasionInv, NEW token \in Tokens, ConfirmDelivery(token)
    PROVE  OccasionInv'
<1> DEFINE lease == LeaseOf(Unexpired(now), token)
<1>1. /\ deliveries' = deliveries \cup {DeliveryOf(s) : s \in lease}
      /\ \A s \in lease : s \in Situations /\ rows[s].state = "pending"
      /\ \A s \in Situations : snoozedSince'[s] = (s \notin lease
                                                    /\ snoozedSince[s])
  BY DEF ConfirmDelivery, InState
<1>2. \A s \in lease : /\ DeliveryOf(s).situation = s
                       /\ DeliveryOf(s).afterSnooze = snoozedSince[s]
  BY DEF DeliveryOf
<1>3. \A d \in deliveries : d.situation \in Situations
  BY DEF TypeOK, Delivery
<1>4. \A s \in Situations :
        rows'[s].state = IF s \in lease THEN "delivered" ELSE rows[s].state
  BY DEF ConfirmDelivery, TypeOK, Row
<1>5. OccasionRepeatsOnlyAfterSnooze'
  <2> SUFFICES ASSUME NEW d \in deliveries', NEW e \in deliveries',
                      d.situation = e.situation, d # e,
                      TypeOf[d.situation] = "personal_occasion"
               PROVE  d.afterSnooze \/ e.afterSnooze
    BY DEF OccasionRepeatsOnlyAfterSnooze
  <2>1. ASSUME NEW a \in deliveries, NEW s \in lease, a.situation = s,
               TypeOf[s] = "personal_occasion"
        PROVE  DeliveryOf(s).afterSnooze
    <3>1. HasDelivery(s) /\ s \in OfType("personal_occasion")
      BY <1>1, <2>1 DEF HasDelivery, DeliveriesOf, OfType
    <3> QED
      BY <1>1, <1>2, <3>1 DEF OccasionInv, Finished
  <2>2. CASE d \in deliveries /\ e \in deliveries
    BY <2>2 DEF OccasionInv, OccasionRepeatsOnlyAfterSnooze
  <2>3. CASE d \in deliveries /\ e \notin deliveries
    BY <1>1, <1>2, <2>1, <2>3
  <2>4. CASE d \notin deliveries /\ e \in deliveries
    BY <1>1, <1>2, <2>1, <2>4
  <2>5. CASE d \notin deliveries /\ e \notin deliveries
    BY <1>1, <1>2, <2>5
  <2> QED
    BY <2>2, <2>3, <2>4, <2>5
<1>6. ASSUME NEW s \in OfType("personal_occasion")
      PROVE  (/\ rows[s].state = "snoozed" => snoozedSince[s]
              /\ HasDelivery(s) /\ ~snoozedSince[s]
                   => rows[s].state \in Finished)'
  <2>1. s \in Situations
    BY DEF OfType
  <2>2. CASE s \in lease
    BY <1>4, <2>1, <2>2 DEF Finished
  <2>3. CASE s \notin lease
    <3>1. HasDelivery(s)' => HasDelivery(s)
      BY <1>1, <1>2, <2>3 DEF HasDelivery, DeliveriesOf
    <3> QED
      BY <1>1, <1>4, <2>1, <2>3, <3>1 DEF OccasionInv
  <2> QED
    BY <2>2, <2>3
<1> QED
  BY <1>5, <1>6 DEF OccasionInv, OfType

(* An answer closes the row, or is the snooze itself.                      *)
LEMMA RespondOccasion == TypeOK /\ OccasionInv /\ Respond => OccasionInv'
<1> SUFFICES ASSUME TypeOK, OccasionInv, NEW r \in Situations,
                    \/ AcknowledgeSituation(r)
                    \/ \E until \in Wakes : SnoozeSituation(r, until)
                    \/ MuteSituation(r)
                    \/ MuteSituationType(r)
             PROVE  OccasionInv'
  BY DEF Respond
<1>1. deliveries' = deliveries
  BY DEF AcknowledgeSituation, SnoozeSituation, MuteSituation,
         MuteSituationType, Answer
<1>2. ASSUME NEW s \in Situations
      PROVE  \/ rows'[s] = rows[s] /\ snoozedSince'[s] = snoozedSince[s]
             \/ rows'[s].state = "snoozed" /\ snoozedSince'[s]
             \/ rows'[s].state \in Answered
  <2>1. rows[s] \in Row
    BY DEF TypeOK
  <2>2. ASSUME NEW until \in Wakes, SnoozeSituation(r, until)
        PROVE  \/ rows'[s] = rows[s] /\ snoozedSince'[s] = snoozedSince[s]
               \/ rows'[s].state = "snoozed" /\ snoozedSince'[s]
    BY <2>1, <2>2 DEF SnoozeSituation, Answer, TypeOK, Row
  <2>3. CASE AcknowledgeSituation(r) \/ MuteSituation(r) \/ MuteSituationType(r)
    BY <2>1, <2>3 DEF AcknowledgeSituation, MuteSituation, MuteSituationType,
                      Answer, TypeOK, Row, Answered
  <2> QED
    BY <2>2, <2>3
<1> QED
  BY <1>1, <1>2 DEF OccasionInv, OccasionRepeatsOnlyAfterSnooze, OfType,
                    HasDelivery, DeliveriesOf, Answered, Finished

(* However often an occasion is detected, resolved and detected again,     *)
(* only the user's snooze brings it back after its delivery.               *)
THEOREM OccasionsOnce == Spec => []OccasionRepeatsOnlyAfterSnooze
<1>1. Init => OccasionInv
  BY DEF Init, OccasionInv, OccasionRepeatsOnlyAfterSnooze, HasDelivery,
         DeliveriesOf, NoRow, OfType
<1>2. TypeOK /\ OccasionInv /\ [Next]_vars => OccasionInv'
  <2> SUFFICES ASSUME TypeOK, OccasionInv, [Next]_vars PROVE OccasionInv'
    OBVIOUS
  <2>1. CASE Detect
    <3>1. UNCHANGED <<deliveries, snoozedSince>>
      BY <2>1, DetectStep
    <3>2. \A s \in Situations : rows'[s].state = "snoozed" =>
            rows[s].state = "snoozed"
      BY <2>1, DetectStep DEF RowStep
    <3>3. \A s \in OfType("personal_occasion") :
            HasDelivery(s) /\ rows[s].state \in Finished =>
              rows'[s].state \in Finished
      BY <2>1, DetectOccasion
    <3> QED
      BY <3>1, <3>2, <3>3 DEF OccasionInv, OccasionRepeatsOnlyAfterSnooze,
                              HasDelivery, DeliveriesOf, OfType
  <2>2. ASSUME NEW token \in Tokens, NEW t \in 0 .. MaxTime,
               ReserveForDelivery(t, token)
        PROVE  OccasionInv'
    BY <2>2 DEF ReserveForDelivery, OccasionInv, HasDelivery, DeliveriesOf,
                OccasionRepeatsOnlyAfterSnooze
  <2>3. CASE Deliver
    BY <2>2, <2>3, ConfirmOccasion DEF Deliver
  <2>4. CASE Tick \/ UNCHANGED vars
    BY <2>4 DEF Tick, vars, OccasionInv, HasDelivery, DeliveriesOf,
                OccasionRepeatsOnlyAfterSnooze
  <2> QED
    BY <2>1, <2>3, <2>4, RespondOccasion DEF Next
<1>3. OccasionInv => OccasionRepeatsOnlyAfterSnooze
  BY DEF OccasionInv
<1> QED
  BY <1>1, <1>2, <1>3, TypeCorrect, PTL DEF Spec

-----------------------------------------------------------------------------
(* Replies.  While the status of the last applied Gmail result is          *)
(* "complete", every reply that is open or that the user may still answer  *)
(* is one that result vouched for.                                         *)

Current == {"pending", "delivered", "snoozed"}

ReplyInv ==
    \A s \in OfType("reply_deadline") :
        /\ Noncritical(s)
        /\ generations["gmail"].issued = 0 => rows[s].state = "none"
        /\ generations["gmail"].status = "complete"
             /\ rows[s].state \in Current => s \in vouched

(* A step that neither applies a Gmail result nor reopens a reply.         *)
LEMMA ReplyFrame ==
    ASSUME ReplyInv, vouched' = vouched,
           generations'["gmail"].status = generations["gmail"].status,
           generations'["gmail"].issued = 0 => generations["gmail"].issued = 0,
           \A s \in OfType("reply_deadline") :
             /\ rows'[s].priority = rows[s].priority
             /\ rows[s].state = "none" => rows'[s].state = "none"
             /\ rows'[s].state \in Current => rows[s].state \in Current
    PROVE  ReplyInv'
BY DEF ReplyInv, Noncritical, OfType

(* A batch of another type, with a scope of that type, leaves replies      *)
(* alone.  (expected_type, the type filter of resolve)                     *)
LEMMA OtherTypeKeepsReplies ==
    ASSUME NEW type \in Types \ {"reply_deadline"},
           NEW snapshot \in Detections(type), NEW scope \in SUBSET OfType(type),
           NEW n, ApplyDetections(snapshot, scope, n),
           NEW s \in OfType("reply_deadline")
    PROVE  rows'[s] = rows[s]
<1>1. s \in Situations /\ s \notin OfType(type)
  BY DEF OfType
<1>2. s \notin DOMAIN snapshot /\ s \notin scope
  BY <1>1, DetectionsType
<1> QED
  BY <1>1, <1>2 DEF ApplyDetections, Applied

(* A Gmail result that is complete vouches for every reply it leaves open; *)
(* a degraded one ends the trust in the last.  (apply_source_generation)   *)
LEMMA GmailReplies ==
    ASSUME TypeOK, ReplyInv, NEW n \in 1 .. MaxGeneration,
           NEW status \in {"complete", "degraded"},
           ApplySourceGeneration("gmail", n, status)
    PROVE  ReplyInv'
<1>1. /\ generations'["gmail"].status = status
      /\ generations'["gmail"].issued = generations["gmail"].issued
      /\ generations["gmail"].issued # 0
  BY StoreAssumption DEF ApplySourceGeneration, Acceptable, TypeOK, Generation,
                         Sources
<1>2. PICK snapshot \in Detections("reply_deadline"),
           scope \in SUBSET OfType("reply_deadline") :
        /\ ApplyDetections(snapshot, scope, n)
        /\ status = "complete" =>
             /\ scope = OfType("reply_deadline")
             /\ vouched' = DOMAIN snapshot \cup
                             (InState({"snoozed"}) \cap OfType("reply_deadline"))
  BY DEF ApplySourceGeneration, SourceType
<1>3. PICK admitted : rows' = Applied(snapshot, admitted, scope, n)
  BY <1>2 DEF ApplyDetections
<1>4. \A s \in DOMAIN snapshot : snapshot[s].priority # "critical"
  BY DEF Detections, PriorityInputs
<1>5. ASSUME NEW s \in OfType("reply_deadline")
      PROVE  (/\ Noncritical(s)
              /\ generations["gmail"].issued = 0 => rows[s].state = "none"
              /\ generations["gmail"].status = "complete"
                   /\ rows[s].state \in Current => s \in vouched)'
  <2>1. s \in Situations /\ rows[s] \in Row /\ Noncritical(s)
    BY DEF OfType, TypeOK, ReplyInv
  <2>2. Noncritical(s)'
    <3>1. s \in DOMAIN snapshot =>
            Upserted(s, snapshot[s], n).priority
              \in {rows[s].priority, snapshot[s].priority}
      BY <2>1 DEF Upserted, Row
    <3>2. Resolved(rows[s]).priority = rows[s].priority
      BY <2>1 DEF Resolved, Row
    <3> QED
      BY <1>3, <1>4, <2>1, <3>1, <3>2 DEF Applied, Noncritical
  <2>3. ASSUME status = "complete", s \notin DOMAIN snapshot,
               rows'[s].state \in Current
        PROVE  s \in vouched'
    <3>1. rows'[s] = Resolved(rows[s])
      BY <1>2, <1>3, <2>1, <2>3 DEF Applied
    <3>2. rows[s].state = "snoozed"
      BY <2>1, <2>3, <3>1 DEF Resolved, Current, Row
    <3> QED
      BY <1>2, <2>1, <2>3, <3>2 DEF InState
  <2> QED
    BY <1>1, <1>2, <2>2, <2>3
<1> QED
  BY <1>5 DEF ReplyInv, OfType

(* An answer leaves every priority alone.                                  *)
LEMMA RespondPriority ==
    ASSUME TypeOK, Respond
    PROVE  \A s \in Situations : rows'[s].priority = rows[s].priority
<1>1. ASSUME NEW r \in Situations, NEW row, Answer(r, row),
             row.priority = rows[r].priority
      PROVE  \A s \in Situations : rows'[s].priority = rows[s].priority
  BY <1>1 DEF Answer, TypeOK
<1>2. \A r \in Situations :
        /\ [rows[r] EXCEPT !.state = "acknowledged"].priority
             = rows[r].priority
        /\ [rows[r] EXCEPT !.state = "muted"].priority = rows[r].priority
        /\ \A until : [rows[r] EXCEPT !.state = "snoozed",
                                      !.snoozedUntil = until,
                                      !.exempt = TRUE].priority
                        = rows[r].priority
  BY DEF TypeOK, Row
<1> QED
  BY <1>1, <1>2 DEF Respond, AcknowledgeSituation, SnoozeSituation,
                    MuteSituation, MuteSituationType

(* Every step keeps the Gmail result's word.                               *)
LEMMA ReplyInvariant == Spec => []ReplyInv
<1>1. Init => ReplyInv
  BY DEF Init, ReplyInv, NoRow, Noncritical, OfType, Sources
<1>2. TypeOK /\ ReplyInv /\ [Next]_vars => ReplyInv'
  <2> SUFFICES ASSUME TypeOK, ReplyInv, [Next]_vars PROVE ReplyInv'
    OBVIOUS
  <2>1. \A s \in OfType("reply_deadline") : s \in Situations /\ rows[s] \in Row
    BY DEF OfType, TypeOK
  <2>2. ASSUME NEW c \in Sources, ReserveGeneration(c) PROVE ReplyInv'
    <3>1. /\ UNCHANGED <<rows, vouched>>
          /\ generations'["gmail"].status = generations["gmail"].status
          /\ generations'["gmail"].issued = 0 =>
               generations["gmail"].issued = 0
      BY <2>2 DEF ReserveGeneration, TypeOK, Generation, Sources
    <3> QED
      BY <3>1, ReplyFrame
  <2>3. ASSUME NEW n \in 1 .. MaxGeneration,
               NEW status \in {"complete", "degraded"},
               ApplySourceGeneration("calendar", n, status)
        PROVE  ReplyInv'
    <3>1. /\ vouched' = vouched
          /\ generations'["gmail"] = generations["gmail"]
      BY <2>3 DEF ApplySourceGeneration, TypeOK, Sources
    <3>2. PICK snapshot \in Detections("calendar_conflict"),
               scope \in SUBSET OfType("calendar_conflict") :
            ApplyDetections(snapshot, scope, n)
      BY <2>3 DEF ApplySourceGeneration, SourceType
    <3>3. \A s \in OfType("reply_deadline") : rows'[s] = rows[s]
      BY <3>2, OtherTypeKeepsReplies DEF Types
    <3> QED
      BY <3>1, <3>3, ReplyFrame
  <2>4. CASE ApplyLocalDetections
    <3>1. UNCHANGED <<vouched, generations>>
      BY <2>4 DEF ApplyLocalDetections
    <3>2. PICK snapshot \in Detections("personal_occasion") :
            ApplyDetections(snapshot, OfType("personal_occasion"), 0)
      BY <2>4 DEF ApplyLocalDetections
    <3>3. \A s \in OfType("reply_deadline") : rows'[s] = rows[s]
      BY <3>2, OtherTypeKeepsReplies DEF Types
    <3> QED
      BY <3>1, <3>3, ReplyFrame
  <2>5. CASE WakeSnoozed
    BY <2>1, <2>5, ReplyFrame DEF WakeSnoozed, InState, Current, Row
  <2>6. CASE ExpireLapsed
    BY <2>1, <2>6, ReplyFrame DEF ExpireLapsed, InState, Current, Row
  <2>7. CASE Deliver
    <3>1. ASSUME NEW s \in OfType("reply_deadline")
          PROVE  \/ rows'[s] = rows[s]
                 \/ /\ rows[s].state = "pending"
                    /\ rows'[s] = [rows[s] EXCEPT !.state = "delivered",
                                                  !.snoozedUntil = Null,
                                                  !.exempt = FALSE]
      BY <2>1, <2>7 DEF Deliver, ReserveForDelivery, ConfirmDelivery, InState
    <3>2. \A s \in OfType("reply_deadline") :
            \/ rows'[s] = rows[s]
            \/ rows[s].state = "pending" /\ rows'[s].priority = rows[s].priority
      BY <2>1, <3>1 DEF Row
    <3>3. UNCHANGED <<vouched, generations>>
      BY <2>7 DEF Deliver, ReserveForDelivery, ConfirmDelivery
    <3> QED
      BY <3>2, <3>3, ReplyFrame DEF Current
  <2>8. CASE Respond
    <3>1. \A s \in OfType("reply_deadline") :
            rows'[s].priority = rows[s].priority
      BY <2>1, <2>8, RespondPriority
    <3>2. \A s \in OfType("reply_deadline") :
            rows[s].state # "delivered" => rows'[s] = rows[s]
      BY <2>1, <2>8, RespondStep
    <3>3. UNCHANGED <<vouched, generations>>
      BY <2>8 DEF Respond, AcknowledgeSituation, SnoozeSituation,
                  MuteSituation, MuteSituationType, Answer
    <3> QED
      BY <3>1, <3>2, <3>3, ReplyFrame DEF Current
  <2>9. CASE Tick \/ UNCHANGED vars
    BY <2>9, ReplyFrame DEF Tick, vars
  <2> QED
    BY <2>2, <2>3, <2>4, <2>5, <2>6, <2>7, <2>8, <2>9, GmailReplies
       DEF Next, Detect, Sources
<1> QED
  BY <1>1, <1>2, TypeCorrect, PTL DEF Spec

(* Only a reservation leases: what a step newly leases is in the set that  *)
(* its loop over the candidates built.  (reserve_for_delivery)             *)
LEMMA NewLease ==
    ASSUME TypeOK, [Next]_vars, NEW r \in Situations, NewlyLeased(r)
    PROVE  \E t \in Nat, token \in Tokens, leased \in SUBSET Candidates :
             /\ t <= now /\ r \in leased
             /\ LeasedBy(leased, t, Unexpired(t))
             /\ \A s \in leased : claims'[s] # NoClaim
                                    /\ claims'[s].token = token
<1>1. ~Detect /\ ~(\E token \in Tokens : ConfirmDelivery(token))
        /\ ~Respond /\ ~Tick /\ ~(UNCHANGED vars)
  <2>1. ~Detect
    BY DetectStep DEF ClaimStep, NewlyLeased
  <2>2. ASSUME NEW token \in Tokens, ConfirmDelivery(token) PROVE FALSE
    BY <2>2, UnexpiredType DEF ConfirmDelivery, NewlyLeased
  <2>3. ~Respond
    BY RespondStep DEF NewlyLeased
  <2>4. ~Tick /\ ~(UNCHANGED vars)
    BY DEF Tick, vars, NewlyLeased
  <2> QED
    BY <2>1, <2>2, <2>3, <2>4
<1>2. PICK token \in Tokens, t \in 0 .. MaxTime : ReserveForDelivery(t, token)
  BY <1>1 DEF Next, Deliver
<1>3. PICK leased \in SUBSET Candidates :
        /\ LeasedBy(leased, t, Unexpired(t))
        /\ claims' = [s \in Situations |->
                        IF s \in leased
                        THEN [token |-> token, claimed |-> t,
                              expires |-> t + LeaseLength,
                              priority |-> rows[s].priority,
                              repriced |-> FALSE]
                        ELSE Unexpired(t)[s]]
  BY <1>2 DEF ReserveForDelivery
<1>4. r \in leased
  BY <1>3, UnexpiredType DEF NewlyLeased
<1>5. \A s \in leased : s \in Situations
  BY DEF Candidates, InState
<1>6. \A s \in leased : claims'[s] # NoClaim /\ claims'[s].token = token
  BY <1>3, <1>5, StoreAssumption DEF NoClaim
<1>7. t \in Nat /\ t <= now
  BY <1>2 DEF ReserveForDelivery
<1> QED
  BY <1>3, <1>4, <1>6, <1>7

(* A reply is leased only when the newest Gmail read is applied, complete  *)
(* and has the reply, whichever reads are in flight, failed or late.       *)
THEOREM RepliesVouched == Spec => ReplyLeaseVouched
<1> DEFINE Vouched == \A s \in Situations :
                        IsReply(s) /\ NewlyLeased(s) =>
                          /\ s \in vouched
                          /\ generations["gmail"].issued
                               = generations["gmail"].applied
<1>1. TypeOK /\ ReplyInv /\ [Next]_vars => [Vouched]_vars
  <2> SUFFICES ASSUME TypeOK, ReplyInv, [Next]_vars, NEW s \in Situations,
                      IsReply(s), NewlyLeased(s)
               PROVE  /\ s \in vouched
                      /\ generations["gmail"].issued
                           = generations["gmail"].applied
    OBVIOUS
  <2>1. rows[s].state = "pending" /\ SourceCurrent(s)
    BY NewLease DEF LeasedBy, Candidates, InState
  <2>2. s \in OfType("reply_deadline")
    BY DEF IsReply, OfType
  <2> QED
    BY <2>1, <2>2 DEF SourceCurrent, ReplyInv, Current
<1> QED
  BY <1>1, TypeCorrect, ReplyInvariant, PTL DEF Spec, ReplyLeaseVouched

-----------------------------------------------------------------------------
(* The delivery order is a strict total order on situations, and the       *)
(* budget test of the loop bounds what the whole loop leases.              *)

(* The five columns of the ORDER BY are numbers.                           *)
LEMMA OrderKeyType ==
    ASSUME TypeOK, NEW s \in Situations
    PROVE  /\ OrderKey(s)[1] = CriticalRank(s) /\ CriticalRank(s) \in {0, 1}
           /\ OrderKey(s)[2] = ReplyRank(s) /\ ReplyRank(s) \in {0, 1}
           /\ OrderKey(s)[3] = HighRank(s) /\ HighRank(s) \in {0, 1}
           /\ OrderKey(s)[4] = rows[s].detected /\ rows[s].detected \in Nat
           /\ OrderKey(s)[5] = IdOf[s] /\ IdOf[s] \in Nat
BY StoreAssumption DEF OrderKey, CriticalRank, ReplyRank, HighRank, TypeOK, Row

(* Lexicographic comparison, column by column.                             *)
Lexicographic(a, b) ==
    \/ a[1] < b[1]
    \/ a[1] = b[1] /\ a[2] < b[2]
    \/ a[1] = b[1] /\ a[2] = b[2] /\ a[3] < b[3]
    \/ a[1] = b[1] /\ a[2] = b[2] /\ a[3] = b[3] /\ a[4] < b[4]
    \/ a[1] = b[1] /\ a[2] = b[2] /\ a[3] = b[3] /\ a[4] = b[4] /\ a[5] < b[5]

(* (ORDER BY of SELECT_PENDING_FOR_DELIVERY)                               *)
LEMMA PrecedesLexicographic ==
    ASSUME NEW s, NEW r
    PROVE  Precedes(s, r) <=> Lexicographic(OrderKey(s), OrderKey(r))
<1> DEFINE a == OrderKey(s)
           b == OrderKey(r)
           At(i) == a[i] < b[i] /\ \A j \in 1 .. (i - 1) : a[j] = b[j]
<1>1. Precedes(s, r) <=> \E i \in 1 .. 5 : At(i)
  BY DEF Precedes
<1>2. /\ 1 .. 5 = {1, 2, 3, 4, 5}
      /\ 1 .. (1 - 1) = {} /\ 1 .. (2 - 1) = {1} /\ 1 .. (3 - 1) = {1, 2}
      /\ 1 .. (4 - 1) = {1, 2, 3} /\ 1 .. (5 - 1) = {1, 2, 3, 4}
  OBVIOUS
<1> HIDE DEF a, b
<1>3. /\ At(1) <=> a[1] < b[1]
      /\ At(2) <=> a[2] < b[2] /\ a[1] = b[1]
      /\ At(3) <=> a[3] < b[3] /\ a[1] = b[1] /\ a[2] = b[2]
      /\ At(4) <=> a[4] < b[4] /\ a[1] = b[1] /\ a[2] = b[2] /\ a[3] = b[3]
      /\ At(5) <=> /\ a[5] < b[5] /\ a[1] = b[1] /\ a[2] = b[2]
                   /\ a[3] = b[3] /\ a[4] = b[4]
  BY <1>2
<1> HIDE DEF At
<1>4. (\E i \in 1 .. 5 : At(i)) <=> At(1) \/ At(2) \/ At(3) \/ At(4) \/ At(5)
  BY <1>2
<1> QED
  BY <1>1, <1>3, <1>4 DEF Lexicographic, a, b

(* Two rows are never tied: the ids break every tie.                       *)
LEMMA PrecedesTotal ==
    ASSUME TypeOK, NEW s \in Situations, NEW r \in Situations, s # r
    PROVE  Precedes(s, r) \/ Precedes(r, s)
<1>1. IdOf[s] # IdOf[r]
  BY StoreAssumption
<1> QED
  BY <1>1, OrderKeyType, PrecedesLexicographic DEF Lexicographic

(* A row does not precede itself, and the order is transitive.             *)
LEMMA PrecedesOrder ==
    ASSUME TypeOK, NEW s \in Situations, NEW r \in Situations,
           NEW q \in Situations
    PROVE  /\ ~Precedes(s, s)
           /\ Precedes(q, s) /\ Precedes(s, r) => Precedes(q, r)
<1>1. ~Precedes(s, s)
  BY OrderKeyType, PrecedesLexicographic DEF Lexicographic
<1>2. Precedes(q, s) /\ Precedes(s, r) => Precedes(q, r)
  BY OrderKeyType, PrecedesLexicographic DEF Lexicographic
<1> QED
  BY <1>1, <1>2

(* The rows that the loop inserted before s.                               *)
Earlier(leased, s) == {r \in leased : Noncritical(r) /\ Precedes(r, s)}

(* The delivery log is finite.                                             *)
LogFinite == IsFiniteSet(deliveries)

(* A confirmation adds finitely many deliveries.                           *)
LEMMA FiniteLog == Spec => []LogFinite
<1>1. Init => LogFinite
  BY FS_EmptySet DEF Init, LogFinite
<1>2. TypeOK /\ LogFinite /\ [Next]_vars => LogFinite'
  <2> SUFFICES ASSUME TypeOK, LogFinite, [Next]_vars PROVE LogFinite'
    OBVIOUS
  <2>1. ASSUME NEW token \in Tokens, ConfirmDelivery(token) PROVE LogFinite'
    <3> DEFINE lease == LeaseOf(Unexpired(now), token)
    <3>1. IsFiniteSet(lease)
      BY StoreAssumption, FS_Subset DEF LeaseOf
    <3>2. [s \in lease |-> DeliveryOf(s)]
            \in Surjection(lease, {DeliveryOf(s) : s \in lease})
      BY DEF Surjection
    <3>3. IsFiniteSet({DeliveryOf(s) : s \in lease})
      BY <3>1, <3>2, FS_Surjection
    <3>4. deliveries' = deliveries \cup {DeliveryOf(s) : s \in lease}
      BY <2>1 DEF ConfirmDelivery
    <3> QED
      BY <3>3, <3>4, FS_Union DEF LogFinite
  <2>2. CASE ~(\E token \in Tokens : ConfirmDelivery(token))
    <3>1. deliveries' = deliveries
      BY <2>2, DetectStep, RespondStep
         DEF Next, Deliver, ReserveForDelivery, Tick, vars
    <3> QED
      BY <3>1 DEF LogFinite
  <2> QED
    BY <2>1, <2>2
<1> QED
  BY <1>1, <1>2, TypeCorrect, PTL DEF Spec

(* What the budget counts is a number.  (the two COUNT subqueries)         *)
LEMMA UsedType ==
    ASSUME LogFinite, NEW t, NEW live
    PROVE  /\ IsFiniteSet(NoncriticalDeliveries(t))
           /\ IsFiniteSet(NoncriticalLeases(t, live))
           /\ Used(t, live) \in Nat
<1>1. IsFiniteSet(NoncriticalDeliveries(t))
  BY FS_Subset DEF LogFinite, NoncriticalDeliveries
<1>2. IsFiniteSet(NoncriticalLeases(t, live))
  BY StoreAssumption, FS_Subset DEF NoncriticalLeases
<1> QED
  BY <1>1, <1>2, FS_CardinalityType DEF Used

(* A noncritical conflict or occasion that a check could lease precedes    *)
(* every reply, so a reply it leases had room after it.  (the delivery     *)
(* order and the budget tests of reserve_for_delivery)                     *)
THEOREM RepliesYieldSlots == Spec => RepliesYield
<1> DEFINE Yield == \A r, s \in Situations :
                      IsReply(r) /\ NewlyLeased(r) /\ ~IsReply(s)
                        => ~Overlooked(s)
<1>1. TypeOK /\ ReplyInv /\ LogFinite /\ [Next]_vars => [Yield]_vars
  <2> SUFFICES ASSUME TypeOK, ReplyInv, LogFinite, [Next]_vars,
                      NEW r \in Situations, NEW s \in Situations,
                      IsReply(r), NewlyLeased(r), ~IsReply(s), Overlooked(s)
               PROVE  FALSE
    OBVIOUS
  <2>1. PICK t \in Nat, token \in Tokens, leased \in SUBSET Candidates :
          /\ t <= now /\ r \in leased
          /\ LeasedBy(leased, t, Unexpired(t))
          /\ \A q \in leased : claims'[q] # NoClaim /\ claims'[q].token = token
    BY NewLease
  <2>2. /\ s \in Candidates /\ ~NewlyLeased(s) /\ claims[s] = NoClaim
        /\ ~HasDelivery(s) /\ ~Lapsed(s, now) /\ TypeOf[s] \notin mutedTypes
    BY DEF Overlooked
  <2>3. s \notin leased
    BY <2>1, <2>2, StoreAssumption DEF NewlyLeased, NoClaim
  <2>4. Noncritical(r)
    BY DEF ReplyInv, OfType, IsReply
  <2>5. /\ ~IsQuietTime(t)
        /\ WithinBudget(r, t, Unexpired(t), Earlier(leased, r))
    BY <2>1, <2>4 DEF LeasedBy, Earlier
  <2>6. Consumable(s, t, Unexpired(t))
    <3>1. ~Lapsed(s, t)
      BY <2>1, <2>2 DEF Lapsed, TypeOK, Row, Null
    <3>2. Unexpired(t)[s] = NoClaim
      BY <2>2, UnexpiredType
    <3>3. CooledDown(s, t)
      BY <2>2 DEF HasDelivery, CooledDown
    <3> QED
      BY <2>2, <3>1, <3>2, <3>3 DEF Consumable
  <2>7. ~WithinBudget(s, t, Unexpired(t), Earlier(leased, s))
    BY <2>1, <2>2, <2>3, <2>5, <2>6 DEF LeasedBy, Earlier, SourceCurrent
  <2>8. Noncritical(s)
    BY <2>7 DEF WithinBudget
  <2>9. Precedes(s, r)
    BY <2>4, <2>8, OrderKeyType, PrecedesLexicographic
       DEF Lexicographic, CriticalRank, ReplyRank, Noncritical
  <2>10. Earlier(leased, s) \subseteq Earlier(leased, r)
    BY <2>9, PrecedesOrder DEF Earlier, Candidates, InState
  <2>11. /\ IsFiniteSet(Earlier(leased, r))
         /\ Cardinality(Earlier(leased, s)) <= Cardinality(Earlier(leased, r))
         /\ Cardinality(Earlier(leased, s)) \in Nat
         /\ Cardinality(Earlier(leased, r)) \in Nat
    <3>1. Earlier(leased, r) \subseteq Situations
      BY DEF Earlier, Candidates, InState
    <3> QED
      BY <2>10, <3>1, StoreAssumption, FS_Subset, FS_CardinalityType
  <2>12. Used(t, Unexpired(t)) + Cardinality(Earlier(leased, r)) < DailyBudget
    BY <2>4, <2>5 DEF WithinBudget
  <2>13. ~(Used(t, Unexpired(t)) + Cardinality(Earlier(leased, s))
             < DailyBudget)
    BY <2>7 DEF WithinBudget
  <2> QED
    BY <2>11, <2>12, <2>13, UsedType, StoreAssumption
<1> QED
  BY <1>1, TypeCorrect, ReplyInvariant, FiniteLog, PTL DEF Spec, RepliesYield

-----------------------------------------------------------------------------
(* The daily budget.  The settled deliveries of a day and the leases of    *)
(* that day that may still settle share its budget: a lease is charged     *)
(* when it is taken, and its confirmation moves the charge.                *)

SettledClaims(day) ==
    {s \in Situations : /\ claims[s] # NoClaim
                        /\ DayOf(claims[s].claimed) = day
                        /\ claims[s].priority # "critical"
                        /\ ~claims[s].repriced}

(* A lease that was not repriced is still on its side of the line.         *)
ClaimPriced(s) ==
    claims[s] # NoClaim /\ ~claims[s].repriced =>
        (rows[s].priority = "critical" <=> claims[s].priority = "critical")

Charge(day) ==
    Cardinality(SettledDeliveries(day)) + Cardinality(SettledClaims(day))

BudgetInv ==
    /\ \A s \in Situations : ClaimPriced(s)
    /\ \A day \in Int : Charge(day) <= DailyBudget

(* The sets that are charged are finite.                                   *)
LEMMA ChargeType ==
    ASSUME LogFinite, NEW day
    PROVE  /\ IsFiniteSet(SettledDeliveries(day))
           /\ IsFiniteSet(SettledClaims(day))
           /\ Cardinality(SettledDeliveries(day)) \in Nat
           /\ Cardinality(SettledClaims(day)) \in Nat
<1>1. IsFiniteSet(SettledDeliveries(day))
  BY FS_Subset DEF LogFinite, SettledDeliveries
<1>2. IsFiniteSet(SettledClaims(day))
  BY StoreAssumption, FS_Subset DEF SettledClaims
<1> QED
  BY <1>1, <1>2, FS_CardinalityType

(* Elements of a finite chain that all have fewer than m predecessors are  *)
(* at most m: the numbers of predecessors differ.                          *)
LEMMA ChainBound ==
    ASSUME TypeOK, NEW N \in SUBSET Situations, NEW m \in Nat,
           \A s \in N : Cardinality({r \in N : Precedes(r, s)}) < m
    PROVE  Cardinality(N) <= m
<1> DEFINE below(s) == {r \in N : Precedes(r, s)}
           f == [s \in N |-> Cardinality(below(s))]
<1>1. IsFiniteSet(N) /\ Cardinality(N) \in Nat
  BY StoreAssumption, FS_Subset, FS_CardinalityType
<1>2. \A s \in N : IsFiniteSet(below(s)) /\ Cardinality(below(s)) \in Nat
  BY <1>1, FS_Subset, FS_CardinalityType
<1>3. f \in [N -> 0 .. (m - 1)]
  BY <1>2
<1>4. IsFiniteSet(0 .. (m - 1)) /\ Cardinality(0 .. (m - 1)) = m
  BY FS_Interval
<1>5. ASSUME NEW s \in N, NEW r \in N, Precedes(s, r)
      PROVE  f[s] # f[r]
  <2>1. below(s) \subseteq below(r) /\ s \in below(r) /\ s \notin below(s)
    BY <1>5, PrecedesOrder
  <2>2. Cardinality(below(r)) # Cardinality(below(s))
    BY <1>2, <2>1, FS_Subset
  <2> QED
    BY <2>2
<1>6. \A s, r \in N : s # r => f[s] # f[r]
  BY <1>5, PrecedesTotal
<1> HIDE DEF f
<1>7. ~(Cardinality(0 .. (m - 1)) < Cardinality(N))
  BY <1>1, <1>3, <1>4, <1>6, FS_PigeonHole
<1> QED
  BY <1>1, <1>4, <1>7

(* What one run of the loop leases noncritically fits in what was left of  *)
(* the budget.  (the loop of reserve_for_delivery)                         *)
LEMMA LoopWithinBudget ==
    ASSUME TypeOK, LogFinite, NEW t, NEW live, NEW leased \in SUBSET Candidates,
           LeasedBy(leased, t, live), NEW N, N = {s \in leased : Noncritical(s)},
           N # {}
    PROVE  Used(t, live) + Cardinality(N) <= DailyBudget
<1> DEFINE before(s) == Cardinality({r \in N : Precedes(r, s)})
           m == DailyBudget - Used(t, live)
<1>1. N \in SUBSET Situations
  BY DEF Candidates, InState
<1>2. ASSUME NEW s \in N PROVE Used(t, live) + before(s) < DailyBudget
  <2>1. {r \in N : Precedes(r, s)}
          = {r \in leased : Noncritical(r) /\ Precedes(r, s)}
    OBVIOUS
  <2>2. WithinBudget(s, t, live, {r \in N : Precedes(r, s)}) /\ Noncritical(s)
    BY <2>1 DEF LeasedBy
  <2> QED
    BY <2>2 DEF WithinBudget
<1>3. Used(t, live) \in Nat /\ DailyBudget \in Nat
  BY UsedType, StoreAssumption
<1>4. IsFiniteSet(N) /\ Cardinality(N) \in Nat
  BY <1>1, StoreAssumption, FS_Subset, FS_CardinalityType
<1>5. \A s \in N : before(s) \in Nat
  BY <1>4, FS_Subset, FS_CardinalityType
<1> HIDE DEF before
<1>6. m \in Nat /\ \A s \in N : before(s) < m
  BY <1>2, <1>3, <1>5
<1> HIDE DEF m
<1>7. Cardinality(N) <= m
  BY <1>1, <1>6, ChainBound DEF before
<1> QED
  BY <1>3, <1>4, <1>7 DEF m

(* A detection may take a lease out of the charge by repricing it, never   *)
(* put one in.  (upsert_batch)                                             *)
LEMMA DetectBudget == TypeOK /\ BudgetInv /\ LogFinite /\ Detect => BudgetInv'
<1> SUFFICES ASSUME TypeOK, BudgetInv, LogFinite, Detect PROVE BudgetInv'
  OBVIOUS
<1>1. ASSUME NEW snapshot, NEW scope, NEW n, ApplyDetections(snapshot, scope, n),
             NEW s \in Situations
      PROVE  \/ /\ claims'[s] = claims[s]
                /\ claims[s] # NoClaim =>
                     (rows'[s].priority = "critical"
                        <=> rows[s].priority = "critical")
             \/ claims[s] # NoClaim /\ claims'[s].repriced
  <2>1. claims[s] \in Claim \cup {NoClaim}
    BY DEF TypeOK
  <2>2. claims[s] # NoClaim => [claims[s] EXCEPT !.repriced = TRUE].repriced
    BY <2>1 DEF Claim
  <2> QED
    BY <1>1, <2>2 DEF ApplyDetections, ClaimsRepriced
<1>2. ASSUME NEW s \in Situations
      PROVE  \/ /\ claims'[s] = claims[s]
                /\ claims[s] # NoClaim =>
                     (rows'[s].priority = "critical"
                        <=> rows[s].priority = "critical")
             \/ claims[s] # NoClaim /\ claims'[s].repriced
  <2>1. rows[s] \in Row
    BY DEF TypeOK
  <2>2. ASSUME NEW c \in Sources, NEW n \in 1 .. MaxGeneration,
               NEW status \in {"complete", "degraded"},
               ApplySourceGeneration(c, n, status)
        PROVE  \E snapshot, scope : ApplyDetections(snapshot, scope, n)
    BY <2>2 DEF ApplySourceGeneration
  <2>3. ASSUME ApplyLocalDetections
        PROVE  \E snapshot, scope : ApplyDetections(snapshot, scope, 0)
    BY <2>3 DEF ApplyLocalDetections
  <2>4. CASE \/ \E c \in Sources : ReserveGeneration(c)
             \/ WakeSnoozed \/ ExpireLapsed
    BY <2>1, <2>4 DEF ReserveGeneration, WakeSnoozed, ExpireLapsed, Row
  <2> QED
    BY <1>1, <2>2, <2>3, <2>4 DEF Detect
<1>3. \A s \in Situations : ClaimPriced(s)'
  BY <1>2 DEF BudgetInv, ClaimPriced
<1>4. ASSUME NEW day \in Int PROVE Charge(day)' <= DailyBudget
  <2>1. SettledClaims(day)' \subseteq SettledClaims(day)
    BY <1>2 DEF SettledClaims
  <2>2. SettledDeliveries(day)' = SettledDeliveries(day)
    BY DetectStep DEF SettledDeliveries
  <2>3. /\ Cardinality(SettledClaims(day)') <= Cardinality(SettledClaims(day))
        /\ Cardinality(SettledClaims(day)') \in Nat
    BY <2>1, ChargeType, FS_Subset, FS_CardinalityType
  <2>4. Charge(day) <= DailyBudget
    BY DEF BudgetInv
  <2> QED
    BY <2>2, <2>3, <2>4, ChargeType, StoreAssumption DEF Charge
<1> QED
  BY <1>3, <1>4 DEF BudgetInv

(* A check charges what it leases to the day of its stamp, where the loop  *)
(* found room for it.  (reserve_for_delivery)                              *)
LEMMA ReserveBudget ==
    ASSUME TypeOK, BudgetInv, LogFinite, NEW t \in 0 .. MaxTime,
           NEW token \in Tokens, ReserveForDelivery(t, token)
    PROVE  BudgetInv'
<1> DEFINE live == Unexpired(t)
<1>1. UNCHANGED <<rows, deliveries>>
  BY DEF ReserveForDelivery
<1>2. PICK leased \in SUBSET Candidates :
        /\ LeasedBy(leased, t, live)
        /\ claims' = [s \in Situations |->
                        IF s \in leased
                        THEN [token |-> token, claimed |-> t,
                              expires |-> t + LeaseLength,
                              priority |-> rows[s].priority,
                              repriced |-> FALSE]
                        ELSE live[s]]
  BY DEF ReserveForDelivery
<1> DEFINE N == {s \in leased : Noncritical(s)}
<1>3. \A s \in leased : /\ s \in Situations
                        /\ claims'[s].claimed = t
                        /\ claims'[s].priority = rows[s].priority
                        /\ claims'[s].repriced = FALSE
  BY <1>2 DEF Candidates, InState
<1>4. \A s \in Situations \ leased :
        claims'[s] = live[s] /\ live[s] \in {claims[s], NoClaim}
  BY <1>2, UnexpiredType
<1>5. \A s \in Situations : ClaimPriced(s)'
  BY <1>1, <1>3, <1>4 DEF BudgetInv, ClaimPriced
<1>6. ASSUME NEW day \in Int PROVE Charge(day)' <= DailyBudget
  <2> DEFINE settled == SettledDeliveries(day)
             after == SettledClaims(day)'
  <2>1. SettledDeliveries(day)' = settled
    BY <1>1 DEF SettledDeliveries
  <2>2. Charge(day) <= DailyBudget
    BY DEF BudgetInv
  <2>3. IsFiniteSet(after) /\ Cardinality(after) \in Nat
    BY StoreAssumption, FS_Subset, FS_CardinalityType DEF SettledClaims
  <2>4. CASE day # DayOf(t) \/ N = {}
    <3>1. after \subseteq SettledClaims(day)
      BY <1>3, <1>4, <2>4 DEF SettledClaims, Noncritical
    <3>2. Cardinality(after) <= Cardinality(SettledClaims(day))
      BY <3>1, ChargeType, FS_Subset
    <3> QED
      BY <2>1, <2>2, <2>3, <3>2, ChargeType, StoreAssumption DEF Charge
  <2>5. CASE day = DayOf(t) /\ N # {}
    <3>1. settled \subseteq NoncriticalDeliveries(t)
      BY <2>5 DEF SettledDeliveries, NoncriticalDeliveries
    <3>2. after \subseteq NoncriticalLeases(t, live) \cup N
      <4> SUFFICES ASSUME NEW s \in after, s \notin leased
                   PROVE  s \in NoncriticalLeases(t, live)
        BY <1>3 DEF SettledClaims, Noncritical
      <4>1. /\ s \in Situations /\ live[s] # NoClaim /\ live[s] = claims[s]
            /\ DayOf(live[s].claimed) = day /\ claims[s].priority # "critical"
            /\ ~claims[s].repriced
        BY <1>4 DEF SettledClaims
      <4>2. Noncritical(s)
        BY <4>1 DEF BudgetInv, ClaimPriced, Noncritical
      <4> QED
        BY <2>5, <4>1, <4>2 DEF NoncriticalLeases
    <3>3. IsFiniteSet(N) /\ Cardinality(N) \in Nat
      BY <1>3, StoreAssumption, FS_Subset, FS_CardinalityType
    <3>4. /\ IsFiniteSet(NoncriticalLeases(t, live))
          /\ IsFiniteSet(NoncriticalDeliveries(t))
          /\ Cardinality(NoncriticalLeases(t, live)) \in Nat
          /\ Cardinality(NoncriticalDeliveries(t)) \in Nat
      BY UsedType, FS_CardinalityType
    <3>5. Cardinality(settled) <= Cardinality(NoncriticalDeliveries(t))
      BY <3>1, <3>4, FS_Subset
    <3>6. Cardinality(after)
            <= Cardinality(NoncriticalLeases(t, live)) + Cardinality(N)
      <4> DEFINE both == NoncriticalLeases(t, live) \cup N
                 shared == NoncriticalLeases(t, live) \cap N
      <4>1. /\ IsFiniteSet(both)
            /\ Cardinality(both) = Cardinality(NoncriticalLeases(t, live))
                                     + Cardinality(N) - Cardinality(shared)
        BY <3>3, <3>4, FS_Union
      <4>2. Cardinality(shared) \in Nat
        BY <3>3, FS_Subset, FS_CardinalityType
      <4>3. Cardinality(after) <= Cardinality(both)
        BY <3>2, <4>1, FS_Subset
      <4> HIDE DEF both, shared, N, after
      <4> QED
        BY <2>3, <3>3, <3>4, <4>1, <4>2, <4>3
    <3>7. Used(t, live) + Cardinality(N) <= DailyBudget
      BY <1>2, <2>5, LoopWithinBudget
    <3>8. Cardinality(settled) \in Nat
      BY ChargeType
    <3>9. Charge(day)' = Cardinality(settled) + Cardinality(after)
      BY <2>1 DEF Charge
    <3> HIDE DEF N, after, settled, live
    <3> QED
      BY <2>3, <3>3, <3>4, <3>5, <3>6, <3>7, <3>8, <3>9, StoreAssumption
         DEF Used
  <2> QED
    BY <2>4, <2>5
<1> QED
  BY <1>5, <1>6 DEF BudgetInv

(* A confirmation moves a lease's charge to its delivery.                  *)
(* (confirm_delivery)                                                      *)
LEMMA ConfirmBudget ==
    ASSUME TypeOK, BudgetInv, LogFinite, NEW token \in Tokens,
           ConfirmDelivery(token)
    PROVE  BudgetInv'
<1> DEFINE live == Unexpired(now)
           lease == LeaseOf(live, token)
<1>1. /\ deliveries' = deliveries \cup {DeliveryOf(s) : s \in lease}
      /\ \A s \in lease : s \in Situations
      /\ \A s \in Situations : claims'[s] = IF s \in lease THEN NoClaim
                                                            ELSE live[s]
  BY DEF ConfirmDelivery, LeaseOf
<1>2. \A s \in Situations : live[s] \in {claims[s], NoClaim}
  BY UnexpiredType
<1>3. \A s \in lease : claims[s] # NoClaim
  BY <1>1, <1>2, StoreAssumption DEF LeaseOf, NoClaim
<1>4. \A s \in Situations \ lease : rows'[s] = rows[s]
  BY DEF ConfirmDelivery
<1>5. \A s \in Situations : ClaimPriced(s)'
  BY <1>1, <1>2, <1>4 DEF BudgetInv, ClaimPriced
<1>6. ASSUME NEW day \in Int PROVE Charge(day)' <= DailyBudget
  <2> DEFINE moved == {s \in lease : /\ DayOf(now) = day
                                     /\ DayOf(claims[s].claimed) = day
                                     /\ rows[s].priority # "critical"
                                     /\ ~claims[s].repriced}
             new == {DeliveryOf(s) : s \in moved}
             after == SettledClaims(day)'
  <2>1. SettledDeliveries(day)' = SettledDeliveries(day) \cup new
    <3>1. \A s \in lease : DeliveryOf(s) \in SettledDeliveries(day)' <=> s \in moved
      BY <1>1 DEF SettledDeliveries, DeliveryOf
    <3> QED
      BY <1>1, <3>1 DEF SettledDeliveries
  <2>2. moved \subseteq SettledClaims(day)
    BY <1>1, <1>3 DEF SettledClaims, BudgetInv, ClaimPriced
  <2>3. after \subseteq SettledClaims(day) \ moved
    BY <1>1, <1>2 DEF SettledClaims
  <2>4. IsFiniteSet(moved) /\ Cardinality(moved) \in Nat
    BY <2>2, ChargeType, FS_Subset, FS_CardinalityType
  <2>5. IsFiniteSet(new) /\ Cardinality(new) <= Cardinality(moved)
          /\ Cardinality(new) \in Nat
    <3>1. [s \in moved |-> DeliveryOf(s)] \in Surjection(moved, new)
      BY DEF Surjection
    <3> HIDE DEF new, moved
    <3> QED
      BY <2>4, <3>1, FS_Surjection, FS_CardinalityType
  <2>6. Cardinality(SettledDeliveries(day)')
          <= Cardinality(SettledDeliveries(day)) + Cardinality(new)
          /\ Cardinality(SettledDeliveries(day)') \in Nat
    <3> HIDE DEF new
    <3>1. /\ IsFiniteSet(SettledDeliveries(day) \cup new)
          /\ Cardinality(SettledDeliveries(day) \cup new)
               = Cardinality(SettledDeliveries(day)) + Cardinality(new)
                   - Cardinality(SettledDeliveries(day) \cap new)
      BY <2>5, ChargeType, FS_Union
    <3>2. Cardinality(SettledDeliveries(day) \cap new) \in Nat
      BY <2>5, FS_Intersection, FS_CardinalityType
    <3>3. Cardinality(SettledDeliveries(day) \cup new) \in Nat
      BY <3>1, FS_CardinalityType
    <3> QED
      BY <2>1, <2>5, <3>1, <3>2, <3>3, ChargeType
  <2>7. /\ Cardinality(after) <= Cardinality(SettledClaims(day))
                                   - Cardinality(moved)
        /\ Cardinality(after) \in Nat
    <3> HIDE DEF moved, after
    <3>1. SettledClaims(day) \cap moved = moved
      BY <2>2
    <3>2. /\ IsFiniteSet(SettledClaims(day) \ moved)
          /\ Cardinality(SettledClaims(day) \ moved)
               = Cardinality(SettledClaims(day)) - Cardinality(moved)
      BY <3>1, ChargeType, FS_Difference
    <3> QED
      BY <2>3, <3>2, FS_Subset, FS_CardinalityType
  <2>8. Charge(day) <= DailyBudget
    BY DEF BudgetInv
  <2>9. Charge(day)' = Cardinality(SettledDeliveries(day)') + Cardinality(after)
    BY DEF Charge
  <2> HIDE DEF new, moved, after
  <2> QED
    BY <2>4, <2>5, <2>6, <2>7, <2>8, <2>9, ChargeType, StoreAssumption
       DEF Charge
<1> QED
  BY <1>5, <1>6 DEF BudgetInv

(* For every budget, day length and schedule of concurrent checks and      *)
(* confirmations with old stamps: the settled noncritical deliveries of a  *)
(* local day stay within its budget.                                       *)
THEOREM BudgetSafe == Spec => []BudgetHonoured
<1>1. Init => BudgetInv
  <2> SUFFICES ASSUME Init PROVE BudgetInv
    OBVIOUS
  <2>1. \A day \in Int : SettledDeliveries(day) = {} /\ SettledClaims(day) = {}
    <3>1. deliveries = {} /\ \A s \in Situations : claims[s] = NoClaim
      BY DEF Init
    <3> QED
      BY <3>1 DEF SettledDeliveries, SettledClaims
  <2>2. \A s \in Situations : ClaimPriced(s)
    BY DEF Init, ClaimPriced
  <2>3. \A day \in Int : Charge(day) = 0
    BY <2>1, FS_EmptySet DEF Charge
  <2> QED
    BY <2>2, <2>3, StoreAssumption DEF BudgetInv
<1>2. TypeOK /\ LogFinite /\ BudgetInv /\ [Next]_vars => BudgetInv'
  <2> SUFFICES ASSUME TypeOK, LogFinite, BudgetInv, [Next]_vars
               PROVE  BudgetInv'
    OBVIOUS
  <2>1. CASE Deliver
    BY <2>1, ReserveBudget, ConfirmBudget DEF Deliver
  <2>2. CASE Respond \/ Tick \/ UNCHANGED vars
    <3>1. UNCHANGED <<claims, deliveries>>
            /\ \A s \in Situations : rows'[s].priority = rows[s].priority
      BY <2>2, RespondStep, RespondPriority DEF Tick, vars
    <3> QED
      BY <3>1 DEF BudgetInv, ClaimPriced, Charge, SettledDeliveries,
                  SettledClaims
  <2> QED
    BY <2>1, <2>2, DetectBudget DEF Next
<1>3. LogFinite /\ BudgetInv => BudgetHonoured
  <2> SUFFICES ASSUME LogFinite, BudgetInv, NEW day \in 0 .. DayOf(now)
               PROVE  Cardinality(SettledDeliveries(day)) <= DailyBudget
    BY DEF BudgetHonoured
  <2>1. Charge(day) <= DailyBudget
    BY DEF BudgetInv
  <2> QED
    BY <2>1, ChargeType, StoreAssumption DEF Charge
<1> QED
  BY <1>1, <1>2, <1>3, TypeCorrect, FiniteLog, PTL DEF Spec

-----------------------------------------------------------------------------
(* How the outcome of one token moves.                                     *)

(* A token whose promise, receipt and claimed situations are left alone    *)
(* keeps its outcome.                                                      *)
LEMMA SameOutcome ==
    ASSUME NEW k \in Tokens, shown'[k] = shown[k], receipts'[k] = receipts[k],
           LeaseOf(claims, k)' = LeaseOf(claims, k)
    PROVE  OutcomeOf(k)' = OutcomeOf(k)
BY DEF OutcomeOf

(* A sweep leaves a token's outcome alone, or lets it lapse after its end; *)
(* while it stays open its situations stay claimed.                        *)
(* (DeliveryReceipts.expire)                                               *)
LEMMA SweptOutcome ==
    ASSUME TypeOK, LeasesInv, NEW t \in Nat, t <= now, NEW k \in Tokens,
           shown'[k] = shown[k], receipts'[k] = receipts[k],
           LeaseOf(claims, k)' = LeaseOf(Unexpired(t), k)
    PROVE  \/ /\ OutcomeOf(k)' = OutcomeOf(k)
              /\ OutcomeOf(k) = "open" =>
                   \A s \in shown[k].situations : Unexpired(t)[s] # NoClaim
           \/ /\ OutcomeOf(k)' = "lapsed" /\ OutcomeOf(k) = "open"
              /\ shown[k].until <= now
<1>1. /\ LeaseInv(k) /\ now \in Nat /\ shown[k].until \in Nat
      /\ shown[k].situations \subseteq Situations
  BY DEF LeasesInv, TypeOK, Lease
<1>2. CASE OutcomeOf(k) # "open"
  <2>1. \/ shown[k] = NoLease \/ receipts[k] # 0
        \/ LeaseOf(claims, k) = {}
    BY <1>2 DEF OutcomeOf
  <2>2. LeaseOf(Unexpired(t), k) \subseteq LeaseOf(claims, k)
    BY SweepKeepsLease DEF LeaseOf, Claims
  <2> QED
    BY <1>2, <2>1, <2>2 DEF OutcomeOf
<1>3. CASE OutcomeOf(k) = "open" /\ LeaseOf(Unexpired(t), k) = {}
  <2>1. shown[k] # NoLease /\ receipts[k] = 0 /\ LeaseOf(claims, k) # {}
    BY <1>3 DEF OutcomeOf
  <2>2. OutcomeOf(k)' = "lapsed"
    BY <1>3, <2>1 DEF OutcomeOf
  <2>3. PICK s \in Situations : Claims(s, k)
    BY <2>1 DEF LeaseOf, Claims
  <2>4. claims[s].expires = shown[k].until
    BY <1>1, <2>3 DEF LeaseInv
  <2>5. Unexpired(t)[s] # claims[s]
    BY <1>3, <2>3 DEF LeaseOf, Claims
  <2>6. claims[s].expires <= t
    BY <2>5 DEF Unexpired
  <2> QED
    BY <1>1, <1>3, <2>2, <2>4, <2>6
<1>4. CASE OutcomeOf(k) = "open" /\ LeaseOf(Unexpired(t), k) # {}
  <2>1. shown[k] # NoLease /\ receipts[k] = 0 /\ LeaseOf(claims, k) # {}
    BY <1>4 DEF OutcomeOf
  <2>2. OutcomeOf(k)' = "open"
    BY <1>4, <2>1 DEF OutcomeOf
  <2>3. \A s \in shown[k].situations :
          Unexpired(t)[s] = claims[s] /\ Claims(s, k)
    BY <1>4, SweepKeepsLease DEF LeaseOf
  <2>4. \A s \in shown[k].situations : Unexpired(t)[s] # NoClaim
    BY <2>3, StoreAssumption DEF Claims, NoClaim
  <2> QED
    BY <1>4, <2>2, <2>4
<1> QED
  BY <1>2, <1>3, <1>4

-----------------------------------------------------------------------------
(* Each step of the store is a step of the contract, or none.              *)

Delivered == {<<d.situation, d.token>> : d \in deliveries}
Outcomes == [k \in Tokens |-> OutcomeOf(k)]
(* The tokens that a step finds over.                                      *)
Lapsing == {k \in Tokens : OutcomeOf(k) = "open" /\ OutcomeOf(k)' = "lapsed"}

(* A check that leases nothing lets the tokens lapse that it swept; one    *)
(* that leases offers situations that no open token holds.                 *)
(* (reserve_for_delivery)                                                  *)
LEMMA ReserveOffers ==
    ASSUME TypeOK, LeasesInv, NEW t \in 0 .. MaxTime, NEW token \in Tokens,
           ReserveForDelivery(t, token)
    PROVE  Contract!Next
<1>1. /\ UNCHANGED <<now, receipts, deliveries>>
      /\ t \in Nat /\ t <= now /\ shown[token] = NoLease
  BY DEF ReserveForDelivery
<1>2. PICK leased \in SUBSET Candidates :
        /\ LeasedBy(leased, t, Unexpired(t))
        /\ shown' = IF leased = {} THEN shown
                    ELSE [shown EXCEPT ![token] =
                            [situations |-> leased,
                             until |-> t + LeaseLength]]
        /\ claims' = [s \in Situations |->
                        IF s \in leased
                        THEN [token |-> token, claimed |-> t,
                              expires |-> t + LeaseLength,
                              priority |-> rows[s].priority,
                              repriced |-> FALSE]
                        ELSE Unexpired(t)[s]]
  BY DEF ReserveForDelivery
<1>3. \A s \in leased : s \in Situations /\ Unexpired(t)[s] = NoClaim
  BY <1>2 DEF LeasedBy, Consumable, Candidates, InState
<1>4. OutcomeOf(token) = "unused"
  BY <1>1 DEF OutcomeOf
<1>5. ASSUME NEW k \in Tokens, k # token \/ leased = {}
      PROVE  \/ /\ OutcomeOf(k)' = OutcomeOf(k)
                /\ OutcomeOf(k) = "open" =>
                     \A s \in shown[k].situations : Unexpired(t)[s] # NoClaim
             \/ /\ OutcomeOf(k)' = "lapsed" /\ OutcomeOf(k) = "open"
                /\ shown[k].until <= now
  <2>1. shown'[k] = shown[k] /\ receipts'[k] = receipts[k]
    BY <1>1, <1>2, <1>5 DEF TypeOK
  <2>2. \A s \in Situations : claims'[s].token = k <=> Unexpired(t)[s].token = k
    BY <1>2, <1>3, <1>5, StoreAssumption DEF NoClaim
  <2>3. LeaseOf(claims, k)' = LeaseOf(Unexpired(t), k)
    BY <2>2 DEF LeaseOf
  <2> QED
    BY <1>1, <2>1, <2>3, SweptOutcome
<1>6. \A k \in Lapsing : OutcomeOf(k) = "open" /\ shown[k].until <= now
  BY <1>1, <1>2, <1>4, <1>5 DEF Lapsing
<1>7. Lapsing \in SUBSET Contract!MayLapse
  BY <1>6 DEF Lapsing, Contract!MayLapse, Contract!With
<1>8. Delivered' = Delivered
  BY <1>1 DEF Delivered
<1>9. CASE leased = {}
  <2>1. \A k \in Tokens :
          OutcomeOf(k)' = IF k \in Lapsing THEN "lapsed" ELSE OutcomeOf(k)
    BY <1>5, <1>9 DEF Lapsing
  <2>2. shown' = shown
    BY <1>2, <1>9
  <2>3. Contract!Lapse(Lapsing)
    BY <1>1, <1>8, <2>1, <2>2
       DEF Contract!Lapse, Contract!Settled, Delivered
  <2> QED
    BY <1>7, <2>3 DEF Contract!Next
<1>10. CASE leased # {}
  <2> DEFINE until == t + LeaseLength
             promise == [situations |-> leased, until |-> until]
  <2>1. shown' = [shown EXCEPT ![token] = promise]
    BY <1>2, <1>10
  <2>2. OutcomeOf(token)' = "open"
    <3>1. shown'[token] # NoLease
      BY <1>10, <2>1 DEF TypeOK, NoLease
    <3>2. receipts'[token] = 0
      BY <1>1, FreshToken
    <3>3. LeaseOf(claims, token)' # {}
      BY <1>2, <1>3, <1>10 DEF LeaseOf
    <3> QED
      BY <3>1, <3>2, <3>3 DEF OutcomeOf
  <2>3. \A k \in Tokens :
          OutcomeOf(k)' = IF k = token THEN "open"
                          ELSE IF k \in Lapsing THEN "lapsed"
                          ELSE OutcomeOf(k)
    BY <1>5, <2>2 DEF Lapsing
  <2>4. \A j \in Contract!With("open") \ Lapsing :
          shown[j].situations \cap promise.situations = {}
    <3> SUFFICES ASSUME NEW j \in Tokens, OutcomeOf(j) = "open", j \notin Lapsing
                 PROVE  shown[j].situations \cap leased = {}
      BY DEF Contract!With
    <3>1. \A s \in shown[j].situations : Unexpired(t)[s] # NoClaim
      BY <1>4, <1>5 DEF Lapsing
    <3> QED
      BY <1>3, <3>1
  <2>5. leased \in SUBSET Situations /\ until \in 0 .. MaxTime + LeaseLength
    BY <1>3, StoreAssumption
  <2>6. Contract!Offer(token, promise, Lapsing)
    BY <1>1, <1>4, <1>8, <1>10, <2>1, <2>3, <2>4
       DEF Contract!Offer, Contract!Settled, Delivered
  <2> QED
    BY <1>7, <2>5, <2>6 DEF Contract!Next
<1> QED
  BY <1>9, <1>10

(* A confirmation delivers the whole offer before its end, and lets lapse  *)
(* what its sweep found over.  (confirm_delivery)                          *)
LEMMA ConfirmDelivers ==
    ASSUME TypeOK, LeasesInv, NEW token \in Tokens, ConfirmDelivery(token)
    PROVE  Contract!Next
<1> DEFINE live == Unexpired(now)
           lease == LeaseOf(live, token)
<1>1. /\ UNCHANGED <<now, shown>> /\ now \in Nat
      /\ receipts[token] = 0 /\ lease # {} /\ lease \subseteq Situations
      /\ deliveries' = deliveries \cup {DeliveryOf(s) : s \in lease}
      /\ \A s \in Situations : claims'[s] = IF s \in lease THEN NoClaim
                                                            ELSE live[s]
      /\ receipts' = [receipts EXCEPT ![token] = Cardinality(lease)]
  BY DEF ConfirmDelivery, TypeOK, LeaseOf
<1>2. /\ \A s \in lease : Claims(s, token) /\ live[s] = claims[s]
      /\ lease \subseteq shown[token].situations
  BY <1>1, SweepKeepsLease DEF LeaseOf, LeasesInv, LeaseInv
<1>3. shown[token].situations \subseteq lease
  BY <1>1, SweepKeepsLease DEF LeaseOf, Claims, TypeOK, Lease
<1>4. lease = shown[token].situations
  BY <1>2, <1>3
<1>5. shown[token].until > now
  <2>1. PICK s \in lease : claims[s].token = token /\ live[s] = claims[s]
    BY <1>1, <1>2 DEF Claims
  <2>2. claims[s].expires = shown[token].until /\ claims[s] # NoClaim
    BY <1>1, <2>1, StoreAssumption DEF LeasesInv, LeaseInv, Claims, NoClaim
  <2>3. ~(claims[s].expires <= now)
    BY <1>1, <2>1, <2>2 DEF Unexpired
  <2> QED
    BY <1>1, <2>2, <2>3 DEF TypeOK, Lease
<1>6. shown[token] # NoLease
  BY <1>1, <1>4 DEF NoLease
<1>7. OutcomeOf(token) = "open"
  <2>1. LeaseOf(claims, token) # {}
    BY <1>1, <1>2 DEF LeaseOf, Claims
  <2> QED
    BY <1>1, <1>6, <2>1 DEF OutcomeOf
<1>8. OutcomeOf(token)' = "delivered"
  <2>1. receipts'[token] # 0
    BY <1>1, StoreAssumption, FS_Subset, FS_EmptySet DEF TypeOK
  <2> QED
    BY <1>1, <1>6, <2>1 DEF OutcomeOf
<1>9. ASSUME NEW k \in Tokens, k # token
      PROVE  \/ OutcomeOf(k)' = OutcomeOf(k)
             \/ /\ OutcomeOf(k)' = "lapsed" /\ OutcomeOf(k) = "open"
                /\ shown[k].until <= now
  <2>1. shown'[k] = shown[k] /\ receipts'[k] = receipts[k]
    BY <1>1, <1>9 DEF TypeOK
  <2>2. \A s \in Situations : claims'[s].token = k <=> live[s].token = k
    BY <1>1, <1>2, <1>9, StoreAssumption DEF NoClaim, LeaseOf
  <2>3. LeaseOf(claims, k)' = LeaseOf(live, k)
    BY <2>2 DEF LeaseOf
  <2>4. now <= now
    BY <1>1
  <2> QED
    BY <1>1, <2>1, <2>3, <2>4, SweptOutcome
<1>10. Lapsing \in SUBSET Contract!MayLapse
  BY <1>8, <1>9 DEF Lapsing, Contract!MayLapse, Contract!With
<1>11. \A k \in Tokens :
         OutcomeOf(k)' = IF k = token THEN "delivered"
                         ELSE IF k \in Lapsing THEN "lapsed" ELSE OutcomeOf(k)
  BY <1>8, <1>9 DEF Lapsing
<1>12. Delivered' = Delivered \cup (shown[token].situations \X {token})
  <2>1. \A s \in lease :
          DeliveryOf(s).situation = s /\ DeliveryOf(s).token = token
    BY <1>2 DEF DeliveryOf, Claims
  <2>2. {<<d.situation, d.token>> : d \in {DeliveryOf(s) : s \in lease}}
          = lease \X {token}
    BY <2>1
  <2>3. Delivered' = Delivered \cup
          {<<d.situation, d.token>> : d \in {DeliveryOf(s) : s \in lease}}
    BY <1>1 DEF Delivered
  <2> QED
    BY <1>4, <2>2, <2>3
<1>13. Contract!Deliver(token, Lapsing)
  BY <1>1, <1>5, <1>7, <1>11, <1>12
     DEF Contract!Deliver, Contract!Settled, Delivered
<1>14. \E lapsing \in SUBSET Contract!MayLapse :
         \E k \in Tokens : Contract!Deliver(k, lapsing)
  BY <1>10, <1>13 DEF Contract!Deliver
<1> QED
  BY <1>14 DEF Contract!Next

(* What the detectors and the user's answers do is no step of the          *)
(* contract.  (upsert_batch, resolve, wake_snoozed, expire_lapsed, the     *)
(* answering tools)                                                        *)
LEMMA OthersStutter ==
    ASSUME TypeOK, Detect \/ Respond \/ UNCHANGED vars
    PROVE  UNCHANGED Contract!contractVars
<1>1. /\ UNCHANGED <<now, shown, receipts, deliveries>>
      /\ \A s \in Situations : claims'[s].token = claims[s].token
  <2>1. CASE Detect
    BY <2>1, DetectStep DEF ClaimStep
  <2>2. CASE Respond
    BY <2>2 DEF Respond, AcknowledgeSituation, SnoozeSituation,
                MuteSituation, MuteSituationType, Answer
  <2>3. CASE UNCHANGED vars
    BY <2>3 DEF vars
  <2> QED
    BY <2>1, <2>2, <2>3
<1>2. \A k \in Tokens : OutcomeOf(k)' = OutcomeOf(k)
  BY <1>1, SameOutcome DEF LeaseOf
<1>3. Outcomes' = Outcomes
  BY <1>2 DEF Outcomes
<1> QED
  BY <1>1, <1>3 DEF Contract!contractVars, Outcomes

(* A host's view of its tokens is that of the contract, whatever the       *)
(* number of servers, checks in flight and stamps they work with: the      *)
(* store implements ReceiptContract.                                       *)
THEOREM StoreImplementsContract == Spec => ImplementsReceiptContract
<1>1. Init => Contract!Init
  BY DEF Init, Contract!Init, NoLease, OutcomeOf
<1>2. TypeOK /\ LeasesInv /\ [Next]_vars
        => [Contract!Next]_(Contract!contractVars)
  <2> SUFFICES ASSUME TypeOK, LeasesInv, [Next]_vars
               PROVE  Contract!Next \/ UNCHANGED Contract!contractVars
    OBVIOUS
  <2>1. CASE Tick
    <3>1. /\ now' = now + 1
          /\ UNCHANGED <<claims, receipts, deliveries, shown>>
      BY <2>1 DEF Tick
    <3>2. \A k \in Tokens : OutcomeOf(k)' = OutcomeOf(k)
      BY <3>1, SameOutcome DEF LeaseOf
    <3>3. Contract!TimePasses
      BY <3>1, <3>2 DEF Contract!TimePasses
    <3> QED
      BY <3>3 DEF Contract!Next
  <2>2. CASE Deliver
    BY <2>2, ReserveOffers, ConfirmDelivers DEF Deliver
  <2> QED
    BY <2>1, <2>2, OthersStutter DEF Next
<1> QED
  BY <1>1, <1>2, TypeCorrect, LeasesInvariant, PTL
     DEF Spec, Contract!Spec, ImplementsReceiptContract
=============================================================================
