--------------------------- MODULE SituationStore ---------------------------
(***************************************************************************)
(* The situation store of proactive-mcp: the rows that detectors write,    *)
(* the leases proactive_check takes on them, the receipts that turn a      *)
(* lease into a delivery, and the user's answers.  Every MCP server and    *)
(* the daemon are processes of their own over one SQLite file; each public *)
(* operation is one BEGIN IMMEDIATE ... COMMIT transaction                 *)
(* (store/_sqlite_transaction.py), hence one action here, and the          *)
(* processes' transactions interleave in any order.  A transaction that    *)
(* raises is rolled back: it is a stuttering step and has no action.       *)
(*                                                                         *)
(* Time is a natural number.  An operation stamps its rows with the clock  *)
(* it reads just before BEGIN; proactive_check alone reads the clock, runs *)
(* a whole evaluation (network included) and only then reserves, so its    *)
(* stamp may be old: ReserveForDelivery takes a stamp up to CheckLag old.  *)
(***************************************************************************)
EXTENDS Integers, FiniteSets

CONSTANTS
    Situations,     \* the dedupe keys that can occur
    TypeOf,         \* [Situations -> Types]: a dedupe key determines its type
    IdOf,           \* [Situations -> Nat], injective: order of the row ids
    Tokens,         \* the receipt tokens token_urlsafe may return
    NoToken,        \* a value that is no token
    DailyBudget,    \* attention.daily_budget
    Cooldown,       \* attention.cooldown
    LeaseLength,    \* _DELIVERY_CLAIM_LEASE
    CheckLag,       \* longest evaluation between a check's clock read and lease
    DayLength,      \* length of a local day
    QuietHours,     \* the times of day inside quiet hours
    PageLimit,      \* _MAX_DELIVERY_CANDIDATES
    MaxRows,        \* _MAX_SITUATION_ROWS
    MaxTime,        \* bound: the clock stops here
    MaxGeneration,  \* bound: generations issued per source
    Expiries,       \* bound: the instants a detection's expiry is taken from
    Wakes,          \* bound: the instants a snooze may last until
    Urgencies,      \* bound: the priorities that detections take
    Sizes           \* bound: whether a detection's record may fit, or not

Types == {"reply_deadline", "calendar_conflict", "personal_occasion"}
Priorities == {"critical", "high", "routine"}
States == {"none", "pending", "delivered", "acknowledged", "snoozed", "muted",
           "resolved", "expired"}
Null == -1

ASSUME StoreAssumption ==
    /\ IsFiniteSet(Situations)
    /\ TypeOf \in [Situations -> Types]
    /\ IdOf \in [Situations -> Nat]
    /\ \A s, r \in Situations : IdOf[s] = IdOf[r] => s = r
    /\ NoToken \notin Tokens
    /\ DailyBudget \in Nat /\ Cooldown \in Nat \ {0}
    /\ LeaseLength \in Nat \ {0} /\ CheckLag \in Nat
    /\ DayLength \in Nat \ {0} /\ QuietHours \subseteq Nat
    /\ PageLimit \in Nat /\ MaxRows \in Nat
    /\ MaxTime \in Nat /\ MaxGeneration \in Nat
    /\ Expiries \subseteq Nat /\ Wakes \subseteq Nat
    /\ Urgencies \subseteq Priorities /\ Sizes \subseteq BOOLEAN

VARIABLES
    now,          \* the wall clock
    rows,         \* table situations
    claims,       \* table situation_delivery_claims; situation_id is UNIQUE
    receipts,     \* table confirmed_delivery_receipts: delivered_count, or 0
    deliveries,   \* table situation_deliveries
    mutedTypes,   \* table situation_type_mutes
    generations,  \* table source_detection_generations
    shown,        \* history: what each token was returned with, until when
    snoozedSince, \* history: snoozed since its last delivery
    vouched       \* history: replies the last complete Gmail result spared

vars == <<now, rows, claims, receipts, deliveries, mutedTypes, generations,
          shown, snoozedSince, vouched>>

-----------------------------------------------------------------------------
(* The tables' rows.                                                       *)

Row == [state : States, priority : Priorities, expires : Nat \cup {Null},
        detected : Nat, snoozedUntil : Nat \cup {Null}, exempt : BOOLEAN,
        generation : Nat]

NoRow == [state |-> "none", priority |-> "routine", expires |-> Null,
          detected |-> 0, snoozedUntil |-> Null, exempt |-> FALSE,
          generation |-> 0]

(* priority and repriced are history: the priority at claim time, and      *)
(* whether a refresh moved the row across the critical line since then.    *)
Claim == [token : Tokens, claimed : Nat, expires : Nat,
          priority : Priorities, repriced : BOOLEAN]

NoClaim == [token |-> NoToken, claimed |-> 0, expires |-> 0,
            priority |-> "routine", repriced |-> FALSE]

(* Only situation, at and priority are columns; the other fields are       *)
(* history, copied from the lease that the delivery confirms.              *)
Delivery == [situation : Situations, at : Nat, priority : Priorities,
             token : Tokens, claimed : Nat, claimPriority : Priorities,
             repriced : BOOLEAN, afterSnooze : BOOLEAN]

(* DeliveryReservation: what a check hands its host along with the token.  *)
Lease == [situations : SUBSET Situations, until : Nat]
NoLease == [situations |-> {}, until |-> 0]

Sources == {"gmail", "calendar"}
SourceType == [gmail |-> "reply_deadline", calendar |-> "calendar_conflict"]
OfType(type) == {s \in Situations : TypeOf[s] = type}

Generation == [issued : Nat, applied : Nat,
               status : {"none", "complete", "degraded"}]

TypeOK ==
    /\ now \in Nat
    /\ rows \in [Situations -> Row]
    /\ claims \in [Situations -> Claim \cup {NoClaim}]
    /\ receipts \in [Tokens -> Nat]
    /\ deliveries \subseteq Delivery
    /\ mutedTypes \subseteq Types
    /\ generations \in [Sources -> Generation]
    /\ shown \in [Tokens -> Lease]
    /\ snoozedSince \in [Situations -> BOOLEAN]
    /\ vouched \subseteq Situations

Init ==
    /\ now = 0
    /\ rows = [s \in Situations |-> NoRow]
    /\ claims = [s \in Situations |-> NoClaim]
    /\ receipts = [k \in Tokens |-> 0]
    /\ deliveries = {}
    /\ mutedTypes = {}
    /\ generations =
         [c \in Sources |-> [issued |-> 0, applied |-> 0, status |-> "none"]]
    /\ shown = [k \in Tokens |-> NoLease]
    /\ snoozedSince = [s \in Situations |-> FALSE]
    /\ vouched = {}

-----------------------------------------------------------------------------
(* Helpers on rows, leases and history.                                    *)

DayOf(t) == t \div DayLength
IsQuietTime(t) == (t % DayLength) \in QuietHours

InState(states) == {s \in Situations : rows[s].state \in states}
Lapsed(s, t) == rows[s].expires # Null /\ rows[s].expires <= t
Noncritical(s) == rows[s].priority # "critical"
IsReply(s) == TypeOf[s] = "reply_deadline"

DeliveriesOf(s) == {d \in deliveries : d.situation = s}
(* Mutation: only today's deliveries count.                                *)
HasDeliveryToday(s) == \E d \in DeliveriesOf(s) : DayOf(d.at) = DayOf(now)
HasDelivery(s) == DeliveriesOf(s) # {}

(* Mutation: expired claims stay.                                          *)
UnexpiredEver(t) == claims
(* DeliveryReceipts.expire: the claims that survive a sweep at time t.     *)
Unexpired(t) == [s \in Situations |->
                   IF claims[s] # NoClaim /\ claims[s].expires <= t
                   THEN NoClaim ELSE claims[s]]

-----------------------------------------------------------------------------
(* Detections: upsert, natural resolution, wake and expiry.                *)

(* Only a calendar conflict can be critical, an occasion is always high,   *)
(* and a reply never expires (the three detectors' Detection calls).       *)
PriorityInputs(type) ==
    CASE type = "reply_deadline"    -> Urgencies \ {"critical"}
      [] type = "calendar_conflict" -> Urgencies
      [] OTHER                      -> {"high"}
ExpiryInputs(type) ==
    IF type = "reply_deadline" THEN {Null} ELSE {e \in Expiries : e > now}

(* One batch of detections: a function on the keys that it contains.  fits *)
(* is FALSE for a record over _MAX_SITUATION_RECORD_BYTES.                 *)
Detections(type) ==
    UNION {[present -> [priority : PriorityInputs(type),
                        expires : ExpiryInputs(type), fits : Sizes]] :
             present \in SUBSET OfType(type)}

(* Keys without a row yet; a batch inserts them in its own order until the *)
(* table holds MaxRows rows and skips the rest.                            *)
Fresh(snapshot) ==
    {s \in DOMAIN snapshot : snapshot[s].fits /\ rows[s].state = "none"}
RowCount == Cardinality({s \in Situations : rows[s].state # "none"})
Admissible(snapshot) ==
    {a \in SUBSET Fresh(snapshot) :
        \/ a = Fresh(snapshot) /\ RowCount + Cardinality(a) <= MaxRows
        \/ RowCount + Cardinality(a) = MaxRows}

(* SituationUpserter._upsert_detection for one key the batch contains.     *)
Upserted(s, d, n) ==
    LET row == rows[s]
        refreshed == [row EXCEPT !.priority = d.priority,
                                 !.expires = d.expires,
                                 !.generation = n]
        restarted == [refreshed EXCEPT !.state = "pending",
                                       !.detected = now,
                                       !.snoozedUntil = Null,
                                       !.exempt = FALSE]
        closed == row.state \in {"resolved", "expired"}
        once == TypeOf[s] = "personal_occasion" /\ HasDelivery(s)
    IN  CASE ~d.fits                                         -> row
          [] d.fits /\ row.state = "none"                    -> restarted
          [] d.fits /\ closed /\ ~once                       -> restarted
          [] d.fits /\ row.state \in {"pending", "delivered", "snoozed"}
                                                             -> refreshed
          [] OTHER                                           -> row

(* Mutation: the resolving UPDATE has no state guard.                      *)
ResolvedAnyState(row) ==
    IF row.state = "none" THEN row ELSE [row EXCEPT !.state = "resolved"]
Resolved(row) ==
    IF row.state \in {"pending", "delivered"}
    THEN [row EXCEPT !.state = "resolved"] ELSE row

(* upsert_batch followed by resolve / resolve_by_source_ids, whose scope   *)
(* is the set of keys that this result may resolve when they are absent.   *)
Applied(snapshot, admitted, scope, n) ==
    [s \in Situations |->
        IF s \in DOMAIN snapshot
        THEN IF s \in Fresh(snapshot) \ admitted
             THEN rows[s] ELSE Upserted(s, snapshot[s], n)
        ELSE IF s \in scope
        THEN Resolved(rows[s]) ELSE rows[s]]

(* Mutation: a row that stops being pending drops its claim.               *)
ClaimsFollowRows(newRows) ==
    [s \in Situations |->
        IF newRows[s].state = "pending" THEN claims[s] ELSE NoClaim]
(* The upsert changes rows only: leases outlive a refresh, a resolution    *)
(* and a reactivation.  Only the history field repriced follows the row.   *)
ClaimsRepriced(newRows) ==
    [s \in Situations |->
        IF /\ claims[s] # NoClaim
           /\ (newRows[s].priority = "critical") # (rows[s].priority = "critical")
        THEN [claims[s] EXCEPT !.repriced = TRUE] ELSE claims[s]]

ApplyDetections(snapshot, scope, n) ==
    \E admitted \in Admissible(snapshot) :
        /\ rows' = Applied(snapshot, admitted, scope, n)
        /\ claims' = ClaimsRepriced(rows')

(* SourceGenerationStore.reserve: a generation is issued before the read.  *)
ReserveGeneration(source) ==
    /\ generations[source].issued < MaxGeneration
    /\ generations' = [generations EXCEPT ![source].issued = @ + 1]
    /\ UNCHANGED <<now, rows, claims, receipts, deliveries, mutedTypes, shown,
                   snoozedSince, vouched>>

(* Mutation: any issued generation is accepted, late ones too.             *)
AcceptableAnyIssued(source, n) == n <= generations[source].issued
(* SourceGenerationStore.accept: an issued number above the applied one.   *)
(* Any other raises Delayed- or UnreservedSourceGenerationError.           *)
Acceptable(source, n) ==
    /\ n <= generations[source].issued
    /\ generations[source].applied < n

(* SituationConsistencyStore.apply_source_generation.  A complete result   *)
(* resolves every absent key of its source; a degraded Gmail result only   *)
(* the keys in the scope it carries; a degraded calendar result none.      *)
ApplySourceGeneration(source, n, status) ==
    LET type == SourceType[source]
        scopes == CASE status = "complete" -> {OfType(type)}
                    [] status = "degraded" /\ source = "gmail" ->
                         SUBSET OfType(type)
                    [] OTHER -> {{}}
    IN  /\ Acceptable(source, n)
        /\ generations' = [generations EXCEPT ![source].applied = n,
                                              ![source].status = status]
        /\ \E snapshot \in Detections(type), scope \in scopes :
             /\ ApplyDetections(snapshot, scope, n)
             /\ vouched' = IF source = "gmail" /\ status = "complete"
                           THEN DOMAIN snapshot \cup
                                  (InState({"snoozed"}) \cap OfType(type))
                           ELSE vouched
        /\ UNCHANGED <<now, receipts, deliveries, mutedTypes, shown,
                       snoozedSince>>

(* SituationConsistencyStore.apply_local_detections: personal occasions    *)
(* from memory carry no generation and always resolve what is absent.      *)
ApplyLocalDetections ==
    /\ \E snapshot \in Detections("personal_occasion") :
         ApplyDetections(snapshot, OfType("personal_occasion"), 0)
    /\ UNCHANGED <<now, receipts, deliveries, mutedTypes, generations, shown,
                   snoozedSince, vouched>>

(* SituationStore.wake_snoozed *)
WakeSnoozed ==
    LET due == {s \in InState({"snoozed"}) :
                  rows[s].snoozedUntil # Null /\ rows[s].snoozedUntil <= now}
    IN  /\ due # {}
        /\ rows' = [s \in Situations |->
                      IF s \in due
                      THEN [rows[s] EXCEPT !.state = "pending",
                                           !.snoozedUntil = Null]
                      ELSE rows[s]]
        /\ UNCHANGED <<now, claims, receipts, deliveries, mutedTypes,
                       generations, shown, snoozedSince, vouched>>

(* SituationStore.expire_lapsed *)
ExpireLapsed ==
    LET lapsed == {s \in InState({"pending", "delivered"}) : Lapsed(s, now)}
    IN  /\ lapsed # {}
        /\ rows' = [s \in Situations |->
                      IF s \in lapsed
                      THEN [rows[s] EXCEPT !.state = "expired"] ELSE rows[s]]
        /\ UNCHANGED <<now, claims, receipts, deliveries, mutedTypes,
                       generations, shown, snoozedSince, vouched>>

-----------------------------------------------------------------------------
(* Leasing: AttentionPolicy.reserve_for_delivery over the store's          *)
(* reserve_for_delivery.                                                   *)

(* The ORDER BY of SELECT_PENDING_FOR_DELIVERY, as the rank of each key.   *)
CriticalRank(s) == IF rows[s].priority = "critical" THEN 0 ELSE 1
(* Mutation: replies first.                                                *)
ReplyRankFirst(s) == IF IsReply(s) THEN 0 ELSE 1
ReplyRank(s) == IF IsReply(s) THEN 1 ELSE 0
HighRank(s) == IF rows[s].priority = "high" THEN 0 ELSE 1

OrderKey(s) ==
    <<CriticalRank(s), ReplyRank(s), HighRank(s), rows[s].detected, IdOf[s]>>

Precedes(s, r) ==
    \E i \in 1 .. 5 :
        /\ OrderKey(s)[i] < OrderKey(r)[i]
        /\ \A j \in 1 .. (i - 1) : OrderKey(s)[j] = OrderKey(r)[j]

(* The page is cut before any eligibility test.                            *)
Candidates ==
    LET pending == InState({"pending"})
    IN  {s \in pending :
           Cardinality({r \in pending : Precedes(r, s)}) < PageLimit}

(* Mutation: a newer read in flight is ignored.                            *)
SourceOnceComplete(s) ==
    \/ ~IsReply(s)
    \/ generations["gmail"].issued = 0
    \/ generations["gmail"].status = "complete"

(* CURRENT_SOURCE_ELIGIBILITY: fail closed for replies unless the newest   *)
(* issued Gmail generation is applied and complete.                        *)
SourceCurrent(s) ==
    \/ ~IsReply(s)
    \/ generations["gmail"].issued = 0
    \/ /\ generations["gmail"].issued = generations["gmail"].applied
       /\ generations["gmail"].status = "complete"

(* Mutation: the cooldown ends one unit early.                             *)
CooledDownEarly(s, t) ==
    \/ rows[s].exempt
    \/ \A d \in DeliveriesOf(s) : d.at <= t - Cooldown + 1

CooledDown(s, t) ==
    \/ rows[s].exempt
    \/ \A d \in DeliveriesOf(s) : d.at <= t - Cooldown

(* Mutation: a live claim of another host is not looked for.               *)
ConsumableDespiteClaim(s, t, live) ==
    ~Lapsed(s, t) /\ TypeOf[s] \notin mutedTypes /\ CooledDown(s, t)

(* The conditions reserve_for_delivery and the slot query share.           *)
Consumable(s, t, live) ==
    /\ ~Lapsed(s, t)
    /\ live[s] = NoClaim
    /\ TypeOf[s] \notin mutedTypes
    /\ CooledDown(s, t)

(* One slot is kept for a non-reply while a candidate could consume it.    *)
ReservedNonReplySlots(t, live) ==
    IF ~IsQuietTime(t) /\ \E s \in Candidates :
            Noncritical(s) /\ ~IsReply(s) /\ Consumable(s, t, live)
    THEN 1 ELSE 0

NoncriticalDeliveries(t) ==
    {d \in deliveries : DayOf(d.at) = DayOf(t) /\ d.priority # "critical"}
NoncriticalLeases(t, live) ==
    {s \in Situations : /\ live[s] # NoClaim
                        /\ DayOf(live[s].claimed) = DayOf(t)
                        /\ Noncritical(s)}

(* Mutation: outstanding leases are not charged to the budget.             *)
UsedByDeliveries(t, live) == Cardinality(NoncriticalDeliveries(t))

Used(t, live) == Cardinality(NoncriticalDeliveries(t))
                   + Cardinality(NoncriticalLeases(t, live))
UsedByReplies(t, live) ==
    Cardinality({d \in NoncriticalDeliveries(t) : IsReply(d.situation)})
      + Cardinality({s \in NoncriticalLeases(t, live) : IsReply(s)})

ReplyCap(t, live) ==
    LET left == DailyBudget - ReservedNonReplySlots(t, live)
    IN  IF left < 0 THEN 0 ELSE left

(* The budget tests of the INSERT for s once the rows in earlier are in.   *)
WithinBudget(s, t, live, earlier) ==
    \/ ~Noncritical(s)
    \/ /\ Used(t, live) + Cardinality(earlier) < DailyBudget
       /\ IsReply(s) =>
            UsedByReplies(t, live)
              + Cardinality({r \in earlier : IsReply(r)}) < ReplyCap(t, live)

(* What the loop over the candidates leases: each candidate is tested      *)
(* against the noncritical rows that the loop inserted before it.          *)
LeasedBy(leased, t, live) ==
    \A s \in Candidates :
        s \in leased <=>
            /\ IsQuietTime(t) => ~Noncritical(s)
            /\ Consumable(s, t, live)
            /\ SourceCurrent(s)
            /\ WithinBudget(s, t, live,
                            {r \in leased : Noncritical(r) /\ Precedes(r, s)})

ReserveForDelivery(t, token) ==
    LET live == Unexpired(t)
    IN  /\ t \in Nat /\ t <= now /\ now - t <= CheckLag
        /\ shown[token] = NoLease
        /\ \E leased \in SUBSET Candidates :
             /\ LeasedBy(leased, t, live)
             /\ shown' = IF leased = {} THEN shown
                         ELSE [shown EXCEPT ![token] =
                                 [situations |-> leased,
                                  until |-> t + LeaseLength]]
             /\ claims' = [s \in Situations |->
                             IF s \in leased
                             THEN [token |-> token, claimed |-> t,
                                   expires |-> t + LeaseLength,
                                   priority |-> rows[s].priority,
                                   repriced |-> FALSE]
                             ELSE live[s]]
        /\ UNCHANGED <<now, rows, receipts, deliveries, mutedTypes,
                       generations, snoozedSince, vouched>>

-----------------------------------------------------------------------------
(* confirm_delivery: the host's receipt turns a whole live lease into      *)
(* deliveries.  A replayed receipt changes nothing; a receipt with no live *)
(* lease, or with a row that is no longer pending, rolls back.             *)

(* Mutation: the claim rows are not filtered by the receipt's digest.      *)
LeaseOfAnyToken(live, token) == InState({"pending"})

LeaseOf(live, token) == {s \in Situations : live[s].token = token}

DeliveryOf(s) ==
    [situation |-> s, at |-> now, priority |-> rows[s].priority,
     token |-> claims[s].token, claimed |-> claims[s].claimed,
     claimPriority |-> claims[s].priority, repriced |-> claims[s].repriced,
     afterSnooze |-> snoozedSince[s]]

ConfirmDelivery(token) ==
    LET live == Unexpired(now)
        lease == LeaseOf(live, token)
    IN  /\ receipts[token] = 0
        /\ lease # {}
        /\ lease \subseteq InState({"pending"})
        /\ rows' = [s \in Situations |->
                      IF s \in lease
                      THEN [rows[s] EXCEPT !.state = "delivered",
                                           !.snoozedUntil = Null,
                                           !.exempt = FALSE]
                      ELSE rows[s]]
        /\ deliveries' = deliveries \cup {DeliveryOf(s) : s \in lease}
        /\ claims' = [s \in Situations |->
                        IF s \in lease THEN NoClaim ELSE live[s]]
        /\ receipts' = [receipts EXCEPT ![token] = Cardinality(lease)]
        /\ snoozedSince' = [s \in Situations |->
                              s \notin lease /\ snoozedSince[s]]
        /\ UNCHANGED <<now, mutedTypes, generations, shown, vouched>>

-----------------------------------------------------------------------------
(* The user's answers to a delivered situation.                            *)

Answer(s, row) ==
    /\ rows[s].state = "delivered"
    /\ rows' = [rows EXCEPT ![s] = row]
    /\ UNCHANGED <<now, claims, receipts, deliveries, generations, shown,
                   vouched>>

AcknowledgeSituation(s) ==
    /\ Answer(s, [rows[s] EXCEPT !.state = "acknowledged"])
    /\ UNCHANGED <<mutedTypes, snoozedSince>>

(* parse_snooze_until demands a future instant.                            *)
SnoozeSituation(s, until) ==
    /\ until > now
    /\ Answer(s, [rows[s] EXCEPT !.state = "snoozed",
                                 !.snoozedUntil = until,
                                 !.exempt = TRUE])
    /\ snoozedSince' = [snoozedSince EXCEPT ![s] = TRUE]
    /\ UNCHANGED mutedTypes

MuteSituation(s) ==
    /\ Answer(s, [rows[s] EXCEPT !.state = "muted"])
    /\ UNCHANGED <<mutedTypes, snoozedSince>>

MuteSituationType(s) ==
    /\ Answer(s, [rows[s] EXCEPT !.state = "muted"])
    /\ mutedTypes' = mutedTypes \cup {TypeOf[s]}
    /\ UNCHANGED snoozedSince

Tick ==
    /\ now < MaxTime
    /\ now' = now + 1
    /\ UNCHANGED <<rows, claims, receipts, deliveries, mutedTypes,
                   generations, shown, snoozedSince, vouched>>

-----------------------------------------------------------------------------
(* The transactions of SituationEngine.evaluate.  Each commits alone: an   *)
(* evaluation may end after any of them, with a warning or a crash, and    *)
(* the daemon's and the servers' evaluations interleave.                   *)
Detect ==
    \/ \E c \in Sources :
         /\ OfType(SourceType[c]) # {}
         /\ \/ ReserveGeneration(c)
            \/ \E n \in 1 .. MaxGeneration, status \in {"complete", "degraded"} :
                 ApplySourceGeneration(c, n, status)
    \/ OfType("personal_occasion") # {} /\ ApplyLocalDetections
    \/ WakeSnoozed
    \/ ExpireLapsed

(* The end of proactive_check, and the host's receipt.                     *)
Deliver ==
    \E token \in Tokens :
        \/ \E t \in 0 .. MaxTime : ReserveForDelivery(t, token)
        \/ ConfirmDelivery(token)

(* The tools that answer a delivered situation.                            *)
Respond ==
    \E s \in Situations :
        \/ AcknowledgeSituation(s)
        \/ \E until \in Wakes : SnoozeSituation(s, until)
        \/ MuteSituation(s)
        \/ MuteSituationType(s)

Next == Detect \/ Deliver \/ Respond \/ Tick

Spec == Init /\ [][Next]_vars

-----------------------------------------------------------------------------
(* Properties.                                                             *)

(* The lease a host was shown is all or nothing: its claim rows are        *)
(* exactly the situations returned with the token, or they are gone.       *)
(* A confirmed receipt counts, and its deliveries name, exactly those.     *)
(* (reserve_for_delivery, DeliveryReceipts, confirm_delivery)              *)
ReceiptCoversWholeLease ==
    \A k \in Tokens :
        /\ LeaseOf(claims, k) \in {{}, shown[k].situations}
        /\ {d.situation : d \in {e \in deliveries : e.token = k}} =
             IF receipts[k] = 0 THEN {} ELSE shown[k].situations
        /\ receipts[k] # 0 =>
             /\ receipts[k] = Cardinality(shown[k].situations)
             /\ LeaseOf(claims, k) = {}

(* No other check, confirmation, refresh or resolution takes a situation   *)
(* out of an unconfirmed lease before the expiry its host was told, however *)
(* old the stamp it works with.  (DeliveryReceipts.expire, the UNIQUE      *)
(* situation_id, NOT EXISTS claim in reserve_for_delivery)                 *)
LeaseHeldUntilExpiry ==
    \A k \in Tokens :
        receipts[k] = 0 /\ shown[k].until > now =>
            LeaseOf(claims, k) = shown[k].situations

(* Two deliveries of one situation are a cooldown apart unless the user    *)
(* snoozed it in between, across leases that outlive a resolution and a    *)
(* reactivation.  (snooze_cooldown_exempt, cooldown_after)                 *)
CooldownHonoured ==
    \A d, e \in deliveries :
        d.situation = e.situation /\ d # e /\ d.at <= e.at =>
            e.afterSnooze \/ e.at - d.at >= Cooldown

(* A personal occasion is delivered once; only the user's own snooze can   *)
(* bring it back.  (has_delivery in _upsert_detection)                     *)
OccasionRepeatsOnlyAfterSnooze ==
    \A d, e \in deliveries :
        (/\ d.situation = e.situation /\ d # e
         /\ TypeOf[d.situation] = "personal_occasion") =>
            d.afterSnooze \/ e.afterSnooze

(* On every local day at most DailyBudget noncritical deliveries come from *)
(* leases of that same day whose row kept its side of the critical line    *)
(* while leased: concurrent checks with old stamps cannot overspend.       *)
(* (the two COUNT subqueries of reserve_for_delivery)                      *)
SettledDeliveries(day) ==
    {d \in deliveries : /\ DayOf(d.at) = day /\ DayOf(d.claimed) = day
                        /\ d.priority # "critical" /\ ~d.repriced}
BudgetHonoured ==
    \A day \in 0 .. DayOf(now) :
        Cardinality(SettledDeliveries(day)) <= DailyBudget

(* A row's generation never passes the applied one and no result, however  *)
(* late, writes over a newer one: the recorded generation of a row and of  *)
(* its source only grow.  (SourceGenerationStore.accept)                   *)
GenerationsForward ==
    /\ \A c \in Sources : /\ generations'[c].applied >= generations[c].applied
                          /\ generations'[c].issued >= generations'[c].applied
    /\ \A s \in Situations : rows'[s].generation >= rows[s].generation
NoStaleOverwrite == [][GenerationsForward]_vars

(* What the user acknowledged or muted is settled: no detection, expiry,   *)
(* wake, lease or late confirmation of an old lease reopens or delivers it *)
(* again.  (the state guards of _situation_sql.py)                         *)
AnsweredIsFinal ==
    [][\A s \in InState({"acknowledged", "muted"}) :
         /\ rows'[s].state = rows[s].state
         /\ DeliveriesOf(s)' = DeliveriesOf(s)
         /\ claims'[s] # NoClaim => claims[s] # NoClaim]_vars

(* A reply is leased only if the newest complete Gmail result still has it *)
(* or found it asleep: not while a newer read is in flight, interrupted or *)
(* degraded.  (CURRENT_SOURCE_ELIGIBILITY, apply_source_generation)        *)
NewlyLeased(s) == claims'[s] # NoClaim /\ claims[s].token # claims'[s].token
ReplyLeaseVouched ==
    [][\A s \in Situations :
         IsReply(s) /\ NewlyLeased(s) =>
            /\ s \in vouched
            /\ generations["gmail"].issued = generations["gmail"].applied]_vars

(* Replies never take a slot that a noncritical conflict or occasion could *)
(* have had in the same check: none that is free, unexpired and unmuted is *)
(* left behind when a reply is leased.  (the delivery order and            *)
(* reserved_non_reply_slots_for_reservation)                               *)
Overlooked(s) ==
    /\ s \in Candidates /\ ~NewlyLeased(s)
    /\ claims[s] = NoClaim /\ ~HasDelivery(s) /\ ~Lapsed(s, now)
    /\ TypeOf[s] \notin mutedTypes
RepliesYield ==
    [][\A r, s \in Situations :
         IsReply(r) /\ NewlyLeased(r) /\ ~IsReply(s) => ~Overlooked(s)]_vars

(* What documentation says and the code does not do.                       *)

(* "everything else is ... capped by the remaining budget"                 *)
(* (AttentionPolicy) and a daily delivery budget without critical ones.    *)
DailyBudgetCap ==
    \A day \in 0 .. DayOf(now) :
        Cardinality({d \in deliveries : DayOf(d.at) = day
                                        /\ d.priority # "critical"})
          <= DailyBudget
=============================================================================
