----------------------------- MODULE OsFallback -----------------------------
(***************************************************************************)
(* One-shot OS notifications for situations that no agent received in      *)
(* time (store/fallbacks.py, delivery/fallback.py), composed with the      *)
(* situation store.  A dispatcher is one daemon pass: it reads the clock   *)
(* once, claims in transactions of its own, and runs the notification      *)
(* outside any transaction.  A displaced daemon and its successor may      *)
(* dispatch at the same time, and a daemon may crash between two steps.    *)
(***************************************************************************)
EXTENDS SituationStore

CONSTANTS
    Dispatchers,         \* daemon processes that may be in a pass
    FallbackPriorities,  \* fallback.priorities
    FallbackWait,        \* fallback.wait
    DispatchLag          \* bound: longest time between clock read and claim

VARIABLES
    fallbacks,    \* table situation_fallbacks, keyed by situation
    dispatchers,  \* where each dispatcher is in FallbackDispatcher.dispatch
    notified      \* history: notifications the desktop raised per situation

fallbackVars == <<fallbacks, dispatchers, notified>>
allVars == <<vars, fallbackVars>>

Outcomes == {"none", "claimed", "sent", "failed"}
Stages == {"idle", "bootstrap", "configured", "notifying", "sent", "failed"}
NoSituation == "no situation"

ASSUME FallbackAssumption ==
    /\ FallbackPriorities \subseteq Priorities /\ FallbackPriorities # {}
    /\ FallbackWait \in Nat /\ DispatchLag \in Nat
    /\ NoSituation \notin Situations

Idle == [stage |-> "idle", stamp |-> 0, holding |-> NoSituation]

FallbackTypeOK ==
    /\ TypeOK
    /\ fallbacks \in [Situations -> [outcome : Outcomes, priority : Priorities]]
    /\ dispatchers \in
         [Dispatchers -> [stage : Stages, stamp : Nat,
                          holding : Situations \cup {NoSituation}]]
    /\ notified \in [Situations -> Nat]

FallbackInit ==
    /\ Init
    /\ fallbacks = [s \in Situations |->
                      [outcome |-> "none", priority |-> "routine"]]
    /\ dispatchers = [d \in Dispatchers |-> Idle]
    /\ notified = [s \in Situations |-> 0]

-----------------------------------------------------------------------------
(* The eligibility fragments of _fallback_sql.py for one dispatch stamp.   *)

(* Mutation: leases are not looked at.                                     *)
UnleasedIgnored(s, t) == TRUE

Unleased(s, t) == ~(claims[s] # NoClaim /\ claims[s].expires > t)

(* Mutation: a failed notification is tried again.                         *)
NeverSent(s) == fallbacks[s].outcome \in {"none", "failed"}

NeverClaimed(s) == fallbacks[s].outcome = "none"

BaseEligible(s, t) ==
    /\ rows[s].state = "pending"
    /\ rows[s].detected <= t - FallbackWait
    /\ ~Lapsed(s, t)
    /\ TypeOf[s] \notin mutedTypes
    /\ ~HasDelivery(s)
    /\ Unleased(s, t)
    /\ NeverClaimed(s)

ConfiguredEligible(s, t) ==
    rows[s].priority \in FallbackPriorities /\ BaseEligible(s, t)

(* Mutation: the bootstrap exception asks only whether this situation was  *)
(* notified.                                                               *)
BootstrapEligiblePerRow(s, t) == BaseEligible(s, t) /\ deliveries = {}

BootstrapEligible(s, t) ==
    /\ BaseEligible(s, t)
    /\ deliveries = {}
    /\ \A r \in Situations : fallbacks[r].outcome = "none"

PriorityRank(s) == CASE rows[s].priority = "critical" -> 0
                     [] rows[s].priority = "high"     -> 1
                     [] OTHER                         -> 2

OlderThan(s, r) ==
    \/ rows[s].detected < rows[r].detected
    \/ rows[s].detected = rows[r].detected /\ IdOf[s] < IdOf[r]

(* _FALLBACK_ORDER; bootstrap mode orders by age alone.                    *)
MoreUrgent(s, r) ==
    \/ PriorityRank(s) < PriorityRank(r)
    \/ PriorityRank(s) = PriorityRank(r) /\ OlderThan(s, r)

(* The first candidate of each mode's SELECT: a singleton, or empty.       *)
Oldest(eligible) ==
    {s \in eligible : \A r \in eligible \ {s} : OlderThan(s, r)}

MostUrgent(eligible) ==
    {s \in eligible : \A r \in eligible \ {s} : MoreUrgent(s, r)}

-----------------------------------------------------------------------------
(* FallbackStore.claim_next: select and insert in one transaction.         *)

Claimed(d, s) ==
    /\ fallbacks' = [fallbacks EXCEPT ![s] =
                       [outcome |-> "claimed", priority |-> rows[s].priority]]
    /\ dispatchers' = [dispatchers EXCEPT ![d].stage = "notifying",
                                          ![d].holding = s]
    /\ UNCHANGED <<vars, notified>>

Proceed(d, stage) ==
    /\ dispatchers' = [dispatchers EXCEPT ![d] = stage]
    /\ UNCHANGED <<vars, fallbacks, notified>>

(* FallbackDispatcher.dispatch reads one clock value for the whole pass.   *)
BeginDispatch(d) ==
    /\ dispatchers[d].stage = "idle"
    /\ Proceed(d, [stage |-> "bootstrap", stamp |-> now,
                   holding |-> NoSituation])

ClaimBootstrap(d) ==
    LET t == dispatchers[d].stamp
        first == Oldest({s \in Situations : BootstrapEligible(s, t)})
    IN  /\ dispatchers[d].stage = "bootstrap"
        /\ now - t <= DispatchLag
        /\ \/ \E s \in first : Claimed(d, s)
           \/ first = {}
              /\ Proceed(d, [dispatchers[d] EXCEPT !.stage = "configured"])

ClaimConfigured(d) ==
    LET t == dispatchers[d].stamp
        first == MostUrgent({s \in Situations : ConfiguredEligible(s, t)})
    IN  /\ dispatchers[d].stage = "configured"
        /\ now - t <= DispatchLag
        /\ \/ \E s \in first : Claimed(d, s)
           \/ first = {} /\ Proceed(d, Idle)

(* send_os_notification: a notification that times out may still have been *)
(* raised.                                                                 *)
Notify(d, ok, raised) ==
    /\ dispatchers[d].stage = "notifying"
    /\ ok => raised
    /\ notified' = [notified EXCEPT ![dispatchers[d].holding] =
                      IF raised THEN @ + 1 ELSE @]
    /\ dispatchers' = [dispatchers EXCEPT ![d].stage =
                         IF ok THEN "sent" ELSE "failed"]
    /\ UNCHANGED <<vars, fallbacks>>

(* record_sent / record_failed, RECORD_FALLBACK_OUTCOME                    *)
RecordOutcome(d) ==
    LET s == dispatchers[d].holding
    IN  /\ dispatchers[d].stage \in {"sent", "failed"}
        /\ fallbacks[s].outcome = "claimed"
        /\ fallbacks' = [fallbacks EXCEPT ![s].outcome = dispatchers[d].stage]
        /\ dispatchers' = [dispatchers EXCEPT ![d].stage = "configured",
                                              ![d].holding = NoSituation]
        /\ UNCHANGED <<vars, notified>>

(* The daemon process dies; its claim stays behind as it is.               *)
Crash(d) ==
    /\ dispatchers[d].stage # "idle"
    /\ Proceed(d, Idle)

Dispatch(d) ==
    \/ BeginDispatch(d)
    \/ ClaimBootstrap(d)
    \/ ClaimConfigured(d)
    \/ \E ok, raised \in BOOLEAN : Notify(d, ok, raised)
    \/ RecordOutcome(d)
    \/ Crash(d)

FallbackNext ==
    \/ Next /\ UNCHANGED fallbackVars
    \/ \E d \in Dispatchers : Dispatch(d)

FallbackSpec == FallbackInit /\ [][FallbackNext]_allVars

-----------------------------------------------------------------------------
(* A situation raises at most one notification ever, whatever dispatchers  *)
(* run at once, crash after sending or come back in a later cycle of the   *)
(* same key.  (FallbackDispatcher: claimed before its notification runs)   *)
NotifiedAtMostOnce == \A s \in Situations : notified[s] <= 1

(* A dispatcher with a notification in hand is the only one with it and    *)
(* its outcome can still be recorded: _complete never raises               *)
(* FallbackNotClaimedError.                                                *)
HolderOwnsClaim ==
    \A d \in Dispatchers :
        dispatchers[d].stage \in {"notifying", "sent", "failed"} =>
            /\ fallbacks[dispatchers[d].holding].outcome = "claimed"
            /\ \A e \in Dispatchers \ {d} :
                 dispatchers[e].holding # dispatchers[d].holding

(* Types, holders and notifications: a claim is one notification of one    *)
(* dispatcher, from any number of them.                                    *)
FallbackInv == FallbackTypeOK /\ HolderOwnsClaim /\ NotifiedAtMostOnce

(* Only one situation outside the configured priorities is ever claimed:   *)
(* the bootstrap exception is not taken twice by racing dispatchers.       *)
(* (_BOOTSTRAP_ELIGIBLE)                                                   *)
OneBootstrapException ==
    Cardinality({s \in Situations : /\ fallbacks[s].outcome # "none"
                                    /\ fallbacks[s].priority
                                         \notin FallbackPriorities}) <= 1

(* A fallback is never claimed for a situation under a lease whose expiry  *)
(* has not passed on the real clock, although the dispatcher compares with *)
(* the clock it read when its pass began.  (_BASE_ELIGIBLE)                *)
UnderLease(s) ==
    \E k \in Tokens : /\ s \in shown[k].situations
                      /\ shown[k].until > now /\ receipts[k] = 0
FallbackYieldsToLease ==
    [][\A s \in Situations :
         /\ fallbacks[s].outcome = "none"
         /\ fallbacks'[s].outcome = "claimed"
         => ~UnderLease(s) /\ ~HasDelivery(s)]_allVars

(* "held back during an active lease to avoid duplicates"                  *)
(* (PRODUCT_PLAN, OS notification fallback): no notification is raised for *)
(* a situation while a host holds it under an active lease.                *)
NoNoticeDuringLease ==
    [][\A s \in Situations :
         notified'[s] > notified[s] => ~UnderLease(s)]_allVars

=============================================================================
