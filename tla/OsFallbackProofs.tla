-------------------------- MODULE OsFallbackProofs --------------------------
(***************************************************************************)
(* Theorems about OsFallback for every number of dispatchers: a situation  *)
(* is notified at most once, whatever crashes and races happen, only one   *)
(* is claimed by the bootstrap exception, and a claim yields to a lease.   *)
(***************************************************************************)
EXTENDS OsFallback, SituationStoreProofs

-----------------------------------------------------------------------------
(* The dispatchers only read the store, so that every theorem about the    *)
(* store holds beside them.                                                *)

(* What a dispatcher may change.  (FallbackStore, FallbackDispatcher)      *)
LEMMA DispatchReads ==
    ASSUME NEW d \in Dispatchers, Dispatch(d)
    PROVE  UNCHANGED vars
BY DEF Dispatch, BeginDispatch, ClaimBootstrap, ClaimConfigured, Notify,
       RecordOutcome, Crash, Claimed, Proceed

(* The composed system runs the store's specification.                     *)
LEMMA FallbackRunsStore == FallbackSpec => Spec
<1>1. FallbackInit => Init
  BY DEF FallbackInit
<1>2. [FallbackNext]_allVars => [Next]_vars
  BY DispatchReads DEF FallbackNext, allVars
<1> QED
  BY <1>1, <1>2, PTL DEF FallbackSpec, Spec

(* The store's types and leases, beside the dispatchers.                   *)
LEMMA StoreBeside == FallbackSpec => []TypeOK /\ []LeasesInv
BY FallbackRunsStore, TypeCorrect, LeasesInvariant, PTL

-----------------------------------------------------------------------------
(* The claims of the dispatchers.  HolderOwnsClaim and NotifiedAtMostOnce  *)
(* are not inductive: a claim must also precede the notification, and a    *)
(* dispatcher without a notification in hand must hold nothing.            *)

Busy == {"notifying", "sent", "failed"}

FallbackRow == [outcome : Outcomes, priority : Priorities]
Dispatcher == [stage : Stages, stamp : Nat,
               holding : Situations \cup {NoSituation}]

DispatcherType ==
    /\ fallbacks \in [Situations -> FallbackRow]
    /\ dispatchers \in [Dispatchers -> Dispatcher]
    /\ notified \in [Situations -> Nat]

HoldingInv(d) ==
    /\ dispatchers[d].stamp <= now
    /\ dispatchers[d].stage \notin Busy => dispatchers[d].holding = NoSituation
    /\ dispatchers[d].stage \in Busy =>
         /\ dispatchers[d].holding \in Situations
         /\ fallbacks[dispatchers[d].holding].outcome = "claimed"
    /\ dispatchers[d].stage = "notifying" =>
         notified[dispatchers[d].holding] = 0

DispatchInv ==
    /\ DispatcherType
    /\ \A d \in Dispatchers : HoldingInv(d)
    /\ \A d, e \in Dispatchers :
         d # e /\ dispatchers[d].stage \in Busy =>
           dispatchers[e].holding # dispatchers[d].holding
    /\ \A s \in Situations : /\ notified[s] <= 1
                             /\ fallbacks[s].outcome = "none" => notified[s] = 0

(* A claim is made for a situation that was never claimed, and hence       *)
(* neither notified nor held.  (claim_next: INSERT for a key without row)  *)
LEMMA ClaimedStep ==
    ASSUME TypeOK, DispatchInv, NEW d \in Dispatchers, NEW s \in Situations,
           Claimed(d, s), NeverClaimed(s),
           dispatchers[d].stage \in {"bootstrap", "configured"}
    PROVE  DispatchInv'
<1>1. /\ UNCHANGED <<now, notified>>
      /\ fallbacks' = [fallbacks EXCEPT ![s] =
                         [outcome |-> "claimed", priority |-> rows[s].priority]]
      /\ dispatchers' = [dispatchers EXCEPT ![d].stage = "notifying",
                                            ![d].holding = s]
  BY DEF Claimed, vars
<1>2. DispatcherType'
  <2>1. [outcome |-> "claimed", priority |-> rows[s].priority] \in FallbackRow
    BY DEF TypeOK, Row, FallbackRow, Outcomes
  <2>2. [dispatchers[d] EXCEPT !.stage = "notifying", !.holding = s]
          \in Dispatcher
    BY DEF DispatchInv, DispatcherType, Dispatcher, Stages
  <2> QED
    BY <1>1, <2>1, <2>2 DEF DispatchInv, DispatcherType
<1>3. /\ dispatchers'[d].stage = "notifying" /\ dispatchers'[d].holding = s
      /\ dispatchers'[d].stamp = dispatchers[d].stamp
      /\ \A e \in Dispatchers \ {d} : dispatchers'[e] = dispatchers[e]
      /\ fallbacks'[s].outcome = "claimed"
      /\ \A r \in Situations \ {s} : fallbacks'[r] = fallbacks[r]
  BY <1>1 DEF DispatchInv, DispatcherType, Dispatcher
<1>4. notified[s] = 0
  BY DEF DispatchInv, NeverClaimed
<1>5. \A e \in Dispatchers \ {d} : dispatchers[e].holding # s
  BY FallbackAssumption DEF DispatchInv, HoldingInv, NeverClaimed
<1>6. ASSUME NEW e \in Dispatchers PROVE HoldingInv(e)'
  <2>1. HoldingInv(e)
    BY DEF DispatchInv
  <2>2. CASE e = d
    BY <1>1, <1>3, <1>4, <2>1, <2>2 DEF HoldingInv, Busy
  <2>3. CASE e # d
    BY <1>1, <1>3, <1>5, <2>1, <2>3 DEF HoldingInv
  <2> QED
    BY <2>2, <2>3
<1>7. \A a, e \in Dispatchers :
        a # e /\ dispatchers'[a].stage \in Busy =>
          dispatchers'[e].holding # dispatchers'[a].holding
  BY <1>3, <1>5 DEF DispatchInv
<1>8. \A r \in Situations : /\ notified'[r] <= 1
                            /\ fallbacks'[r].outcome = "none" => notified'[r] = 0
  BY <1>1, <1>3 DEF DispatchInv
<1> QED
  BY <1>2, <1>6, <1>7, <1>8 DEF DispatchInv

(* A dispatcher that has nothing in hand afterwards disturbs no claim.     *)
LEMMA ProceedStep ==
    ASSUME TypeOK, DispatchInv, NEW d \in Dispatchers,
           NEW stage \in {"idle", "bootstrap", "configured"},
           NEW stamp \in Nat, stamp <= now,
           Proceed(d, [stage |-> stage, stamp |-> stamp,
                       holding |-> NoSituation])
    PROVE  DispatchInv'
<1>1. /\ UNCHANGED <<now, fallbacks, notified>>
      /\ dispatchers' = [dispatchers EXCEPT ![d] =
                           [stage |-> stage, stamp |-> stamp,
                            holding |-> NoSituation]]
  BY DEF Proceed, vars
<1>2. DispatcherType'
  BY <1>1 DEF DispatchInv, DispatcherType, Dispatcher, Stages
<1>3. /\ dispatchers'[d] = [stage |-> stage, stamp |-> stamp,
                            holding |-> NoSituation]
      /\ \A e \in Dispatchers \ {d} : dispatchers'[e] = dispatchers[e]
  BY <1>1 DEF DispatchInv, DispatcherType, Dispatcher
<1>4. \A e \in Dispatchers : HoldingInv(e)'
  BY <1>1, <1>3 DEF DispatchInv, HoldingInv, Busy
<1>5. \A a, e \in Dispatchers :
        a # e /\ dispatchers'[a].stage \in Busy =>
          dispatchers'[e].holding # dispatchers'[a].holding
  BY <1>3, <1>4, FallbackAssumption DEF DispatchInv, HoldingInv, Busy
<1> QED
  BY <1>1, <1>2, <1>4, <1>5 DEF DispatchInv

(* The one notification of a claim.  (send_os_notification)                *)
LEMMA NotifyStep ==
    ASSUME TypeOK, DispatchInv, NEW d \in Dispatchers, NEW ok \in BOOLEAN,
           NEW raised \in BOOLEAN, Notify(d, ok, raised)
    PROVE  DispatchInv'
<1> DEFINE s == dispatchers[d].holding
           n == IF raised THEN notified[s] + 1 ELSE notified[s]
           stage == IF ok THEN "sent" ELSE "failed"
<1>1. /\ UNCHANGED <<now, fallbacks>> /\ dispatchers[d].stage = "notifying"
      /\ notified' = [notified EXCEPT ![s] = n]
      /\ dispatchers' = [dispatchers EXCEPT ![d].stage = stage]
  BY DEF Notify, vars
<1>2. /\ s \in Situations /\ fallbacks[s].outcome = "claimed"
      /\ notified[s] = 0 /\ dispatchers[d].stamp <= now
  BY <1>1 DEF DispatchInv, HoldingInv, Busy
<1>3. n \in 0 .. 1 /\ stage \in {"sent", "failed"}
  BY <1>2
<1> HIDE DEF n, stage
<1>4. DispatcherType'
  <2>1. [dispatchers[d] EXCEPT !.stage = stage] \in Dispatcher
    BY <1>3 DEF DispatchInv, DispatcherType, Dispatcher, Stages
  <2>2. dispatchers' \in [Dispatchers -> Dispatcher]
    BY <1>1, <2>1 DEF DispatchInv, DispatcherType
  <2>3. notified' \in [Situations -> Nat]
    <3>1. n \in Nat
      BY <1>3
    <3> HIDE DEF s
    <3> QED
      BY <1>1, <3>1 DEF DispatchInv, DispatcherType
  <2> QED
    BY <1>1, <2>2, <2>3 DEF DispatchInv, DispatcherType
<1>5. /\ dispatchers'[d].stage = stage /\ dispatchers'[d].holding = s
      /\ dispatchers'[d].stamp = dispatchers[d].stamp
      /\ \A e \in Dispatchers \ {d} : dispatchers'[e] = dispatchers[e]
      /\ notified'[s] = n
      /\ \A r \in Situations \ {s} : notified'[r] = notified[r]
  BY <1>1, <1>2 DEF DispatchInv, DispatcherType, Dispatcher,
                    FallbackRow
<1>6. \A e \in Dispatchers \ {d} : dispatchers[e].holding # s
  BY <1>1 DEF DispatchInv, Busy
<1>7. \A e \in Dispatchers : HoldingInv(e)'
  BY <1>1, <1>2, <1>3, <1>5, <1>6 DEF DispatchInv, HoldingInv, Busy
<1>8. \A a, e \in Dispatchers :
        a # e /\ dispatchers'[a].stage \in Busy =>
          dispatchers'[e].holding # dispatchers'[a].holding
  BY <1>1, <1>5 DEF DispatchInv, Busy
<1>9. \A r \in Situations : /\ notified'[r] <= 1
                            /\ fallbacks'[r].outcome = "none" => notified'[r] = 0
  BY <1>1, <1>2, <1>3, <1>5 DEF DispatchInv
<1> QED
  BY <1>4, <1>7, <1>8, <1>9 DEF DispatchInv

(* The outcome closes the claim.  (record_sent, record_failed)             *)
LEMMA RecordStep ==
    ASSUME TypeOK, DispatchInv, NEW d \in Dispatchers, RecordOutcome(d)
    PROVE  DispatchInv'
<1> DEFINE s == dispatchers[d].holding
<1>1. /\ UNCHANGED <<now, notified>>
      /\ dispatchers[d].stage \in {"sent", "failed"}
      /\ fallbacks' = [fallbacks EXCEPT ![s].outcome = dispatchers[d].stage]
      /\ dispatchers' = [dispatchers EXCEPT ![d].stage = "configured",
                                            ![d].holding = NoSituation]
  BY DEF RecordOutcome, vars
<1>2. s \in Situations /\ dispatchers[d].stamp <= now
  BY <1>1 DEF DispatchInv, HoldingInv, Busy
<1>3. DispatcherType'
  <2>1. [fallbacks[s] EXCEPT !.outcome = dispatchers[d].stage] \in FallbackRow
    BY <1>1, <1>2 DEF DispatchInv, DispatcherType, FallbackRow, Outcomes
  <2>2. [dispatchers[d] EXCEPT !.stage = "configured",
                               !.holding = NoSituation] \in Dispatcher
    BY DEF DispatchInv, DispatcherType, Dispatcher, Stages
  <2> QED
    BY <1>1, <1>2, <2>1, <2>2 DEF DispatchInv, DispatcherType
<1>4. /\ dispatchers'[d].stage = "configured"
      /\ dispatchers'[d].holding = NoSituation
      /\ dispatchers'[d].stamp = dispatchers[d].stamp
      /\ \A e \in Dispatchers \ {d} : dispatchers'[e] = dispatchers[e]
      /\ fallbacks'[s].outcome # "none"
      /\ \A r \in Situations \ {s} : fallbacks'[r] = fallbacks[r]
  BY <1>1, <1>2 DEF DispatchInv, DispatcherType, Dispatcher,
                    FallbackRow
<1>5. \A e \in Dispatchers \ {d} : dispatchers[e].holding # s
  BY <1>1 DEF DispatchInv, Busy
<1>6. ASSUME NEW e \in Dispatchers PROVE HoldingInv(e)'
  <2>1. HoldingInv(e)
    BY DEF DispatchInv
  <2>2. CASE e = d
    BY <1>1, <1>2, <1>4, <2>2 DEF HoldingInv, Busy
  <2>3. CASE e # d
    BY <1>1, <1>4, <1>5, <2>1, <2>3 DEF HoldingInv
  <2> QED
    BY <2>2, <2>3
<1>7. \A a, e \in Dispatchers :
        a # e /\ dispatchers'[a].stage \in Busy =>
          dispatchers'[e].holding # dispatchers'[a].holding
  BY <1>4, <1>6, FallbackAssumption DEF DispatchInv, HoldingInv, Busy
<1>8. \A r \in Situations : /\ notified'[r] <= 1
                            /\ fallbacks'[r].outcome = "none" => notified'[r] = 0
  BY <1>1, <1>4 DEF DispatchInv
<1> QED
  BY <1>3, <1>6, <1>7, <1>8 DEF DispatchInv

(* A claim needs a candidate that its SELECT found eligible.               *)
LEMMA ClaimCandidates ==
    ASSUME NEW d \in Dispatchers
    PROVE  /\ \A s \in Oldest({r \in Situations :
                                 BootstrapEligible(r, dispatchers[d].stamp)}) :
                /\ s \in Situations
                /\ BootstrapEligible(s, dispatchers[d].stamp)
           /\ \A s \in MostUrgent({r \in Situations :
                                     ConfiguredEligible(r, dispatchers[d].stamp)}) :
                /\ s \in Situations
                /\ ConfiguredEligible(s, dispatchers[d].stamp)
BY DEF Oldest, MostUrgent

(* Every step of a dispatcher keeps the invariant.                         *)
LEMMA DispatchStep ==
    ASSUME TypeOK, DispatchInv, NEW d \in Dispatchers, Dispatch(d)
    PROVE  DispatchInv'
<1>1. /\ dispatchers[d] \in Dispatcher
      /\ dispatchers[d].stamp <= now /\ now \in Nat
      /\ dispatchers[d].stage \notin Busy =>
           dispatchers[d].holding = NoSituation
  BY DEF DispatchInv, DispatcherType, Dispatcher, HoldingInv, TypeOK
<1>2. CASE BeginDispatch(d)
  BY <1>1, <1>2, ProceedStep DEF BeginDispatch
<1>3. CASE ClaimBootstrap(d)
  <2>1. CASE \E s \in Situations : Claimed(d, s) /\ NeverClaimed(s)
    BY <1>3, <2>1, ClaimedStep DEF ClaimBootstrap
  <2>2. CASE Proceed(d, [dispatchers[d] EXCEPT !.stage = "configured"])
    <3>1. [dispatchers[d] EXCEPT !.stage = "configured"]
            = [stage |-> "configured", stamp |-> dispatchers[d].stamp,
               holding |-> NoSituation]
      BY <1>1, <1>3 DEF ClaimBootstrap, Busy, Dispatcher
    <3>2. Proceed(d, [stage |-> "configured", stamp |-> dispatchers[d].stamp,
                      holding |-> NoSituation])
      BY <2>2, <3>1
    <3>3. dispatchers[d].stamp \in Nat
      BY <1>1 DEF Dispatcher
    <3> QED
      BY <1>1, <3>2, <3>3, ProceedStep
  <2> QED
    BY <1>3, <2>1, <2>2, ClaimCandidates
       DEF ClaimBootstrap, BootstrapEligible, BaseEligible
<1>4. CASE ClaimConfigured(d)
  <2>1. CASE \E s \in Situations : Claimed(d, s) /\ NeverClaimed(s)
    BY <1>4, <2>1, ClaimedStep DEF ClaimConfigured
  <2>2. CASE Proceed(d, Idle)
    BY <1>1, <2>2, ProceedStep DEF Idle
  <2> QED
    BY <1>4, <2>1, <2>2, ClaimCandidates
       DEF ClaimConfigured, ConfiguredEligible, BaseEligible
<1>5. CASE Crash(d)
  BY <1>1, <1>5, ProceedStep DEF Crash, Idle
<1> QED
  BY <1>2, <1>3, <1>4, <1>5, NotifyStep, RecordStep DEF Dispatch

(* The invariant of the dispatchers.                                       *)
LEMMA DispatchInvariant == FallbackSpec => []DispatchInv
<1>1. FallbackInit => DispatchInv
  <2> SUFFICES ASSUME FallbackInit PROVE DispatchInv
    OBVIOUS
  <2>1. /\ now = 0 /\ \A d \in Dispatchers : dispatchers[d] = Idle
        /\ \A s \in Situations : notified[s] = 0
    BY DEF FallbackInit, Init
  <2>2. DispatcherType
    BY DEF FallbackInit, DispatcherType, FallbackRow, Dispatcher, Idle,
           Outcomes, Stages, Priorities
  <2> QED
    BY <2>1, <2>2 DEF DispatchInv, HoldingInv, Idle, Busy
<1>2. TypeOK /\ DispatchInv /\ [FallbackNext]_allVars => DispatchInv'
  <2> SUFFICES ASSUME TypeOK, DispatchInv, [FallbackNext]_allVars
               PROVE  DispatchInv'
    OBVIOUS
  <2>1. CASE [Next]_vars /\ UNCHANGED fallbackVars
    <3>1. UNCHANGED <<fallbacks, dispatchers, notified>>
      BY <2>1 DEF fallbackVars
    <3>2. now' \in {now, now + 1} /\ now \in Nat
      BY <2>1, DetectStep
         DEF TypeOK, Next, Deliver, ReserveForDelivery, ConfirmDelivery, Tick,
             Respond, AcknowledgeSituation, SnoozeSituation, MuteSituation,
             MuteSituationType, Answer, vars
    <3>3. \A d \in Dispatchers : dispatchers[d].stamp \in Nat
      BY DEF DispatchInv, DispatcherType, Dispatcher
    <3> QED
      BY <3>1, <3>2, <3>3 DEF DispatchInv, DispatcherType, HoldingInv
  <2> QED
    BY <2>1, DispatchStep DEF FallbackNext, allVars
<1> QED
  BY <1>1, <1>2, StoreBeside, PTL DEF FallbackSpec

(* For any number of dispatchers that race, crash after sending and come   *)
(* back: one claim, one holder and at most one notification per situation. *)
THEOREM FallbackOnce == FallbackSpec => []FallbackInv
<1>1. TypeOK /\ DispatchInv => FallbackInv
  <2> SUFFICES ASSUME TypeOK, DispatchInv PROVE FallbackInv
    OBVIOUS
  <2>1. FallbackTypeOK
    BY DEF DispatchInv, DispatcherType, FallbackRow, Dispatcher,
           FallbackTypeOK
  <2>2. HolderOwnsClaim
    BY DEF DispatchInv, HoldingInv, HolderOwnsClaim, Busy
  <2>3. NotifiedAtMostOnce
    BY DEF DispatchInv, NotifiedAtMostOnce
  <2> QED
    BY <2>1, <2>2, <2>3 DEF FallbackInv
<1> QED
  BY <1>1, StoreBeside, DispatchInvariant, PTL

-----------------------------------------------------------------------------
(* The bootstrap exception needs an empty fallback table, every other      *)
(* claim a configured priority, and a claim keeps the priority it was      *)
(* made for.                                                               *)

Exceptional(s) ==
    fallbacks[s].outcome # "none" /\ fallbacks[s].priority \notin FallbackPriorities

OneException ==
    \A s, r \in Situations : Exceptional(s) /\ Exceptional(r) => s = r

(* A dispatcher adds an exception only to an empty table.                  *)
LEMMA DispatchException ==
    ASSUME TypeOK, DispatchInv, OneException, NEW d \in Dispatchers, Dispatch(d)
    PROVE  OneException'
<1>1. ASSUME NEW s \in Situations, Claimed(d, s)
      PROVE  /\ fallbacks'[s].priority = rows[s].priority
             /\ \A r \in Situations \ {s} : fallbacks'[r] = fallbacks[r]
  BY <1>1 DEF Claimed, DispatchInv, DispatcherType
<1>2. CASE ClaimBootstrap(d)
  <2>1. CASE fallbacks' = fallbacks
    BY <2>1 DEF OneException, Exceptional
  <2>2. ASSUME NEW s \in Situations, Claimed(d, s),
               BootstrapEligible(s, dispatchers[d].stamp)
        PROVE  OneException'
    <3>1. \A r \in Situations \ {s} : fallbacks'[r].outcome = "none"
      BY <1>1, <2>2 DEF BootstrapEligible
    <3> QED
      BY <3>1 DEF OneException, Exceptional
  <2> QED
    BY <1>2, <2>1, <2>2, ClaimCandidates DEF ClaimBootstrap, Proceed
<1>3. CASE ClaimConfigured(d)
  <2>1. CASE fallbacks' = fallbacks
    BY <2>1 DEF OneException, Exceptional
  <2>2. ASSUME NEW s \in Situations, Claimed(d, s),
               ConfiguredEligible(s, dispatchers[d].stamp)
        PROVE  OneException'
    <3>1. ~Exceptional(s)'
      BY <1>1, <2>2 DEF ConfiguredEligible, Exceptional
    <3>2. \A r \in Situations \ {s} : Exceptional(r)' => Exceptional(r)
      BY <1>1, <2>2 DEF Exceptional
    <3> QED
      BY <3>1, <3>2 DEF OneException
  <2> QED
    BY <1>3, <2>1, <2>2, ClaimCandidates DEF ClaimConfigured, Proceed
<1>4. CASE RecordOutcome(d)
  <2>1. \A r \in Situations :
          /\ fallbacks'[r].priority = fallbacks[r].priority
          /\ fallbacks'[r].outcome # "none" => fallbacks[r].outcome # "none"
    BY <1>4 DEF RecordOutcome, DispatchInv, DispatcherType, FallbackRow
  <2> QED
    BY <2>1 DEF OneException, Exceptional
<1>5. CASE \/ BeginDispatch(d) \/ Crash(d)
           \/ \E ok, raised \in BOOLEAN : Notify(d, ok, raised)
  <2>1. fallbacks' = fallbacks
    BY <1>5 DEF BeginDispatch, Crash, Notify, Proceed
  <2> QED
    BY <2>1 DEF OneException, Exceptional
<1> QED
  BY <1>2, <1>3, <1>4, <1>5 DEF Dispatch

(* However many dispatchers race for it, the exception that lets a new     *)
(* user see one notification outside the configured priorities is taken    *)
(* once.                                                                   *)
THEOREM BootstrapOnce == FallbackSpec => []OneBootstrapException
<1>1. FallbackInit => OneException
  BY DEF FallbackInit, OneException, Exceptional
<1>2. TypeOK /\ DispatchInv /\ OneException /\ [FallbackNext]_allVars
        => OneException'
  <2> SUFFICES ASSUME TypeOK, DispatchInv, OneException,
                      [FallbackNext]_allVars
               PROVE  OneException'
    OBVIOUS
  <2>1. CASE UNCHANGED fallbacks
    BY <2>1 DEF OneException, Exceptional
  <2> QED
    BY <2>1, DispatchException DEF FallbackNext, fallbackVars, allVars
<1>3. OneException => OneBootstrapException
  <2> SUFFICES ASSUME OneException PROVE OneBootstrapException
    OBVIOUS
  <2> DEFINE exceptions == {s \in Situations : Exceptional(s)}
  <2>1. exceptions = {} \/ \E s \in Situations : exceptions = {s}
    BY DEF OneException
  <2> HIDE DEF exceptions
  <2>2. Cardinality(exceptions) \in {0, 1}
    BY <2>1, FS_EmptySet, FS_Singleton
  <2>3. Cardinality(exceptions) <= 1
    BY <2>2
  <2> QED
    BY <2>3 DEF exceptions, Exceptional, OneBootstrapException
<1> QED
  BY <1>1, <1>2, <1>3, StoreBeside, DispatchInvariant, PTL DEF FallbackSpec

-----------------------------------------------------------------------------
(* A claim row of a live lease lasts beyond any clock that was read        *)
(* earlier, so comparing with the old stamp of the pass is enough.         *)
THEOREM FallbackYields == FallbackSpec => FallbackYieldsToLease
<1> DEFINE Yields == \A s \in Situations :
                       /\ fallbacks[s].outcome = "none"
                       /\ fallbacks'[s].outcome = "claimed"
                       => ~UnderLease(s) /\ ~HasDelivery(s)
<1>1. TypeOK /\ LeasesInv /\ DispatchInv /\ [FallbackNext]_allVars
        => [Yields]_allVars
  <2> SUFFICES ASSUME TypeOK, LeasesInv, DispatchInv, [FallbackNext]_allVars,
                      NEW s \in Situations, fallbacks[s].outcome = "none",
                      fallbacks'[s].outcome = "claimed"
               PROVE  ~UnderLease(s) /\ ~HasDelivery(s)
    OBVIOUS
  <2>1. PICK d \in Dispatchers : Dispatch(d)
    BY DEF FallbackNext, fallbackVars, allVars
  <2>2. BaseEligible(s, dispatchers[d].stamp)
    <3>1. ASSUME NEW r \in Situations, Claimed(d, r) PROVE r = s
      BY <3>1 DEF Claimed, DispatchInv, DispatcherType
    <3>2. CASE ClaimBootstrap(d)
      BY <3>1, <3>2, ClaimCandidates
         DEF ClaimBootstrap, BootstrapEligible, Proceed
    <3>3. CASE ClaimConfigured(d)
      BY <3>1, <3>3, ClaimCandidates
         DEF ClaimConfigured, ConfiguredEligible, Proceed
    <3>4. ~RecordOutcome(d)
      BY DEF RecordOutcome, DispatchInv, DispatcherType, FallbackRow
    <3>5. ~BeginDispatch(d) /\ ~Crash(d)
            /\ ~(\E ok, raised \in BOOLEAN : Notify(d, ok, raised))
      BY DEF BeginDispatch, Crash, Notify, Proceed
    <3> QED
      BY <2>1, <3>2, <3>3, <3>4, <3>5 DEF Dispatch
  <2>3. ~HasDelivery(s) /\ Unleased(s, dispatchers[d].stamp)
    BY <2>2 DEF BaseEligible
  <2>4. ASSUME NEW k \in Tokens, s \in shown[k].situations,
               shown[k].until > now, receipts[k] = 0
        PROVE  FALSE
    <3>1. Claims(s, k) /\ claims[s].expires = shown[k].until
      BY <2>4 DEF LeasesInv, LeaseInv
    <3>2. claims[s] # NoClaim
      BY <3>1, StoreAssumption DEF Claims, NoClaim
    <3>3. /\ dispatchers[d].stamp \in Nat /\ dispatchers[d].stamp <= now
          /\ now \in Nat /\ shown[k].until \in Nat
      BY DEF DispatchInv, DispatcherType, Dispatcher, HoldingInv, TypeOK, Lease
    <3> QED
      BY <2>3, <2>4, <3>1, <3>2, <3>3 DEF Unleased
  <2> QED
    BY <2>3, <2>4 DEF UnderLease
<1> QED
  BY <1>1, StoreBeside, DispatchInvariant, PTL
     DEF FallbackSpec, FallbackYieldsToLease
=============================================================================
