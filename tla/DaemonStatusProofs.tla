------------------------- MODULE DaemonStatusProofs -------------------------
(***************************************************************************)
(* Theorems about DaemonStatus for every set of daemons, every cadence and *)
(* every bound on start-up and pass: the owner fences of the liveness row, *)
(* and the condition on the cadence under which there is one watcher.      *)
(***************************************************************************)
EXTENDS DaemonStatus, FiniteSetTheorems, TLAPS

-----------------------------------------------------------------------------
(* Types.                                                                  *)

RowType == [state : {"none", "running", "stopped"},
            owner : Daemons \cup {Gone}, age : 0 .. MaxAge,
            interval : Nat \cup {Null}, mode : Modes \cup {"none"},
            lastRun : Outcomes \cup {"none"}]
DaemonType == [stage : Ended \cup Working, mode : Modes, elapsed : Nat,
               result : Outcomes, status : ExitStatuses]

(* The operations on the row return rows.  (DaemonStatusStore)             *)
LEMMA RowOperations ==
    ASSUME row \in RowType, NEW d \in Daemons, NEW mode \in Modes,
           NEW result \in Outcomes, NEW interval \in Nat \cup {Null}
    PROVE  /\ Started(d, interval) \in RowType
           /\ Heartbeat(d) \in RowType
           /\ Stopped(d) \in RowType
           /\ RunStarted(d, mode) \in RowType
           /\ RunOutcome(d, result) \in RowType
<1>1. 0 \in 0 .. MaxAge
  BY DaemonAssumption
<1> QED
  BY <1>1 DEF RowType, Started, Heartbeat, Stopped, RunStarted, RunOutcome

(* The end of a process leaves a row, a process and a service.             *)
LEMMA ExitType ==
    ASSUME TypeOK, NEW d \in Daemons, NEW r \in RowType,
           NEW status, Exit(d, r, status)
    PROVE  TypeOK'
<1>1. EndedRow(d, r) \in RowType
  BY DEF EndedRow, RowType
<1>2. Off \in DaemonType
  BY DEF Off, DaemonType, Ended, Modes, Outcomes, ExitStatuses
<1>3. daemons' \in [Daemons -> DaemonType]
  BY <1>2 DEF Exit, TypeOK, DaemonType
<1>4. service' \in [manager : Managers, state : {"due", "up", "over"}]
  BY DEF Exit, ManageExit, Manage, TypeOK
<1> QED
  BY <1>1, <1>3, <1>4 DEF Exit, TypeOK, RowType, DaemonType

(* A step of a process from one stage to another.                          *)
LEMMA StageType ==
    ASSUME TypeOK, row' \in RowType, NEW d \in Daemons, UNCHANGED service,
           NEW new \in DaemonType, daemons' = [daemons EXCEPT ![d] = new]
    PROVE  TypeOK'
BY DEF TypeOK, RowType, DaemonType

(* A phase under run_daemon_phase keeps the types.                         *)
LEMMA PhaseType ==
    ASSUME TypeOK, row' \in RowType, NEW d \in Daemons, NEW stage,
           NEW next \in Working, NEW failure \in Working,
           NEW status \in ExitStatuses, Phase(d, stage, next, failure, status)
    PROVE  TypeOK'
<1> DEFINE new == [daemons[d] EXCEPT !.stage = IF status = 0 THEN next
                                                             ELSE failure,
                                     !.status = status]
<1>1. daemons' = [daemons EXCEPT ![d] = new] /\ UNCHANGED service
  BY DEF Phase, TypeOK
<1>2. new \in DaemonType
  BY DEF TypeOK, DaemonType
<1> HIDE DEF new
<1> QED
  BY <1>1, <1>2, StageType

(* Every step of a process keeps the types.  (WatcherDaemon, run_daemon)   *)
LEMMA WorkType ==
    ASSUME TypeOK, NEW d \in Daemons, Work(d)
    PROVE  TypeOK'
<1>1. /\ row \in RowType /\ daemons[d] \in DaemonType
      /\ IntervalOf[d] \in Nat \cup {Null} /\ Null \in Nat \cup {Null}
  BY DaemonAssumption DEF TypeOK, RowType, DaemonType
<1>2. /\ \A m \in Modes : RunStarted(d, m) \in RowType
      /\ \A o \in Outcomes : RunOutcome(d, o) \in RowType
      /\ Heartbeat(d) \in RowType /\ Stopped(d) \in RowType
      /\ Started(d, IntervalOf[d]) \in RowType /\ Started(d, Null) \in RowType
  BY <1>1, RowOperations DEF Modes, Outcomes
<1>3. /\ \A stage \in StartUp \cup InPass \cup {"waiting"} : stage \in Working
      /\ {"claiming", "abandoning", "announcingRun"} \subseteq StartUp
      /\ {"evaluating", "dispatching", "beating", "recording", "failing",
          "releasing", "unrecorded"} = InPass
  BY DEF Working, StartUp, InPass
<1>4. ASSUME NEW stage \in Working, Goto(d, stage), row' \in RowType
      PROVE  TypeOK'
  <2> DEFINE new == [daemons[d] EXCEPT !.stage = stage]
  <2>1. daemons' = [daemons EXCEPT ![d] = new] /\ UNCHANGED service
    BY <1>4 DEF Goto, TypeOK
  <2>2. new \in DaemonType
    BY <1>1, <1>4 DEF DaemonType
  <2> HIDE DEF new
  <2> QED
    BY <1>4, <2>1, <2>2, StageType
<1>5. ASSUME NEW status \in ExitStatuses,
             \/ NotifyServiceReady(d, status) \/ Evaluate(d, status)
             \/ Dispatch(d, status) \/ RecordHeartbeat(d, status)
      PROVE  TypeOK'
  <2>1. row' \in RowType
    BY <1>1, <1>2, <1>5 DEF NotifyServiceReady, Evaluate, Dispatch,
                            RecordHeartbeat
  <2>2. \E stage, next, failure :
          /\ next \in Working /\ failure \in Working
          /\ Phase(d, stage, next, failure, status)
    BY <1>3, <1>5 DEF NotifyServiceReady, Evaluate, Dispatch, RecordHeartbeat
  <2> QED
    BY <2>1, <2>2, PhaseType
<1>6. CASE AbandonStart(d) \/ StopRequested(d)
  <2>1. row' \in RowType
    BY <1>1, <1>2, <1>6 DEF AbandonStart, StopRequested, Modes
  <2>2. \E stage \in Working : Goto(d, stage)
    BY <1>3, <1>6 DEF AbandonStart, StopRequested
  <2> QED
    BY <1>4, <2>1, <2>2
<1>7. CASE ClaimAgain(d)
  <2>1. CASE Exit(d, row, 2)
    BY <1>1, <2>1, ExitType
  <2>2. CASE /\ Goto(d, "announcingRun")
             /\ \/ row' = Started(d, IntervalOf[d])
                \/ row' = Started(d, Null)
    BY <1>2, <1>3, <1>4, <2>2
  <2> QED
    BY <1>7, <2>1, <2>2 DEF ClaimAgain
<1>8. CASE RecordRunStarted(d) \/ WaitOver(d)
  <2> DEFINE new == [daemons[d] EXCEPT !.stage = "evaluating", !.elapsed = 0]
  <2>1. daemons' = [daemons EXCEPT ![d] = new] /\ UNCHANGED service
    BY <1>8 DEF RecordRunStarted, WaitOver, TypeOK
  <2>2. new \in DaemonType
    BY <1>1, <1>3 DEF DaemonType
  <2>3. row' \in RowType
    BY <1>1, <1>2, <1>8 DEF RecordRunStarted, WaitOver, DaemonType
  <2> HIDE DEF new
  <2> QED
    BY <2>1, <2>2, <2>3, StageType
<1>9. ASSUME NEW result \in {"succeeded", "degraded"}, RecordSuccess(d, result)
      PROVE  TypeOK'
  <2> DEFINE stage == IF daemons[d].mode = "once" THEN "releasing"
                                                  ELSE "waiting"
             new == [daemons[d] EXCEPT !.stage = stage, !.result = result]
  <2>1. /\ daemons' = [daemons EXCEPT ![d] = new] /\ UNCHANGED service
        /\ row' = RunOutcome(d, result)
    BY <1>9 DEF RecordSuccess, TypeOK
  <2>2. stage \in Working /\ result \in Outcomes
    BY <1>3 DEF Outcomes
  <2> HIDE DEF stage
  <2>3. new \in DaemonType
    BY <1>1, <2>2 DEF DaemonType
  <2> HIDE DEF new
  <2> QED
    BY <1>2, <2>1, <2>2, <2>3, StageType
<1>10. CASE RecordFailure(d)
  <2> DEFINE new == [daemons[d] EXCEPT !.stage = "releasing",
                                       !.result = "failed"]
  <2>1. /\ daemons' = [daemons EXCEPT ![d] = new] /\ UNCHANGED service
        /\ row' = RunOutcome(d, "failed")
    BY <1>10 DEF RecordFailure, TypeOK
  <2>2. "failed" \in Outcomes
    BY DEF Outcomes
  <2>3. new \in DaemonType
    BY <1>1, <1>3, <2>2 DEF DaemonType
  <2> HIDE DEF new
  <2> QED
    BY <1>2, <2>1, <2>2, <2>3, StageType
<1>11. CASE Release(d)
  BY <1>2, <1>11, ExitType DEF Release
<1>12. CASE RecordFails(d)
  <2> DEFINE new == [daemons[d] EXCEPT !.stage = "unrecorded", !.status = 1]
  <2>1. daemons' = [daemons EXCEPT ![d] = new] /\ UNCHANGED service /\ row' = row
    BY <1>12 DEF RecordFails, TypeOK
  <2>2. new \in DaemonType
    BY <1>1, <1>3 DEF DaemonType, ExitStatuses
  <2> HIDE DEF new
  <2> QED
    BY <1>1, <2>1, <2>2, StageType
<1> QED
  BY <1>5, <1>6, <1>7, <1>8, <1>9, <1>10, <1>11, <1>12 DEF Work

(* Every reachable state is well typed.                                    *)
LEMMA DaemonTypes == Spec => []TypeOK
<1>1. Init => TypeOK
  <2> SUFFICES ASSUME Init PROVE TypeOK
    OBVIOUS
  <2>1. 0 \in 0 .. MaxAge
    BY DaemonAssumption
  <2>2. NoRow \in RowType
    BY <2>1 DEF NoRow, RowType
  <2>3. Off \in DaemonType
    BY DEF Off, DaemonType, Ended, Modes, Outcomes, ExitStatuses
  <2> QED
    BY <2>2, <2>3 DEF Init, TypeOK, RowType, DaemonType
<1>2. TypeOK /\ [Next]_vars => TypeOK'
  <2> SUFFICES ASSUME TypeOK, [Next]_vars PROVE TypeOK'
    OBVIOUS
  <2>1. row \in RowType /\ \A d \in Daemons : daemons[d] \in DaemonType
    BY DEF TypeOK, RowType, DaemonType
  <2>2. CASE Tick
    <3>1. Older(row.age) \in 0 .. MaxAge /\ 0 \in 0 .. MaxAge
      BY <2>1, DaemonAssumption DEF Older, RowType
    <3>2. row' \in RowType
      BY <2>1, <2>2, <3>1 DEF Tick, RowType
    <3>3. \A d \in Daemons :
            [daemons[d] EXCEPT !.elapsed = @ + 1] \in DaemonType
      BY <2>1 DEF DaemonType
    <3>4. daemons' \in [Daemons -> DaemonType]
      BY <2>1, <2>2, <3>3 DEF Tick
    <3> QED
      BY <2>2, <3>2, <3>4 DEF Tick, TypeOK, RowType, DaemonType
  <2>3. CASE StartService \/ \E alive \in BOOLEAN : RefuseService(alive)
    BY <2>3 DEF StartService, RefuseService, ManageExit, Manage, TypeOK
  <2>4. ASSUME NEW d \in Daemons, NEW mode \in Modes, NEW alive \in BOOLEAN,
               Start(d, mode, alive)
        PROVE  TypeOK'
    <3> DEFINE stage == IF mode = "once" THEN "claiming" ELSE "announcing"
               new == [Off EXCEPT !.stage = stage, !.mode = mode]
    <3>1. /\ row' = Started(d, IntervalOf[d])
          /\ daemons' = [daemons EXCEPT ![d] = new]
          /\ Manage(d, "up")
      BY <2>4 DEF Start
    <3>2. row' \in RowType
      <4>1. "succeeded" \in Outcomes /\ IntervalOf[d] \in Nat
        BY DaemonAssumption DEF Outcomes
      <4> QED
        BY <2>1, <3>1, <4>1, RowOperations
    <3>3. stage \in Working
      BY DEF Working, StartUp
    <3> HIDE DEF stage
    <3>4. new \in DaemonType
      BY <3>3 DEF Off, DaemonType, Modes, Outcomes, ExitStatuses
    <3> HIDE DEF new
    <3>5. service' \in [manager : Managers, state : {"due", "up", "over"}]
      BY <3>1 DEF Manage, TypeOK
    <3> QED
      BY <3>1, <3>2, <3>4, <3>5 DEF TypeOK, RowType, DaemonType
  <2>5. ASSUME NEW d \in Daemons, Crash(d) PROVE TypeOK'
    BY <2>1, <2>5, ExitType DEF Crash
  <2>6. CASE UNCHANGED vars
    BY <2>6 DEF vars, TypeOK
  <2> QED
    BY <2>2, <2>3, <2>4, <2>5, <2>6, WorkType DEF Next
<1> QED
  BY <1>1, <1>2, PTL DEF Spec

-----------------------------------------------------------------------------
(* The owner fences.                                                       *)

(* The writes a process makes at work: none of them touches a row that the *)
(* process does not own, and none but the last gives the row up.           *)
LEMMA FencedWrites ==
    ASSUME row \in RowType, NEW d \in Daemons, NEW mode \in Modes,
           NEW result \in Outcomes
    PROVE  /\ ~Owns(d) => /\ Heartbeat(d) = row /\ Stopped(d) = row
                          /\ RunStarted(d, mode) = row
                          /\ RunOutcome(d, result) = row
           /\ \A w \in {Heartbeat(d), RunStarted(d, mode),
                        RunOutcome(d, result)} :
                 /\ w.state = row.state /\ w.owner = row.owner
                 /\ w.interval = row.interval
BY DEF RowType, Owns, Heartbeat, Stopped, RunStarted, RunOutcome

(* An incumbent that lives and is not expired keeps every other process    *)
(* out, with a probe and without one.  (try_record_start)                  *)
LEMMA LiveIncumbentRefuses ==
    ASSUME TypeOK, NEW d \in Daemons, Owns(d), NEW e \in Daemons, e # d,
           row.interval # Null, ~(row.age > 3 * row.interval),
           NEW interval, NEW alive, Probes(alive) \/ alive = TRUE
    PROVE  Refused(e, interval, alive)
<1>1. row.owner # Gone /\ row.owner # e /\ row.state = "running"
  BY DaemonAssumption DEF Owns
<1>2. alive
  BY <1>1 DEF Probes
<1>3. ~Expired(interval)
  BY DEF Expired, StalePollCount
<1> QED
  BY <1>1, <1>2, <1>3 DEF Refused

(* What one step of process e can do to the row: a claim that was not      *)
(* refused, the end of e, or a fenced write.                               *)
LEMMA RowSteps ==
    ASSUME TypeOK, NEW e \in Daemons,
           \/ \E mode \in Modes, alive \in BOOLEAN : Start(e, mode, alive)
           \/ Work(e)
           \/ Crash(e)
    PROVE  \/ /\ daemons'[e].stage = "off"
              /\ row' = EndedRow(e, row) \/ row' = EndedRow(e, Stopped(e))
           \/ \E interval, alive :
                 /\ Probes(alive) \/ alive = TRUE
                 /\ ~Refused(e, interval, alive)
                 /\ row' = Started(e, interval)
           \/ /\ ~Owns(e) => row' = row
              /\ row'.state = row.state /\ row'.owner = row.owner
<1>1. row \in RowType /\ daemons[e] \in DaemonType
  BY DEF TypeOK, RowType, DaemonType
<1>2. \A r, status : Exit(e, r, status) =>
         daemons'[e].stage = "off" /\ row' = EndedRow(e, r)
  BY DEF Exit, Off, TypeOK
<1>3. CASE \E mode \in Modes, alive \in BOOLEAN : Start(e, mode, alive)
  BY <1>3 DEF Start
<1>4. CASE Crash(e)
  BY <1>2, <1>4 DEF Crash
<1>5. CASE Work(e)
  <2>1. CASE Release(e)
    BY <1>2, <2>1 DEF Release
  <2>2. CASE ClaimAgain(e)
    <3>1. CASE Exit(e, row, 2)
      BY <1>2, <3>1
    <3>2. CASE \E interval : /\ ~Refused(e, interval, TRUE)
                             /\ row' = Started(e, interval)
      BY <3>2
    <3> QED
      BY <2>2, <3>1, <3>2 DEF ClaimAgain
  <2>3. CASE \/ row' = row \/ row' = Heartbeat(e)
             \/ \E mode \in Modes : row' = RunStarted(e, mode)
             \/ \E result \in Outcomes : row' = RunOutcome(e, result)
    BY <1>1, <2>3, FencedWrites DEF Modes, Outcomes
  <2>4. \/ Release(e) \/ ClaimAgain(e)
        \/ row' = row \/ row' = Heartbeat(e)
        \/ \E mode \in Modes : row' = RunStarted(e, mode)
        \/ \E result \in Outcomes : row' = RunOutcome(e, result)
    BY <1>1, <1>5 DEF Work, NotifyServiceReady, Evaluate, Dispatch,
         RecordHeartbeat, AbandonStart, RecordRunStarted, RecordSuccess,
         RecordFailure, RecordFails, WaitOver, StopRequested, Modes, Outcomes, DaemonType
  <2> QED
    BY <2>1, <2>2, <2>3, <2>4
<1> QED
  BY <1>3, <1>4, <1>5

(* The row leaves a process that owns it only when that process ends or    *)
(* its heartbeat is older than three of its intervals, for any number of   *)
(* daemons and however long a pass takes.                                  *)
THEOREM RowKept == Spec => OwnerKeepsRow
<1>1. ASSUME TypeOK, [Next]_vars, NEW d \in Daemons, Owns(d), ~Owns(d)',
             daemons'[d].stage # "off", row.interval # Null,
             ~(row.age > 3 * row.interval)
      PROVE  FALSE
  <2>1. row \in RowType
    BY <1>1 DEF TypeOK, RowType
  <2>2. CASE UNCHANGED vars
    BY <1>1, <2>2 DEF vars, Owns
  <2>3. CASE Tick \/ StartService \/ \E alive \in BOOLEAN : RefuseService(alive)
    BY <1>1, <2>1, <2>3 DEF Tick, StartService, RefuseService, Owns, RowType
  <2>4. ASSUME NEW e \in Daemons,
               \/ \E mode \in Modes, alive \in BOOLEAN : Start(e, mode, alive)
               \/ Work(e)
               \/ Crash(e)
        PROVE  FALSE
    <3>1. CASE /\ daemons'[e].stage = "off"
               /\ row' = EndedRow(e, row) \/ row' = EndedRow(e, Stopped(e))
      <4>1. e # d
        BY <1>1, <3>1
      <4>2. Stopped(e) = row
        BY <1>1, <4>1 DEF Owns, Stopped
      <4> QED
        BY <1>1, <2>1, <3>1, <4>1, <4>2 DEF EndedRow, Owns, RowType
    <3>2. ASSUME NEW interval, NEW alive, Probes(alive) \/ alive = TRUE,
                 ~Refused(e, interval, alive), row' = Started(e, interval)
          PROVE  FALSE
      <4>1. e = d
        BY <1>1, <3>2, LiveIncumbentRefuses
      <4> QED
        BY <1>1, <3>2, <4>1 DEF Started, Owns
    <3>3. CASE row'.state = row.state /\ row'.owner = row.owner
      BY <1>1, <3>3 DEF Owns
    <3> QED
      BY <1>1, <2>4, <3>1, <3>2, <3>3, RowSteps
  <2> QED
    BY <1>1, <2>2, <2>3, <2>4 DEF Next
<1>2. TypeOK /\ [Next]_vars =>
        [\A d \in Daemons :
           Owns(d) /\ ~Owns(d)' =>
              \/ daemons'[d].stage = "off"
              \/ row.interval = Null
              \/ row.age > 3 * row.interval]_vars
  BY <1>1
<1> QED
  BY <1>2, DaemonTypes, PTL DEF Spec, OwnerKeepsRow

(* A step of one process leaves the others as they are.                    *)
LEMMA OthersWait ==
    ASSUME TypeOK, NEW d \in Daemons, NEW e \in Daemons, e # d,
           \/ \E mode \in Modes, alive \in BOOLEAN : Start(e, mode, alive)
           \/ Work(e)
           \/ Crash(e)
    PROVE  daemons'[d] = daemons[d]
BY DEF Start, Crash, Exit, Work, NotifyServiceReady, Evaluate, Dispatch,
       RecordHeartbeat, Phase, AbandonStart, Goto, ClaimAgain,
       RecordRunStarted, RecordSuccess, RecordFailure, RecordFails, WaitOver,
       StopRequested, Release, TypeOK

(* While an owner rests or is about to end, the row shows the outcome of   *)
(* its last pass: a displaced process that finishes late writes nothing.   *)
THEOREM OutcomeRecorded == Spec => []OwnerOutcomeRecorded
<1> DEFINE Done == {"waiting", "releasing"}
<1>1. Init => OwnerOutcomeRecorded
  BY DEF Init, OwnerOutcomeRecorded, Owns, NoRow
<1>2. TypeOK /\ OwnerOutcomeRecorded /\ [Next]_vars => OwnerOutcomeRecorded'
  <2> SUFFICES ASSUME TypeOK, OwnerOutcomeRecorded, [Next]_vars,
                      NEW d \in Daemons, Owns(d)', daemons'[d].stage \in Done
               PROVE  row'.lastRun = daemons'[d].result
    BY DEF OwnerOutcomeRecorded
  <2>1. row \in RowType /\ daemons[d] \in DaemonType
    BY DEF TypeOK, RowType, DaemonType
  <2>2. Owns(d) /\ daemons[d].stage \in Done => row.lastRun = daemons[d].result
    BY DEF OwnerOutcomeRecorded
  <2>3. CASE UNCHANGED vars
    BY <2>2, <2>3 DEF vars, Owns
  <2>4. CASE Tick
    <3>1. /\ row'.state = row.state /\ row'.owner = row.owner
          /\ row'.lastRun = row.lastRun
      BY <2>1, <2>4 DEF Tick, RowType
    <3>2. /\ daemons'[d].stage = daemons[d].stage
          /\ daemons'[d].result = daemons[d].result
      BY <2>1, <2>4 DEF Tick, DaemonType
    <3> QED
      BY <2>2, <3>1, <3>2 DEF Owns
  <2>5. CASE StartService \/ \E alive \in BOOLEAN : RefuseService(alive)
    BY <2>2, <2>5 DEF StartService, RefuseService, Owns
  <2>6. ASSUME NEW e \in Daemons, e # d,
               \/ \E mode \in Modes, alive \in BOOLEAN : Start(e, mode, alive)
               \/ Work(e)
               \/ Crash(e)
        PROVE  row'.lastRun = daemons'[d].result
    <3>1. daemons'[d] = daemons[d]
      BY <2>6, OthersWait
    <3>2. CASE row' = EndedRow(e, row) \/ row' = EndedRow(e, Stopped(e))
      <4>1. /\ row'.lastRun = row.lastRun /\ row.owner = d
            /\ row.state = "running"
        BY <2>1, <2>6, <3>2, DaemonAssumption
           DEF EndedRow, Stopped, Owns, RowType
      <4> QED
        BY <2>2, <3>1, <4>1 DEF Owns
    <3>3. ASSUME NEW interval, row' = Started(e, interval)
          PROVE  FALSE
      BY <2>1, <2>6, <3>3 DEF Started, Owns, RowType
    <3>4. CASE /\ ~Owns(e) => row' = row
               /\ row'.state = row.state /\ row'.owner = row.owner
      BY <2>2, <2>6, <3>1, <3>4 DEF Owns
    <3> QED
      BY <2>6, <3>2, <3>3, <3>4, RowSteps
  <2>7. ASSUME NEW mode \in Modes, NEW alive \in BOOLEAN, Start(d, mode, alive)
        PROVE  FALSE
    BY <2>7 DEF Start, Off, TypeOK
  <2>8. CASE Crash(d) \/ Release(d)
    BY <2>8 DEF Crash, Release, Exit, Off, TypeOK
  <2>9. CASE ClaimAgain(d)
    <3>1. \A r, status : Exit(d, r, status) => daemons'[d].stage = "off"
      BY DEF Exit, Off, TypeOK
    <3>2. Goto(d, "announcingRun") => daemons'[d].stage = "announcingRun"
      BY <2>1 DEF Goto, TypeOK, DaemonType
    <3> QED
      BY <2>9, <3>1, <3>2 DEF ClaimAgain
  <2>10. ASSUME NEW status \in ExitStatuses,
                \/ NotifyServiceReady(d, status) \/ Evaluate(d, status)
                \/ Dispatch(d, status) \/ RecordHeartbeat(d, status)
         PROVE  FALSE
    BY <2>1, <2>10 DEF NotifyServiceReady, Evaluate, Dispatch,
                       RecordHeartbeat, Phase, TypeOK
  <2>11. CASE AbandonStart(d) \/ RecordRunStarted(d) \/ WaitOver(d)
    BY <2>1, <2>11 DEF AbandonStart, RecordRunStarted, WaitOver, Goto, TypeOK
  <2>12. CASE StopRequested(d)
    <3>1. /\ row' = row /\ daemons[d].stage \in Done
          /\ daemons'[d].result = daemons[d].result
      BY <2>1, <2>12 DEF StopRequested, Goto, TypeOK
    <3> QED
      BY <2>2, <3>1 DEF Owns
  <2>13. ASSUME NEW result \in Outcomes, row' = RunOutcome(d, result),
                daemons'[d].result = result
         PROVE  row'.lastRun = daemons'[d].result
    BY <2>1, <2>13 DEF RunOutcome, Owns, RowType
  <2>14. ASSUME NEW result \in {"succeeded", "degraded"},
                RecordSuccess(d, result)
         PROVE  row'.lastRun = daemons'[d].result
    BY <2>1, <2>13, <2>14 DEF RecordSuccess, TypeOK, Outcomes, DaemonType
  <2>15. CASE RecordFailure(d)
    BY <2>1, <2>13, <2>15 DEF RecordFailure, TypeOK, Outcomes, DaemonType
  <2>16. CASE RecordFails(d)
    BY <2>1, <2>16 DEF RecordFails, TypeOK
  <2>17. CASE Work(d)
    BY <2>8, <2>9, <2>10, <2>11, <2>12, <2>14, <2>15, <2>16, <2>17 DEF Work
  <2> QED
    BY <2>3, <2>4, <2>5, <2>6, <2>7, <2>8, <2>17 DEF Next
<1> QED
  BY <1>1, <1>2, DaemonTypes, PTL DEF Spec

-----------------------------------------------------------------------------
(* One watcher.                                                            *)

(* No start-up and no pass takes more than one and a half intervals.       *)
Punctual == \A d \in Daemons : 2 * MaxStretch <= 3 * IntervalOf[d]

Longest(d) == IF MaxStretch > IntervalOf[d] THEN MaxStretch ELSE IntervalOf[d]

(* Where the heartbeat is no older than the stretch: since the claim, and  *)
(* from the heartbeat of a pass until the next pass begins.                *)
Recent == StartUp \cup {"recording", "waiting"}

(* The inductive form of WatcherReportedRunning: the heartbeat of a        *)
(* watcher is at most the current stretch and the one before it old.       *)
Steady(d) ==
    /\ row.state = "running" /\ row.owner = d
    /\ row.interval = IntervalOf[d]
    /\ daemons[d].elapsed <= Longest(d)
    /\ row.age <= daemons[d].elapsed + Longest(d)
    /\ daemons[d].stage \in Recent => row.age <= daemons[d].elapsed

SteadyInv == \A d \in Daemons : daemons[d].stage \in Working => Steady(d)

(* The row names no living process that is not at work.                    *)
OwnerWorks == \A d \in Daemons : row.owner = d => daemons[d].stage \in Working

(* Numbers, once for the proofs below.                                     *)
LEMMA DaemonNumbers ==
    ASSUME TypeOK, NEW d \in Daemons
    PROVE  /\ row.age \in Nat /\ daemons[d].elapsed \in Nat
           /\ IntervalOf[d] \in Nat /\ IntervalOf[d] # Null
           /\ MaxStretch \in Nat /\ Longest(d) \in Nat
           /\ IntervalOf[d] <= Longest(d) /\ MaxStretch <= Longest(d)
BY DaemonAssumption DEF TypeOK, Longest, Null

(* Two stretches fit into the three polls after which a heartbeat is       *)
(* stale.  (_STALE_POLL_COUNT)                                             *)
LEMMA SteadyIsRecent ==
    ASSUME TypeOK, Punctual, NEW d \in Daemons, Steady(d)
    PROVE  row.age <= 3 * IntervalOf[d]
<1>1. row.age <= 2 * Longest(d)
  BY DaemonNumbers DEF Steady
<1>2. 2 * Longest(d) <= 3 * IntervalOf[d]
  BY DaemonNumbers DEF Punctual, Longest
<1> QED
  BY <1>1, <1>2, DaemonNumbers

(* How the stages of a process are told apart.                             *)
LEMMA Stages ==
    /\ "off" \notin Working /\ Recent \subseteq Working
    /\ {"announcing", "claiming", "announcingRun", "abandoning", "recording",
        "waiting"} = Recent
    /\ {"evaluating", "dispatching", "beating", "failing",
        "releasing", "unrecorded"} = Working \ Recent
BY DEF Working, StartUp, InPass, Recent

(* While a watcher is steady no other process changes the row.             *)
LEMMA SteadyRow ==
    ASSUME TypeOK, Punctual, NEW d \in Daemons, Steady(d),
           NEW e \in Daemons, e # d,
           \/ \E mode \in Modes, alive \in BOOLEAN : Start(e, mode, alive)
           \/ Work(e)
           \/ Crash(e)
    PROVE  row' = row
<1>1. row \in RowType /\ Owns(d) /\ ~Owns(e)
  BY DEF TypeOK, RowType, Steady, Owns
<1>2. row.interval # Null /\ ~(row.age > 3 * row.interval)
  BY SteadyIsRecent, DaemonNumbers DEF Steady
<1>3. CASE row' = EndedRow(e, row) \/ row' = EndedRow(e, Stopped(e))
  BY <1>1, <1>3 DEF EndedRow, Stopped, Owns, RowType
<1>4. ASSUME NEW interval, NEW alive, Probes(alive) \/ alive = TRUE,
             ~Refused(e, interval, alive), row' = Started(e, interval)
      PROVE  FALSE
  BY <1>1, <1>2, <1>4, LiveIncumbentRefuses
<1> QED
  BY <1>1, <1>3, <1>4, RowSteps

(* A step that keeps the heartbeat and the stretch, one that writes a      *)
(* heartbeat, and one that begins a new stretch, keep a watcher steady.    *)
LEMMA SteadyStep ==
    ASSUME TypeOK, TypeOK', NEW d \in Daemons, Steady(d),
           row'.state = row.state, row'.owner = row.owner,
           row'.interval = row.interval,
           \/ /\ row'.age = row.age
              /\ daemons'[d].elapsed = daemons[d].elapsed
              /\ daemons'[d].stage \in Recent => daemons[d].stage \in Recent
           \/ /\ row'.age = 0
              /\ daemons'[d].elapsed = daemons[d].elapsed
           \/ /\ row'.age = row.age
              /\ daemons'[d].elapsed = 0
              /\ daemons[d].stage \in Recent
              /\ daemons'[d].stage \notin Recent
    PROVE  Steady(d)'
<1>1. Longest(d)' = Longest(d)
  BY DEF Longest
<1> QED
  BY <1>1, DaemonNumbers DEF Steady

(* What a watcher does at work keeps it steady, until it ends.             *)
LEMMA WorkSteady ==
    ASSUME TypeOK, TypeOK', NEW d \in Daemons, Work(d), Steady(d)
    PROVE  daemons'[d].stage = "off" \/ Steady(d)'
<1> DEFINE Kept == /\ row'.state = row.state /\ row'.owner = row.owner
                   /\ row'.interval = row.interval /\ row'.age = row.age
<1>1. row \in RowType /\ daemons[d] \in DaemonType /\ Owns(d)
  BY DEF TypeOK, RowType, DaemonType, Steady, Owns
<1>2. /\ \A mode : row' = RunStarted(d, mode) => Kept
      /\ \A result : row' = RunOutcome(d, result) => Kept
      /\ row' = row => Kept
      /\ \A interval : row' = Started(d, interval) => Kept
  BY <1>1 DEF RunStarted, RunOutcome, Started, RowType
<1>3. ASSUME NEW status \in ExitStatuses,
             \/ NotifyServiceReady(d, status) \/ Evaluate(d, status)
             \/ Dispatch(d, status)
      PROVE  Steady(d)'
  <2>1. Kept
    BY <1>2, <1>3 DEF NotifyServiceReady, Evaluate, Dispatch
  <2>2. /\ daemons'[d].elapsed = daemons[d].elapsed
        /\ daemons'[d].stage \in Recent => daemons[d].stage \in Recent
    BY <1>1, <1>3, Stages DEF NotifyServiceReady, Evaluate, Dispatch, Phase,
                              TypeOK, DaemonType
  <2> QED
    BY <2>1, <2>2, SteadyStep
<1>4. ASSUME NEW status \in ExitStatuses, RecordHeartbeat(d, status)
      PROVE  Steady(d)'
  <2>1. daemons'[d].elapsed = daemons[d].elapsed
    BY <1>1, <1>4 DEF RecordHeartbeat, Phase, TypeOK, DaemonType
  <2>2. CASE status = 0
    <3>1. /\ row'.state = row.state /\ row'.owner = row.owner
          /\ row'.interval = row.interval /\ row'.age = 0
      BY <1>1, <1>4, <2>2 DEF RecordHeartbeat, Heartbeat, RowType
    <3> QED
      BY <2>1, <3>1, SteadyStep
  <2>3. CASE status # 0
    <3>1. Kept
      BY <1>2, <1>4, <2>3 DEF RecordHeartbeat
    <3>2. daemons'[d].stage \notin Recent
      BY <1>1, <1>4, <2>3, Stages DEF RecordHeartbeat, Phase, TypeOK, DaemonType
    <3> QED
      BY <2>1, <3>1, <3>2, SteadyStep
  <2> QED
    BY <2>2, <2>3
<1>5. CASE AbandonStart(d) \/ StopRequested(d)
  <2>1. Kept
    BY <1>2, <1>5 DEF AbandonStart, StopRequested
  <2>2. /\ daemons'[d].elapsed = daemons[d].elapsed
        /\ daemons'[d].stage \notin Recent
    BY <1>1, <1>5, Stages DEF AbandonStart, StopRequested, Goto, TypeOK,
                              DaemonType
  <2> QED
    BY <2>1, <2>2, SteadyStep
<1>6. CASE ClaimAgain(d)
  <2>1. \A interval : ~Refused(d, interval, TRUE)
    BY <1>1 DEF Refused, Owns
  <2>2. daemons[d].stage = "claiming" /\ Goto(d, "announcingRun") /\ Kept
    BY <1>2, <1>6, <2>1 DEF ClaimAgain
  <2>3. /\ daemons'[d].elapsed = daemons[d].elapsed
        /\ daemons[d].stage \in Recent
    BY <1>1, <2>2, Stages DEF Goto, TypeOK, DaemonType
  <2> QED
    BY <2>2, <2>3, SteadyStep
<1>7. CASE RecordRunStarted(d) \/ WaitOver(d)
  <2>1. Kept
    BY <1>2, <1>7 DEF RecordRunStarted, WaitOver
  <2>2. /\ daemons'[d].elapsed = 0 /\ daemons'[d].stage \notin Recent
        /\ daemons[d].stage \in Recent
    BY <1>1, <1>7, Stages DEF RecordRunStarted, WaitOver, TypeOK, DaemonType
  <2> QED
    BY <2>1, <2>2, SteadyStep
<1>8. CASE RecordFailure(d) \/ \E result \in Outcomes : RecordSuccess(d, result)
  <2>1. Kept
    BY <1>2, <1>8 DEF RecordFailure, RecordSuccess
  <2>2. /\ daemons'[d].elapsed = daemons[d].elapsed
        /\ daemons[d].stage \in Recent \/ daemons'[d].stage \notin Recent
    BY <1>1, <1>8, Stages DEF RecordFailure, RecordSuccess, TypeOK, DaemonType
  <2> QED
    BY <2>1, <2>2, SteadyStep
<1>9. CASE Release(d)
  BY <1>9 DEF Release, Exit, Off, TypeOK
<1>10. CASE RecordFails(d)
  <2>1. Kept
    BY <1>2, <1>10 DEF RecordFails
  <2>2. /\ daemons'[d].elapsed = daemons[d].elapsed
        /\ daemons'[d].stage \notin Recent
    BY <1>1, <1>10, Stages DEF RecordFails, TypeOK, DaemonType
  <2> QED
    BY <2>1, <2>2, SteadyStep
<1> QED
  BY <1>3, <1>4, <1>5, <1>6, <1>7, <1>8, <1>9, <1>10 DEF Work, Outcomes

(* The watchers' invariant is inductive.                                   *)
LEMMA SteadyInductive ==
    ASSUME TypeOK, TypeOK', Punctual, SteadyInv, OwnerWorks, [Next]_vars
    PROVE  SteadyInv' /\ OwnerWorks'
<1>1. row \in RowType /\ \A d \in Daemons : daemons[d] \in DaemonType
  BY DEF TypeOK, RowType, DaemonType
<1>2. CASE UNCHANGED vars
  BY <1>2 DEF vars, SteadyInv, OwnerWorks, Steady, Longest
<1>3. CASE StartService \/ \E alive \in BOOLEAN : RefuseService(alive)
  BY <1>3 DEF StartService, RefuseService, SteadyInv, OwnerWorks, Steady,
              Longest
<1>4. CASE Tick
  <2>1. /\ row'.owner = row.owner /\ row'.state = row.state
        /\ row'.interval = row.interval /\ row'.age <= row.age + 1
    BY <1>1, <1>4, DaemonAssumption DEF Tick, RowType, Older
  <2>2. ASSUME NEW d \in Daemons
        PROVE  /\ daemons'[d].stage = daemons[d].stage
               /\ daemons[d].stage \in Working =>
                    daemons'[d].elapsed = daemons[d].elapsed + 1
    BY <1>1, <1>4, Stages DEF Tick, DaemonType
  <2>3. ASSUME NEW d \in Daemons, daemons'[d].stage \in Working
        PROVE  Steady(d)'
    <3>1. Steady(d) /\ daemons[d].stage \in Working
      BY <2>2, <2>3 DEF SteadyInv
    <3>2. daemons[d].elapsed + 1 <= Longest(d)
      <4>1. ~Overdue(d)
        BY <1>4 DEF Tick
      <4>2. CASE daemons[d].stage = "waiting"
        BY <4>1, <4>2, DaemonNumbers DEF Overdue, RemainingDelay
      <4>3. CASE daemons[d].stage \in StartUp \cup InPass
        BY <4>1, <4>3, DaemonNumbers DEF Overdue
      <4> QED
        BY <3>1, <4>2, <4>3 DEF Working
    <3>3. row'.age \in Nat /\ Longest(d)' = Longest(d)
      BY DaemonAssumption DEF TypeOK, Longest
    <3> QED
      BY <2>1, <2>2, <3>1, <3>2, <3>3, DaemonNumbers DEF Steady
  <2> QED
    BY <2>1, <2>2, <2>3 DEF SteadyInv, OwnerWorks
<1>5. ASSUME NEW e \in Daemons,
             \/ \E mode \in Modes, alive \in BOOLEAN : Start(e, mode, alive)
             \/ Work(e)
             \/ Crash(e)
      PROVE  SteadyInv' /\ OwnerWorks'
  <2>1. ASSUME NEW d \in Daemons, d # e, daemons'[d].stage \in Working
        PROVE  Steady(d)'
    <3>1. daemons'[d] = daemons[d]
      BY <1>5, <2>1, OthersWait
    <3>2. Steady(d)
      BY <2>1, <3>1 DEF SteadyInv
    <3>3. row' = row
      BY <1>5, <2>1, <3>2, SteadyRow
    <3> QED
      BY <3>1, <3>2, <3>3 DEF Steady, Longest
  <2>2. CASE daemons'[e].stage = "off"
    <3>1. row'.owner \in {row.owner, Gone} /\ row'.owner # e
      <4>1. \E r \in {row, Stopped(e)} : row' = EndedRow(e, r)
        <5>1. CASE Work(e)
          <6>1. \A stage \in Working : ~Goto(e, stage)
            BY <1>1, <2>2, Stages DEF Goto, TypeOK, DaemonType
          <6>2. \A stage, next, failure, status :
                  next \in Working /\ failure \in Working =>
                     ~Phase(e, stage, next, failure, status)
            BY <1>1, <2>2, Stages DEF Phase, TypeOK, DaemonType
          <6>3. /\ ~RecordRunStarted(e) /\ ~WaitOver(e) /\ ~RecordFailure(e)
                /\ ~RecordFails(e)
            BY <1>1, <2>2 DEF RecordRunStarted, WaitOver, RecordFailure,
                              RecordFails, TypeOK, DaemonType
          <6>4. ASSUME NEW result, RecordSuccess(e, result) PROVE FALSE
            BY <1>1, <2>2, <6>4 DEF RecordSuccess, TypeOK, DaemonType
          <6>5. /\ "claiming" \in Working /\ "abandoning" \in Working
                /\ "dispatching" \in Working /\ "beating" \in Working
                /\ "recording" \in Working /\ "failing" \in Working
                /\ "releasing" \in Working
            BY DEF Working, StartUp, InPass
          <6>6. ASSUME NEW status \in ExitStatuses,
                       \/ NotifyServiceReady(e, status) \/ Evaluate(e, status)
                       \/ Dispatch(e, status) \/ RecordHeartbeat(e, status)
                PROVE  FALSE
            BY <6>2, <6>5, <6>6, Zenon DEF NotifyServiceReady, Evaluate, Dispatch,
                                    RecordHeartbeat
          <6>7. ~AbandonStart(e) /\ ~StopRequested(e)
            BY <6>1, <6>5 DEF AbandonStart, StopRequested
          <6>8. Release(e) \/ ClaimAgain(e)
            BY <5>1, <6>3, <6>4, <6>6, <6>7, Zenon DEF Work
          <6> QED
            BY <6>1, <6>8, Stages DEF Release, ClaimAgain, Exit
        <5>2. CASE Crash(e)
          BY <5>2 DEF Crash, Exit
        <5>3. ASSUME NEW mode \in Modes, NEW alive \in BOOLEAN,
                     Start(e, mode, alive)
              PROVE  FALSE
          BY <2>2, <5>3 DEF Start, Off, TypeOK
        <5> QED
          BY <1>5, <5>1, <5>2, <5>3
      <4> QED
        BY <1>1, <4>1, DaemonAssumption DEF EndedRow, Stopped, RowType
    <3>2. OwnerWorks'
      BY <1>5, <3>1, OthersWait, DaemonAssumption DEF OwnerWorks
    <3> QED
      BY <2>1, <2>2, <3>2, Stages DEF SteadyInv
  <2>3. CASE daemons'[e].stage # "off"
    <3>1. daemons'[e].stage \in Working
      BY <2>3 DEF TypeOK, Ended
    <3>2. Steady(e)'
      <4>1. CASE Work(e)
        <5>1. daemons[e].stage \in Working
          BY <4>1, Stages DEF Work, NotifyServiceReady, Evaluate, Dispatch,
               RecordHeartbeat, Phase, AbandonStart, ClaimAgain,
               RecordRunStarted, RecordSuccess, RecordFailure, RecordFails, WaitOver,
               StopRequested, Release
        <5> QED
          BY <2>3, <4>1, <5>1, WorkSteady DEF SteadyInv
      <4>2. ASSUME NEW mode \in Modes, NEW alive \in BOOLEAN,
                   Start(e, mode, alive)
            PROVE  Steady(e)'
        <5>1. ~Owns(e)
          BY <4>2, Stages DEF Start, OwnerWorks, Owns
        <5>2. /\ row'.state = "running" /\ row'.owner = e /\ row'.age = 0
              /\ row'.interval = IntervalOf[e]
          BY <1>1, <4>2, <5>1 DEF Start, Started, RowType
        <5>3. daemons'[e].elapsed = 0
          BY <4>2 DEF Start, Off, TypeOK
        <5>4. Longest(e)' = Longest(e) /\ Longest(e) \in Nat
          BY DaemonNumbers DEF Longest
        <5> QED
          BY <5>2, <5>3, <5>4 DEF Steady
      <4>3. CASE Crash(e)
        BY <2>3, <4>3 DEF Crash, Exit, Off, TypeOK
      <4> QED
        BY <1>5, <4>1, <4>2, <4>3
    <3>3. OwnerWorks'
      BY <3>1, <3>2 DEF OwnerWorks, Steady
    <3> QED
      BY <2>1, <3>2, <3>3 DEF SteadyInv
  <2> QED
    BY <2>2, <2>3
<1> QED
  BY <1>2, <1>3, <1>4, <1>5 DEF Next

(* Wherever no start-up and no pass takes longer than one and a half of a  *)
(* daemon's intervals there is at most one watcher and it is reported      *)
(* running: for any number of daemons, any mix of cadences, and whatever   *)
(* crashes, relaunches and reused pids happen.                             *)
THEOREM OneWatcher == ASSUME Punctual PROVE Spec => []WatcherInv
<1>1. Init => SteadyInv /\ OwnerWorks
  BY Stages, DaemonAssumption DEF Init, SteadyInv, OwnerWorks, NoRow, Off
<1>2. TypeOK /\ TypeOK' /\ SteadyInv /\ OwnerWorks /\ [Next]_vars
        => SteadyInv' /\ OwnerWorks'
  BY SteadyInductive
<1>3. TypeOK /\ SteadyInv => WatcherInv
  <2> SUFFICES ASSUME TypeOK, SteadyInv PROVE WatcherInv
    OBVIOUS
  <2>1. WatcherReportedRunning
    <3> SUFFICES ASSUME NEW d \in Daemons, daemons[d].stage \in Working
                 PROVE  Owns(d) /\ Liveness(StalePollCount * IntervalOf[d])
                                     = "running"
      BY DEF WatcherReportedRunning
    <3>1. Steady(d)
      BY DEF SteadyInv
    <3>2. row.age <= 3 * IntervalOf[d]
      BY <3>1, SteadyIsRecent
    <3> QED
      BY <3>1, <3>2 DEF Steady, Owns, Liveness, StalePollCount
  <2>2. SingleWatcher
    <3> DEFINE S == {d \in Daemons : daemons[d].stage \in Working}
    <3>1. \A d \in S : row.owner = d
      BY DEF SteadyInv, Steady
    <3> HIDE DEF S
    <3>2. S = {} \/ \E d : S = {d}
      BY <3>1
    <3>3. Cardinality(S) \in {0, 1}
      <4>1. CASE S = {}
        BY <4>1, FS_EmptySet, Zenon
      <4>2. ASSUME NEW d, S = {d} PROVE Cardinality(S) = 1
        BY <4>2, FS_Singleton, Zenon
      <4> QED
        BY <3>2, <4>1, <4>2
    <3> QED
      BY <3>3 DEF SingleWatcher, S
  <2> QED
    BY <2>1, <2>2 DEF WatcherInv
<1> QED
  BY <1>1, <1>2, <1>3, DaemonTypes, PTL DEF Spec

=============================================================================
