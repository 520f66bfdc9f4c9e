---------------------------- MODULE DaemonStatus ----------------------------
(***************************************************************************)
(* The watcher daemon: the single liveness row (store/daemon_status.py),   *)
(* the start handshake of the daemon command (cli/daemon.py), the run_once *)
(* and run_forever loops (delivery/daemon.py) and the wait between passes  *)
(* (scheduler.py).  Daemon processes interleave, overrun their cadence and *)
(* crash.  One of them is the installed service: systemd or launchd        *)
(* launches it and decides by its exit status whether to relaunch it.      *)
(*                                                                         *)
(* Time is relative: the row carries the age of its heartbeat and every    *)
(* process the time since its current stretch began, so that the state     *)
(* space is finite without stopping the clock.  A process is known to the  *)
(* row by its owner token; Gone stands for the token of any process that   *)
(* no longer exists, which no later process draws again.                   *)
(***************************************************************************)
EXTENDS Integers, FiniteSets

CONSTANTS
    Daemons,     \* daemon processes that may exist at the same time
    Service,     \* the one of them that the service manager launches
    Gone,        \* owner token of a process that has ended
    IntervalOf,  \* [Daemons -> Nat \ {0}]: each one's polling interval
    PidsReused,  \* the managers under which a dead process's pid may be reused
    MaxStretch,  \* longest start-up, and longest pass with its outcome
    MaxAge       \* bound: ages are not told apart beyond it

ASSUME DaemonAssumption ==
    /\ IsFiniteSet(Daemons) /\ Gone \notin Daemons /\ Service \in Daemons
    /\ PidsReused \subseteq {"systemd", "launchd"}
    /\ IntervalOf \in [Daemons -> Nat \ {0}]
    /\ MaxStretch \in Nat
    /\ MaxAge \in Nat /\ \A d \in Daemons : 3 * IntervalOf[d] < MaxAge

VARIABLES
    row,      \* table daemon_status, one row at most
    daemons,  \* each process: where it is, since when, how it will exit
    service   \* the service manager, and what it does about the service

vars == <<row, daemons, service>>

StalePollCount == 3
Null == -1
Modes == {"once", "continuous"}
Outcomes == {"succeeded", "degraded", "failed"}
ExitStatuses == {0, 1, 2}
Managers == {"systemd", "launchd"}

(* The stages of a process.  Off has not claimed the row yet or has ended; *)
(* in the others the process believes that it owns the row.                *)
Ended == {"off"}
StartUp == {"announcing", "claiming", "announcingRun", "abandoning"}
InPass == {"evaluating", "dispatching", "beating", "recording", "failing",
           "releasing", "unrecorded"}
Working == StartUp \cup InPass \cup {"waiting"}

Off == [stage |-> "off", mode |-> "once", elapsed |-> 0, result |-> "failed",
        status |-> 0]

NoRow == [state |-> "none", owner |-> Gone, age |-> 0, interval |-> Null,
          mode |-> "none", lastRun |-> "none"]

TypeOK ==
    /\ row \in [state : {"none", "running", "stopped"},
                owner : Daemons \cup {Gone}, age : 0 .. MaxAge,
                interval : Nat \cup {Null}, mode : Modes \cup {"none"},
                lastRun : Outcomes \cup {"none"}]
    /\ daemons \in [Daemons -> [stage : Ended \cup Working, mode : Modes,
                                elapsed : Nat, result : Outcomes,
                                status : ExitStatuses]]
    /\ service \in [manager : Managers, state : {"due", "up", "over"}]

Init ==
    /\ row = NoRow
    /\ daemons = [d \in Daemons |-> Off]
    /\ service \in [manager : Managers, state : {"due"}]

-----------------------------------------------------------------------------
(* DaemonStatusStore: every operation is one immediate transaction.        *)

Owns(d) == row.state = "running" /\ row.owner = d

(* Mutation: three intervals to the instant already count as missed.       *)
ExpiredAtThree(fallbackInterval) ==
    LET interval == IF row.interval # Null THEN row.interval
                                           ELSE fallbackInterval
    IN  interval # Null /\ row.age >= StalePollCount * interval

(* _expired: the incumbent's own persisted cadence decides; a row without  *)
(* one is judged by the cadence of the process that starts.                *)
Expired(fallbackInterval) ==
    LET interval == IF row.interval # Null THEN row.interval
                                           ELSE fallbackInterval
    IN  interval # Null /\ row.age > StalePollCount * interval

(* Mutation: the pid probe alone decides.                                  *)
RefusedByProbe(d, interval, alive) ==
    row.state = "running" /\ row.owner # d /\ alive

(* try_record_start refuses while a running incumbent is neither expired   *)
(* nor known to be dead.                                                   *)
Refused(d, interval, alive) ==
    row.state = "running" /\ row.owner # d /\ ~Expired(interval) /\ alive

(* INSERT or REPLACE_START; the previous mode and outcome stay.            *)
Started(d, interval) ==
    IF Owns(d) THEN row
    ELSE [row EXCEPT !.state = "running", !.owner = d, !.age = 0,
                     !.interval = interval]

(* The updates below match no row when this process does not own it, and   *)
(* that is not an error.                                                   *)
Heartbeat(d) == IF Owns(d) THEN [row EXCEPT !.age = 0] ELSE row

(* Mutation: the stop is not fenced by the owner token.                    *)
StoppedByAnyone(d) == [row EXCEPT !.state = "stopped", !.age = 0]

Stopped(d) ==
    IF Owns(d) THEN [row EXCEPT !.state = "stopped", !.age = 0] ELSE row

RunStarted(d, mode) == IF Owns(d) THEN [row EXCEPT !.mode = mode] ELSE row

(* Mutation: the outcome is not fenced by the owner token.                 *)
RunOutcomeByAnyone(d, result) == [row EXCEPT !.lastRun = result]

RunOutcome(d, result) ==
    IF Owns(d) THEN [row EXCEPT !.lastRun = result] ELSE row

(* DaemonStatusStore.status: the liveness verdict for a given threshold.   *)
Liveness(staleAfter) ==
    CASE row.state = "none"    -> "never_started"
      [] row.state = "stopped" -> "stopped"
      [] OTHER -> IF row.age <= staleAfter THEN "running" ELSE "stale"

-----------------------------------------------------------------------------
(* The processes.                                                          *)

Goto(d, stage) ==
    daemons' = [daemons EXCEPT ![d].stage = stage] /\ UNCHANGED service

(* Restart=on-failure with RestartPreventExitStatus=2, and KeepAlive with  *)
(* SuccessfulExit false; death by a signal counts as status 1.             *)
Retries == IF service.manager = "systemd" THEN {1} ELSE {1, 2}
Manage(d, state) ==
    service' = IF d = Service THEN [service EXCEPT !.state = state] ELSE service
ManageExit(d, status) == Manage(d, IF status \in Retries THEN "due" ELSE "over")

(* A process that ends leaves its token behind as Gone.                    *)
EndedRow(d, r) == [r EXCEPT !.owner = IF @ = d THEN Gone ELSE @]
Exit(d, r, status) ==
    /\ daemons' = [daemons EXCEPT ![d] = Off]
    /\ row' = EndedRow(d, r)
    /\ ManageExit(d, status)

(* The pid probe: a live process is seen alive, the pid of one that has    *)
(* ended may belong to another program by now.                             *)
Probes(alive) ==
    IF row.owner = Gone THEN alive => service.manager \in PidsReused ELSE alive

(* run_daemon: the first claim, which probes the incumbent's pid.          *)
Start(d, mode, alive) ==
    /\ daemons[d].stage = "off"
    /\ d = Service => service.state = "due" /\ mode = "continuous"
    /\ Probes(alive)
    /\ ~Refused(d, IntervalOf[d], alive)
    /\ row' = Started(d, IntervalOf[d])
    /\ daemons' = [daemons EXCEPT ![d] =
                     [Off EXCEPT !.stage = IF mode = "once" THEN "claiming"
                                                            ELSE "announcing",
                                 !.mode = mode]]
    /\ Manage(d, "up")

(* A refused process leaves with ownership_conflict, exit status 2, and    *)
(* changes no row; for a process started by hand that changes nothing.     *)
RefuseService(alive) ==
    /\ service.state = "due"
    /\ Probes(alive)
    /\ Refused(Service, IntervalOf[Service], alive)
    /\ ManageExit(Service, 2)
    /\ UNCHANGED <<row, daemons>>

(* The user logs in again, or starts the service.                          *)
StartService ==
    /\ service.state = "over"
    /\ Manage(Service, "due")
    /\ UNCHANGED <<row, daemons>>

(* A phase under run_daemon_phase: status 0 goes on, any other is the exit *)
(* status of the DaemonFailureError it raises.                             *)
Phase(d, stage, next, failure, status) ==
    /\ daemons[d].stage = stage
    /\ daemons' = [daemons EXCEPT ![d].stage = IF status = 0 THEN next
                                                             ELSE failure,
                                  ![d].status = status]
    /\ UNCHANGED service

(* notify_service_ready; on failure record_run_started and then the        *)
(* failed outcome are written before the stop.                             *)
NotifyServiceReady(d, status) ==
    /\ status # 2
    /\ Phase(d, "announcing", "claiming", "abandoning", status)
    /\ UNCHANGED row
AbandonStart(d) ==
    /\ daemons[d].stage = "abandoning"
    /\ row' = RunStarted(d, "continuous")
    /\ Goto(d, "failing")

(* WatcherDaemon._claim: the second claim, without a probe; run_once       *)
(* passes no interval.  A refusal leaves through _claim, before the try    *)
(* whose finally stops the row.                                            *)
ClaimAgain(d) ==
    LET interval == IF daemons[d].mode = "once" THEN Null ELSE IntervalOf[d]
    IN  /\ daemons[d].stage = "claiming"
        /\ \/ /\ Refused(d, interval, TRUE)
              /\ Exit(d, row, 2)
           \/ /\ ~Refused(d, interval, TRUE)
              /\ row' = Started(d, interval)
              /\ Goto(d, "announcingRun")

RecordRunStarted(d) ==
    /\ daemons[d].stage = "announcingRun"
    /\ row' = RunStarted(d, daemons[d].mode)
    /\ daemons' = [daemons EXCEPT ![d].stage = "evaluating", ![d].elapsed = 0]
    /\ UNCHANGED service

(* The phases of _run_pass; only a credential store that cannot be read    *)
(* gives status 2.                                                         *)
Evaluate(d, status) ==
    /\ Phase(d, "evaluating", "dispatching", "failing", status)
    /\ UNCHANGED row
Dispatch(d, status) ==
    /\ status # 2
    /\ Phase(d, "dispatching", "beating", "failing", status)
    /\ UNCHANGED row
RecordHeartbeat(d, status) ==
    /\ status # 2
    /\ Phase(d, "beating", "recording", "failing", status)
    /\ row' = IF status = 0 THEN Heartbeat(d) ELSE row

(* _record_run_success; degraded when the evaluation had warnings.         *)
RecordSuccess(d, result) ==
    /\ daemons[d].stage = "recording"
    /\ row' = RunOutcome(d, result)
    /\ daemons' = [daemons EXCEPT
                     ![d].stage = IF daemons[d].mode = "once"
                                  THEN "releasing" ELSE "waiting",
                     ![d].result = result]
    /\ UNCHANGED service

RecordFailure(d) ==
    /\ daemons[d].stage = "failing"
    /\ row' = RunOutcome(d, "failed")
    /\ daemons' = [daemons EXCEPT ![d].stage = "releasing",
                                  ![d].result = "failed"]
    /\ UNCHANGED service

(* The database refuses one of the status writes that no phase encloses:   *)
(* the error passes the handlers, and the finally clause still releases.   *)
(* A claim or a release that the database refuses leaves as Crash does.    *)
RecordFails(d) ==
    /\ daemons[d].stage \in {"abandoning", "announcingRun", "recording", "failing"}
    /\ daemons' = [daemons EXCEPT ![d].stage = "unrecorded", ![d].status = 1]
    /\ UNCHANGED <<row, service>>

(* remaining_delay: the rest of the interval, and nothing after an overrun.*)
RemainingDelay(interval, elapsed) ==
    IF elapsed >= interval THEN 0 ELSE interval - elapsed

(* Scheduler.wait returns when the delay is over, or with False as soon as *)
(* a stop is requested.                                                    *)
WaitOver(d) ==
    /\ daemons[d].stage = "waiting"
    /\ RemainingDelay(IntervalOf[d], daemons[d].elapsed) = 0
    /\ daemons' = [daemons EXCEPT ![d].stage = "evaluating", ![d].elapsed = 0]
    /\ UNCHANGED <<row, service>>
StopRequested(d) ==
    /\ daemons[d].stage = "waiting"
    /\ Goto(d, "releasing")
    /\ UNCHANGED row

(* _release in the finally clause, and the end of the process.             *)
Release(d) ==
    /\ daemons[d].stage \in {"releasing", "unrecorded"}
    /\ Exit(d, Stopped(d), daemons[d].status)

Crash(d) ==
    /\ daemons[d].stage # "off"
    /\ Exit(d, row, 1)

(* One unit of time.  A process takes at most MaxStretch from its claim to *)
(* its first pass and for each pass, and it wakes when its delay is over.  *)
Overdue(d) ==
    \/ daemons[d].stage \in StartUp \cup InPass
         /\ daemons[d].elapsed >= MaxStretch
    \/ /\ daemons[d].stage = "waiting"
       /\ RemainingDelay(IntervalOf[d], daemons[d].elapsed) = 0

Older(age) == IF age < MaxAge THEN age + 1 ELSE MaxAge

Tick ==
    /\ \A d \in Daemons : ~Overdue(d)
    /\ row' = [row EXCEPT !.age = IF row.state = "none" THEN 0 ELSE Older(@)]
    /\ daemons' = [d \in Daemons |->
                     IF daemons[d].stage = "off" THEN daemons[d]
                     ELSE [daemons[d] EXCEPT !.elapsed = @ + 1]]
    /\ UNCHANGED service

-----------------------------------------------------------------------------
Work(d) ==
    \/ \E status \in ExitStatuses : \/ NotifyServiceReady(d, status)
                                   \/ Evaluate(d, status)
                                   \/ Dispatch(d, status)
                                   \/ RecordHeartbeat(d, status)
    \/ AbandonStart(d)
    \/ ClaimAgain(d)
    \/ RecordRunStarted(d)
    \/ \E result \in {"succeeded", "degraded"} : RecordSuccess(d, result)
    \/ RecordFailure(d)
    \/ RecordFails(d)
    \/ WaitOver(d)
    \/ StopRequested(d)
    \/ Release(d)

Next ==
    \/ Tick
    \/ StartService
    \/ \E alive \in BOOLEAN : RefuseService(alive)
    \/ \E d \in Daemons :
         \/ \E mode \in Modes, alive \in BOOLEAN : Start(d, mode, alive)
         \/ Work(d)
         \/ Crash(d)

Spec == Init /\ [][Next]_vars

(* The manager launches the service when it is due, processes run on, and  *)
(* time passes.  Nothing good is assumed of the probe: where pids are      *)
(* reused, the launch that is fair is the one that finds the pid in use.   *)
Relaunch ==
    \E alive \in BOOLEAN :
        /\ row.owner = Gone /\ service.manager \in PidsReused => alive
        /\ \/ Start(Service, "continuous", alive)
           \/ RefuseService(alive)

LiveSpec == Spec /\ WF_vars(Tick) /\ WF_vars(Relaunch)
                 /\ \A d \in Daemons : WF_vars(Work(d))

-----------------------------------------------------------------------------
(* Properties.                                                             *)

(* While no start-up and no pass takes more than one and a half intervals, *)
(* there is never more than one watcher, whatever crashes, restarts and    *)
(* reused pids happen: the cadence, remaining_delay and the three polls of *)
(* _STALE_POLL_COUNT fit together.                                         *)
SingleWatcher ==
    Cardinality({d \in Daemons : daemons[d].stage \in Working}) <= 1

(* Under the same condition a working watcher is always reported running,  *)
(* so that no tool call reads the sources beside it (_daemon_owns_reads).  *)
WatcherReportedRunning ==
    \A d \in Daemons :
        daemons[d].stage \in Working =>
            Owns(d) /\ Liveness(StalePollCount * IntervalOf[d]) = "running"

(* Types, one watcher, and it is reported running.                         *)
WatcherInv == TypeOK /\ SingleWatcher /\ WatcherReportedRunning

(* The row leaves a process that owns it only when that process ends, or   *)
(* after three of its persisted intervals without a heartbeat: no late     *)
(* write of a displaced process takes it.  (the owner_token fences)        *)
OwnerKeepsRow ==
    [][\A d \in Daemons :
         Owns(d) /\ ~Owns(d)' =>
            \/ daemons'[d].stage = "off"
            \/ row.interval = Null
            \/ row.age > 3 * row.interval]_vars

(* Once an owner has finished a pass the row shows that pass's outcome,    *)
(* and not one of a displaced process.  The exception is a daemon that the *)
(* database kept from recording: it is about to stop with no outcome of    *)
(* its last pass.  (record_run_outcome)                                    *)
OwnerOutcomeRecorded ==
    \A d \in Daemons :
        Owns(d) /\ daemons[d].stage \in {"waiting", "releasing"} =>
            row.lastRun = daemons[d].result

(* A row left behind by a crash never keeps the service down: when the     *)
(* manager is due to launch the service, some process comes to own the row *)
(* again.  launchd relaunches after a conflict and gets there although the *)
(* dead owner's pid is in use; systemd does not, and depends on the probe. *)
(* (_expired, the pid probe, RestartPreventExitStatus)                     *)
CrashedOwnerReplaced ==
    row.state = "running" /\ row.owner = Gone /\ service.state = "due"
        ~> row.owner # Gone
=============================================================================
