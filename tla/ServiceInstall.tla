--------------------------- MODULE ServiceInstall ---------------------------
(***************************************************************************)
(* service install and service remove on Linux (cli/service.py), macOS     *)
(* (cli/service_darwin*.py) and Windows (cli/service_task_scheduler*.py).  *)
(*                                                                         *)
(* A command is a plan: a sequence of calls of the service manager and of  *)
(* changes of the definition file.  Every call may fail, without an effect *)
(* or, when only its answer is lost in a timeout, after it; a failure      *)
(* replaces the rest of the plan by the one that restores what was there.  *)
(* An error of a file, on Linux and Windows, is caught around the whole    *)
(* command instead, which ends with io_failed and nothing put back.  On    *)
(* Windows the definition is the registration with the scheduler.          *)
(***************************************************************************)
EXTENDS Integers, Sequences, FiniteSets

CONSTANTS
    Platforms,      \* the ones to consider
    MaxFaults,      \* bound: failures within one command
    MaxCommands     \* bound: commands given

ASSUME ServiceAssumption ==
    /\ Platforms \subseteq {"linux", "darwin", "win32"}
    /\ MaxFaults \in Nat /\ MaxCommands \in Nat

VARIABLES
    platform,
    sys,        \* definition file and what the manager knows
    cmd,        \* the command under way
    commands    \* commands given so far

serviceVars == <<platform, sys, cmd, commands>>

(* "new" is what this version renders, "old" was rendered by another one,  *)
(* "foreign" lacks the ownership marker.                                   *)
Definitions == {"none", "old", "new", "foreign"}
NoCommand == [action |-> "none", plan |-> <<>>, undoing |-> FALSE, was |-> <<>>,
              loaded |-> FALSE, faults |-> 0, blind |-> FALSE, gaveUp |-> FALSE]

If(condition, steps) == IF condition THEN steps ELSE <<>>
Runs(s) == s.running # "none"
Loaded(s) == s.loaded # "none"

-----------------------------------------------------------------------------
(* Plans.                                                                  *)

LinuxInstall(s) ==
    If(s.art # "new", <<"write">>) \o <<"reload", "enable", "start", "ready">>

LinuxRemove == <<"stop", "disable", "erase", "reload">>

(* _restore_service_state.                                                 *)
LinuxRestore(was) == If(was.enabled, <<"enable">>) \o If(Runs(was), <<"start">>)

(* Mutant: the unit is put back, and the manager is not told.              *)
LinuxUndoWithoutReload(was, action) ==
    IF action = "install"
    THEN <<"stop", "disable", "put_back">> \o If(was.art # "none", LinuxRestore(was))
    ELSE If(sys.art # was.art, <<"put_back">>) \o LinuxRestore(was)

LinuxUndo(was, action) ==
    IF action = "install"
    THEN <<"stop", "disable", "put_back", "reload">> \o If(was.art # "none", LinuxRestore(was))
    ELSE If(sys.art # was.art, <<"put_back">>) \o LinuxRestore(was)

DarwinInstall(s) ==
    If(Loaded(s), <<"bootout">>) \o <<"write", "enable", "bootstrap", "kickstart", "ready">>

DarwinRemove(s) == If(Loaded(s), <<"bootout">>) \o <<"disable", "erase">>

EnableAs(was) == IF was.enabled THEN <<"enable">> ELSE <<"disable">>

(* rollback_install and restore_previous.                                  *)
DarwinUndo(was, action) ==
    If(cmd.loaded, <<"bootout">>)
    \o If(action = "install", <<"put_back">>)
    \o EnableAs(was)
    \o If(Loaded(was), <<"bootstrap">> \o If(Runs(was), <<"kickstart">>))

Changed(s) == s.art # "new" \/ ~ s.enabled

WindowsInstall(s) ==
    If(Changed(s), <<"register">>) \o If(Changed(s) \/ ~ Runs(s), <<"start_and_wait">>) \o <<"ready">>

WindowsRemove(s) == If(Runs(s), <<"stop">>) \o <<"delete">>

WindowsUndo(was) ==
    <<"stop">> \o (IF was.art = "none" THEN <<"delete">>
                   ELSE <<"put_back">> \o If(Runs(was), <<"start">>))

PlanOf(action) ==
    CASE platform = "linux" -> IF action = "install" THEN LinuxInstall(sys) ELSE LinuxRemove
      [] platform = "darwin" -> IF action = "install" THEN DarwinInstall(sys) ELSE DarwinRemove(sys)
      [] platform = "win32" -> IF action = "install" THEN WindowsInstall(sys) ELSE WindowsRemove(sys)

UndoPlan ==
    CASE platform = "linux" -> LinuxUndo(cmd.was, cmd.action)
      [] platform = "darwin" -> DarwinUndo(cmd.was, cmd.action)
      [] platform = "win32" -> WindowsUndo(cmd.was)

-----------------------------------------------------------------------------
(* The service managers.                                                   *)

(* A definition registered with the scheduler carries its enabled setting; *)
(* elsewhere it is a file, of which the manager has a copy.                *)
Defined(art, enabled) ==
    IF platform = "win32" THEN [sys EXCEPT !.art = art, !.loaded = art, !.enabled = enabled]
    ELSE [sys EXCEPT !.art = art]

(* systemd reads a unit it does not know from its file.                    *)
Effective(s) == IF Loaded(s) THEN s.loaded ELSE s.art

Started ==
    IF Runs(sys) THEN sys
    ELSE [sys EXCEPT !.loaded = Effective(sys), !.running = Effective(sys)]

After(step) ==
    CASE step \in {"write", "register"} -> Defined("new", TRUE)
      [] step = "put_back" -> Defined(cmd.was.art, cmd.was.enabled)
      [] step \in {"erase", "delete"} -> Defined("none", FALSE)
      [] step = "reload" -> [sys EXCEPT !.loaded = sys.art]
      [] step = "enable" -> [sys EXCEPT !.enabled = TRUE]
      [] step = "disable" -> [sys EXCEPT !.enabled = FALSE]
      [] step \in {"start", "kickstart", "start_and_wait"} -> Started
      [] step = "stop" -> [sys EXCEPT !.running = "none"]
      [] step = "bootstrap" -> [sys EXCEPT !.loaded = sys.art, !.running = sys.art]
      [] step = "bootout" -> [sys EXCEPT !.loaded = "none", !.running = "none"]
      [] step = "ready" -> sys

(* Starting waits for a file that only a new instance writes, and the task *)
(* ignores a second instance; readiness needs the running, enabled task.   *)
Possible(step) ==
    CASE step = "start_and_wait" -> ~ Runs(sys)
      [] step = "ready" -> Runs(sys) /\ sys.enabled
      [] step \in {"stop", "delete"} -> platform = "win32" => sys.art # "none"
      [] step \in {"start", "kickstart", "bootstrap"} -> sys.art # "none" \/ Loaded(sys)
      [] OTHER -> TRUE

(* Unloading is looked up again when its answer is lost, and so is always  *)
(* known; a readiness test has no effect.                                  *)
MayBeLate(step) == step \notin {"bootout", "ready", "write", "put_back", "erase"}

-----------------------------------------------------------------------------
(* Commands.                                                               *)

Refused(s) == s.art = "foreign" \/ (platform = "darwin" /\ s.art = "none" /\ Loaded(s))

Give(action, plan) ==
    /\ cmd = NoCommand /\ commands < MaxCommands
    /\ commands' = commands + 1
    /\ ~ Refused(sys)
    /\ cmd' = [NoCommand EXCEPT !.action = action, !.plan = plan, !.was = sys]
    /\ UNCHANGED <<platform, sys>>

Install == Give("install", PlanOf("install"))

(* macOS and Windows do nothing when everything is already in place.       *)
InstallAgain ==
    /\ platform # "linux"
    /\ sys.art = "new" /\ sys.enabled /\ Runs(sys)
    /\ Give("install", <<"ready">>)

Uninstall == sys.art # "none" /\ Give("remove", PlanOf("remove"))

Call == Head(cmd.plan)

Proceed ==
    /\ cmd.plan # <<>>
    /\ Possible(Call)
    /\ sys' = After(Call)
    /\ cmd' = [cmd EXCEPT !.plan = Tail(@), !.loaded = @ \/ (Call = "bootstrap" /\ ~ cmd.undoing)]
    /\ UNCHANGED <<platform, commands>>

(* The first failure turns the command round, except that a service that   *)
(* cannot be unloaded is left as it is.  Linux and Windows ignore failures *)
(* of a rollback; macOS restores what is left to restore only when the     *)
(* file is back and nothing failed before.                                 *)
AfterFailure ==
    IF ~ cmd.undoing
    THEN [cmd EXCEPT !.plan = IF Call = "bootout" THEN <<>> ELSE UndoPlan, !.undoing = TRUE]
    ELSE IF platform # "darwin" \/ Call = "bootout" THEN [cmd EXCEPT !.plan = Tail(@)]
    ELSE IF Call = "put_back" THEN [cmd EXCEPT !.plan = EnableAs(cmd.was)]
    ELSE [cmd EXCEPT !.plan = <<>>]

(* The steps of a command on Linux that are no calls of the manager.       *)
OnUnitFile == platform = "linux" /\ Call \in {"write", "put_back", "erase"}

Fail ==
    /\ cmd.plan # <<>> /\ ~ OnUnitFile
    /\ \/ /\ Possible(Call) => cmd.faults < MaxFaults
          /\ UNCHANGED sys
          /\ cmd' = [AfterFailure EXCEPT !.faults = IF cmd.undoing /\ ~ Possible(Call) THEN @ ELSE @ + 1]
       \/ /\ Possible(Call) /\ MayBeLate(Call) /\ cmd.faults < MaxFaults
          /\ sys' = After(Call)
          /\ cmd' = [AfterFailure EXCEPT !.faults = @ + 1, !.blind = @ \/ Call = "bootstrap"]
    /\ UNCHANGED <<platform, commands>>

(* An OSError, caught around the whole command: it ends where it is.       *)
GiveUp(faults) ==
    /\ cmd.plan # <<>> /\ cmd.faults + faults <= MaxFaults
    /\ cmd' = [cmd EXCEPT !.plan = <<>>, !.undoing = TRUE, !.gaveUp = TRUE, !.faults = @ + faults]
    /\ UNCHANGED <<platform, commands>>

(* write_text empties the file first: what is left of it differs from what *)
(* this version renders, or has lost even the marker.                      *)
Leftovers(step) ==
    IF After(step).art = "none" THEN {sys.art} ELSE {sys.art, After(step).art, "old", "foreign"}

UnitFileFails ==
    /\ GiveUp(1)
    /\ OnUnitFile
    /\ \E art \in Leftovers(Call) : sys' = [sys EXCEPT !.art = art]

(* The directory cannot be made or the ready file not be cleared before    *)
(* the first call; or, when all succeeded, the ready file cannot be        *)
(* removed or the unit not be read back.                                   *)
InstallFileFails ==
    /\ GiveUp(1)
    /\ cmd.action = "install" /\ ~ cmd.undoing
    /\ \/ platform = "linux" /\ cmd.plan = LinuxInstall(cmd.was)
       \/ platform = "win32" /\ cmd.plan = WindowsInstall(cmd.was)
       \/ platform # "darwin" /\ Call = "ready"
    /\ UNCHANGED sys

(* Removing the ready file fails after a call that failed: the rollback of *)
(* that call is skipped.                                                   *)
ReadyFileStays ==
    /\ GiveUp(2)
    /\ platform = "win32" /\ ~ cmd.undoing
    /\ Call \in {"register", "start_and_wait"}
    /\ sys' = sys \/ (Possible(Call) /\ sys' = After(Call))

Report ==
    /\ cmd # NoCommand /\ cmd.plan = <<>>
    /\ cmd' = NoCommand
    /\ UNCHANGED <<platform, sys, commands>>

(* The watcher exits for good, or starts at a login.                       *)
Exit ==
    /\ cmd = NoCommand /\ Runs(sys)
    /\ sys' = [sys EXCEPT !.running = "none"]
    /\ UNCHANGED <<platform, cmd, commands>>

Login ==
    /\ cmd = NoCommand /\ sys.enabled /\ sys.art \in {"old", "new"}
    /\ sys' = [Started EXCEPT !.loaded = sys.art]
    /\ UNCHANGED <<platform, cmd, commands>>

Absent(art) == [art |-> art, loaded |-> "none", enabled |-> FALSE, running |-> "none"]

(* Nothing, somebody else's file, or an earlier installation that is       *)
(* running, idle or disabled.  launchd enables what was never disabled.    *)
ServiceInit ==
    /\ platform \in Platforms
    /\ \/ sys \in {Absent("none"), Absent("foreign")}
       \/ platform = "darwin" /\ sys = [Absent("none") EXCEPT !.enabled = TRUE]
       \/ \E art \in {"old", "new"}, enabled \in BOOLEAN, running \in BOOLEAN :
             /\ running => enabled
             /\ sys = [art |-> art, enabled |-> enabled,
                       loaded |-> IF platform = "darwin" /\ ~ running THEN "none" ELSE art,
                       running |-> IF running THEN art ELSE "none"]
    /\ cmd = NoCommand
    /\ commands = 0

ServiceNext ==
    \/ Install \/ InstallAgain \/ Uninstall
    \/ Proceed \/ Fail \/ Report
    \/ UnitFileFails \/ InstallFileFails \/ ReadyFileStays
    \/ Exit \/ Login

ServiceSpec == ServiceInit /\ [][ServiceNext]_serviceVars

-----------------------------------------------------------------------------
(* Properties.                                                             *)

Ended == cmd # NoCommand /\ cmd.plan = <<>>

(* A loaded agent that had exited is started by being loaded again.        *)
Restored(was) ==
    /\ sys.art = was.art /\ sys.enabled = was.enabled
    /\ IF platform = "darwin" THEN sys.loaded = was.loaded ELSE Effective(sys) = Effective(was)
    /\ Runs(sys) <=> Runs(was) \/ (platform = "darwin" /\ Loaded(was) /\ Runs(sys))

(* The manager knows the definition that is there.  Two failures in one    *)
(* command can leave it with another one, or a watcher without any.        *)
InStep(s) ==
    /\ s.loaded \in {"none", s.art}
    /\ s.art = "none" => ~ Runs(s) /\ (s.enabled => platform = "darwin")

(* A command in which one call of the manager went wrong, wherever that    *)
(* was and whether the call took effect or not, leaves the definition, the *)
(* registration, the enabled setting and the watcher as they were before   *)
(* it.  Two cases are not put back: a launchctl bootstrap that takes       *)
(* effect and reports no success, whose candidate is not unloaded          *)
(* (service_darwin.py: _replace_and_wait), and the file errors of the next *)
(* property.                                                               *)
FailureRestores ==
    Ended /\ cmd.undoing /\ ~ cmd.gaveUp /\ cmd.faults <= 1 /\ ~ cmd.blind /\ InStep(cmd.was)
        => Restored(cmd.was)

(* The definition of this version is in place, known to the manager,       *)
(* enabled and running.  systemd keeps a watcher that already ran, and so  *)
(* does Windows when all is in place: there it can be the one of an        *)
(* earlier version if several failures of one earlier command left it.     *)
Installed ==
    /\ sys.art = "new" /\ sys.loaded = "new" /\ sys.enabled
    /\ \/ sys.running = "new"
       \/ /\ Runs(cmd.was) /\ Runs(sys)
          /\ \/ platform = "linux"
             \/ platform = "win32" /\ cmd.was.running # cmd.was.art

(* What a file error that is not rolled back can leave of one command: an  *)
(* install has changed nothing but, on Linux, the unit file itself, or has *)
(* done everything although it reports a failure; a remove leaves the      *)
(* unit, stopped and disabled (service.py: execute_service, _install,      *)
(* _remove; service_task_scheduler_lifecycle.py: _install).                *)
LeftBehind ==
    IF cmd.action = "install"
    THEN \/ sys = cmd.was \/ Installed
         \/ platform = "linux" /\ sys = [cmd.was EXCEPT !.art = sys.art]
    ELSE platform = "linux" /\ sys = [cmd.was EXCEPT !.enabled = FALSE, !.running = "none"]

FileErrorLeaves == Ended /\ cmd.gaveUp /\ cmd.faults <= 1 => LeftBehind

(* A command that reports success is telling the truth: after install the  *)
(* watcher is installed, after remove nothing is left that could run       *)
(* (service.py: _install, _remove and their counterparts).                 *)
SuccessIsTrue ==
    Ended /\ ~ cmd.undoing => IF cmd.action = "install" THEN Installed ELSE sys = Absent("none")

(* What install and remove report is what they did: everything or nothing, *)
(* and when a file error keeps them from either, one of few known states.  *)
CommandKeepsWord == FailureRestores /\ FileErrorLeaves /\ SuccessIsTrue
=============================================================================
