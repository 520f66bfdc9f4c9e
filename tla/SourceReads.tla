---------------------------- MODULE SourceReads ----------------------------
(***************************************************************************)
(* Who reads Gmail and Calendar, and what the reads leave behind.          *)
(*                                                                         *)
(* A session is one process at work: an MCP server answering               *)
(* proactive_check, the watcher daemon making a pass, or the user's        *)
(* google-smoke, setup and disconnect commands.  Sessions share the source *)
(* rows of the database (sources/lazy_sync.py, store/sync.py,              *)
(* store/_sync_source_state.py), the lazy-sync lease, the evaluation gate, *)
(* the generations and the stored Google grant.                            *)
(*                                                                         *)
(* Time is kept as ages, so that nothing has to bound it: an age stops     *)
(* growing where no comparison of the code tells larger ones apart.  A     *)
(* generation is kept relative to the applied one of its source, so that a *)
(* held generation of zero has been overtaken.  The stored grant is a      *)
(* version number; module CredentialStore models how it is stored.         *)
(***************************************************************************)
EXTENDS Integers, FiniteSets, FiniteSetsExt

CONSTANTS
    Sessions,       \* processes working on one installation
    JobsOf,         \* the jobs each of them does
    Replies,        \* the answers of each source that are told apart
    PollInterval,   \* lease length and minimum time between lazy attempts
    StaleAfter,     \* DEFAULT_STALE_AFTER
    GateInterval,   \* _MIN_EVALUATION_INTERVAL of proactive_check
    MaxGrants,      \* bound: how often setup stores a grant
    Revocable,      \* bound: the grants that are revoked at some time
    MaxCrashes      \* bound: how many sessions die in mid-job

Sources == {"gmail", "calendar"}
NoOne == "no session"

(* What a read of one source returns.  "found" is a complete read with a   *)
(* detection in it, "partial" one that was not read to its end.            *)
Answers == {"clear", "found", "partial", "failed"}

ASSUME SessionAssumption ==
    /\ IsFiniteSet(Sessions) /\ NoOne \notin Sessions
    /\ JobsOf \in [Sessions -> SUBSET {"check", "watch", "smoke", "setup", "disconnect"}]
    /\ Replies \in [Sources -> SUBSET Answers]

ASSUME IntervalAssumption ==
    /\ PollInterval \in Nat \ {0}
    /\ GateInterval \in 1..PollInterval
    /\ StaleAfter \in Nat \ {0}

ASSUME BoundAssumption ==
    MaxGrants \in Nat \ {0} /\ Revocable \subseteq 1..MaxGrants /\ MaxCrashes \in Nat

VARIABLES
    sync,       \* source_sync_state, one row for each source
    diag,       \* gmail_diagnostics: the outcome of the last recorded read
    credState,  \* source_operational_state.credential_state
    lease,      \* lazy_sync_lease
    gate,       \* age of evaluation_gate.last_started_at
    grant,      \* version of the stored grant, 0 for none
    revoked,    \* grants Google no longer honours
    pending,    \* sources with a situation that waits to be delivered
    watched,    \* the daemon row says running
    ses,        \* what each session is doing
    sound,      \* history: the last read recorded for a source was complete
    saves,      \* grants stored so far
    crashes     \* sessions that died so far

rows == <<sync, diag, credState, lease, gate>>
outside == <<revoked, saves, crashes>>
vars == <<sync, diag, credState, lease, gate, grant, revoked, pending,
          watched, ses, sound, saves, crashes>>

Never == -1

Idle == [job |-> "none", pc |-> "idle", grant |-> 0, note |-> "silent",
         gen |-> [src \in Sources |-> 0], got |-> [src \in Sources |-> "unread"],
         left |-> 0, aged |-> {}, empty |-> FALSE, checked |-> 0]

At(s, pc) == ses[s].pc = pc
Goto(s, pc) == ses' = [ses EXCEPT ![s].pc = pc]
Finish(s) == ses' = [ses EXCEPT ![s] = Idle]
Begin(s, job, pc, note) ==
    /\ At(s, "idle")
    /\ job \in JobsOf[s]
    /\ ses' = [ses EXCEPT ![s] = [Idle EXCEPT !.job = job, !.pc = pc, !.note = note]]

-----------------------------------------------------------------------------
(* The source rows.                                                        *)

Unconfigured == [auth |-> "absent", success |-> Never, attempt |-> PollInterval, error |-> "none"]
AuthState(row) == IF row.auth = "absent" THEN "not_configured" ELSE row.auth
InsertedAuth(row) == IF row.auth = "absent" THEN "configured" ELSE row.auth

(* A success clears the error and leaves the authorization as it was.      *)
RecordSuccess(row) ==
    [auth |-> InsertedAuth(row), success |-> 0, attempt |-> 0, error |-> "none"]

RecordFailure(row, code) ==
    [row EXCEPT !.auth = InsertedAuth(row), !.attempt = 0, !.error = code]

(* Without an error code the attempt and the last error stay as they are.  *)
WriteGoogleAuth(state, code) ==
    sync' = [src \in Sources |->
                IF code = "none" THEN [sync[src] EXCEPT !.auth = state]
                ELSE [sync[src] EXCEPT !.auth = state, !.attempt = 0, !.error = code]]

(* Mutant: a refusal is written down for Gmail only.                       *)
RecordRefusalOnce ==
    /\ sync' = [sync EXCEPT !["gmail"].auth = "needs_reauth", !["gmail"].attempt = 0,
                            !["gmail"].error = "invalid_grant"]
    /\ sound' = [src \in Sources |-> FALSE]

(* One refused read requires a new authorization for both sources.         *)
RecordRefusal ==
    /\ WriteGoogleAuth("needs_reauth", "invalid_grant")
    /\ sound' = [src \in Sources |-> FALSE]

(* Mutant: a complete read also renews the authorization.                  *)
RecordAnswerReauthorizing(src, answer) ==
    LET good == answer \in {"clear", "found"}
        row == IF good THEN RecordSuccess(sync[src])
               ELSE RecordFailure(sync[src], IF answer = "partial" THEN "degraded" ELSE "transport")
        written == [sync EXCEPT ![src] = row]
    IN  /\ sync' = [other \in Sources |->
                       IF good /\ written[other].auth = "needs_reauth"
                       THEN [written[other] EXCEPT !.auth = "configured"] ELSE written[other]]
        /\ sound' = [sound EXCEPT ![src] = good]

RecordAnswer(src, answer) ==
    /\ sync' = [sync EXCEPT ![src] =
          CASE answer \in {"clear", "found"} -> RecordSuccess(@)
            [] answer = "partial" -> RecordFailure(@, "degraded")
            [] answer = "failed" -> RecordFailure(@, "transport")]
    /\ sound' = [sound EXCEPT ![src] = answer \in {"clear", "found"}]

Diagnosis(answer) ==
    CASE answer \in {"clear", "found"} -> "healthy"
      [] answer = "partial" -> "partial"
      [] answer = "failed" -> "transport_error"
      [] answer = "invalid_grant" -> "auth_error"

(* Mutant: only a read that went wrong writes its diagnostics.             *)
RecordBadDiagnostics(src, answer) ==
    diag' = IF src = "gmail" /\ answer \notin {"clear", "found"} THEN Diagnosis(answer) ELSE diag

(* Only Gmail reads have diagnostics.                                      *)
RecordDiagnostics(src, answer) == diag' = IF src = "gmail" THEN Diagnosis(answer) ELSE diag

(* evaluate_source_freshness.                                              *)
Freshness(row) ==
    IF AuthState(row) # "configured" THEN AuthState(row)
    ELSE IF row.error # "none" THEN "error"
    ELSE IF row.success = Never THEN "never_synced"
    ELSE IF row.success >= StaleAfter THEN "stale" ELSE "ok"

(* read.state of the answer: the error of the row, and for Gmail without   *)
(* an error the recorded diagnostics or, before any, what freshness says.  *)
ReadState(row) ==
    CASE row.error = "none" -> IF row.success # Never THEN "complete" ELSE "never_attempted"
      [] row.error = "invalid_grant" -> "auth_error"
      [] row.error = "degraded" -> "partial"
      [] row.error = "transport" -> "transport_error"

DiagnosticReadState(outcome) ==
    CASE outcome = "healthy" -> "complete"
      [] outcome = "stale" -> "never_attempted"
      [] outcome \in {"partial", "auth_error", "transport_error"} -> outcome

FreshnessDiagnosis(status) ==
    CASE status = "ok" -> "healthy"
      [] status \in {"stale", "not_configured", "never_synced"} -> "stale"
      [] status = "needs_reauth" -> "auth_error"
      [] status = "error" -> "transport_error"

ReadReport(src) ==
    IF src = "calendar" \/ sync[src].error # "none" THEN ReadState(sync[src])
    ELSE DiagnosticReadState(IF diag = "none" THEN FreshnessDiagnosis(Freshness(sync[src])) ELSE diag)

AllFresh == \A src \in Sources : Freshness(sync[src]) = "ok"

-----------------------------------------------------------------------------
(* Deciding whether to read.                                               *)

AuthorizationSkip == \E src \in Sources : AuthState(sync[src]) # "configured"

LatestAttemptAge == Min({sync[src].attempt : src \in Sources})

DegradedSkip ==
    IF watched THEN "daemon_running"
    ELSE IF AllFresh THEN "already_fresh"
    ELSE IF LatestAttemptAge < PollInterval THEN "sync_in_flight"
    ELSE "none"

(* _skip_warnings: two reasons for not reading need no guidance.           *)
NoteOf(reason) == IF reason \in {"daemon_running", "already_fresh"} THEN "silent" ELSE "guided"

(* LazySourceProvider.prepare_sources up to the lease: where the check     *)
(* goes on and what guidance it has to give.                               *)
DecideLazily ==
    IF AuthorizationSkip THEN <<"report", "guided">>
    ELSE IF DegradedSkip # "none" THEN <<"report", NoteOf(DegradedSkip)>>
    ELSE <<"acquire", "silent">>

(* proactive_check begins: the gate lets one evaluation start in each      *)
(* interval; a check that finds it closed answers from the stored rows.    *)
(* Nothing but a check touches the gate, so that passing it and deciding   *)
(* whether to read make one step.                                          *)
StartCheck(s) ==
    /\ \/ /\ gate >= GateInterval
          /\ gate' = 0
          /\ Begin(s, "check", DecideLazily[1], DecideLazily[2])
       \/ /\ gate < GateInterval
          /\ UNCHANGED gate
          /\ Begin(s, "check", "reserve_delivery", "silent")
    /\ UNCHANGED <<sync, diag, credState, lease, sound, grant, pending, watched, outside>>

(* Mutant: a lease is never replaced, not even after its expiry.           *)
AcquireFreeLease(s) ==
    /\ At(s, "acquire")
    /\ IF lease.holder = NoOne
       THEN /\ lease' = [holder |-> s, left |-> PollInterval]
            /\ ses' = [ses EXCEPT ![s] = [@ EXCEPT !.pc = "load", !.left = PollInterval]]
       ELSE /\ UNCHANGED lease
            /\ ses' = [ses EXCEPT ![s] = [@ EXCEPT !.pc = "report", !.note = "guided"]]
    /\ UNCHANGED <<sync, diag, credState, gate, sound, grant, pending, watched, outside>>

(* The lease is replaced from the moment it expires.                       *)
AcquireLease(s) ==
    /\ At(s, "acquire")
    /\ IF lease.holder = NoOne \/ lease.left = 0
       THEN /\ lease' = [holder |-> s, left |-> PollInterval]
            /\ ses' = [ses EXCEPT ![s] = [@ EXCEPT !.pc = "load", !.left = PollInterval]]
       ELSE /\ UNCHANGED lease
            /\ ses' = [ses EXCEPT ![s] = [@ EXCEPT !.pc = "report", !.note = "guided"]]
    /\ UNCHANGED <<sync, diag, credState, gate, sound, grant, pending, watched, outside>>

(* Mutant: the release does not look at the token.                         *)
ReleaseAnyLease(s) ==
    /\ At(s, "release")
    /\ lease' = [holder |-> NoOne, left |-> 0]
    /\ ses' = [ses EXCEPT ![s] = [@ EXCEPT !.left = 0,
                  !.pc = IF ses[s].note = "silent" THEN "evaluate" ELSE "report"]]
    /\ UNCHANGED <<sync, diag, credState, gate, sound, grant, pending, watched, outside>>

(* release() deletes the row only under the session's own token; only then *)
(* is what was read applied.                                               *)
ReleaseLease(s) ==
    /\ At(s, "release")
    /\ lease' = IF lease.holder = s THEN [holder |-> NoOne, left |-> 0] ELSE lease
    /\ ses' = [ses EXCEPT ![s] = [@ EXCEPT !.left = 0,
                  !.pc = IF ses[s].note = "silent" THEN "evaluate" ELSE "report"]]
    /\ UNCHANGED <<sync, diag, credState, gate, sound, grant, pending, watched, outside>>

(* ScheduledSourceProvider: the daemon reads on its own cadence, without a *)
(* lease, and there is one daemon at a time (module DaemonStatus).         *)
StartPass(s) ==
    /\ \A t \in Sessions : ses[t].job # "watch"
    /\ Begin(s, "watch", IF AuthorizationSkip THEN "report" ELSE "load", "silent")
    /\ watched' = TRUE
    /\ UNCHANGED <<rows, sound, grant, pending, outside>>

-----------------------------------------------------------------------------
(* Reading.                                                                *)

(* A lazy read gives up its lease before anything else happens.            *)
Leaves(s, next) == IF ses[s].job = "check" THEN "release" ELSE next

Unread(s, why) ==
    ses' = [ses EXCEPT ![s] = [@ EXCEPT !.note = why, !.pc = Leaves(s, "report")]]

(* _read: a grant that cannot be loaded is recorded and ends the attempt.  *)
LoadCredential(s) ==
    /\ At(s, "load")
    /\ \/ /\ grant # 0
          /\ credState' = "available"
          /\ ses' = [ses EXCEPT ![s] = [@ EXCEPT !.pc = "gmail", !.grant = grant]]
       \/ grant = 0 /\ credState' = "missing" /\ Unread(s, "missing")
       \/ credState' = "unavailable" /\ Unread(s, "unavailable")
    /\ UNCHANGED <<sync, diag, lease, gate, sound, grant, pending, watched, outside>>

Honoured(s) == ses[s].grant \notin revoked

(* A refused grant ends the read for both sources.                         *)
Refused(s, gen) ==
    /\ ~ Honoured(s)
    /\ ses' = [ses EXCEPT ![s] = [@ EXCEPT !.pc = "refused", !.gen = gen,
                                           !.got = [src \in Sources |-> "invalid_grant"]]]

Answered(s, src, gen, next) ==
    /\ Honoured(s)
    /\ \E answer \in Replies[src] :
          ses' = [ses EXCEPT ![s] = [@ EXCEPT !.pc = next, !.gen = gen, !.got[src] = answer]]

(* reserve(): a generation after every one that is still under way.        *)
Newest == [src \in Sources |-> 1 + Max({ses[t].gen[src] : t \in Sessions})]

(* Both generations are issued before Gmail is asked.  What it answers is  *)
(* arbitrary, so that asking and issuing make one step.                    *)
ReadGmail(s) ==
    /\ At(s, "gmail")
    /\ Refused(s, Newest) \/ Answered(s, "gmail", Newest, "calendar")
    /\ UNCHANGED <<rows, sound, grant, pending, watched, outside>>

ReadCalendar(s) ==
    /\ At(s, "calendar")
    /\ Refused(s, ses[s].gen) \/ Answered(s, "calendar", ses[s].gen, Leaves(s, "evaluate"))
    /\ UNCHANGED <<rows, sound, grant, pending, watched, outside>>

-----------------------------------------------------------------------------
(* credentials.delete(): it reads the marker and compares it with the      *)
(* version the session loaded, puts a tombstone in its place and then      *)
(* erases the copies.  No lock holds the three together, so that setup may *)
(* store a grant between any two.  Each of the two writes takes away       *)
(* whatever grant it meets, or fails; a reader suppresses the error.       *)

(* Where a reader goes on; the smoke test ends with the deletion.          *)
Deleted(s) ==
    ses' = [ses EXCEPT ![s] =
               IF ses[s].job = "smoke" THEN Idle
               ELSE [@ EXCEPT !.checked = 0,
                              !.pc = IF ses[s].job = "disconnect" THEN "clear"
                                     ELSE Leaves(s, "evaluate")]]

(* Mutant: the deletion is not fenced by the version that was loaded.      *)
CompareNothing(s) ==
    /\ At(s, "refused")
    /\ ses' = [ses EXCEPT ![s] = [@ EXCEPT !.pc = "tombstone", !.checked = saves]]
    /\ UNCHANGED <<rows, sound, grant, pending, watched, outside>>

(* Another version than the session's own is left alone.  A grant whose    *)
(* copy a deletion has erased may still be the one the marker names.       *)
CompareVersion(s) ==
    /\ At(s, "refused")
    /\ \/ /\ grant \in {0, ses[s].grant}
          /\ ses' = [ses EXCEPT ![s] = [@ EXCEPT !.pc = "tombstone", !.checked = saves]]
       \/ grant # ses[s].grant /\ Deleted(s)
    /\ UNCHANGED <<rows, sound, grant, pending, watched, outside>>

WriteTombstone(s) ==
    /\ At(s, "tombstone")
    /\ \/ grant' = 0 /\ Goto(s, "erase")
       \/ grant' = grant /\ Deleted(s)
    /\ UNCHANGED <<rows, sound, pending, watched, outside>>

EraseCopies(s) ==
    /\ At(s, "erase")
    /\ grant' \in {0, grant}
    /\ Deleted(s)
    /\ UNCHANGED <<rows, sound, pending, watched, outside>>

-----------------------------------------------------------------------------
(* Applying what was read.                                                 *)

(* A complete read resolves what it no longer finds, any other only adds.  *)
SettledBy(src, answer) ==
    CASE answer = "found" -> {pending \union {src}}
      [] answer = "clear" -> {pending \ {src}}
      [] answer = "partial" -> {pending, pending \union {src}}
      [] OTHER -> {pending}

(* SituationEngine.evaluate applies each source in a transaction of its    *)
(* own.  An overtaken result is dropped; an applied one becomes the origin *)
(* that all the generations of its source are counted from.                *)
Apply(s, src, next) ==
    LET g == ses[s].gen[src]
        answer == ses[s].got[src]
        Since(t) == IF ses[t].gen[src] > g THEN ses[t].gen[src] - g ELSE 0
    IN  /\ IF g = 0
           THEN UNCHANGED <<sync, diag, sound, pending>>
           ELSE /\ IF answer = "invalid_grant" THEN RecordRefusal ELSE RecordAnswer(src, answer)
                /\ RecordDiagnostics(src, answer)
                /\ pending' \in SettledBy(src, answer)
        /\ ses' = [t \in Sessions |->
                      IF t = s THEN [ses[t] EXCEPT !.pc = next, !.gen[src] = 0, !.got[src] = "unread"]
                      ELSE [ses[t] EXCEPT !.gen[src] = Since(t)]]
        /\ UNCHANGED <<credState, lease, gate, grant, watched, outside>>

ApplyGmail(s) == At(s, "evaluate") /\ Apply(s, "gmail", "evaluate_calendar")
ApplyCalendar(s) == At(s, "evaluate_calendar") /\ Apply(s, "calendar", "report")

(* The daemon ends its pass with a heartbeat.                              *)
EndPass(s) ==
    /\ At(s, "report") /\ ses[s].job = "watch"
    /\ watched' = TRUE
    /\ Finish(s)
    /\ UNCHANGED <<rows, sound, grant, pending, outside>>

(* A check writes down once more that the grant could not be loaded.       *)
ReportSkip(s) ==
    /\ At(s, "report") /\ ses[s].job = "check"
    /\ credState' = IF ses[s].note \in {"missing", "unavailable"} THEN ses[s].note ELSE credState
    /\ ses' = [ses EXCEPT ![s] = [@ EXCEPT !.pc = "reserve_delivery", !.grant = 0,
                                           !.note = IF ses[s].note = "silent" THEN "silent" ELSE "guided"]]
    /\ UNCHANGED <<sync, diag, lease, gate, sound, grant, pending, watched, outside>>

-----------------------------------------------------------------------------
(* The answer of proactive_check.                                          *)

(* reserve_for_delivery leases what policy allows, and the rest is counted *)
(* as held; a leased situation is still pending (module SituationStore),   *)
(* so that nothing leased and nothing held is nothing pending.             *)
ReserveDelivery(s) ==
    /\ At(s, "reserve_delivery")
    /\ ses' = [ses EXCEPT ![s] = [@ EXCEPT !.pc = "health", !.empty = (pending = {})]]
    /\ UNCHANGED <<rows, sound, grant, pending, watched, outside>>

(* Mutant: only an old or missing read gives a warning.                    *)
AllClearDespiteError(s) ==
    /\ ses[s].empty
    /\ ses[s].note = "silent"
    /\ \A src \in Sources : Freshness(sync[src]) \in {"ok", "error"}

(* All clear: nothing leased, nothing held and no warning.  Freshness is   *)
(* judged at the time the check began: what has become stale since then is *)
(* still fresh.                                                            *)
AllClear(s) ==
    /\ ses[s].empty
    /\ ses[s].note = "silent"
    /\ \A src \in Sources :
          \/ Freshness(sync[src]) = "ok"
          \/ Freshness(sync[src]) = "stale" /\ src \in ses[s].aged

AnswerCheck(s) ==
    /\ At(s, "health")
    /\ Finish(s)
    /\ UNCHANGED <<rows, sound, grant, pending, watched, outside>>

-----------------------------------------------------------------------------
(* The user's commands.                                                    *)

(* google-smoke reads with the stored grant and records what it finds      *)
(* without a generation.                                                   *)
StartSmoke(s) ==
    /\ grant # 0
    /\ At(s, "idle") /\ "smoke" \in JobsOf[s]
    /\ ses' = [ses EXCEPT ![s] = [Idle EXCEPT !.job = "smoke", !.pc = "smoke_gmail", !.grant = grant]]
    /\ UNCHANGED <<rows, sound, grant, pending, watched, outside>>

SmokeRefused(s) ==
    /\ ~ Honoured(s)
    /\ RecordRefusal
    /\ RecordDiagnostics("gmail", "invalid_grant")
    /\ Goto(s, "refused")

SmokeAnswered(s, src) ==
    /\ Honoured(s)
    /\ \E answer \in Replies[src] : RecordAnswer(src, answer) /\ RecordDiagnostics(src, answer)

SmokeGmail(s) ==
    /\ At(s, "smoke_gmail")
    /\ \/ SmokeRefused(s)
       \/ SmokeAnswered(s, "gmail") /\ Goto(s, "smoke_calendar")
    /\ UNCHANGED <<credState, lease, gate, grant, pending, watched, outside>>

SmokeCalendar(s) ==
    /\ At(s, "smoke_calendar")
    /\ \/ SmokeRefused(s)
       \/ SmokeAnswered(s, "calendar") /\ Finish(s)
    /\ UNCHANGED <<credState, lease, gate, grant, pending, watched, outside>>

(* setup stores the grant first and then marks both sources configured;    *)
(* the second write may fail.                                              *)
Authorize(s) ==
    /\ saves < MaxGrants
    /\ Begin(s, "setup", "persist", "silent")
    /\ saves' = saves + 1
    /\ grant' = saves'
    /\ UNCHANGED <<rows, sound, revoked, pending, watched, crashes>>

PersistSetup(s) ==
    /\ At(s, "persist")
    /\ WriteGoogleAuth("configured", "none") \/ UNCHANGED sync
    /\ Finish(s)
    /\ UNCHANGED <<diag, credState, lease, gate, sound, grant, pending, watched, outside>>

(* disconnect deletes whatever version it finds, before it clears the      *)
(* rows; when the keyring refuses the deletion the rows stay as they are.  *)
DeleteGrant(s) ==
    /\ grant # 0 \/ ~ AuthorizationSkip
    /\ Begin(s, "disconnect", "erase", "silent")
    /\ grant' = 0
    /\ UNCHANGED <<rows, sound, pending, watched, outside>>

ClearAuth(s) ==
    /\ At(s, "clear")
    /\ Finish(s)
    /\ \/ WriteGoogleAuth("not_configured", "none") /\ credState' = "unknown"
       \/ UNCHANGED <<sync, credState>>
    /\ UNCHANGED <<diag, lease, gate, sound, grant, pending, watched, outside>>

-----------------------------------------------------------------------------
(* The surroundings.                                                       *)

Revoke(g) ==
    /\ g \in Revocable /\ g <= saves /\ g \notin revoked
    /\ revoked' = revoked \union {g}
    /\ UNCHANGED <<rows, sound, grant, pending, watched, ses, saves, crashes>>

(* A situation is delivered, muted, snoozed or expires.                    *)
Settle(src) ==
    /\ src \in pending
    /\ pending' = pending \ {src}
    /\ UNCHANGED <<rows, sound, grant, watched, ses, outside>>

(* The daemon stops, or its heartbeat is older than three intervals.       *)
Unwatch ==
    /\ watched
    /\ watched' = FALSE
    /\ UNCHANGED <<rows, sound, grant, pending, ses, outside>>

(* The process dies; a lease it holds stays in the table.                  *)
Crash(s) ==
    /\ crashes < MaxCrashes
    /\ ~ At(s, "idle")
    /\ Finish(s)
    /\ crashes' = crashes + 1
    /\ UNCHANGED <<rows, sound, grant, revoked, pending, watched, saves>>

Older(age, oldest) == IF age \in {Never, oldest} THEN age ELSE age + 1
Sooner(left) == IF left = 0 THEN 0 ELSE left - 1

GoneStale == {src \in Sources : sync[src].success = StaleAfter - 1}
Waits(s) == ses[s].job = "check"

Tick ==
    /\ sync' = [src \in Sources |->
                   [sync[src] EXCEPT !.success = Older(@, StaleAfter), !.attempt = Older(@, PollInterval)]]
    /\ gate' = Older(gate, GateInterval)
    /\ lease' = [lease EXCEPT !.left = Sooner(@)]
    /\ ses' = [s \in Sessions |->
                  [ses[s] EXCEPT !.left = Sooner(@), !.aged = IF Waits(s) THEN @ \union GoneStale ELSE @]]
    /\ UNCHANGED <<diag, credState, sound, grant, pending, watched, outside>>

-----------------------------------------------------------------------------

Init ==
    /\ sync = [src \in Sources |-> Unconfigured]
    /\ diag = "none"
    /\ sound = [src \in Sources |-> FALSE]
    /\ credState = "unknown"
    /\ lease = [holder |-> NoOne, left |-> 0]
    /\ gate = GateInterval
    /\ grant = 0
    /\ revoked = {}
    /\ pending = {}
    /\ watched = FALSE
    /\ ses = [s \in Sessions |-> Idle]
    /\ saves = 0
    /\ crashes = 0

Proceed(s) ==
    \/ AcquireLease(s) \/ LoadCredential(s) \/ ReadGmail(s) \/ ReadCalendar(s) \/ ReleaseLease(s)
    \/ ApplyGmail(s) \/ ApplyCalendar(s) \/ EndPass(s) \/ ReportSkip(s)
    \/ ReserveDelivery(s) \/ AnswerCheck(s)
    \/ CompareVersion(s) \/ WriteTombstone(s) \/ EraseCopies(s)
    \/ SmokeGmail(s) \/ SmokeCalendar(s)
    \/ PersistSetup(s) \/ ClearAuth(s)

Next ==
    \/ \E s \in Sessions :
          \/ StartCheck(s) \/ StartPass(s) \/ StartSmoke(s) \/ Authorize(s) \/ DeleteGrant(s)
          \/ Proceed(s)
          \/ Crash(s)
    \/ \E g \in 1..MaxGrants : Revoke(g)
    \/ \E src \in Sources : Settle(src)
    \/ Unwatch
    \/ Tick

Spec == Init /\ [][Next]_vars

(* A started job goes on until it ends, hosts call proactive_check again   *)
(* and again, and time passes.                                             *)
Fairness ==
    /\ \A s \in Sessions : WF_vars(Proceed(s)) /\ SF_vars(StartCheck(s))
    /\ WF_vars(Tick)

LiveSpec == Spec /\ Fairness

-----------------------------------------------------------------------------
(* Properties.                                                             *)

Auths == {"absent", "not_configured", "configured", "needs_reauth"}
Places == {"idle", "acquire", "load", "gmail", "calendar", "release", "evaluate",
           "evaluate_calendar", "report", "reserve_delivery", "health", "smoke_gmail",
           "smoke_calendar", "refused", "tombstone", "erase", "persist", "clear"}

(* Every row, lease and session holds a value the code can write.          *)
TypeOK ==
    /\ sync \in [Sources -> [auth : Auths, success : {Never} \union 0..StaleAfter,
                             attempt : 0..PollInterval,
                             error : {"none", "degraded", "transport", "invalid_grant"}]]
    /\ diag \in {"none", "healthy", "partial", "transport_error", "auth_error"}
    /\ credState \in {"unknown", "available", "missing", "unavailable"}
    /\ lease \in [holder : Sessions \union {NoOne}, left : 0..PollInterval]
    /\ gate \in 0..GateInterval
    /\ grant \in 0..saves /\ saves \in 0..MaxGrants /\ revoked \subseteq 1..saves
    /\ pending \subseteq Sources
    /\ \A s \in Sessions :
          /\ ses[s].pc \in Places
          /\ ses[s].left \in 0..PollInterval
          /\ ses[s].grant \in 0..saves /\ ses[s].checked \in 0..saves
          /\ \A src \in Sources : ses[s].gen[src] \in Nat

(* At most one lazy reader is inside an unexpired lease, although leases   *)
(* expire during reads and late readers release when another already holds *)
(* the row (_lazy_sync_lease.py: acquire, release).                        *)
LeaseExclusive ==
    \A s, t \in Sessions : ses[s].left > 0 /\ ses[t].left > 0 => s = t

(* Types, and one reader inside an unexpired lease.                        *)
ReadersInv == TypeOK /\ LeaseExclusive

(* Without a daemon and with both sources authorized, reads never stop for *)
(* good: again and again everything is fresh, an attempt is recorded or a  *)
(* check begins to read, whoever crashed with the lease in its hands.      *)
LazyReadsResume ==
    <>[](~ watched /\ ~ AuthorizationSkip)
        => []<>(AllFresh \/ LatestAttemptAge = 0 \/ \E s \in Sessions : At(s, "load"))

(* An all-clear rests on a complete read: for neither source is the last   *)
(* recorded read a partial, failed or refused one, whatever setup or late  *)
(* results wrote in between (situation_tools.py: proactive_check).         *)
AllClearBacked ==
    \A s \in Sessions : At(s, "health") /\ AllClear(s) => \A src \in Sources : sound[src]

(* proactive_check and get_status report a source as read completely       *)
(* exactly when the last recorded read of it was complete, although the    *)
(* row and the diagnostics are written by daemon, checks, smoke tests and  *)
(* the refusal of the other source (situation_responses.py).               *)
ReadReportTruthful ==
    \A src \in Sources : (ReadReport(src) = "complete") <=> sound[src]

(* One grant, one authorization: the two sources never disagree, except    *)
(* where a read before the end of setup created only one of the rows.      *)
SharedAuthorization ==
    LET auths == {sync[src].auth : src \in Sources}
    IN  Cardinality(auths) = 1 \/ auths = {"absent", "configured"}

(* A refusal that arrives late costs the user no grant that setup had      *)
(* stored when the deletion compared versions: a reader takes away the     *)
(* grant it read with, or one stored after the comparison, which the code  *)
(* without a lock cannot spare (credentials.py: delete).                   *)
RefusalSparesNewGrant ==
    [][\A s \in Sessions :
          grant' # grant /\ ses'[s] # ses[s] /\ ses[s].job \in {"check", "watch", "smoke"}
              => /\ ses[s].pc \in {"tombstone", "erase"}
                 /\ grant = ses[s].grant \/ grant > ses[s].checked]_vars

(* Only setup ends the need for a new authorization, and only disconnect   *)
(* forgets it: a read that was under way when the refusal was recorded     *)
(* does not bring the sources back.                                        *)
ReauthorizedBySetup ==
    [][\A src \in Sources :
          sync[src].auth = "needs_reauth" /\ sync'[src].auth # "needs_reauth"
              => \E s \in Sessions : ses[s].job \in {"setup", "disconnect"}]_vars
=============================================================================
