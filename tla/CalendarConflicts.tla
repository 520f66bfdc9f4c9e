------------------------- MODULE CalendarConflicts -------------------------
(***************************************************************************)
(* One pass over the calendar: CalendarAdapter.list_events                 *)
(* (sources/calendar.py), the overlap sweep of                             *)
(* run_calendar_conflict_detection (situations/calendar_conflict.py) and   *)
(* what the store resolves afterwards.  The calendar changes between the   *)
(* pages of a pass and while it is swept, and time passes.                 *)
(*                                                                         *)
(* Google Calendar is external: it lists the events that end after timeMin *)
(* and start before timeMax by start time, no event ends before it starts, *)
(* and a page token is taken to mean "after the last event listed".        *)
(***************************************************************************)
EXTENDS Integers, Sequences, FiniteSetsExt

CONSTANTS
    Events,         \* event ids, which are also their order
    EventInputs,    \* bound: the forms an event may have
    EventsPerPage,  \* DEFAULT_MAX_RESULTS
    MaxEventPages,  \* DEFAULT_MAX_PAGES
    Lookahead,      \* DEFAULT_LOOKAHEAD
    MaxConflicts,   \* MAX_CALENDAR_CONFLICTS
    MaxMoves,       \* bound: changes of the calendar
    MaxHour         \* bound: the clock stops here

ASSUME CalendarAssumption ==
    /\ Events \subseteq Nat /\ IsFiniteSet(Events)
    /\ EventInputs \subseteq
         {e \in [start : Nat, end : Nat, allDay : BOOLEAN,
                 kind : {"committed", "other", "malformed"}] : e.start <= e.end}
    /\ {EventsPerPage, MaxEventPages, Lookahead} \subseteq Nat \ {0}
    /\ {MaxConflicts, MaxMoves, MaxHour} \subseteq Nat

VARIABLES
    calendar,   \* the provider's events: when, and whether they count
    hour,       \* the clock
    sync,       \* the pass that is under way
    conflicts,  \* the unresolved conflict situations, as pairs of event ids
    touched,    \* history: events that changed since the pass began
    moves       \* how often the calendar has changed, up to MaxMoves

calendarVars == <<calendar, hour, sync, conflicts, touched, moves>>

NoSync == [stage |-> "idle", since |-> 0, last |-> <<-1, 0>>, pages |-> 0,
           events |-> {}, skipped |-> FALSE, now |-> 0, todo |-> {},
           active |-> {}, found |-> {}, full |-> FALSE]

CalendarInit ==
    /\ calendar \in [Events -> EventInputs]
    /\ hour = 0
    /\ sync = NoSync
    /\ conflicts = {}
    /\ touched = {}
    /\ moves = 0

(* An event is created, moved, answered or cancelled.                      *)
ChangeEvent(e, form) ==
    /\ moves < MaxMoves /\ form # calendar[e]
    /\ calendar' = [calendar EXCEPT ![e] = form]
    /\ touched' = IF sync = NoSync THEN {} ELSE touched \cup {e}
    /\ moves' = moves + 1
    /\ UNCHANGED <<hour, sync, conflicts>>

HourPasses ==
    /\ hour < MaxHour
    /\ hour' = hour + 1
    /\ UNCHANGED <<calendar, sync, conflicts, touched, moves>>

-----------------------------------------------------------------------------
(* list_events: all pages, or an error.                                    *)

BeginSync ==
    /\ sync.stage = "idle"
    /\ sync' = [NoSync EXCEPT !.stage = "listing", !.since = hour]
    /\ UNCHANGED <<calendar, hour, conflicts, touched, moves>>

(* A page goes on after the position of the last event listed.             *)
Position(e) == <<calendar[e].start, e>>
Earlier(p, q) == p[1] < q[1] \/ (p[1] = q[1] /\ p[2] < q[2])
Unlisted(last) ==
    {e \in Events : /\ calendar[e].end > sync.since
                    /\ calendar[e].start < sync.since + Lookahead
                    /\ Earlier(last, Position(e))}
EventPage ==
    LET before(e) == {f \in Unlisted(sync.last) :
                        Earlier(Position(f), Position(e))}
    IN  {e \in Unlisted(sync.last) : Cardinality(before(e)) < EventsPerPage}
LastPositions ==
    IF EventPage = {} THEN {sync.last}
    ELSE {Position(e) : e \in {f \in EventPage : \A g \in EventPage :
                                 g = f \/ Earlier(Position(g), Position(f))}}

(* _parse_event drops what it cannot read and counts it.                   *)
Parsed(page) ==
    {[id |-> e, form |-> calendar[e]] :
       e \in {f \in page : calendar[f].kind # "malformed"}}

ListEvents ==
    \E last \in LastPositions :
        LET more == Unlisted(last) # {}
        IN  /\ sync.stage = "listing"
            /\ more => sync.pages + 1 < MaxEventPages
            /\ sync' = [sync EXCEPT
                          !.stage = IF more THEN "listing" ELSE "listed",
                          !.pages = @ + 1, !.last = last,
                          !.events = @ \cup Parsed(EventPage),
                          !.skipped = @ \/ \E e \in EventPage :
                                               calendar[e].kind = "malformed"]
            /\ UNCHANGED <<calendar, hour, conflicts, touched, moves>>

(* The page limit, a response that is cut short or not understood, and a   *)
(* transport error all end the pass; the degraded snapshot is empty.       *)
FailSync ==
    /\ sync.stage = "listing"
    /\ sync' = NoSync
    /\ touched' = {}
    /\ UNCHANGED <<calendar, hour, conflicts, moves>>

-----------------------------------------------------------------------------
(* run_calendar_conflict_detection *)

(* _committed_intervals, without what is over.                             *)
Committed(events, now) ==
    {v \in events : v.form.kind = "committed" /\ v.form.end > now}

(* The clock is read once.                                                 *)
BeginSweep ==
    /\ sync.stage = "listed"
    /\ sync' = [sync EXCEPT !.stage = "sweeping", !.now = hour,
                            !.todo = Committed(sync.events, hour)]
    /\ UNCHANGED <<calendar, hour, conflicts, touched, moves>>

(* Events are taken in the order of their starts, ends and ids.            *)
SweptBefore(v, w) ==
    \/ v.form.start < w.form.start
    \/ v.form.start = w.form.start /\ v.form.end < w.form.end
    \/ v.form.start = w.form.start /\ v.form.end = w.form.end /\ v.id < w.id

(* Mutation: an event that ends as another starts is still active.         *)
StillOpenAtEnd(v, current) == v.form.end >= current.form.start
(* The heap of ends: what has ended by the start of the current event goes.*)
StillOpen(v, current) == v.form.end > current.form.start

(* One round of the loop: what is still open overlaps, unless both are     *)
(* all-day events or the overlap is over.  Detections are added in the     *)
(* order of the sweep; with one too many the run ends, and it is not safe  *)
(* to resolve what it lacks.                                               *)
SweepRound ==
    \E current \in sync.todo :
        LET active == {v \in sync.active : StillOpen(v, current)}
            candidates == {v \in active :
                             /\ ~(current.form.allDay /\ v.form.allDay)
                             /\ Min({v.form.end, current.form.end}) > sync.now}
            room == MaxConflicts - Cardinality(sync.found)
            over == Cardinality(candidates) > room
        IN  \E added \in SUBSET candidates :
                /\ sync.stage = "sweeping"
                /\ \A v \in sync.todo : v = current \/ SweptBefore(current, v)
                /\ Cardinality(added) = IF over THEN room
                                        ELSE Cardinality(candidates)
                /\ \A v \in added, w \in candidates \ added : SweptBefore(v, w)
                /\ sync' = [sync EXCEPT
                              !.todo = IF over THEN {} ELSE @ \ {current},
                              !.active = active \cup {current},
                              !.found = @ \cup {{v, current} : v \in added},
                              !.full = over]
                /\ UNCHANGED <<calendar, hour, conflicts, touched, moves>>

(* dedupe_key: the ids of the two events.                                  *)
Key(pair) == {v.id : v \in pair}
Detections == {Key(pair) : pair \in sync.found}

(* Mutation: an overflowing run is taken for the whole truth.              *)
ResolvesThoughFull == ~sync.skipped
(* evaluate: complete, and safe to resolve.                                *)
ResolvesAbsent == ~sync.skipped /\ ~sync.full

ApplySync ==
    /\ sync.stage = "sweeping" /\ sync.todo = {}
    /\ conflicts' = Detections \cup (IF ResolvesAbsent THEN {} ELSE conflicts)
    /\ sync' = NoSync
    /\ touched' = {}
    /\ UNCHANGED <<calendar, hour, moves>>

-----------------------------------------------------------------------------
CalendarNext ==
    \/ \E e \in Events, form \in EventInputs : ChangeEvent(e, form)
    \/ HourPasses
    \/ BeginSync \/ ListEvents \/ FailSync
    \/ BeginSweep \/ SweepRound \/ ApplySync

CalendarSpec == CalendarInit /\ [][CalendarNext]_calendarVars

-----------------------------------------------------------------------------
(* Properties.                                                             *)

(* Two events conflict when both count, they share time that is not over   *)
(* yet, and at least one is not an all-day event.                          *)
Conflicting(v, w, now) ==
    /\ v.kind = "committed" /\ w.kind = "committed"
    /\ ~(v.allDay /\ w.allDay)
    /\ v.start < w.end /\ w.start < v.end
    /\ v.end > now /\ w.end > now

ConflictingPairs(events, now) ==
    {{p[1], p[2]} : p \in {q \in events \X events :
                            /\ q[1] # q[2]
                            /\ Conflicting(q[1].form, q[2].form, now)}}

InWindow(e) == e \notin touched /\ calendar[e].start < sync.since + Lookahead
ConflictNow(pair) ==
    \E e, f \in pair : e # f /\ Conflicting(calendar[e], calendar[f], hour)

(* The sweep with its heap of ends finds the pairs that conflict and no    *)
(* others, whatever order their bounds have (events that touch, that are   *)
(* empty, or that share a start included), as many as fit, and it says     *)
(* that it overflowed exactly when there are more.                         *)
(* (run_calendar_conflict_detection)                                       *)
SweepFindsConflicts ==
    sync.stage = "sweeping" /\ sync.todo = {} =>
        LET pairs == ConflictingPairs(sync.events, sync.now)
        IN  /\ sync.found \subseteq pairs
            /\ sync.full <=> Cardinality(pairs) > MaxConflicts
            /\ IF sync.full THEN Cardinality(sync.found) = MaxConflicts
                            ELSE sync.found = pairs

(* A stored conflict between events of the window that did not change      *)
(* during the pass is resolved only when they no longer conflict: not      *)
(* because the output overflowed, an event was unreadable or a page failed.*)
(* (resolution_safe, skipped_count)                                        *)
ConflictNotDropped ==
    [][\A pair \in conflicts \ conflicts' :
         (\A e \in pair : InWindow(e)) => ~ConflictNow(pair)]_calendarVars
=============================================================================
