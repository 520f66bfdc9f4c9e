----------------------------- MODULE Occasions -----------------------------
(***************************************************************************)
(* The detector of personal occasions (situations/personal_occasion.py,    *)
(* situations/_dates.py) and what its passes do to the stored situations   *)
(* over the years.  A pass expires what has lapsed, reads the dated        *)
(* memories, and applies its detections later; the passes of the daemon    *)
(* and of the servers interleave, nothing orders them, and a pass may stop *)
(* for good after any step.  Meanwhile days pass, and the user edits the   *)
(* memories.                                                               *)
(*                                                                         *)
(* Days are numbered from 1.  The year is short: a place in the year, 1 to *)
(* PlainDays + 1, stands for month and day, and the place LeapDay, the     *)
(* 29th of February, exists in leap years only.                            *)
(***************************************************************************)
EXTENDS Integers, Sequences, FiniteSetsExt

CONSTANTS
    Evaluators,         \* passes that may be under way
    DatedMemories,      \* the dated memory items that may be remembered; two
                        \* with one id are versions of one item
    DefaultLead,        \* occasion_default_lead_days
    FirstYear,          \* year in which a behaviour begins
    PlainDays,          \* days of a year that is no leap year
    LeapDay,            \* place of the leap day
    MaxDay,             \* bound: the last day
    MaxEdits            \* bound: how often memories change

(* entity is 0 for an item without one, or whose attribute is "free": such *)
(* an item is a group of its own, because no two active items state the    *)
(* same free fact (DatedFactsUnique of MemoryStore).  year counts from the *)
(* first year; it is 0 in a yearly anchor.  lead is -1 where none is given.*)
DatedMemory == [id : Nat \ {0}, entity : Nat, year : Nat,
                place : 1 .. PlainDays + 1, lead : Nat \cup {-1}]

ASSUME OccasionAssumption ==
    /\ DatedMemories \subseteq DatedMemory
    /\ FirstYear \in Nat \ {0} /\ {PlainDays, MaxDay} \subseteq Nat \ {0}
    /\ LeapDay \in 2 .. PlainDays
    /\ DefaultLead \in Nat /\ MaxEdits \in Nat

VARIABLES
    today,
    active,     \* the memories that are not archived
    edits,      \* memories ever remembered, and how many edits so far
    board,      \* the stored occasions: dedupe key -> row
    pass,       \* per pass: its step, its day and the detections to apply
    announced   \* history: per group, the dates its deliveries were about

occasionVars == <<today, active, edits, board, pass, announced>>

-----------------------------------------------------------------------------
(* Dates.                                                                  *)

IsLeapYear(year) == year % 4 = 0 /\ (year % 100 # 0 \/ year % 400 = 0)

(* Years that the days of a behaviour and their next occurrences reach.    *)
YearsAhead == 0 .. (MaxDay \div PlainDays) + 2
LeapYearsUpTo(year) == year \div 4 - year \div 100 + year \div 400
DaysBefore(y) ==
    y * PlainDays + LeapYearsUpTo(FirstYear + y - 1) - LeapYearsUpTo(FirstYear - 1)
YearOf(day) ==
    CHOOSE y \in YearsAhead : DaysBefore(y) < day /\ day <= DaysBefore(y + 1)

(* Mutation: a 29th of February becomes a 1st of March.                    *)
OccurrenceInYearMarch(y, place) ==
    DaysBefore(y) + IF IsLeapYear(FirstYear + y) \/ place <= LeapDay
                    THEN place ELSE place - 1

(* In other years the 29th of February falls on the 28th, and what follows *)
(* is one day earlier.                                                     *)
OccurrenceInYear(y, place) ==
    DaysBefore(y) + IF IsLeapYear(FirstYear + y) \/ place < LeapDay
                    THEN place ELSE place - 1

YearlyOccurrenceOnOrAfter(day, place) ==
    LET occurrence == OccurrenceInYear(YearOf(day), place)
    IN  IF occurrence >= day THEN occurrence
        ELSE OccurrenceInYear(YearOf(day) + 1, place)

(* _next_occurrence; a full date that is over has none.                    *)
HasNext(m, day) == m.year = 0 \/ OccurrenceInYear(m.year, m.place) >= day
NextOccurrence(m, day) ==
    IF m.year = 0 THEN YearlyOccurrenceOnOrAfter(day, m.place)
    ELSE OccurrenceInYear(m.year, m.place)

-----------------------------------------------------------------------------
(* detect_personal_occasions.                                              *)

GroupKey(m) == IF m.entity = 0 THEN <<"item", m.id>> ELSE <<"entity", m.entity>>
GroupKeys == {GroupKey(m) : m \in DatedMemories}
Dated(group, day) == {m \in active : GroupKey(m) = group /\ HasNext(m, day)}

LeadDays(m) == IF m.lead = -1 THEN DefaultLead ELSE m.lead
(* Mutation: the group's next date decides, by its own lead days.          *)
EligibleAsGroup(group, day) ==
    {m \in Dated(group, day) :
        /\ \A n \in Dated(group, day) : NextOccurrence(m, day) <= NextOccurrence(n, day)
        /\ NextOccurrence(m, day) - day <= LeadDays(m)}
(* Each row against its own lead window.                                   *)
Eligible(group, day) ==
    {m \in Dated(group, day) : NextOccurrence(m, day) - day <= LeadDays(m)}

(* The earliest eligible occurrence speaks for the group.                  *)
Trigger(group, day) == Min({NextOccurrence(m, day) : m \in Eligible(group, day)})

(* Mutation: one situation per date.                                       *)
DedupeKeyByDate(group, occurrence) == <<group, occurrence>>
DedupeKey(group, occurrence) == <<group, YearOf(occurrence)>>

(* One detection per group with an eligible row: dedupe key -> date; the   *)
(* situation expires when that day ends.                                   *)
OccasionDetections(day) ==
    LET groups == {g \in GroupKeys : Eligible(g, day) # {}}
    IN  [key \in {DedupeKey(g, Trigger(g, day)) : g \in groups} |-> Trigger(key[1], day)]

-----------------------------------------------------------------------------
(* One pass.                                                               *)

NoPass == [pc |-> "idle", day |-> 0, batch |-> [key \in {} |-> 0]]
Over(row) == row.date < today

OccasionInit ==
    /\ today = 1
    /\ active = {}
    /\ edits = [made |-> {}, count |-> 0]
    /\ board = [key \in {} |-> [state |-> "pending", date |-> 0, told |-> FALSE]]
    /\ pass = [e \in Evaluators |-> NoPass]
    /\ announced = [g \in GroupKeys |-> <<>>]

(* The pass reads its clock, then expire_lapsed.                           *)
ExpireOccasions(e) ==
    /\ pass[e].pc = "idle"
    /\ board' = [key \in DOMAIN board |->
                   IF board[key].state \in {"pending", "delivered"} /\ Over(board[key])
                   THEN [board[key] EXCEPT !.state = "expired"] ELSE board[key]]
    /\ pass' = [pass EXCEPT ![e].pc = "read", ![e].day = today]
    /\ UNCHANGED <<today, active, edits, announced>>

(* list_dated_memories and detect_personal_occasions                       *)
DetectOccasions(e) ==
    /\ pass[e].pc = "read"
    /\ pass' = [pass EXCEPT ![e] = [NoPass EXCEPT
                  !.pc = "apply", !.batch = OccasionDetections(pass[e].day)]]
    /\ UNCHANGED <<today, active, edits, board, announced>>

(* A closed occasion comes back only if it was never delivered.            *)
UpsertedOccasion(key, date) ==
    IF key \notin DOMAIN board THEN [state |-> "pending", date |-> date, told |-> FALSE]
    ELSE LET row == board[key]
         IN  IF row.state \in {"pending", "delivered"} THEN [row EXCEPT !.date = date]
             ELSE IF row.told THEN row
             ELSE [row EXCEPT !.state = "pending", !.date = date]

(* apply_local_detections                                                  *)
ApplyOccasions(e) ==
    LET batch == pass[e].batch
    IN  /\ pass[e].pc = "apply"
        /\ board' = [key \in DOMAIN board \cup DOMAIN batch |->
                       IF key \in DOMAIN batch THEN UpsertedOccasion(key, batch[key])
                       ELSE IF board[key].state \in {"pending", "delivered"}
                       THEN [board[key] EXCEPT !.state = "resolved"] ELSE board[key]]
        /\ pass' = [pass EXCEPT ![e] = NoPass]
        /\ UNCHANGED <<today, active, edits, announced>>

-----------------------------------------------------------------------------
(* The rest of the system.                                                 *)

(* Lease and receipt of SituationStore: not after the occasion's day.      *)
DeliverOccasion(key) ==
    /\ board[key].state = "pending" /\ ~Over(board[key])
    /\ board' = [board EXCEPT ![key].state = "delivered", ![key].told = TRUE]
    /\ announced' = [announced EXCEPT ![key[1]] = Append(@, board[key].date)]
    /\ UNCHANGED <<today, active, edits, pass>>

RememberDate(m) ==
    /\ edits.count < MaxEdits
    /\ \A n \in edits.made : n.id # m.id
    /\ active' = active \cup {m}
    /\ edits' = [made |-> edits.made \cup {m}, count |-> edits.count + 1]
    /\ UNCHANGED <<today, board, pass, announced>>

(* MemoryStore.update: another date, lead or entity under the same id.     *)
UpdateDate(m, n) ==
    /\ m \in active /\ n # m /\ n.id = m.id /\ edits.count < MaxEdits
    /\ active' = (active \ {m}) \cup {n}
    /\ edits' = [edits EXCEPT !.count = @ + 1]
    /\ UNCHANGED <<today, board, pass, announced>>

ForgetDate(m) ==
    /\ m \in active /\ edits.count < MaxEdits
    /\ active' = active \ {m}
    /\ edits' = [edits EXCEPT !.count = @ + 1]
    /\ UNCHANGED <<today, board, pass, announced>>

DayPasses ==
    /\ today < MaxDay
    /\ today' = today + 1
    /\ UNCHANGED <<active, edits, board, pass, announced>>

OccasionNext ==
    \/ \E e \in Evaluators :
         ExpireOccasions(e) \/ DetectOccasions(e) \/ ApplyOccasions(e)
    \/ \E key \in DOMAIN board : DeliverOccasion(key)
    \/ \E m \in DatedMemories : RememberDate(m) \/ ForgetDate(m)
    \/ \E m, n \in DatedMemories : UpdateDate(m, n)
    \/ DayPasses

OccasionSpec == OccasionInit /\ [][OccasionNext]_occasionVars

-----------------------------------------------------------------------------
(* Properties.                                                             *)

(* However its dates contradict each other and change, whatever passes     *)
(* apply late: a group is announced at most once about dates of one year.  *)
(* ("one occasion per occurrence year, so duplicate memories never notify  *)
(* twice")                                                                 *)
AnnouncedOncePerYear ==
    \A g \in GroupKeys : \A i, j \in DOMAIN announced[g] :
        YearOf(announced[g][i]) = YearOf(announced[g][j]) => i = j

(* When a pass ends that nothing has overtaken, no memory inside its own   *)
(* lead window is left out: its group waits with an eligible date that is  *)
(* no later, or was announced about a date of such a year.                 *)
InLeadWindow(m) == HasNext(m, today) /\ NextOccurrence(m, today) - today <= LeadDays(m)
Remembered(m, rows, told) ==
    LET group == GroupKey(m)
        dates == {NextOccurrence(n, today) : n \in {a \in active : /\ GroupKey(a) = group
                                                          /\ InLeadWindow(a)}}
    IN  \E d \in dates :
          /\ d <= NextOccurrence(m, today)
          /\ \/ \E key \in DOMAIN rows :
                  /\ key[1] = group /\ rows[key].date = d
                  /\ rows[key].state \in {"pending", "delivered"}
             \/ \E i \in DOMAIN told[group] : YearOf(told[group][i]) = YearOf(d)
DueOccasionKept ==
    [][\A e \in Evaluators :
         pass[e].pc = "apply" /\ pass'[e].pc = "idle"
           /\ pass[e].batch = OccasionDetections(today) =>
             \A m \in active : InLeadWindow(m) => Remembered(m, board', announced')]_occasionVars

(* The date arithmetic agrees with the calendar, counted day by day: on    *)
(* every day the next occurrence is an anniversary and none comes before   *)
(* it.  (yearly_occurrence_on_or_after)                                    *)
PlaceOf(day) ==
    LET nth == day - DaysBefore(YearOf(day))
    IN  IF nth < LeapDay \/ IsLeapYear(FirstYear + YearOf(day)) THEN nth ELSE nth + 1
IsAnniversary(day, place) ==
    \/ PlaceOf(day) = place
    \/ place = LeapDay /\ PlaceOf(day) = place - 1 /\ PlaceOf(day + 1) # place
NextIsFirst(place) ==
    LET next == YearlyOccurrenceOnOrAfter(today, place)
    IN  /\ next >= today /\ IsAnniversary(next, place)
        /\ \A day \in today .. next - 1 : ~IsAnniversary(day, place)
NextDateIsFirst ==
    [][today' # today =>
         \A m \in DatedMemories : m.year = 0 => NextIsFirst(m.place)]_occasionVars
=============================================================================
