---------------------------- MODULE MCComponents ----------------------------
(* The components that stand beside the situation store, each checked on   *)
(* an instance of its own.  They share no state with each other, so a      *)
(* behaviour runs one of them, the part, and leaves the others as they     *)
(* began; a part that does not run begins in one state only.               *)
EXTENDS CredentialStore, ServiceInstall, Database, PrivateFile, MemoryStore,
        InboxRead, CalendarConflicts, Occasions, TLC

CONSTANT Parts
VARIABLE part

(* Processes that use a component do so alike.                             *)
ASSUME SameProcesses == Holders = FileUsers /\ Holders = Evaluators /\ Holders = Openers
ProcessSymmetry == Permutations(Holders)

componentVars == <<part, credentialVars, serviceVars, databaseVars, fileVars,
                   memoryVars, inboxVars, calendarVars, occasionVars>>

(* A dated memory about an entity: attribute, date, label, kind, path.     *)
Entry(attribute, date, label, kind, leaf, text) ==
    [kind |-> "note", attribute |-> attribute, date |-> date,
     content |-> [norm |-> "tea", spelling |-> text],
     about |-> [label |-> label, kind |-> kind, leaf |-> leaf]]
FiveMemories ==
    {Entry("birthday", "may", 1, 2, 0, 1), Entry("birthday", "may", 2, 1, 1, 1),
     Entry("free", "may", 2, 1, 0, 1), Entry("free", "may", 2, 1, 3, 2),
     Entry("free", "none", 3, 1, 0, 1)}

(* A small and an oversized thread, and every way not to read one.  At     *)
(* first at most one thread is other than small and plain, and a message   *)
(* may bring another.                                                      *)
Plain == [shape |-> "plain", size |-> 1]
SixForms ==
    {Plain, [shape |-> "plain", size |-> 3]} \cup
    {[shape |-> s, size |-> 1] : s \in Shapes \ {"plain"}}
(* Three threads meet the page limit, the projection limit, or neither.    *)
EitherLimit == {[pages |-> 2, projected |-> 3], [pages |-> 3, projected |-> 2],
                [pages |-> 3, projected |-> 3]}

(* Events that overlap, touch or are empty, an all-day event, one that     *)
(* does not count and one that cannot be read.                             *)
Timed(start, end) ==
    [start |-> start, end |-> end, allDay |-> FALSE, kind |-> "committed"]
SevenEvents ==
    {Timed(0, 2), Timed(1, 3), Timed(2, 3), Timed(1, 1),
     [Timed(0, 3) EXCEPT !.allDay = TRUE], [Timed(1, 3) EXCEPT !.kind = "other"],
     [Timed(1, 3) EXCEPT !.kind = "malformed"]}

(* Two contradictory dates of one entity, on the leap day and on the day   *)
(* after it, with different lead days, and one full date in the second     *)
(* year, which an update moves within that year.                           *)
FourDates ==
    {[id |-> 1, entity |-> 1, year |-> 0, place |-> 2, lead |-> 0],
     [id |-> 2, entity |-> 1, year |-> 0, place |-> 3, lead |-> -1],
     [id |-> 3, entity |-> 0, year |-> 1, place |-> 1, lead |-> 2],
     [id |-> 3, entity |-> 0, year |-> 1, place |-> 3, lead |-> 2]}

Init ==
    /\ part \in Parts
    /\ CredentialInit
    /\ part # "credentials" => slot = Nothing /\ global = Nothing /\ file = Nothing
    /\ ServiceInit
    /\ part # "service" => platform = "linux" /\ sys = Absent("none")
    /\ DatabaseInit
    /\ part # "database" => Len(schema.applied) = 0 /\ ~schema.pending
                            /\ tokens = {}
    /\ FileInit
    /\ MemoryInit
    /\ InboxInit
    /\ Cardinality({t \in Threads : mail[t].form # Plain}) <= IF part = "inbox" THEN 1 ELSE 0
    /\ CalendarInit
    /\ part # "calendar" => \A e \in Events : calendar[e] = Timed(0, 2)
    /\ OccasionInit

Only(p, next, rest) == part = p /\ next /\ UNCHANGED <<part, rest>>

Next ==
    \/ Only("credentials", CredentialNext,
            <<serviceVars, databaseVars, fileVars, memoryVars, inboxVars,
              calendarVars, occasionVars>>)
    \/ Only("service", ServiceNext,
            <<credentialVars, databaseVars, fileVars, memoryVars, inboxVars,
              calendarVars, occasionVars>>)
    \/ Only("database", DatabaseNext,
            <<credentialVars, serviceVars, fileVars, memoryVars, inboxVars,
              calendarVars, occasionVars>>)
    \/ Only("file", FileNext,
            <<credentialVars, serviceVars, databaseVars, memoryVars, inboxVars,
              calendarVars, occasionVars>>)
    \/ Only("memory", MemoryNext,
            <<credentialVars, serviceVars, databaseVars, fileVars, inboxVars,
              calendarVars, occasionVars>>)
    \/ Only("inbox", InboxNext,
            <<credentialVars, serviceVars, databaseVars, fileVars, memoryVars,
              calendarVars, occasionVars>>)
    \/ Only("calendar", CalendarNext,
            <<credentialVars, serviceVars, databaseVars, fileVars, memoryVars,
              inboxVars, occasionVars>>)
    \/ Only("occasions", OccasionNext,
            <<credentialVars, serviceVars, databaseVars, fileVars, memoryVars,
              inboxVars, calendarVars>>)

Spec == Init /\ [][Next]_componentVars
=============================================================================
