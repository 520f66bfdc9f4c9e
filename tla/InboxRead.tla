----------------------------- MODULE InboxRead -----------------------------
(***************************************************************************)
(* One pass over the Gmail inbox: GmailAdapter.read_inbox_threads          *)
(* (sources/gmail.py) through the budgeted transport                       *)
(* (sources/__init__.py), the projection of each thread                    *)
(* (_gmail_projection.py), the reply detector (reply_deadline.py) and what *)
(* the store then resolves (_situation_consistency.py).                    *)
(*                                                                         *)
(* A pass is many requests: profile, list pages, one detail per thread.    *)
(* Between any two of them the mailbox changes.  Gmail itself is external: *)
(* it lists the threads of the inbox by the recency of their latest        *)
(* message, and a page token is taken to mean "older than the last thread  *)
(* of the page before".  A pass asks only for the threads of its lookback  *)
(* window, whose edge it fixes when it begins to list.  Passes do not      *)
(* overlap here; that a late one is refused is the generations' business,  *)
(* in SituationStore.                                                      *)
(***************************************************************************)
EXTENDS Integers, Sequences, SequencesExt

CONSTANTS
    Threads,       \* thread ids, in the order of their latest messages
    ThreadsPerPage,      \* DEFAULT_MAX_RESULTS
    Limits,        \* DEFAULT_MAX_PAGES and DEFAULT_MAX_PROJECTED_THREADS: a
                   \* set, of which a pass takes one, so that one run meets
                   \* both limits
    ByteBudget,    \* _MAX_SOURCE_SYNC_BYTES, in units of a small response
    ThreadLimit,   \* _MAX_GMAIL_THREAD_BYTES, in the same units
    Forms,         \* bound: the forms a thread's response may have
    MaxChanges,    \* bound: changes of the mailbox
    MaxAged        \* bound: messages that leave the lookback window

(* How a thread reads: plain without a warning; clipped with one about its *)
(* body or headers; unlabelled without a trusted direction; blank without  *)
(* a projectable message; nameless as a list entry without an id.          *)
Shapes == {"plain", "clipped", "unlabelled", "blank", "nameless"}

ASSUME InboxAssumption ==
    /\ IsFiniteSet(Threads) /\ Threads \subseteq Nat /\ Threads # {}
    /\ {ThreadsPerPage, ByteBudget, ThreadLimit} \subseteq Nat \ {0}
    /\ Limits \subseteq [pages : Nat \ {0}, projected : Nat \ {0}]
    /\ Forms \subseteq [shape : Shapes, size : Nat \ {0}]
    /\ {MaxChanges, MaxAged} \subseteq Nat

VARIABLES
    mail,    \* the provider's mailbox
    horizon, \* now - lookback: messages up to this one are older
    read,    \* the pass that is under way
    found,   \* the unresolved reply situations: a thread and its message
    moved,   \* history: threads that changed since the pass began
    changes  \* how often the mailbox has changed, up to MaxChanges

inboxVars == <<mail, horizon, read, found, moved, changes>>

(* A thread's latest message: its number, whether it is the user's own, or *)
(* the counterpart's and already due (old enough, or with a deadline).     *)
LatestKinds == {"sent", "recent", "due"}

(* _MAX_GMAIL_SYNC_REQUESTS: the profile, every page and every detail.     *)
RequestBudget(limit) == 1 + limit.pages + limit.projected

NoRead == [stage |-> "idle", limit |-> [pages |-> 0, projected |-> 0],
           cutoff |-> 0, cursor |-> 0, pages |-> 0, listed |-> <<>>,
           skipped |-> FALSE, left |-> <<>>, detected |-> {}, safe |-> {},
           excluded |-> {}, complete |-> TRUE, absent |-> TRUE,
           bytes |-> ByteBudget, requests |-> 0]

InboxInit ==
    /\ mail \in [Threads -> [at : Threads, latest : {"due"}, inbox : {TRUE},
                              form : Forms]]
    /\ \A t \in Threads : mail[t].at = t
    /\ horizon = 0
    /\ read = NoRead
    /\ found = {}
    /\ moved = {}
    /\ changes = 0

-----------------------------------------------------------------------------
(* The mailbox changes at any moment.                                      *)

Newest == Max({mail[t].at : t \in Threads})

ChangeThread(t, entry) ==
    /\ changes < MaxChanges
    /\ changes' = changes + 1
    /\ mail' = [mail EXCEPT ![t] = entry]
    /\ moved' = IF read = NoRead THEN {} ELSE moved \cup {t}
    /\ UNCHANGED <<horizon, read, found>>

(* A message arrives, or the user answers: the thread moves to the top.    *)
Message(t) ==
    \E latest \in LatestKinds, form \in Forms :
        ChangeThread(t, [at |-> Newest + 1, latest |-> latest,
                         inbox |-> TRUE, form |-> form])

(* The user archives a thread or moves it back; labels come and go; a      *)
(* message becomes due.                                                    *)
Archive(t) == ChangeThread(t, [mail[t] EXCEPT !.inbox = ~@])
Relabel(t) ==
    \E shape \in {"plain", "unlabelled"} \ {mail[t].form.shape} :
        /\ mail[t].form.shape \in {"plain", "unlabelled"}
        /\ ChangeThread(t, [mail[t] EXCEPT !.form.shape = shape])
BecomeDue(t) ==
    /\ mail[t].latest = "recent"
    /\ ChangeThread(t, [mail[t] EXCEPT !.latest = "due"])

(* Time passes: the oldest message inside the lookback leaves it.          *)
Age ==
    /\ horizon < Min({MaxAged, Newest})
    /\ horizon' = horizon + 1
    /\ UNCHANGED <<mail, read, found, moved, changes>>

-----------------------------------------------------------------------------
(* The transport.                                                          *)

(* _SourceReadBudget.request_limit and _GmailReadTransport.request: what   *)
(* is left of the budget, and why the response was cut short, if it was.   *)
Allowed(limit) ==
    IF read.requests = 0 \/ read.bytes = 0 THEN 0
    ELSE Min({limit, read.bytes})
CutShort(limit, size) ==
    CASE size <= Allowed(limit)   -> "no"
      [] Allowed(limit) = limit   -> "response"
      [] OTHER                    -> "sync"
Paid(limit, size) ==
    [read EXCEPT !.bytes = @ - Min({size, Allowed(limit)}),
                 !.requests = IF Allowed(limit) = 0 THEN @ ELSE @ - 1]

Ask(pass) == read' = pass /\ UNCHANGED <<mail, horizon, found, moved, changes>>

(* GmailError or a transport error anywhere ends the pass: a degraded      *)
(* snapshot without threads, which resolves nothing.                       *)
FailRead ==
    /\ read.stage \in {"profile", "listing"} \/ read.left # <<>>
    /\ read' = NoRead
    /\ moved' = {}
    /\ UNCHANGED <<mail, horizon, found, changes>>

BeginRead ==
    /\ read.stage = "idle"
    /\ \E limit \in Limits :
         Ask([NoRead EXCEPT !.stage = "profile", !.limit = limit,
                            !.cursor = Newest + MaxChanges + 1,
                            !.requests = RequestBudget(limit)])

(* read_profile.  A profile or a page that is cut short is an error.       *)
(* list_threads then fixes the window: now - lookback, once for the pass.  *)
ReadProfile ==
    /\ read.stage = "profile"
    /\ CutShort(1, 1) = "no"
    /\ Ask([Paid(1, 1) EXCEPT !.stage = "listing", !.cutoff = horizon])

-----------------------------------------------------------------------------
(* list_threads *)

(* What the query asks for: labelIds INBOX and after:<cutoff>, and what    *)
(* the pages so far have left of it.                                       *)
Queried(t) == mail[t].inbox /\ mail[t].at > read.cutoff
Older(cursor) == {t \in Threads : Queried(t) /\ mail[t].at < cursor}
ListPage(cursor) ==
    LET newer(t) == {s \in Older(cursor) : mail[s].at > mail[t].at}
    IN  {t \in Older(cursor) : Cardinality(newer(t)) < ThreadsPerPage}

(* The order of a page: a thread comes after those with newer messages.    *)
ByRecency(page) ==
    LET newer(t) == {s \in page : mail[s].at > mail[t].at}
    IN  [i \in 1 .. Cardinality(page) |->
           CHOOSE t \in page : Cardinality(newer(t)) = i - 1]

(* The end of the list: what exceeds the projection limit is excluded.     *)
Project(pass, isComplete) ==
    LET kept == Min({Len(pass.listed), pass.limit.projected})
        whole == isComplete /\ ~pass.skipped /\ kept = Len(pass.listed)
    IN  [pass EXCEPT !.stage = "reading", !.listed = <<>>, !.cursor = 0,
                     !.left = SubSeq(pass.listed, 1, kept),
                     !.excluded = {pass.listed[i] :
                                     i \in (kept + 1) .. Len(pass.listed)},
                     !.complete = whole, !.absent = whole]

(* Mutation: the last page allowed passes for the last page there is.      *)
ListThreadsToTheCap ==
    LET page == ListPage(read.cursor)
        oldest == Min({mail[t].at : t \in page})
        named == {t \in page : mail[t].form.shape # "nameless"}
        more == page # {} /\ Older(oldest) # {}
        next == [Paid(1, 1) EXCEPT
                   !.pages = @ + 1, !.listed = @ \o ByRecency(named),
                   !.skipped = @ \/ named # page]
    IN  /\ read.stage = "listing"
        /\ CutShort(1, 1) = "no"
        /\ Ask(IF more /\ read.pages + 1 < read.limit.pages
               THEN [next EXCEPT !.cursor = oldest]
               ELSE Project(next, TRUE))
ListThreads ==
    LET page == ListPage(read.cursor)
        oldest == Min({mail[t].at : t \in page})
        named == {t \in page : mail[t].form.shape # "nameless"}
        more == page # {} /\ Older(oldest) # {}
        next == [Paid(1, 1) EXCEPT
                   !.pages = @ + 1, !.listed = @ \o ByRecency(named),
                   !.skipped = @ \/ named # page]
    IN  /\ read.stage = "listing"
        /\ CutShort(1, 1) = "no"
        /\ Ask(IF more /\ read.pages + 1 < read.limit.pages
               THEN [next EXCEPT !.cursor = oldest]
               ELSE Project(next, ~more))

-----------------------------------------------------------------------------
(* The detail loop of read_inbox_threads.                                  *)

(* _trusted_direction: exactly one of SENT and INBOX on the latest message.*)
ShapeRead(t) ==
    IF mail[t].form.shape = "plain" /\ ~mail[t].inbox /\ mail[t].latest # "sent"
    THEN "unlabelled" ELSE mail[t].form.shape

(* detect_reply_deadlines: a message due from the counterpart, to the user.*)
Detected(t) ==
    {<<s, mail[s].at>> :
        s \in {u \in {t} : /\ mail[u].latest = "due" /\ mail[u].inbox
                           /\ ShapeRead(u) \in {"plain", "clipped"}}}

(* An exhausted budget excludes the rest of the list; a response that is   *)
(* too large excludes one thread.                                          *)
(* Mutation: only the thread that met the limit is excluded.               *)
DetailExcludingOne(t) ==
    LET cut == CutShort(ThreadLimit, mail[t].form.size)
        paid == [Paid(ThreadLimit, mail[t].form.size) EXCEPT
                   !.left = IF cut = "sync" THEN <<>> ELSE Tail(@)]
    IN  IF cut # "no"
        THEN [paid EXCEPT !.complete = FALSE, !.excluded = @ \cup {t}]
        ELSE IF ShapeRead(t) = "plain"
        THEN [paid EXCEPT !.detected = @ \cup Detected(t), !.safe = @ \cup {t}]
        ELSE [paid EXCEPT !.detected = @ \cup Detected(t),
                          !.excluded = @ \cup {t}]
Detail(t) ==
    LET cut == CutShort(ThreadLimit, mail[t].form.size)
        paid == [Paid(ThreadLimit, mail[t].form.size) EXCEPT
                   !.left = IF cut = "sync" THEN <<>> ELSE Tail(@)]
    IN  IF cut # "no"
        THEN [paid EXCEPT !.complete = FALSE,
                          !.excluded = @ \cup IF cut = "sync"
                                              THEN ToSet(read.left) ELSE {t}]
        ELSE IF ShapeRead(t) = "plain"
        THEN [paid EXCEPT !.detected = @ \cup Detected(t), !.safe = @ \cup {t}]
        ELSE [paid EXCEPT !.detected = @ \cup Detected(t),
                          !.excluded = @ \cup {t}]

ReadThread ==
    /\ read.stage = "reading"
    /\ read.left # <<>>
    /\ Ask(Detail(Head(read.left)))

-----------------------------------------------------------------------------
(* The engine applies the result: a complete one resolves whatever it does *)
(* not contain, and then the excluded ids are not looked at; otherwise     *)
(* resolve_absent spares the excluded ids, and without it only the ids     *)
(* that were read safely are in scope.                                     *)
Resolves(r) ==
    CASE read.complete -> TRUE
      [] ~read.complete /\ read.absent -> r[1] \notin read.excluded
      [] OTHER -> r[1] \in read.safe

ApplyRead ==
    /\ read.stage = "reading"
    /\ read.left = <<>>
    /\ found' = read.detected \cup {r \in found : ~Resolves(r)}
    /\ read' = NoRead
    /\ moved' = {}
    /\ UNCHANGED <<mail, horizon, changes>>

-----------------------------------------------------------------------------
InboxNext ==
    \/ \E t \in Threads :
         Message(t) \/ Archive(t) \/ Relabel(t) \/ BecomeDue(t)
    \/ Age
    \/ BeginRead \/ ReadProfile \/ ListThreads \/ ReadThread
    \/ ApplyRead \/ FailRead

InboxSpec == InboxInit /\ [][InboxNext]_inboxVars

-----------------------------------------------------------------------------
(* Properties.                                                             *)

(* A thread that waits for a reply, did not change since the pass began,   *)
(* and whose latest message was inside the lookback when the pass listed.  *)
(* A thread that has aged out is not listed, and a complete pass resolves  *)
(* its situation: the older backlog is outside what the reader promises.   *)
Steady(t) == t \notin moved /\ Queried(t) /\ mail[t].latest = "due"

(* A reply situation is resolved only when its thread changed during the   *)
(* pass, left the inbox, had aged out of the lookback when the pass began  *)
(* to list, or shows another latest message or one that needs no reply; no *)
(* cut by a page limit, a projection limit, a byte budget or an oversized  *)
(* thread resolves it, and no thread that ages out while the pass runs.    *)
(* The one exception is a thread that an otherwise complete pass projected *)
(* with a warning or not at all.                                           *)
(* (resolution_excluded_thread_ids, allows_absent_resolution)              *)
NoFalseResolution ==
    [][\A r \in found \ found' :
         \/ ~Steady(r[1]) \/ mail[r[1]].at # r[2]
         \/ read.complete /\ mail[r[1]].form.shape \in {"unlabelled", "blank"}
      ]_inboxVars

(* A pass that reports complete coverage leaves every reply that is due in *)
(* an unchanged, plainly readable thread of its lookback window stored.    *)
(* (coverage_complete, after_query)                                        *)
CompleteMeansCovered ==
    [][read.stage = "reading" /\ read'.stage = "idle" /\ read.complete
         /\ read.left = <<>> =>
         \A t \in Threads :
            Steady(t) /\ mail[t].form.shape \in {"plain", "clipped"} =>
                <<t, mail[t].at>> \in found']_inboxVars

(* A thread that the reader excluded from resolution does not resolve:     *)
(* while its stored message is still the latest one, due, in the inbox and *)
(* in the lookback window, the situation stays.  (resolution_excluded_ids) *)
ExcludedNotResolved ==
    [][\A r \in found \ found' :
         r[1] \in read.excluded => ~Steady(r[1]) \/ mail[r[1]].at # r[2]
      ]_inboxVars
=============================================================================
