------------------------- MODULE SourceReadsProofs -------------------------
(***************************************************************************)
(* Theorems about SourceReads for every set of sessions, every assignment  *)
(* of jobs to them, every set of answers and every length of the lease and *)
(* the gate.                                                               *)
(***************************************************************************)
EXTENDS SourceReads, FiniteSetTheorems, WellFoundedInduction, TLAPS

-----------------------------------------------------------------------------
(* The largest of finitely many numbers.                                   *)

(* A finite set of numbers that is not empty has a largest element: the    *)
(* sets of elements from x upwards are well founded by strict inclusion.   *)
LEMMA MaxOfFinite ==
    ASSUME NEW S \in SUBSET Nat, IsFiniteSet(S), S # {}
    PROVE  Max(S) \in S /\ \A y \in S : Max(S) >= y
<1> DEFINE From(x) == {y \in S : y >= x}
           R == StrictSubsetOrdering(S)
           T == {From(x) : x \in S}
<1>1. IsWellFoundedOn(R, FiniteSubsetsOf(S))
  BY FS_StrictSubsetOrderingWellFounded
<1>2. T \subseteq FiniteSubsetsOf(S) /\ T # {}
  <2>1. \A x \in S : IsFiniteSet(From(x)) /\ From(x) \subseteq S
    BY FS_Subset
  <2> QED
    BY <2>1 DEF FiniteSubsetsOf
<1>3. PICK u \in T : \A v \in T : ~(<<v, u>> \in R)
  <2> HIDE DEF T, R
  <2> QED
    BY <1>1, <1>2, WFMin
<1>4. PICK x \in S : u = From(x)
  OBVIOUS
<1>5. ASSUME NEW y \in S, y > x PROVE FALSE
  <2>1. /\ From(x) = {z \in S : z >= x} /\ From(y) = {z \in S : z >= y}
        /\ From(y) \in T
    OBVIOUS
  <2> HIDE DEF From, T, R
  <2>2. x \in Nat /\ y \in Nat /\ \A z \in S : z \in Nat
    OBVIOUS
  <2>3. x >= x /\ ~(x >= y) /\ \A z \in S : z >= y => z >= x
    BY <1>5, <2>2
  <2>4. From(y) \subseteq From(x) /\ x \in From(x) /\ x \notin From(y)
    BY <2>1, <2>3, Zenon
  <2>5. From(y) \subseteq S /\ From(x) \subseteq S
    BY <2>1
  <2>6. <<From(y), u>> \in R
    BY <1>4, <2>4, <2>5 DEF R, StrictSubsetOrdering
  <2> QED
    BY <1>3, <2>1, <2>6
<1>6. \A y \in S : x >= y
  BY <1>5
<1> QED
  BY <1>6 DEF Max

-----------------------------------------------------------------------------
(* What a session is about.                                                *)

Read == Answers \cup {"invalid_grant"}

SessionType ==
    [job : {"none", "check", "watch", "smoke", "setup", "disconnect"},
     pc : Places, grant : Nat,
     note : {"silent", "guided", "missing", "unavailable"},
     gen : [Sources -> Nat], got : [Sources -> Read \cup {"unread"}],
     left : 0 .. PollInterval, aged : SUBSET Sources, empty : BOOLEAN,
     checked : Nat]

Deleting == {"refused", "tombstone", "erase"}
Smoking == {"smoke_gmail", "smoke_calendar"}

(* Where a session is tells what it is doing and what it has read so far:  *)
(* nothing is applied that was not read.                                   *)
Fits(x) ==
    /\ x.pc = "idle" => x.job = "none"
    /\ x.pc = "persist" => x.job = "setup"
    /\ x.pc = "clear" => x.job = "disconnect"
    /\ x.pc = "calendar" => x.got["gmail"] \in Read
    /\ x.pc = "evaluate" \/ (x.pc = "release" /\ x.note = "silent")
          => \A src \in Sources : x.got[src] \in Read
    /\ x.pc = "evaluate_calendar" => x.got["calendar"] \in Read
    /\ x.pc \in Smoking => x.job = "smoke"
    /\ x.pc \in Deleting /\ x.job \notin {"smoke", "disconnect"}
          => \A src \in Sources : x.got[src] \in Read

Session == {x \in SessionType : Fits(x)}

SessionsOK == ses \in [Sessions -> Session]

(* An idle session, and one that begins a job, are sessions.               *)
LEMMA BeginSession ==
    ASSUME NEW s \in Sessions, NEW job \in JobsOf[s],
           NEW pc \in Places \ {"idle", "calendar", "evaluate", "release",
                                "evaluate_calendar"},
           NEW note \in {"silent", "guided"}, NEW g \in Nat,
           pc = "persist" => job = "setup", pc = "clear" => job = "disconnect",
           pc \in Smoking => job = "smoke",
           pc \in Deleting => job \in {"smoke", "disconnect"}
    PROVE  /\ Idle \in Session
           /\ [Idle EXCEPT !.job = job, !.pc = pc, !.note = note] \in Session
           /\ [Idle EXCEPT !.job = job, !.pc = pc, !.grant = g] \in Session
<1>1. /\ [src \in Sources |-> 0] \in [Sources -> Nat]
      /\ [src \in Sources |-> "unread"] \in [Sources -> Read \cup {"unread"}]
      /\ 0 \in 0 .. PollInterval /\ "idle" \in Places
      /\ job \in {"none", "check", "watch", "smoke", "setup", "disconnect"}
  BY SessionAssumption, IntervalAssumption DEF Places
<1>2. Idle \in SessionType
  BY <1>1 DEF Idle, SessionType
<1>3. Fits(Idle)
  BY DEF Idle, Fits, Smoking, Deleting
<1>4. /\ [Idle EXCEPT !.job = job, !.pc = pc, !.note = note] \in SessionType
      /\ [Idle EXCEPT !.job = job, !.pc = pc, !.grant = g] \in SessionType
  BY <1>1 DEF Idle, SessionType
<1>5. /\ Fits([Idle EXCEPT !.job = job, !.pc = pc, !.note = note])
      /\ Fits([Idle EXCEPT !.job = job, !.pc = pc, !.grant = g])
  BY DEF Idle, Fits
<1> QED
  BY <1>2, <1>3, <1>4, <1>5 DEF Session

(* A step that replaces one session.                                       *)
LEMMA OneSession ==
    ASSUME SessionsOK, NEW s \in Sessions, NEW x \in Session,
           ses' = [ses EXCEPT ![s] = x]
    PROVE  SessionsOK'
BY DEF SessionsOK

(* The fields of a session.                                                *)
LEMMA SessionFields ==
    ASSUME SessionsOK, NEW s \in Sessions
    PROVE  /\ ses[s] \in SessionType /\ Fits(ses[s]) /\ ses[s].pc \in Places
           /\ ses[s].gen \in [Sources -> Nat] /\ ses[s].left \in 0 .. PollInterval
           /\ ses[s].got \in [Sources -> Read \cup {"unread"}]
           /\ ses[s].checked \in Nat
BY DEF SessionsOK, Session, SessionType

(* A session ends, gives up, or goes on elsewhere without a new read.      *)
LEMMA SessionMoves ==
    ASSUME NEW x \in Session,
           NEW pc \in Places \ ({"idle", "calendar", "evaluate", "release",
                                 "evaluate_calendar", "persist", "clear"}
                                \cup Smoking \cup Deleting)
    PROVE  /\ [x EXCEPT !.pc = pc] \in Session
           /\ [x EXCEPT !.pc = pc, !.note = "guided"] \in Session
           /\ \A g \in Nat : [x EXCEPT !.pc = pc, !.grant = g] \in Session
           /\ [x EXCEPT !.pc = pc, !.left = PollInterval] \in Session
           /\ \A note \in {"missing", "unavailable"} :
                /\ [x EXCEPT !.note = note, !.pc = pc] \in Session
                /\ [x EXCEPT !.note = note, !.pc = "release"] \in Session
<1>1. /\ x \in SessionType /\ "release" \in Places
      /\ PollInterval \in 0 .. PollInterval
  BY IntervalAssumption DEF Session, Places
<1> QED
  BY <1>1 DEF Session, SessionType, Fits, Smoking, Deleting

(* The reads of a session.                                                 *)
LEMMA SessionReads ==
    ASSUME NEW x \in Session, NEW gen \in [Sources -> Nat], NEW a \in Read
    PROVE  /\ [x EXCEPT !.pc = "calendar", !.gen = gen, !.got["gmail"] = a]
                \in Session
           /\ x.got["gmail"] \in Read =>
                \A pc \in {"release", "evaluate"} :
                  [x EXCEPT !.pc = pc, !.gen = gen, !.got["calendar"] = a]
                    \in Session
           /\ [x EXCEPT !.pc = "refused", !.gen = gen,
                        !.got = [src \in Sources |-> "invalid_grant"]]
                  \in Session
<1>1. x \in SessionType
      /\ {"release", "evaluate", "calendar", "refused"} \subseteq Places
  BY DEF Session, Places
<1>2. "gmail" \in Sources /\ "calendar" \in Sources /\ "gmail" # "calendar"
  BY DEF Sources
<1>3. x.got \in [Sources -> Read \cup {"unread"}]
  BY <1>1 DEF SessionType
<1>4. [x EXCEPT !.pc = "calendar", !.gen = gen, !.got["gmail"] = a] \in Session
  <2> DEFINE y == [x EXCEPT !.pc = "calendar", !.gen = gen, !.got["gmail"] = a]
  <2>1. y \in SessionType
    BY <1>1, <1>2, <1>3 DEF SessionType
  <2>2. y.pc = "calendar" /\ y.got["gmail"] = a
    BY <1>1, <1>2, <1>3 DEF SessionType
  <2> HIDE DEF y
  <2>3. Fits(y)
    BY <2>2 DEF Fits, Smoking, Deleting
  <2> QED
    BY <2>1, <2>3 DEF y, Session
<1>5. ASSUME x.got["gmail"] \in Read, NEW pc \in {"release", "evaluate"}
      PROVE  [x EXCEPT !.pc = pc, !.gen = gen, !.got["calendar"] = a] \in Session
  <2> DEFINE y == [x EXCEPT !.pc = pc, !.gen = gen, !.got["calendar"] = a]
  <2>1. y \in SessionType
    BY <1>1, <1>2, <1>3 DEF SessionType
  <2>2. /\ y.pc = pc /\ y.got["calendar"] = a
        /\ y.got["gmail"] = x.got["gmail"]
    BY <1>1, <1>2, <1>3 DEF SessionType
  <2> HIDE DEF y
  <2>3. Fits(y)
    BY <1>5, <2>2 DEF Fits, Sources, Smoking, Deleting
  <2> QED
    BY <2>1, <2>3 DEF y, Session
<1>6. [x EXCEPT !.pc = "refused", !.gen = gen,
                !.got = [src \in Sources |-> "invalid_grant"]] \in Session
  <2> DEFINE y == [x EXCEPT !.pc = "refused", !.gen = gen,
                            !.got = [src \in Sources |-> "invalid_grant"]]
  <2>1. [src \in Sources |-> "invalid_grant"] \in [Sources -> Read \cup {"unread"}]
    BY DEF Read
  <2>2. y \in SessionType
    BY <1>1, <2>1 DEF SessionType
  <2>3. y.pc = "refused" /\ \A src \in Sources : y.got[src] \in Read
    BY <1>1 DEF SessionType, Read
  <2> HIDE DEF y
  <2>4. Fits(y)
    BY <2>3 DEF Fits, Sources, Smoking, Deleting
  <2> QED
    BY <2>2, <2>4 DEF y, Session
<1> QED
  BY <1>4, <1>5, <1>6

(* reserve() issues numbers.                                               *)
LEMMA NewestNumber ==
    ASSUME SessionsOK, Sessions # {}
    PROVE  Newest \in [Sources -> Nat]
<1> SUFFICES ASSUME NEW src \in Sources
             PROVE  1 + Max({ses[t].gen[src] : t \in Sessions}) \in Nat
  BY DEF Newest
<1> DEFINE G == {ses[t].gen[src] : t \in Sessions}
           f == [t \in Sessions |-> ses[t].gen[src]]
<1>1. G \in SUBSET Nat /\ G # {}
  BY SessionFields
<1>2. IsFiniteSet(G)
  <2>1. f \in Surjection(Sessions, G)
    BY DEF Surjection
  <2> HIDE DEF f, G
  <2> QED
    BY <2>1, FS_Surjection, SessionAssumption
<1> HIDE DEF G
<1>3. Max(G) \in Nat
  BY <1>1, <1>2, MaxOfFinite
<1> QED
  BY <1>3 DEF G

(* Every step leaves every session one of these.                           *)
LEMMA SessionStep ==
    ASSUME SessionsOK, TypeOK, [Next]_vars
    PROVE  SessionsOK'
<1>1. \A s \in Sessions : /\ ses[s] \in Session /\ ses[s] \in SessionType
                          /\ Fits(ses[s])
  BY DEF SessionsOK, Session
<1>2. /\ "load" \in Places /\ "report" \in Places /\ "acquire" \in Places
      /\ "gmail" \in Places /\ "reserve_delivery" \in Places
      /\ "health" \in Places /\ "smoke_gmail" \in Places
      /\ "smoke_calendar" \in Places /\ Deleting \subseteq Places
      /\ "persist" \in Places /\ "clear" \in Places
  BY DEF Places, Deleting
<1>3. Idle \in Session
  <2>1. /\ [src \in Sources |-> 0] \in [Sources -> Nat]
        /\ [src \in Sources |-> "unread"] \in [Sources -> Read \cup {"unread"}]
        /\ 0 \in 0 .. PollInterval /\ "idle" \in Places
    BY IntervalAssumption DEF Places
  <2>2. Idle \in SessionType
    BY <2>1 DEF Idle, SessionType
  <2> QED
    BY <2>2 DEF Session, Fits, Idle, Smoking, Deleting
<1>4. \A s \in Sessions : Finish(s) => SessionsOK'
  BY <1>3, OneSession DEF Finish
<1>5. ASSUME NEW s \in Sessions, NEW job, NEW pc \in Places, NEW note,
             Begin(s, job, pc, note), note \in {"silent", "guided"},
             pc \notin {"idle", "calendar", "evaluate", "release",
                        "evaluate_calendar"},
             pc = "persist" => job = "setup", pc = "clear" => job = "disconnect",
             pc \in Smoking => job = "smoke",
             pc \in Deleting => job \in {"smoke", "disconnect"}
      PROVE  SessionsOK'
  <2>1. [Idle EXCEPT !.job = job, !.pc = pc, !.note = note] \in Session
    BY <1>5, BeginSession DEF Begin
  <2> QED
    BY <1>5, <2>1, OneSession DEF Begin

<1>6. ASSUME NEW s \in Sessions,
             StartCheck(s) \/ StartPass(s) \/ Authorize(s) \/ DeleteGrant(s)
      PROVE  SessionsOK'
  <2>1. DecideLazily[1] \in {"report", "acquire"}
        /\ DecideLazily[2] \in {"silent", "guided"}
    BY DEF DecideLazily, NoteOf
  <2>2. CASE StartCheck(s)
    BY <1>2, <1>5, <2>1, <2>2 DEF StartCheck, Smoking, Deleting
  <2>3. CASE StartPass(s)
    BY <1>2, <1>5, <2>3 DEF StartPass, Smoking, Deleting
  <2>4. CASE Authorize(s) \/ DeleteGrant(s)
    BY <1>2, <1>5, <2>4 DEF Authorize, DeleteGrant, Smoking, Deleting
  <2> QED
    BY <1>6, <2>2, <2>3, <2>4
<1>7. ASSUME NEW s \in Sessions, StartSmoke(s) PROVE SessionsOK'
  <2>1. [Idle EXCEPT !.job = "smoke", !.pc = "smoke_gmail", !.grant = grant]
          \in Session
    <3>1. grant \in Nat
      BY BoundAssumption DEF TypeOK
    <3> QED
      BY <1>2, <1>7, <3>1, BeginSession DEF StartSmoke, Deleting
  <2> QED
    BY <1>7, <2>1, OneSession DEF StartSmoke
<1>8. ASSUME NEW s \in Sessions, AcquireLease(s) PROVE SessionsOK'
  <2>1. \E x \in Session : ses' = [ses EXCEPT ![s] = x]
    <3>1. /\ [ses[s] EXCEPT !.pc = "load", !.left = PollInterval] \in Session
          /\ [ses[s] EXCEPT !.pc = "report", !.note = "guided"] \in Session
      BY <1>1, <1>2, SessionMoves DEF Smoking, Deleting
    <3>2. \/ ses' = [ses EXCEPT ![s] = [ses[s] EXCEPT !.pc = "load",
                                                      !.left = PollInterval]]
          \/ ses' = [ses EXCEPT ![s] = [ses[s] EXCEPT !.pc = "report",
                                                      !.note = "guided"]]
      BY <1>8 DEF AcquireLease
    <3> QED
      BY <3>1, <3>2
  <2> QED
    BY <2>1, OneSession
<1>9. ASSUME NEW s \in Sessions, LoadCredential(s) PROVE SessionsOK'
  <2>1. grant \in Nat
    BY BoundAssumption DEF TypeOK
  <2>2. /\ [ses[s] EXCEPT !.pc = "gmail", !.grant = grant] \in Session
        /\ \A why \in {"missing", "unavailable"} :
             /\ [ses[s] EXCEPT !.note = why, !.pc = "report"] \in Session
             /\ [ses[s] EXCEPT !.note = why, !.pc = "release"] \in Session
    <3>1. [ses[s] EXCEPT !.pc = "gmail", !.grant = grant] \in Session
      BY <1>1, <1>2, <2>1, SessionMoves DEF Smoking, Deleting
    <3>2. ASSUME NEW why \in {"missing", "unavailable"}
          PROVE  /\ [ses[s] EXCEPT !.note = why, !.pc = "report"] \in Session
                 /\ [ses[s] EXCEPT !.note = why, !.pc = "release"] \in Session
      <4>1. "report" \in Places \ ({"idle", "calendar", "evaluate", "release",
                                    "evaluate_calendar", "persist", "clear"}
                                   \cup Smoking \cup Deleting)
        BY <1>2 DEF Smoking, Deleting
      <4> QED
        BY <1>1, <4>1, SessionMoves
    <3> QED
      BY <3>1, <3>2
  <2>3. \E x \in Session : ses' = [ses EXCEPT ![s] = x]
    <3>1. \/ ses' = [ses EXCEPT ![s] = [ses[s] EXCEPT !.pc = "gmail",
                                                      !.grant = grant]]
          \/ \E why \in {"missing", "unavailable"} : Unread(s, why)
      BY <1>9 DEF LoadCredential
    <3>2. \A why : Unread(s, why) => \E pc \in {"release", "report"} :
            ses' = [ses EXCEPT ![s] = [ses[s] EXCEPT !.note = why, !.pc = pc]]
      BY DEF Unread, Leaves
    <3> QED
      BY <2>2, <3>1, <3>2
  <2> QED
    BY <2>3, OneSession
<1>10. ASSUME NEW s \in Sessions, NEW gen \in [Sources -> Nat], Refused(s, gen)
       PROVE  SessionsOK'
  <2>1. [ses[s] EXCEPT !.pc = "refused", !.gen = gen,
                       !.got = [src \in Sources |-> "invalid_grant"]] \in Session
    <3>1. "invalid_grant" \in Read
      BY DEF Read
    <3> QED
      BY <1>1, <3>1, SessionReads
  <2> QED
    BY <1>10, <2>1, OneSession DEF Refused
<1>11. ASSUME NEW s \in Sessions, ReadGmail(s) PROVE SessionsOK'
  <2>1. Newest \in [Sources -> Nat]
    BY NewestNumber
  <2>2. CASE Refused(s, Newest)
    BY <1>10, <2>1, <2>2
  <2>3. CASE Answered(s, "gmail", Newest, "calendar")
    <3>1. PICK a \in Replies["gmail"] :
            ses' = [ses EXCEPT ![s] = [ses[s] EXCEPT !.pc = "calendar",
                       !.gen = Newest, !.got["gmail"] = a]]
      BY <2>3 DEF Answered
    <3>2. a \in Read
      BY SessionAssumption DEF Read, Sources
    <3>3. [ses[s] EXCEPT !.pc = "calendar", !.gen = Newest, !.got["gmail"] = a]
            \in Session
      BY <1>1, <2>1, <3>2, SessionReads
    <3> QED
      BY <3>1, <3>3, OneSession
  <2> QED
    BY <1>11, <2>2, <2>3 DEF ReadGmail
<1>12. ASSUME NEW s \in Sessions, ReadCalendar(s) PROVE SessionsOK'
  <2> DEFINE gen == ses[s].gen
  <2>1. gen \in [Sources -> Nat]
    BY SessionFields
  <2>2. CASE Refused(s, gen)
    BY <1>10, <2>1, <2>2
  <2>3. CASE Answered(s, "calendar", gen, Leaves(s, "evaluate"))
    <3>1. PICK a \in Replies["calendar"], pc \in {"release", "evaluate"} :
            ses' = [ses EXCEPT ![s] = [ses[s] EXCEPT !.pc = pc,
                       !.gen = gen, !.got["calendar"] = a]]
      BY <2>3 DEF Answered, Leaves
    <3>2. a \in Read
      BY SessionAssumption DEF Read, Sources
    <3>3. ses[s].got["gmail"] \in Read
      BY <1>1, <1>12 DEF ReadCalendar, At, Fits
    <3> HIDE DEF gen
    <3>4. [ses[s] EXCEPT !.pc = pc, !.gen = gen, !.got["calendar"] = a]
            \in Session
      BY <1>1, <2>1, <3>2, <3>3, SessionReads
    <3> QED
      BY <3>1, <3>4, OneSession
  <2> QED
    BY <1>12, <2>2, <2>3 DEF ReadCalendar
<1>13. ASSUME NEW s \in Sessions, ReleaseLease(s) PROVE SessionsOK'
  <2> DEFINE pc == IF ses[s].note = "silent" THEN "evaluate" ELSE "report"
             x == [ses[s] EXCEPT !.left = 0, !.pc = pc]
  <2>1. ses' = [ses EXCEPT ![s] = x]
    BY <1>13 DEF ReleaseLease
  <2>2. x \in SessionType
    <3>1. pc \in Places /\ 0 \in 0 .. PollInterval
      BY IntervalAssumption DEF Places
    <3> HIDE DEF pc
    <3> QED
      BY <1>1, <3>1 DEF SessionType
  <2>3. Fits(x)
    BY <1>1, <1>13 DEF SessionType, Fits, ReleaseLease, At, Smoking, Deleting
  <2> HIDE DEF x
  <2> QED
    BY <2>1, <2>2, <2>3, OneSession DEF Session
<1>14. ASSUME NEW s \in Sessions, ApplyGmail(s) \/ ApplyCalendar(s)
       PROVE  SessionsOK'
  <2>1. PICK src \in Sources, pc \in {"evaluate_calendar", "report"} :
          /\ Apply(s, src, pc)
          /\ pc = "evaluate_calendar" =>
               src = "gmail" /\ ses[s].got["calendar"] \in Read
    BY <1>1, <1>14 DEF ApplyGmail, ApplyCalendar, At, Fits, Sources
  <2> DEFINE g == ses[s].gen[src]
             Since(t) == IF ses[t].gen[src] > g THEN ses[t].gen[src] - g ELSE 0
             X == [ses[s] EXCEPT !.pc = pc, !.gen[src] = 0, !.got[src] = "unread"]
             Y(t) == [ses[t] EXCEPT !.gen[src] = Since(t)]
  <2>2. ses' = [t \in Sessions |-> IF t = s THEN X ELSE Y(t)]
    BY <2>1 DEF Apply
  <2>3. X \in Session
    <3>1. /\ ses[s].gen \in [Sources -> Nat] /\ pc \in Places
          /\ ses[s].got \in [Sources -> Read \cup {"unread"}]
      BY SessionFields DEF Places
    <3>2. X \in SessionType
      <4>1. PICK gen \in [Sources -> Nat], got \in [Sources -> Read \cup {"unread"}] :
              gen = [ses[s].gen EXCEPT ![src] = 0] /\ got = [ses[s].got EXCEPT ![src] = "unread"]
        BY <3>1
      <4>2. X = [ses[s] EXCEPT !.pc = pc, !.gen = gen, !.got = got]
        BY <4>1
      <4>3. /\ gen \in [Sources -> Nat] /\ got \in [Sources -> Read \cup {"unread"}]
            /\ pc \in Places /\ ses[s] \in SessionType
        BY <1>1, <3>1, <4>1
      <4> HIDE DEF X
      <4> QED
        BY <4>2, <4>3 DEF SessionType
    <3>3. X.pc = pc /\ (src = "gmail" => X.got["calendar"] = ses[s].got["calendar"])
      BY <1>1, <3>1 DEF SessionType, Sources
    <3> HIDE DEF X
    <3>4. Fits(X)
      BY <2>1, <3>3 DEF Fits, Smoking, Deleting
    <3> QED
      BY <3>2, <3>4 DEF Session
  <2>4. ASSUME NEW t \in Sessions PROVE Y(t) \in Session
    <3>1. ses[t].gen \in [Sources -> Nat] /\ ses[s].gen \in [Sources -> Nat]
      BY SessionFields
    <3>2. Since(t) \in Nat
      BY <3>1
    <3> HIDE DEF Since
    <3>3. Y(t) \in SessionType
      BY <1>1, <3>1, <3>2 DEF SessionType
    <3>4. /\ Y(t).pc = ses[t].pc /\ Y(t).job = ses[t].job
          /\ Y(t).got = ses[t].got /\ Y(t).note = ses[t].note
      BY <1>1 DEF SessionType
    <3> HIDE DEF Y
    <3>5. Fits(Y(t))
      BY <1>1, <3>4 DEF Fits
    <3> QED
      BY <3>3, <3>5 DEF Session
  <2> HIDE DEF X, Y
  <2> QED
    BY <2>2, <2>3, <2>4 DEF SessionsOK
<1>15. ASSUME NEW s \in Sessions, ReportSkip(s) \/ ReserveDelivery(s)
       PROVE  SessionsOK'
  <2> DEFINE x == [ses[s] EXCEPT !.pc = "reserve_delivery", !.grant = 0,
                                 !.note = IF @ = "silent" THEN "silent"
                                                          ELSE "guided"]
             y == [ses[s] EXCEPT !.pc = "health", !.empty = (pending = {})]
  <2>1. ses' = [ses EXCEPT ![s] = x] \/ ses' = [ses EXCEPT ![s] = y]
    <3>1. CASE ReportSkip(s)
      BY <3>1 DEF ReportSkip
    <3>2. CASE ReserveDelivery(s)
      BY <3>2 DEF ReserveDelivery
    <3> QED
      BY <1>15, <3>1, <3>2
  <2>2. x \in SessionType /\ y \in SessionType
    BY <1>1, <1>2 DEF SessionType
  <2>3. x.pc = "reserve_delivery" /\ y.pc = "health"
    BY <1>1 DEF SessionType
  <2> HIDE DEF x, y
  <2>4. x \in Session /\ y \in Session
    BY <2>2, <2>3 DEF Session, Fits, Smoking, Deleting
  <2> QED
    BY <2>1, <2>4, OneSession
<1>19. ASSUME NEW s \in Sessions, SmokeGmail(s) \/ SmokeCalendar(s)
       PROVE  SessionsOK'
  <2>1. ses[s].job = "smoke"
    BY <1>1, <1>19 DEF SmokeGmail, SmokeCalendar, At, Fits, Smoking
  <2>2. ASSUME NEW pc \in {"smoke_calendar", "refused"}, Goto(s, pc)
        PROVE  SessionsOK'
    <3> DEFINE x == [ses[s] EXCEPT !.pc = pc]
    <3>1. x \in SessionType /\ x.pc = pc /\ x.job = "smoke"
      BY <1>1, <1>2, <2>1 DEF SessionType, Deleting
    <3>2. ses' = [ses EXCEPT ![s] = x]
      BY <2>2 DEF Goto
    <3> HIDE DEF x
    <3>3. x \in Session
      BY <3>1 DEF Session, Fits
    <3> QED
      BY <3>2, <3>3, OneSession
  <2> QED
    BY <1>4, <1>19, <2>2 DEF SmokeGmail, SmokeCalendar, SmokeRefused
<1>20. ASSUME NEW s \in Sessions, Deleted(s), ses[s].pc \in Deleting
       PROVE  SessionsOK'
  <2>1. CASE ses[s].job = "smoke"
    BY <1>3, <1>20, <2>1, OneSession DEF Deleted
  <2>2. CASE ses[s].job # "smoke"
    <3> DEFINE pc == IF ses[s].job = "disconnect" THEN "clear"
                     ELSE Leaves(s, "evaluate")
               x == [ses[s] EXCEPT !.checked = 0, !.pc = pc]
    <3>1. /\ pc \in {"clear", "release", "evaluate"} /\ pc \in Places
          /\ pc = "clear" <=> ses[s].job = "disconnect"
      BY DEF Leaves, Places
    <3>2. ses' = [ses EXCEPT ![s] = x]
      BY <1>20, <2>2 DEF Deleted
    <3> HIDE DEF pc
    <3>3. /\ x \in SessionType /\ x.pc = pc /\ x.job = ses[s].job
          /\ x.got = ses[s].got
      BY <1>1, <3>1 DEF SessionType
    <3>4. ses[s].job # "disconnect" => \A src \in Sources : ses[s].got[src] \in Read
      BY <1>1, <1>20, <2>2 DEF Fits
    <3> HIDE DEF x
    <3>5. Fits(x)
      BY <3>1, <3>3, <3>4 DEF Fits, Smoking, Deleting
    <3> QED
      BY <3>2, <3>3, <3>5, OneSession DEF Session
  <2> QED
    BY <2>1, <2>2
<1>21. ASSUME NEW s \in Sessions,
              CompareVersion(s) \/ WriteTombstone(s) \/ EraseCopies(s)
       PROVE  SessionsOK'
  <2>1. ses[s].pc \in Deleting
    BY <1>21 DEF CompareVersion, WriteTombstone, EraseCopies, At, Deleting
  <2> DEFINE x == [ses[s] EXCEPT !.pc = "tombstone", !.checked = saves]
             y == [ses[s] EXCEPT !.pc = "erase"]
  <2>2. \/ Deleted(s)
        \/ ses' = [ses EXCEPT ![s] = x]
        \/ ses' = [ses EXCEPT ![s] = y]
    BY <1>21 DEF CompareVersion, WriteTombstone, EraseCopies, Goto
  <2>3. /\ x \in SessionType /\ x.pc = "tombstone"
        /\ x.job = ses[s].job /\ x.got = ses[s].got
        /\ y \in SessionType /\ y.pc = "erase"
        /\ y.job = ses[s].job /\ y.got = ses[s].got
    <3>1. saves \in Nat
      BY BoundAssumption DEF TypeOK
    <3> QED
      BY <1>1, <1>2, <3>1 DEF SessionType, Deleting
  <2> HIDE DEF x, y
  <2>4. Fits(x) /\ Fits(y)
    BY <1>1, <2>1, <2>3 DEF Fits, Smoking, Deleting
  <2> QED
    BY <1>20, <2>1, <2>2, <2>3, <2>4, OneSession DEF Session
<1>16. ASSUME NEW s \in Sessions,
              \/ EndPass(s) \/ AnswerCheck(s) \/ PersistSetup(s) \/ ClearAuth(s)
              \/ Crash(s)
       PROVE  SessionsOK'
  BY <1>4, <1>16 DEF EndPass, AnswerCheck, PersistSetup, ClearAuth, Crash
<1>17. CASE Tick
  <2> DEFINE Z(t) == [ses[t] EXCEPT !.left = Sooner(@),
                        !.aged = IF Waits(t) THEN @ \union GoneStale ELSE @]
  <2>1. ses' = [t \in Sessions |-> Z(t)]
    BY <1>17 DEF Tick
  <2>2. ASSUME NEW t \in Sessions PROVE Z(t) \in Session
    <3>1. Sooner(ses[t].left) \in 0 .. PollInterval
      BY <1>1, IntervalAssumption DEF SessionType, Sooner
    <3>2. (IF Waits(t) THEN ses[t].aged \union GoneStale ELSE ses[t].aged)
            \in SUBSET Sources
      BY <1>1 DEF SessionType, GoneStale
    <3>3. Z(t) \in SessionType
      BY <1>1, <3>1, <3>2 DEF SessionType
    <3>4. /\ Z(t).pc = ses[t].pc /\ Z(t).job = ses[t].job
          /\ Z(t).got = ses[t].got /\ Z(t).note = ses[t].note
      BY <1>1 DEF SessionType
    <3> HIDE DEF Z
    <3>5. Fits(Z(t))
      BY <1>1, <3>4 DEF Fits
    <3> QED
      BY <3>3, <3>5 DEF Session
  <2> HIDE DEF Z
  <2> QED
    BY <2>1, <2>2 DEF SessionsOK
<1>18. CASE \/ \E g \in 1 .. MaxGrants : Revoke(g)
            \/ \E src \in Sources : Settle(src)
            \/ Unwatch
            \/ UNCHANGED vars
  BY <1>18 DEF Revoke, Settle, Unwatch, vars, SessionsOK
<1> QED
  BY <1>6, <1>7, <1>8, <1>9, <1>11, <1>12, <1>13, <1>14, <1>15, <1>16, <1>17,
     <1>18, <1>19, <1>21 DEF Next, Proceed

-----------------------------------------------------------------------------
(* Who writes the source rows.                                             *)

(* A step leaves the rows alone, lets time pass, records an answer or a    *)
(* refusal, or is one of the user's commands at work on both rows.         *)
RowsKept == UNCHANGED <<sync, diag, sound>>
Recorded ==
    \E src \in Sources : /\ \/ \E a \in Answers : /\ RecordAnswer(src, a)
                                                  /\ RecordDiagnostics(src, a)
                            \/ /\ RecordRefusal
                               /\ RecordDiagnostics(src, "invalid_grant")
Commanded ==
    /\ \E state \in {"configured", "not_configured"} :
          WriteGoogleAuth(state, "none")
    /\ UNCHANGED <<diag, sound>>
    /\ \E s \in Sessions : ses[s].job \in {"setup", "disconnect"}

(* No other step touches the rows.  (store/sync.py and its callers)        *)
LEMMA RowWriters ==
    ASSUME SessionsOK, [Next]_vars
    PROVE  RowsKept \/ Tick \/ Recorded \/ Commanded
<1>1. \A s \in Sessions : Fits(ses[s]) /\ ses[s].got \in [Sources -> Read \cup {"unread"}]
  BY SessionFields
<1>2. ASSUME NEW s \in Sessions, ApplyGmail(s) \/ ApplyCalendar(s)
      PROVE  RowsKept \/ Recorded
  <2>1. PICK src \in Sources, pc \in {"evaluate_calendar", "report"} :
          Apply(s, src, pc) /\ ses[s].got[src] \in Read
    BY <1>1, <1>2 DEF ApplyGmail, ApplyCalendar, At, Fits, Sources
  <2>2. CASE ses[s].gen[src] = 0
    BY <2>1, <2>2 DEF Apply, RowsKept
  <2>3. CASE ses[s].gen[src] # 0
    <3>1. CASE ses[s].got[src] = "invalid_grant"
      BY <2>1, <2>3, <3>1 DEF Apply, Recorded
    <3>2. CASE ses[s].got[src] # "invalid_grant"
      <4>1. ses[s].got[src] \in Answers
        BY <2>1, <3>2 DEF Read
      <4> QED
        BY <2>1, <2>3, <3>2, <4>1 DEF Apply, Recorded
    <3> QED
      BY <3>1, <3>2
  <2> QED
    BY <2>2, <2>3
<1>3. ASSUME NEW s \in Sessions, SmokeGmail(s) \/ SmokeCalendar(s)
      PROVE  Recorded
  <2>1. \/ RecordRefusal /\ RecordDiagnostics("gmail", "invalid_grant")
        \/ \E src \in Sources : \E a \in Replies[src] :
              RecordAnswer(src, a) /\ RecordDiagnostics(src, a)
    BY <1>3 DEF SmokeGmail, SmokeCalendar, SmokeRefused, SmokeAnswered, Sources
  <2>2. \A src \in Sources : Replies[src] \subseteq Answers
    BY SessionAssumption
  <2>3. "gmail" \in Sources
    BY DEF Sources
  <2> QED
    BY <2>1, <2>2, <2>3 DEF Recorded
<1>4. ASSUME NEW s \in Sessions, PersistSetup(s) \/ ClearAuth(s)
      PROVE  RowsKept \/ Commanded
  <2>1. ses[s].job \in {"setup", "disconnect"}
    BY <1>1, <1>4 DEF PersistSetup, ClearAuth, At, Fits
  <2> QED
    BY <1>4, <2>1 DEF PersistSetup, ClearAuth, RowsKept, Commanded
<1>5. ASSUME NEW s \in Sessions,
             \/ StartCheck(s) \/ StartPass(s) \/ StartSmoke(s) \/ Authorize(s)
             \/ DeleteGrant(s) \/ AcquireLease(s) \/ LoadCredential(s)
             \/ ReadGmail(s) \/ ReadCalendar(s) \/ ReleaseLease(s) \/ EndPass(s)
             \/ ReportSkip(s) \/ ReserveDelivery(s) \/ AnswerCheck(s)
             \/ CompareVersion(s) \/ WriteTombstone(s) \/ EraseCopies(s) \/ Crash(s)
      PROVE  RowsKept
  BY <1>5 DEF StartCheck, StartPass, StartSmoke, Authorize, DeleteGrant,
       AcquireLease, LoadCredential, ReadGmail, ReadCalendar, ReleaseLease,
       EndPass, ReportSkip, ReserveDelivery, AnswerCheck, CompareVersion,
       WriteTombstone, EraseCopies, Crash,
       rows, RowsKept
<1>6. CASE \/ \E g \in 1 .. MaxGrants : Revoke(g)
           \/ \E src \in Sources : Settle(src)
           \/ Unwatch
           \/ UNCHANGED vars
  BY <1>6 DEF Revoke, Settle, Unwatch, vars, rows, RowsKept
<1> QED
  BY <1>2, <1>3, <1>4, <1>5, <1>6, Zenon DEF Next, Proceed

(* The writes on one row.                                                  *)
RowType == [auth : Auths, success : {Never} \union 0 .. StaleAfter,
            attempt : 0 .. PollInterval,
            error : {"none", "degraded", "transport", "invalid_grant"}]

(* What recording an answer does to one row: complete reads clear the      *)
(* error, all others set one, and only an absent row changes its           *)
(* authorization.                                                          *)
LEMMA RecordedAnswer ==
    ASSUME sync \in [Sources -> RowType], NEW src \in Sources,
           NEW a \in Answers, RecordAnswer(src, a)
    PROVE  /\ sync' \in [Sources -> RowType]
           /\ \A other \in Sources \ {src} : sync'[other] = sync[other]
           /\ sync'[src].auth = InsertedAuth(sync[src])
           /\ a \in {"clear", "found"} =>
                sync'[src].error = "none" /\ sync'[src].success = 0
           /\ a \notin {"clear", "found"} => sync'[src].error # "none"
<1>1. /\ sync[src] \in RowType /\ InsertedAuth(sync[src]) \in Auths
      /\ 0 \in 0 .. StaleAfter /\ 0 \in 0 .. PollInterval
  BY IntervalAssumption DEF InsertedAuth, RowType, Auths
<1>2. /\ RecordSuccess(sync[src]) \in RowType
      /\ RecordSuccess(sync[src]).error = "none"
      /\ RecordSuccess(sync[src]).success = 0
      /\ RecordSuccess(sync[src]).auth = InsertedAuth(sync[src])
  BY <1>1 DEF RecordSuccess, RowType
<1>3. ASSUME NEW code \in {"degraded", "transport"}
      PROVE  /\ RecordFailure(sync[src], code) \in RowType
             /\ RecordFailure(sync[src], code).error = code
             /\ RecordFailure(sync[src], code).auth = InsertedAuth(sync[src])
  BY <1>1, <1>3 DEF RecordFailure, RowType
<1>4. CASE a \in {"clear", "found"}
  <2>1. sync' = [sync EXCEPT ![src] = RecordSuccess(sync[src])]
    BY <1>4 DEF RecordAnswer
  <2> QED
    BY <1>2, <1>4, <2>1
<1>5. CASE a = "partial"
  <2>1. sync' = [sync EXCEPT ![src] = RecordFailure(sync[src], "degraded")]
    BY <1>5 DEF RecordAnswer
  <2> QED
    BY <1>3, <1>5, <2>1
<1>6. CASE a = "failed"
  <2>1. sync' = [sync EXCEPT ![src] = RecordFailure(sync[src], "transport")]
    BY <1>6 DEF RecordAnswer
  <2> QED
    BY <1>3, <1>6, <2>1
<1> QED
  BY <1>4, <1>5, <1>6 DEF Answers

(* What the writes on both rows do.                                        *)
LEMMA WrittenAuth ==
    ASSUME sync \in [Sources -> RowType],
           NEW state \in {"configured", "not_configured", "needs_reauth"},
           NEW code \in {"none", "invalid_grant"}, WriteGoogleAuth(state, code)
    PROVE  /\ sync' \in [Sources -> RowType]
           /\ \A src \in Sources :
                /\ sync'[src].auth = state
                /\ sync'[src].success = sync[src].success
                /\ sync'[src].error = IF code = "none" THEN sync[src].error
                                                       ELSE code
<1>1. state \in Auths /\ 0 \in 0 .. PollInterval
  BY IntervalAssumption DEF Auths
<1>2. ASSUME NEW src \in Sources
      PROVE  /\ sync'[src] \in RowType /\ sync'[src].auth = state
             /\ sync'[src].success = sync[src].success
             /\ sync'[src].error = IF code = "none" THEN sync[src].error ELSE code
  <2>1. sync[src] \in RowType
    OBVIOUS
  <2>2. CASE code = "none"
    <3>1. sync'[src] = [sync[src] EXCEPT !.auth = state]
      BY <2>2 DEF WriteGoogleAuth
    <3> QED
      BY <1>1, <2>1, <2>2, <3>1 DEF RowType
  <2>3. CASE code = "invalid_grant"
    <3>1. sync'[src] = [sync[src] EXCEPT !.auth = state, !.attempt = 0,
                                         !.error = code]
      BY <2>3 DEF WriteGoogleAuth
    <3> QED
      BY <1>1, <2>1, <2>3, <3>1 DEF RowType
  <2> QED
    BY <2>2, <2>3
<1>3. sync' = [src \in Sources |-> sync'[src]]
  BY DEF WriteGoogleAuth
<1> QED
  BY <1>2, <1>3

-----------------------------------------------------------------------------
(* Types.                                                                  *)

(* The rows keep their types, and time passes on them alike.               *)
LEMMA RowsTyped ==
    ASSUME TypeOK, SessionsOK, [Next]_vars
    PROVE  /\ sync' \in [Sources -> RowType]
           /\ diag' \in {"none", "healthy", "partial", "transport_error",
                         "auth_error"}
<1>1. sync \in [Sources -> RowType]
  BY DEF TypeOK, RowType
<1>2. CASE RowsKept
  BY <1>1, <1>2 DEF RowsKept, TypeOK
<1>3. CASE Tick
  <2>1. ASSUME NEW src \in Sources PROVE sync'[src] \in RowType
    <3>1. sync[src] \in RowType
      BY <1>1
    <3>2. /\ Older(sync[src].success, StaleAfter) \in {Never} \union 0 .. StaleAfter
          /\ Older(sync[src].attempt, PollInterval) \in 0 .. PollInterval
      BY <3>1, IntervalAssumption DEF Older, RowType, Never
    <3> QED
      BY <1>3, <3>1, <3>2 DEF Tick, RowType
  <2>2. sync' = [src \in Sources |-> sync'[src]] /\ diag' = diag
    BY <1>3 DEF Tick
  <2> QED
    BY <2>1, <2>2 DEF TypeOK
<1>4. CASE Recorded
  <2>1. PICK src \in Sources :
          \/ \E a \in Answers : RecordAnswer(src, a) /\ RecordDiagnostics(src, a)
          \/ RecordRefusal /\ RecordDiagnostics(src, "invalid_grant")
    BY <1>4 DEF Recorded
  <2>2. sync' \in [Sources -> RowType]
    BY <1>1, <2>1, RecordedAnswer, WrittenAuth DEF RecordRefusal
  <2>3. \A a \in Read : Diagnosis(a) \in {"healthy", "partial",
                                         "transport_error", "auth_error"}
    BY DEF Read, Answers, Diagnosis
  <2>4. diag' = diag \/ \E a \in Read : diag' = Diagnosis(a)
    BY <2>1 DEF RecordDiagnostics, Read
  <2> QED
    BY <2>2, <2>3, <2>4 DEF TypeOK
<1>5. CASE Commanded
  BY <1>1, <1>5, WrittenAuth DEF Commanded, TypeOK
<1> QED
  BY <1>2, <1>3, <1>4, <1>5, RowWriters

(* Who stores and deletes the grant: a deletion under way takes away what  *)
(* it meets, setup stores a new grant and disconnect begins a deletion.    *)
GrantKept == UNCHANGED <<grant, saves>>
GrantDropped(s) ==
    /\ grant' \in {grant, 0} /\ UNCHANGED saves
    /\ grant' # grant => \/ ses[s].pc \in {"tombstone", "erase"}
                         \/ ses[s].job = "none"
    /\ \A t \in Sessions \ {s} : ses'[t] = ses[t]
GrantStored(s) ==
    /\ saves < MaxGrants /\ saves' = saves + 1 /\ grant' = saves'
    /\ ses[s].job = "none"
    /\ \A t \in Sessions \ {s} : ses'[t] = ses[t]

(* No other step touches the grant.  (credentials.py, setup, disconnect)   *)
LEMMA GrantWriters ==
    ASSUME SessionsOK, [Next]_vars
    PROVE  GrantKept \/ \E s \in Sessions : GrantDropped(s) \/ GrantStored(s)
<1>1. \A s \in Sessions : Fits(ses[s])
  BY SessionFields
<1>2. ASSUME NEW s \in Sessions, Deleted(s)
      PROVE  \A r \in Sessions \ {s} : ses'[r] = ses[r]
  BY <1>2 DEF Deleted, SessionsOK
<1>3. ASSUME NEW s \in Sessions, WriteTombstone(s) PROVE GrantDropped(s)
  BY <1>2, <1>3 DEF WriteTombstone, Goto, At, outside, GrantDropped, SessionsOK
<1>4. ASSUME NEW s \in Sessions, EraseCopies(s) PROVE GrantDropped(s)
  BY <1>2, <1>4 DEF EraseCopies, At, outside, GrantDropped
<1>5. ASSUME NEW s \in Sessions, DeleteGrant(s) PROVE GrantDropped(s)
  BY <1>1, <1>5 DEF DeleteGrant, Begin, At, Fits, outside, GrantDropped,
                    SessionsOK
<1>6. ASSUME NEW s \in Sessions, Authorize(s) PROVE GrantStored(s)
  BY <1>1, <1>6 DEF Authorize, Begin, At, Fits, GrantStored, SessionsOK
<1>7. ASSUME NEW s \in Sessions,
             \/ StartCheck(s) \/ StartPass(s) \/ StartSmoke(s)
             \/ AcquireLease(s) \/ LoadCredential(s) \/ ReleaseLease(s)
             \/ ReadGmail(s) \/ ReadCalendar(s) \/ CompareVersion(s)
             \/ ApplyGmail(s) \/ ApplyCalendar(s) \/ EndPass(s)
             \/ ReportSkip(s) \/ ReserveDelivery(s) \/ AnswerCheck(s)
             \/ SmokeGmail(s) \/ SmokeCalendar(s) \/ PersistSetup(s)
             \/ ClearAuth(s) \/ Crash(s)
      PROVE  GrantKept
  BY <1>7 DEF StartCheck, StartPass, StartSmoke, AcquireLease, LoadCredential,
       ReleaseLease, ApplyGmail, ApplyCalendar, Apply, EndPass, ReportSkip,
       ReserveDelivery, AnswerCheck, SmokeGmail, SmokeCalendar, PersistSetup,
       ReadGmail, ReadCalendar, CompareVersion, ClearAuth, Crash, outside, GrantKept
<1>8. CASE \/ \E g \in 1 .. MaxGrants : Revoke(g)
           \/ \E src \in Sources : Settle(src)
           \/ Unwatch
           \/ Tick
           \/ UNCHANGED vars
  BY <1>8 DEF Revoke, Settle, Unwatch, Tick, vars, outside, GrantKept
<1> QED
  BY <1>3, <1>4, <1>5, <1>6, <1>7, <1>8, Zenon DEF Next, Proceed

(* Who takes and gives up the lease.                                       *)
LeaseKept ==
    /\ UNCHANGED lease
    /\ \A t \in Sessions : ses'[t].left \in {ses[t].left, 0}
LeaseTaken(s) ==
    /\ lease.holder = NoOne \/ lease.left = 0
    /\ lease' = [holder |-> s, left |-> PollInterval]
    /\ ses'[s].left = PollInterval
    /\ \A t \in Sessions \ {s} : ses'[t].left = ses[t].left
LeaseGiven(s) ==
    /\ lease' = IF lease.holder = s THEN [holder |-> NoOne, left |-> 0] ELSE lease
    /\ ses'[s].left = 0
    /\ \A t \in Sessions \ {s} : ses'[t].left = ses[t].left

GrantsHeld ==
    \A t \in Sessions : /\ ses'[t].grant \in {ses[t].grant, 0, grant}
                        /\ ses'[t].checked \in {ses[t].checked, 0, saves}

(* Steps that touch neither the lease nor what is held.                    *)
LEMMA HoldingsKept ==
    ASSUME SessionsOK, UNCHANGED lease, NEW s \in Sessions, NEW x,
           ses' = [ses EXCEPT ![s] = x], x.left \in {ses[s].left, 0},
           x.grant \in {ses[s].grant, 0, grant},
           x.checked \in {ses[s].checked, 0, saves}
    PROVE  LeaseKept /\ GrantsHeld
BY DEF SessionsOK, LeaseKept, GrantsHeld

(* No other step touches the lease, and a session reads with the grant     *)
(* that was stored when it loaded it.  (_lazy_sync_lease.py, _read)        *)
LEMMA Holdings ==
    ASSUME SessionsOK, SessionsOK', [Next]_vars
    PROVE  /\ GrantsHeld
           /\ LeaseKept \/ Tick \/ \E s \in Sessions : LeaseTaken(s) \/ LeaseGiven(s)
<1>1. \A s \in Sessions : ses[s] \in SessionType /\ ses'[s] \in SessionType
  BY DEF SessionsOK, Session
<1>2. Idle.left = 0 /\ Idle.grant = 0 /\ Idle.checked = 0
  BY DEF Idle
<1>3. ASSUME NEW s \in Sessions,
             \/ StartCheck(s) \/ StartPass(s) \/ StartSmoke(s) \/ Authorize(s)
             \/ DeleteGrant(s)
      PROVE  LeaseKept /\ GrantsHeld
  <2>1. UNCHANGED lease
    BY <1>3 DEF StartCheck, StartPass, StartSmoke, Authorize, DeleteGrant, rows
  <2>2. CASE StartSmoke(s)
    BY <2>1, <2>2 DEF StartSmoke, Idle, LeaseKept, GrantsHeld, SessionsOK
  <2>3. ASSUME NEW job, NEW pc, NEW note, Begin(s, job, pc, note)
        PROVE  LeaseKept /\ GrantsHeld
    BY <2>1, <2>3 DEF Begin, Idle, LeaseKept, GrantsHeld, SessionsOK
  <2> QED
    BY <1>3, <2>2, <2>3 DEF StartCheck, StartPass, Authorize, DeleteGrant
<1>4. ASSUME NEW s \in Sessions, Finish(s), UNCHANGED lease
      PROVE  LeaseKept /\ GrantsHeld
  BY <1>2, <1>4 DEF Finish, LeaseKept, GrantsHeld, SessionsOK
<1>5. ASSUME NEW s \in Sessions,
             \/ EndPass(s) \/ AnswerCheck(s) \/ PersistSetup(s)
             \/ ClearAuth(s) \/ Crash(s)
      PROVE  LeaseKept /\ GrantsHeld
  BY <1>4, <1>5 DEF EndPass, AnswerCheck, PersistSetup, ClearAuth,
                    Crash, rows
<1>6. ASSUME NEW s \in Sessions, SmokeGmail(s) \/ SmokeCalendar(s)
      PROVE  LeaseKept /\ GrantsHeld
  <2>1. UNCHANGED lease
    BY <1>6 DEF SmokeGmail, SmokeCalendar
  <2>2. ASSUME NEW pc, Goto(s, pc) PROVE LeaseKept /\ GrantsHeld
    BY <1>1, <2>1, <2>2 DEF Goto, LeaseKept, GrantsHeld, SessionsOK, SessionType
  <2> QED
    BY <1>4, <1>6, <2>1, <2>2 DEF SmokeGmail, SmokeCalendar, SmokeRefused
<1>7. ASSUME NEW s \in Sessions, AcquireLease(s)
      PROVE  GrantsHeld /\ (LeaseKept \/ LeaseTaken(s))
  <2>1. CASE lease.holder = NoOne \/ lease.left = 0
    <3>1. /\ lease' = [holder |-> s, left |-> PollInterval]
          /\ ses' = [ses EXCEPT ![s] = [ses[s] EXCEPT !.pc = "load",
                                                      !.left = PollInterval]]
      BY <1>7, <2>1 DEF AcquireLease
    <3> QED
      BY <1>1, <2>1, <3>1 DEF LeaseTaken, GrantsHeld, SessionsOK, SessionType
  <2>2. CASE ~(lease.holder = NoOne \/ lease.left = 0)
    <3>1. /\ UNCHANGED lease
          /\ ses' = [ses EXCEPT ![s] = [ses[s] EXCEPT !.pc = "report",
                                                      !.note = "guided"]]
      BY <1>7, <2>2 DEF AcquireLease
    <3> QED
      BY <1>1, <3>1 DEF LeaseKept, GrantsHeld, SessionsOK, SessionType
  <2> QED
    BY <2>1, <2>2
<1>8. ASSUME NEW s \in Sessions, ReleaseLease(s)
      PROVE  GrantsHeld /\ LeaseGiven(s)
  <2> DEFINE pc == IF ses[s].note = "silent" THEN "evaluate" ELSE "report"
  <2>1. ses' = [ses EXCEPT ![s] = [ses[s] EXCEPT !.left = 0, !.pc = pc]]
    BY <1>8 DEF ReleaseLease
  <2> HIDE DEF pc
  <2> QED
    BY <1>1, <1>8, <2>1 DEF ReleaseLease, LeaseGiven, GrantsHeld, SessionsOK,
                            SessionType
<1>9. ASSUME NEW s \in Sessions, LoadCredential(s)
      PROVE  LeaseKept /\ GrantsHeld
  <2>1. UNCHANGED lease
    BY <1>9 DEF LoadCredential
  <2>2. ASSUME NEW why, Unread(s, why) PROVE LeaseKept /\ GrantsHeld
    BY <1>1, <2>1, <2>2 DEF Unread, LeaseKept, GrantsHeld, SessionsOK,
                            SessionType
  <2>3. CASE ses' = [ses EXCEPT ![s] = [ses[s] EXCEPT !.pc = "gmail",
                                                      !.grant = grant]]
    BY <1>1, <2>1, <2>3 DEF LeaseKept, GrantsHeld, SessionsOK, SessionType
  <2> QED
    BY <1>9, <2>2, <2>3 DEF LoadCredential
<1>10. ASSUME NEW s \in Sessions, ReadGmail(s) \/ ReadCalendar(s)
       PROVE  LeaseKept /\ GrantsHeld
  <2>1. UNCHANGED lease
    BY <1>10 DEF ReadGmail, ReadCalendar, rows
  <2>2. ASSUME NEW gen, Refused(s, gen) PROVE LeaseKept /\ GrantsHeld
    BY <1>1, <2>1, <2>2 DEF Refused, LeaseKept, GrantsHeld, SessionsOK,
                            SessionType
  <2>3. ASSUME NEW src, NEW gen, NEW next, Answered(s, src, gen, next)
        PROVE  LeaseKept /\ GrantsHeld
    <3>1. PICK a : ses' = [ses EXCEPT ![s] = [ses[s] EXCEPT !.pc = next,
                             !.gen = gen, !.got[src] = a]]
      BY <2>3 DEF Answered
    <3> QED
      BY <1>1, <2>1, <3>1 DEF LeaseKept, GrantsHeld, SessionsOK, SessionType
  <2> QED
    BY <1>10, <2>2, <2>3 DEF ReadGmail, ReadCalendar
<1>11. ASSUME NEW s \in Sessions, ApplyGmail(s) \/ ApplyCalendar(s)
       PROVE  LeaseKept /\ GrantsHeld
  <2>1. PICK src, pc : Apply(s, src, pc)
    BY <1>11 DEF ApplyGmail, ApplyCalendar
  <2> DEFINE Since(t) == IF ses[t].gen[src] > ses[s].gen[src]
                         THEN ses[t].gen[src] - ses[s].gen[src] ELSE 0
  <2>2. /\ UNCHANGED lease
        /\ ses' = [t \in Sessions |->
                     IF t = s THEN [ses[t] EXCEPT !.pc = pc, !.gen[src] = 0,
                                                  !.got[src] = "unread"]
                     ELSE [ses[t] EXCEPT !.gen[src] = Since(t)]]
    BY <2>1 DEF Apply
  <2> HIDE DEF Since
  <2>3. \A t \in Sessions : /\ ses'[t].left = ses[t].left
                            /\ ses'[t].grant = ses[t].grant
                            /\ ses'[t].checked = ses[t].checked
    <3> SUFFICES ASSUME NEW t \in Sessions
                 PROVE  /\ ses'[t].left = ses[t].left
                        /\ ses'[t].grant = ses[t].grant
                        /\ ses'[t].checked = ses[t].checked
      OBVIOUS
    <3>1. CASE t = s
      BY <1>1, <2>2, <3>1 DEF SessionType
    <3>2. CASE t # s
      <4>1. ses'[t] = [ses[t] EXCEPT !.gen[src] = Since(t)]
        BY <2>2, <3>2
      <4> QED
        BY <1>1, <4>1 DEF SessionType
    <3> QED
      BY <3>1, <3>2
  <2> QED
    BY <2>2, <2>3 DEF LeaseKept, GrantsHeld
<1>12. ASSUME NEW s \in Sessions, ReportSkip(s) \/ ReserveDelivery(s)
       PROVE  LeaseKept /\ GrantsHeld
  <2>1. UNCHANGED lease
    BY <1>12 DEF ReportSkip, ReserveDelivery, rows
  <2>2. PICK x : /\ ses' = [ses EXCEPT ![s] = x]
                 /\ \E note, empty :
                      \/ x = [ses[s] EXCEPT !.pc = "reserve_delivery",
                                            !.grant = 0, !.note = note]
                      \/ x = [ses[s] EXCEPT !.pc = "health", !.empty = empty]
    BY <1>12, Zenon DEF ReportSkip, ReserveDelivery
  <2>3. /\ x.left = ses[s].left /\ x.grant \in {ses[s].grant, 0}
        /\ x.checked = ses[s].checked
    BY <1>1, <2>2 DEF SessionType
  <2> QED
    BY <2>1, <2>2, <2>3, HoldingsKept
<1>13. CASE Tick
  <2>1. ASSUME NEW t \in Sessions
        PROVE  ses'[t].grant = ses[t].grant /\ ses'[t].checked = ses[t].checked
    <3>1. \E left, aged : ses'[t] = [ses[t] EXCEPT !.left = left, !.aged = aged]
      BY <1>13 DEF Tick
    <3> QED
      BY <1>1, <3>1 DEF SessionType
  <2> QED
    BY <1>13, <2>1 DEF GrantsHeld
<1>14. CASE \/ \E g \in 1 .. MaxGrants : Revoke(g)
            \/ \E src \in Sources : Settle(src)
            \/ Unwatch
            \/ UNCHANGED vars
  BY <1>14 DEF Revoke, Settle, Unwatch, vars, rows, LeaseKept, GrantsHeld
<1>15. ASSUME NEW s \in Sessions,
              CompareVersion(s) \/ WriteTombstone(s) \/ EraseCopies(s)
       PROVE  LeaseKept /\ GrantsHeld
  <2>1. UNCHANGED lease
    BY <1>15 DEF CompareVersion, WriteTombstone, EraseCopies, rows
  <2>2. \/ ses' = [ses EXCEPT ![s] = Idle]
        \/ \E pc : ses' = [ses EXCEPT ![s] = [ses[s] EXCEPT !.checked = 0, !.pc = pc]]
        \/ ses' = [ses EXCEPT ![s] = [ses[s] EXCEPT !.pc = "tombstone",
                                                    !.checked = saves]]
        \/ ses' = [ses EXCEPT ![s] = [ses[s] EXCEPT !.pc = "erase"]]
    <3>1. Deleted(s) =>
            \/ ses' = [ses EXCEPT ![s] = Idle]
            \/ \E pc : ses' = [ses EXCEPT ![s] =
                                  [ses[s] EXCEPT !.checked = 0, !.pc = pc]]
      BY DEF Deleted
    <3> QED
      BY <1>15, <3>1 DEF CompareVersion, WriteTombstone, EraseCopies, Goto
  <2>3. PICK x : /\ ses' = [ses EXCEPT ![s] = x]
                 /\ \/ x = Idle
                    \/ \E pc : x = [ses[s] EXCEPT !.checked = 0, !.pc = pc]
                    \/ x = [ses[s] EXCEPT !.pc = "tombstone", !.checked = saves]
                    \/ x = [ses[s] EXCEPT !.pc = "erase"]
    BY <2>2, Zenon
  <2>4. /\ x.left \in {ses[s].left, 0} /\ x.grant \in {ses[s].grant, 0}
        /\ x.checked \in {ses[s].checked, 0, saves}
    BY <1>1, <1>2, <2>3 DEF SessionType
  <2> QED
    BY <2>1, <2>3, <2>4, HoldingsKept
<1> QED
  BY <1>3, <1>5, <1>6, <1>7, <1>8, <1>9, <1>10, <1>11, <1>12, <1>13, <1>14,
     <1>15, Zenon DEF Next, Proceed

(* The other variables keep their types.                                   *)
LEMMA OthersTyped ==
    ASSUME TypeOK, SessionsOK, [Next]_vars
    PROVE  /\ credState' \in {"unknown", "available", "missing", "unavailable"}
           /\ gate' \in 0 .. GateInterval
           /\ pending' \subseteq Sources
           /\ \/ revoked' = revoked
              \/ \E g \in 1 .. saves : revoked' = revoked \union {g}
<1> DEFINE Rest == UNCHANGED <<credState, gate, revoked, pending>>
<1>1. 0 \in 0 .. GateInterval
  BY IntervalAssumption
<1>2. ASSUME NEW s \in Sessions,
             \/ StartPass(s) \/ StartSmoke(s) \/ Authorize(s) \/ DeleteGrant(s)
             \/ AcquireLease(s) \/ ReadGmail(s) \/ ReadCalendar(s)
             \/ ReleaseLease(s) \/ EndPass(s) \/ ReserveDelivery(s)
             \/ AnswerCheck(s) \/ SmokeGmail(s) \/ SmokeCalendar(s)
             \/ CompareVersion(s) \/ WriteTombstone(s) \/ EraseCopies(s)
             \/ PersistSetup(s) \/ Crash(s)
      PROVE  Rest
  BY <1>2 DEF StartPass, StartSmoke, Authorize, DeleteGrant, AcquireLease,
       ReadGmail, ReadCalendar, ReleaseLease, EndPass, ReserveDelivery,
       AnswerCheck, SmokeGmail, SmokeCalendar, CompareVersion, WriteTombstone,
       EraseCopies, PersistSetup, Crash, rows, outside
<1>3. CASE UNCHANGED vars \/ Unwatch
  BY <1>3 DEF vars, Unwatch, rows, outside, TypeOK
<1>4. ASSUME NEW s \in Sessions, StartCheck(s)
      PROVE  gate' \in {0, gate} /\ UNCHANGED <<credState, revoked, pending>>
  BY <1>4 DEF StartCheck, outside
<1>5. ASSUME NEW s \in Sessions,
             LoadCredential(s) \/ ReportSkip(s) \/ ClearAuth(s)
      PROVE  /\ credState' \in {"unknown", "available", "missing", "unavailable"}
             /\ UNCHANGED <<gate, revoked, pending>>
  BY <1>5 DEF LoadCredential, ReportSkip, ClearAuth, outside, TypeOK
<1>6. ASSUME NEW s \in Sessions, ApplyGmail(s) \/ ApplyCalendar(s)
      PROVE  pending' \subseteq Sources /\ UNCHANGED <<credState, gate, revoked>>
  <2>1. PICK src \in Sources, pc \in {"evaluate_calendar", "report"} : Apply(s, src, pc)
    BY <1>6 DEF ApplyGmail, ApplyCalendar, Sources
  <2>2. UNCHANGED <<credState, gate, revoked>>
    BY <2>1 DEF Apply, outside
  <2>3. pending' = pending \/ \E answer : pending' \in SettledBy(src, answer)
    BY <2>1 DEF Apply
  <2>4. \A answer : \A p \in SettledBy(src, answer) :
          p \in {pending, pending \union {src}, pending \ {src}}
    BY DEF SettledBy
  <2> QED
    BY <2>2, <2>3, <2>4 DEF TypeOK
<1>7. ASSUME NEW g \in 1 .. MaxGrants, Revoke(g)
      PROVE  /\ g \in 1 .. saves /\ revoked' = revoked \union {g}
             /\ UNCHANGED <<credState, gate, pending>>
  BY <1>7, BoundAssumption DEF Revoke, rows, TypeOK
<1>8. ASSUME NEW src \in Sources, Settle(src)
      PROVE  pending' \subseteq Sources /\ UNCHANGED <<credState, gate, revoked>>
  BY <1>8 DEF Settle, rows, outside, TypeOK
<1>9. CASE Tick
  <2>1. Older(gate, GateInterval) \in 0 .. GateInterval
    BY IntervalAssumption DEF Older, Never, TypeOK
  <2> QED
    BY <1>9, <2>1 DEF Tick, outside, TypeOK
<1>10. /\ credState \in {"unknown", "available", "missing", "unavailable"}
       /\ gate \in 0 .. GateInterval /\ pending \subseteq Sources
  BY DEF TypeOK
<1>11. CASE \E s \in Sessions :
               StartCheck(s) \/ LoadCredential(s) \/ ReportSkip(s) \/ ClearAuth(s)
  BY <1>1, <1>4, <1>5, <1>10, <1>11
<1>12. CASE \E s \in Sessions : ApplyGmail(s) \/ ApplyCalendar(s)
  BY <1>6, <1>10, <1>12
<1>13. CASE \E g \in 1 .. MaxGrants : Revoke(g)
  BY <1>7, <1>10, <1>13
<1>14. CASE \E src \in Sources : Settle(src)
  BY <1>8, <1>10, <1>14
<1>15. CASE Rest
  BY <1>10, <1>15
<1> HIDE DEF Rest
<1> QED
  BY <1>2, <1>3, <1>9, <1>11, <1>12, <1>13, <1>14, <1>15, Zenon DEF Next, Proceed

(* Every step keeps the types.                                             *)
LEMMA TypeStep ==
    ASSUME TypeOK, SessionsOK, [Next]_vars
    PROVE  TypeOK' /\ SessionsOK'
<1>1. SessionsOK'
  BY SessionStep
<1>2. /\ sync' \in [Sources -> RowType]
      /\ diag' \in {"none", "healthy", "partial", "transport_error", "auth_error"}
  BY RowsTyped
<1>3. /\ credState' \in {"unknown", "available", "missing", "unavailable"}
      /\ gate' \in 0 .. GateInterval /\ pending' \subseteq Sources
      /\ \/ revoked' = revoked
         \/ \E g \in 1 .. saves : revoked' = revoked \union {g}
  BY OthersTyped
<1>4. /\ grant' \in 0 .. saves' /\ saves' \in 0 .. MaxGrants /\ saves <= saves'
      /\ saves \in Nat /\ grant \in 0 .. saves
  <2>1. /\ grant \in 0 .. saves /\ saves \in 0 .. MaxGrants
        /\ MaxGrants \in Nat /\ saves \in Nat
    BY BoundAssumption DEF TypeOK
  <2>2. CASE GrantKept
    BY <2>1, <2>2 DEF GrantKept
  <2>3. ASSUME NEW s \in Sessions, GrantDropped(s)
        PROVE  grant' \in {grant, 0} /\ saves' = saves
    BY <2>3 DEF GrantDropped
  <2>4. ASSUME NEW s \in Sessions, GrantStored(s)
        PROVE  saves < MaxGrants /\ saves' = saves + 1 /\ grant' = saves'
    BY <2>4 DEF GrantStored
  <2>5. CASE \E s \in Sessions : GrantDropped(s)
    BY <2>1, <2>3, <2>5
  <2>6. CASE \E s \in Sessions : GrantStored(s)
    BY <2>1, <2>4, <2>6
  <2> QED
    BY <2>2, <2>5, <2>6, GrantWriters
<1>5. revoked' \subseteq 1 .. saves'
  <2>1. revoked' \subseteq 1 .. saves
    BY <1>3 DEF TypeOK
  <2>2. 1 .. saves \subseteq 1 .. saves'
    BY <1>4
  <2> QED
    BY <2>1, <2>2
<1>6. lease' \in [holder : Sessions \union {NoOne}, left : 0 .. PollInterval]
  <2>1. /\ lease \in [holder : Sessions \union {NoOne}, left : 0 .. PollInterval]
        /\ 0 \in 0 .. PollInterval /\ PollInterval \in 0 .. PollInterval
    BY IntervalAssumption DEF TypeOK
  <2>2. Sooner(lease.left) \in 0 .. PollInterval
    BY <2>1, IntervalAssumption DEF Sooner
  <2>3. CASE Tick
    BY <2>1, <2>2, <2>3 DEF Tick
  <2> QED
    BY <1>1, <2>1, <2>3, Holdings DEF LeaseKept, LeaseTaken, LeaseGiven
<1>7. ASSUME NEW s \in Sessions
      PROVE  /\ ses'[s].pc \in Places /\ ses'[s].left \in 0 .. PollInterval
             /\ ses'[s].grant \in 0 .. saves' /\ ses'[s].checked \in 0 .. saves'
             /\ \A src \in Sources : ses'[s].gen[src] \in Nat
  <2>1. ses'[s] \in SessionType
    BY <1>1 DEF SessionsOK, Session
  <2>2. ses[s].grant \in 0 .. saves /\ ses[s].checked \in 0 .. saves
    BY DEF TypeOK
  <2>3. /\ ses'[s].grant \in {ses[s].grant, 0, grant}
        /\ ses'[s].checked \in {ses[s].checked, 0, saves}
    BY <1>1, Holdings DEF GrantsHeld
  <2>4. ses'[s].grant \in 0 .. saves' /\ ses'[s].checked \in 0 .. saves'
    BY <1>4, <2>2, <2>3
  <2> QED
    BY <2>1, <2>4 DEF SessionType
<1> QED
  BY <1>1, <1>2, <1>3, <1>4, <1>5, <1>6, <1>7 DEF TypeOK, RowType

(* Every reachable state is well typed, and every session fits its place.  *)
LEMMA SourceTypes == Spec => [](TypeOK /\ SessionsOK)
<1>1. Init => TypeOK /\ SessionsOK
  <2> SUFFICES ASSUME Init PROVE TypeOK /\ SessionsOK
    OBVIOUS
  <2>1. /\ 0 \in 0 .. PollInterval /\ PollInterval \in 0 .. PollInterval
        /\ GateInterval \in 0 .. GateInterval /\ 0 \in 0 .. MaxGrants
        /\ 0 \in 0 .. 0 /\ 0 \in Nat
    BY IntervalAssumption, BoundAssumption
  <2>2. /\ [src \in Sources |-> 0] \in [Sources -> Nat]
        /\ [src \in Sources |-> "unread"] \in [Sources -> Read \cup {"unread"}]
        /\ "idle" \in Places
    BY DEF Places
  <2>3. Idle \in SessionType
    BY <2>1, <2>2 DEF Idle, SessionType
  <2>4. Idle \in Session
    BY <2>3 DEF Session, Fits, Idle, Smoking, Deleting
  <2>5. SessionsOK
    BY <2>4 DEF Init, SessionsOK
  <2>6. Unconfigured \in RowType
    BY <2>1 DEF Unconfigured, RowType, Auths
  <2>7. \A s \in Sessions : ses[s] = Idle
    BY DEF Init
  <2>8. /\ sync \in [Sources -> RowType]
        /\ lease \in [holder : Sessions \union {NoOne}, left : 0 .. PollInterval]
    BY <2>1, <2>6 DEF Init
  <2>9. \A s \in Sessions :
          /\ ses[s].pc \in Places
          /\ ses[s].left \in 0 .. PollInterval
          /\ ses[s].grant \in 0 .. saves /\ ses[s].checked \in 0 .. saves
          /\ \A src \in Sources : ses[s].gen[src] \in Nat
    BY <2>1, <2>2, <2>7 DEF Init, Idle
  <2> QED
    BY <2>1, <2>5, <2>8, <2>9 DEF Init, TypeOK, RowType
<1>2. TypeOK /\ SessionsOK /\ [Next]_vars => (TypeOK /\ SessionsOK)'
  BY TypeStep
<1> QED
  BY <1>1, <1>2, PTL DEF Spec

-----------------------------------------------------------------------------
(* The lease.                                                              *)

(* The inductive form of LeaseExclusive: the time a reader believes it has *)
(* left is time that the lease row, in its own name, still has.            *)
LeaseInv ==
    \A s \in Sessions :
        ses[s].left > 0 => lease.holder = s /\ ses[s].left <= lease.left

(* For any number of processes at most one lazy reader is inside an        *)
(* unexpired lease, and everything keeps its type.                         *)
THEOREM ReadersSafe == Spec => []ReadersInv
<1>1. Init => LeaseInv
  BY DEF Init, LeaseInv, Idle
<1>2. TypeOK /\ SessionsOK /\ LeaseInv /\ [Next]_vars => LeaseInv'
  <2> SUFFICES ASSUME TypeOK, SessionsOK, LeaseInv, [Next]_vars,
                      NEW t \in Sessions, ses'[t].left > 0
               PROVE  lease'.holder = t /\ ses'[t].left <= lease'.left
    BY DEF LeaseInv
  <2>1. /\ ses[t].left \in Nat /\ ses'[t].left \in Nat /\ PollInterval \in Nat
        /\ lease.left \in Nat
        /\ lease \in [holder : Sessions \union {NoOne}, left : 0 .. PollInterval]
    BY TypeStep, IntervalAssumption DEF TypeOK
  <2>2. ses[t].left > 0 => lease.holder = t /\ ses[t].left <= lease.left
    BY DEF LeaseInv
  <2>3. CASE LeaseKept
    BY <2>1, <2>2, <2>3 DEF LeaseKept
  <2>4. CASE Tick
    <3>1. ses'[t].left = Sooner(ses[t].left)
      BY <2>4, SessionFields DEF Tick, SessionType
    <3>2. lease'.holder = lease.holder /\ lease'.left = Sooner(lease.left)
      BY <2>1, <2>4 DEF Tick
    <3> QED
      BY <2>1, <2>2, <3>1, <3>2 DEF Sooner
  <2>5. ASSUME NEW s \in Sessions, LeaseTaken(s)
        PROVE  lease'.holder = t /\ ses'[t].left <= lease'.left
    <3>1. lease'.holder = s /\ lease'.left = PollInterval
      BY <2>5 DEF LeaseTaken
    <3>2. CASE t = s
      BY <2>1, <2>5, <3>1, <3>2 DEF LeaseTaken
    <3>3. CASE t # s
      <4>1. ses[t].left > 0 /\ (lease.holder = NoOne \/ lease.left = 0)
        BY <2>5, <3>3 DEF LeaseTaken
      <4> QED
        BY <2>1, <2>2, <4>1, SessionAssumption
    <3> QED
      BY <3>2, <3>3
  <2>6. ASSUME NEW s \in Sessions, LeaseGiven(s)
        PROVE  lease'.holder = t /\ ses'[t].left <= lease'.left
    <3>1. t # s /\ ses'[t].left = ses[t].left
      BY <2>1, <2>6 DEF LeaseGiven
    <3> QED
      BY <2>2, <2>6, <3>1 DEF LeaseGiven
  <2> QED
    BY <2>3, <2>4, <2>5, <2>6, TypeStep, Holdings
<1>3. LeaseInv => LeaseExclusive
  BY DEF LeaseInv, LeaseExclusive
<1> QED
  BY <1>1, <1>2, <1>3, SourceTypes, PTL DEF Spec, ReadersInv

-----------------------------------------------------------------------------
(* The grant and the authorization.                                        *)

(* What a deletion under way meets: nothing, the grant it is about, or one *)
(* that setup stored after the deletion had compared versions.             *)
Fenced(x, g) ==
    x.pc \in {"tombstone", "erase"} /\ x.job # "disconnect"
        => g = 0 \/ g = x.grant \/ g > x.checked

FenceInv == \A s \in Sessions : Fenced(ses[s], grant)

(* Where a session stands in a deletion changes only with its own steps.   *)
Alike(x, y) ==
    x.pc = y.pc /\ x.job = y.job /\ x.grant = y.grant /\ x.checked = y.checked

(* A session is alike after a step, or outside of a deletion, or inside    *)
(* one by a comparison that held or a tombstone that was written.          *)
LEMMA DeletionSteps ==
    ASSUME SessionsOK, SessionsOK', [Next]_vars, NEW t \in Sessions
    PROVE  \/ Alike(ses'[t], ses[t])
           \/ ses'[t].pc \notin {"tombstone", "erase"}
           \/ ses'[t].job = "disconnect"
           \/ grant' = 0
           \/ grant' = grant /\ grant \in {0, ses'[t].grant}
<1> DEFINE Goal == \/ Alike(ses'[t], ses[t])
                   \/ ses'[t].pc \notin {"tombstone", "erase"}
                   \/ ses'[t].job = "disconnect"
                   \/ grant' = 0
                   \/ grant' = grant /\ grant \in {0, ses'[t].grant}
<1>1. \A s \in Sessions : ses[s] \in SessionType /\ ses'[s] \in SessionType
  BY DEF SessionsOK, Session
<1>2. Idle.pc = "idle"
  BY DEF Idle
<1>3. ASSUME NEW s \in Sessions, NEW x, ses' = [ses EXCEPT ![s] = x],
             x.pc \notin {"tombstone", "erase"}
      PROVE  Goal
  BY <1>3 DEF Alike, SessionsOK
<1>4. ASSUME NEW s \in Sessions,
             \/ StartCheck(s) \/ StartPass(s) \/ StartSmoke(s) \/ Authorize(s)
      PROVE  Goal
  <2>1. ASSUME NEW job, NEW note,
               NEW pc \in {"report", "acquire", "reserve_delivery", "load", "persist"},
               Begin(s, job, pc, note)
        PROVE  Goal
    <3> DEFINE x == [Idle EXCEPT !.job = job, !.pc = pc, !.note = note]
    <3>1. x.pc = pc
      BY DEF Idle
    <3>2. ses' = [ses EXCEPT ![s] = x]
      BY <2>1 DEF Begin
    <3> HIDE DEF x
    <3> QED
      BY <1>3, <3>1, <3>2
  <2>2. CASE StartSmoke(s)
    <3> DEFINE x == [Idle EXCEPT !.job = "smoke", !.pc = "smoke_gmail", !.grant = grant]
    <3>1. x.pc = "smoke_gmail"
      BY DEF Idle
    <3>2. ses' = [ses EXCEPT ![s] = x]
      BY <2>2 DEF StartSmoke
    <3> HIDE DEF x
    <3> QED
      BY <1>3, <3>1, <3>2
  <2>3. DecideLazily[1] \in {"report", "acquire"}
    BY DEF DecideLazily
  <2> HIDE DEF Goal
  <2> QED
    BY <1>4, <2>1, <2>2, <2>3 DEF StartCheck, StartPass, Authorize
<1>5. ASSUME NEW s \in Sessions, DeleteGrant(s) PROVE Goal
  BY <1>5 DEF DeleteGrant
<1>6. ASSUME NEW s \in Sessions, Finish(s) PROVE Goal
  BY <1>2, <1>3, <1>6 DEF Finish
<1>7. ASSUME NEW s \in Sessions, NEW pc, Goto(s, pc), pc \notin {"tombstone", "erase"}
      PROVE  Goal
  <2>1. ses' = [ses EXCEPT ![s] = [ses[s] EXCEPT !.pc = pc]]
    BY <1>7 DEF Goto
  <2>2. [ses[s] EXCEPT !.pc = pc].pc = pc
    BY <1>1 DEF SessionType
  <2> HIDE DEF Goal
  <2> QED
    BY <1>3, <1>7, <2>1, <2>2
<1>8. ASSUME NEW s \in Sessions,
             \/ SmokeGmail(s) \/ SmokeCalendar(s) \/ EndPass(s)
             \/ AnswerCheck(s) \/ PersistSetup(s) \/ ClearAuth(s) \/ Crash(s)
      PROVE  Goal
  <2> HIDE DEF Goal
  <2> QED
    BY <1>6, <1>7, <1>8 DEF SmokeGmail, SmokeCalendar, SmokeRefused, EndPass,
         AnswerCheck, PersistSetup, ClearAuth, Crash
<1>9. ASSUME NEW s \in Sessions,
             \/ AcquireLease(s) \/ LoadCredential(s) \/ ReadGmail(s)
             \/ ReadCalendar(s) \/ ReleaseLease(s) \/ ReportSkip(s)
             \/ ReserveDelivery(s)
      PROVE  Goal
  <2> DEFINE Calm == {"load", "report", "gmail", "release", "refused", "calendar",
                      "evaluate", "reserve_delivery", "health"}
  <2>1. ASSUME NEW x, ses' = [ses EXCEPT ![s] = x], x.pc \in Calm
        PROVE  Goal
    BY <1>3, <2>1
  <2> HIDE DEF Goal, Calm
  <2>3. CASE AcquireLease(s)
    <3>1.
            \/ ses' = [ses EXCEPT ![s] = [ses[s] EXCEPT !.pc = "load", !.left = PollInterval]]
            \/ ses' = [ses EXCEPT ![s] = [ses[s] EXCEPT !.pc = "report", !.note = "guided"]]
      BY <2>3 DEF AcquireLease
    <3>2. /\ [ses[s] EXCEPT !.pc = "load", !.left = PollInterval].pc \in Calm
          /\ [ses[s] EXCEPT !.pc = "report", !.note = "guided"].pc \in Calm
      BY <1>1 DEF SessionType, Calm
    <3> QED
      BY <2>1, <3>1, <3>2
  <2>4. CASE LoadCredential(s)
    <3>1. PICK why :
            \/ ses' = [ses EXCEPT ![s] = [ses[s] EXCEPT !.pc = "gmail", !.grant = grant]]
            \/ ses' = [ses EXCEPT ![s] = [ses[s] EXCEPT !.note = why, !.pc = "release"]]
            \/ ses' = [ses EXCEPT ![s] = [ses[s] EXCEPT !.note = why, !.pc = "report"]]
      BY <2>4 DEF LoadCredential, Unread, Leaves
    <3>2. /\ [ses[s] EXCEPT !.pc = "gmail", !.grant = grant].pc \in Calm
          /\ [ses[s] EXCEPT !.note = why, !.pc = "release"].pc \in Calm
          /\ [ses[s] EXCEPT !.note = why, !.pc = "report"].pc \in Calm
      BY <1>1 DEF SessionType, Calm
    <3> QED
      BY <2>1, <3>1, <3>2
  <2>5. CASE ReadGmail(s)
    <3>1. PICK gen, got :
            \/ ses' = [ses EXCEPT ![s] = [ses[s] EXCEPT !.pc = "refused", !.gen = gen, !.got = got]]
            \/ ses' = [ses EXCEPT ![s] = [ses[s] EXCEPT !.pc = "calendar", !.gen = gen, !.got["gmail"] = got]]
      BY <2>5 DEF ReadGmail, Refused, Answered
    <3>2. /\ [ses[s] EXCEPT !.pc = "refused", !.gen = gen, !.got = got].pc \in Calm
          /\ [ses[s] EXCEPT !.pc = "calendar", !.gen = gen, !.got["gmail"] = got].pc \in Calm
      BY <1>1 DEF SessionType, Calm
    <3> QED
      BY <2>1, <3>1, <3>2
  <2>6. CASE ReadCalendar(s)
    <3>1. PICK gen, got :
            \/ ses' = [ses EXCEPT ![s] = [ses[s] EXCEPT !.pc = "refused", !.gen = gen, !.got = got]]
            \/ ses' = [ses EXCEPT ![s] = [ses[s] EXCEPT !.pc = "release", !.gen = gen, !.got["calendar"] = got]]
            \/ ses' = [ses EXCEPT ![s] = [ses[s] EXCEPT !.pc = "evaluate", !.gen = gen, !.got["calendar"] = got]]
      BY <2>6 DEF ReadCalendar, Refused, Answered, Leaves
    <3>2. /\ [ses[s] EXCEPT !.pc = "refused", !.gen = gen, !.got = got].pc \in Calm
          /\ [ses[s] EXCEPT !.pc = "release", !.gen = gen, !.got["calendar"] = got].pc \in Calm
          /\ [ses[s] EXCEPT !.pc = "evaluate", !.gen = gen, !.got["calendar"] = got].pc \in Calm
      BY <1>1 DEF SessionType, Calm
    <3> QED
      BY <2>1, <3>1, <3>2
  <2>7. CASE ReleaseLease(s)
    <3>1.
            \/ ses' = [ses EXCEPT ![s] = [ses[s] EXCEPT !.left = 0, !.pc = "evaluate"]]
            \/ ses' = [ses EXCEPT ![s] = [ses[s] EXCEPT !.left = 0, !.pc = "report"]]
      BY <2>7 DEF ReleaseLease
    <3>2. /\ [ses[s] EXCEPT !.left = 0, !.pc = "evaluate"].pc \in Calm
          /\ [ses[s] EXCEPT !.left = 0, !.pc = "report"].pc \in Calm
      BY <1>1 DEF SessionType, Calm
    <3> QED
      BY <2>1, <3>1, <3>2
  <2>8. CASE ReportSkip(s)
    <3>1. PICK note :
            \/ ses' = [ses EXCEPT ![s] = [ses[s] EXCEPT !.pc = "reserve_delivery", !.grant = 0, !.note = note]]
      BY <2>8 DEF ReportSkip
    <3>2. /\ [ses[s] EXCEPT !.pc = "reserve_delivery", !.grant = 0, !.note = note].pc \in Calm
      BY <1>1 DEF SessionType, Calm
    <3> QED
      BY <2>1, <3>1, <3>2
  <2>9. CASE ReserveDelivery(s)
    <3>1.
            \/ ses' = [ses EXCEPT ![s] = [ses[s] EXCEPT !.pc = "health", !.empty = (pending = {})]]
      BY <2>9 DEF ReserveDelivery
    <3>2. /\ [ses[s] EXCEPT !.pc = "health", !.empty = (pending = {})].pc \in Calm
      BY <1>1 DEF SessionType, Calm
    <3> QED
      BY <2>1, <3>1, <3>2
  <2> QED
    BY <1>9, <2>3, <2>4, <2>5, <2>6, <2>7, <2>8, <2>9
<1>10. ASSUME NEW s \in Sessions, Deleted(s) PROVE Goal
  <2>1. PICK x : /\ ses' = [ses EXCEPT ![s] = x]
                 /\ \/ x = Idle
                    \/ \E pc \in {"clear", "release", "evaluate"} :
                          x = [ses[s] EXCEPT !.checked = 0, !.pc = pc]
    <3>1. CASE ses[s].job = "smoke"
      BY <1>10, <3>1 DEF Deleted
    <3>2. CASE ses[s].job # "smoke"
      BY <1>10, <3>2 DEF Deleted, Leaves
    <3> QED
      BY <3>1, <3>2
  <2>2. x.pc \notin {"tombstone", "erase"}
    BY <1>1, <1>2, <2>1 DEF SessionType
  <2> QED
    BY <1>3, <2>1, <2>2
<1>11. ASSUME NEW s \in Sessions,
              CompareVersion(s) \/ WriteTombstone(s) \/ EraseCopies(s)
       PROVE  Goal
  <2>1. CASE Deleted(s)
    BY <1>10, <2>1
  <2>2. CASE WriteTombstone(s) /\ grant' = 0
    BY <2>2
  <2>3. CASE /\ ses' = [ses EXCEPT ![s] = [ses[s] EXCEPT !.pc = "tombstone",
                                                         !.checked = saves]]
             /\ grant' = grant /\ grant \in {0, ses[s].grant}
    <3>1. CASE t = s
      BY <1>1, <2>3, <3>1 DEF SessionType, SessionsOK
    <3>2. CASE t # s
      BY <2>3, <3>2 DEF Alike, SessionsOK
    <3> QED
      BY <3>1, <3>2
  <2> QED
    BY <1>11, <2>1, <2>2, <2>3 DEF CompareVersion, WriteTombstone, EraseCopies
<1>12. ASSUME NEW s \in Sessions, ApplyGmail(s) \/ ApplyCalendar(s)
       PROVE  Goal
  <2>1. PICK src \in Sources, pc \in {"evaluate_calendar", "report"} :
          Apply(s, src, pc)
    BY <1>12 DEF ApplyGmail, ApplyCalendar, Sources
  <2>2. CASE t = s
    <3>1. ses'[s] = [ses[s] EXCEPT !.pc = pc, !.gen[src] = 0, !.got[src] = "unread"]
      BY <2>1 DEF Apply
    <3> QED
      BY <1>1, <2>2, <3>1 DEF SessionType
  <2>3. CASE t # s
    <3>1. \E g : ses'[t] = [ses[t] EXCEPT !.gen[src] = g]
      BY <2>1, <2>3 DEF Apply
    <3> QED
      BY <1>1, <3>1 DEF Alike, SessionType
  <2> QED
    BY <2>2, <2>3
<1>13. ASSUME Tick PROVE Goal
  <2>1. \E left, aged : ses'[t] = [ses[t] EXCEPT !.left = left, !.aged = aged]
    BY <1>13 DEF Tick
  <2> QED
    BY <1>1, <2>1 DEF Alike, SessionType
<1>14. ASSUME \/ \E g \in 1 .. MaxGrants : Revoke(g)
              \/ \E src \in Sources : Settle(src)
              \/ Unwatch
              \/ UNCHANGED vars
       PROVE  Goal
  BY <1>14 DEF Revoke, Settle, Unwatch, vars, Alike
<1> HIDE DEF Goal
<1>15. Goal
  BY <1>4, <1>5, <1>8, <1>9, <1>11, <1>12, <1>13, <1>14, Zenon DEF Next, Proceed
<1> QED
  BY <1>15 DEF Goal

(* Every grant that setup had stored when a deletion compared versions     *)
(* survives it, unless it is the refused one.                              *)
THEOREM NewGrantSpared == Spec => RefusalSparesNewGrant
<1>1. Init => FenceInv
  BY DEF Init, FenceInv, Fenced, Idle
<1>2. TypeOK /\ SessionsOK /\ FenceInv /\ [Next]_vars => FenceInv'
  <2> SUFFICES ASSUME TypeOK, SessionsOK, FenceInv, [Next]_vars,
                      NEW t \in Sessions
               PROVE  Fenced(ses'[t], grant')
    BY DEF FenceInv
  <2>1. Fenced(ses[t], grant) /\ ses[t].checked \in 0 .. saves /\ saves \in Nat
    BY BoundAssumption DEF FenceInv, TypeOK
  <2>2. CASE Alike(ses'[t], ses[t])
    <3>1. grant' \in {grant, 0} \/ grant' = saves + 1
      BY GrantWriters DEF GrantKept, GrantDropped, GrantStored
    <3> QED
      BY <2>1, <2>2, <3>1 DEF Alike, Fenced
  <2>3. SessionsOK'
    BY SessionStep
  <2> QED
    BY <2>2, <2>3, DeletionSteps DEF Fenced
<1>3. TypeOK /\ SessionsOK /\ FenceInv /\ [Next]_vars =>
        [\A s \in Sessions :
            grant' # grant /\ ses'[s] # ses[s]
                /\ ses[s].job \in {"check", "watch", "smoke"}
              => /\ ses[s].pc \in {"tombstone", "erase"}
                 /\ grant = ses[s].grant \/ grant > ses[s].checked]_vars
  <2> SUFFICES ASSUME TypeOK, SessionsOK, FenceInv, [Next]_vars, NEW s \in Sessions,
                      grant' # grant, ses'[s] # ses[s],
                      ses[s].job \in {"check", "watch", "smoke"}
               PROVE  /\ ses[s].pc \in {"tombstone", "erase"}
                      /\ grant = ses[s].grant \/ grant > ses[s].checked
    OBVIOUS
  <2>1. ses[s].pc \in {"tombstone", "erase"} /\ grant' = 0
    BY GrantWriters DEF GrantKept, GrantDropped, GrantStored
  <2> QED
    BY <2>1 DEF FenceInv, Fenced
<1> QED
  BY <1>1, <1>2, <1>3, SourceTypes, PTL DEF Spec, RefusalSparesNewGrant

(* Only setup and disconnect end the need for a new authorization.         *)
THEOREM SetupReauthorizes == Spec => ReauthorizedBySetup
<1>1. TypeOK /\ SessionsOK /\ [Next]_vars =>
        [\A src \in Sources :
            sync[src].auth = "needs_reauth" /\ sync'[src].auth # "needs_reauth"
              => \E s \in Sessions : ses[s].job \in {"setup", "disconnect"}]_vars
  <2> SUFFICES ASSUME TypeOK, SessionsOK, [Next]_vars, NEW src \in Sources,
                      sync[src].auth = "needs_reauth", ~Commanded
               PROVE  sync'[src].auth = "needs_reauth"
    BY DEF Commanded
  <2>1. sync \in [Sources -> RowType]
    BY DEF TypeOK, RowType
  <2>2. CASE RowsKept
    BY <2>2 DEF RowsKept
  <2>3. CASE Tick
    BY <2>1, <2>3 DEF Tick, RowType
  <2>4. CASE Recorded
    <3>1. ASSUME NEW other \in Sources, NEW a \in Answers, RecordAnswer(other, a)
          PROVE  sync'[src].auth = "needs_reauth"
      BY <2>1, <3>1, RecordedAnswer DEF InsertedAuth
    <3>2. CASE RecordRefusal
      BY <2>1, <3>2, WrittenAuth DEF RecordRefusal
    <3> QED
      BY <2>4, <3>1, <3>2 DEF Recorded
  <2> QED
    BY <2>2, <2>3, <2>4, RowWriters
<1> QED
  BY <1>1, SourceTypes, PTL DEF Spec, ReauthorizedBySetup

(* The two sources share one authorization, except where a read before the *)
(* end of setup created only one of the rows.                              *)
THEOREM OneAuthorization == Spec => []SharedAuthorization
<1> DEFINE a == sync["gmail"].auth
           b == sync["calendar"].auth
           Agree == a = b \/ {a, b} = {"absent", "configured"}
<1>1. Agree <=> SharedAuthorization
  <2>1. {sync[src].auth : src \in Sources} = {a, b}
    BY DEF Sources
  <2> HIDE DEF a, b
  <2>2. Cardinality({a, b}) = 1 <=> a = b
    <3>1. IsFiniteSet({a, b})
      <4>1. IsFiniteSet({a}) /\ {a, b} = {a} \cup {b}
        BY FS_Singleton
      <4> QED
        BY <4>1, FS_AddElement
    <3>2. Cardinality({a, b}) = 1 <=> \E x : {a, b} = {x}
      BY <3>1, FS_Singleton, Zenon
    <3>3. (\E x : {a, b} = {x}) <=> a = b
      OBVIOUS
    <3> QED
      BY <3>2, <3>3
  <2> QED
    BY <2>1, <2>2 DEF SharedAuthorization
<1>2. Init => Agree
  BY DEF Init, Sources
<1>3. TypeOK /\ SessionsOK /\ Agree /\ [Next]_vars => Agree'
  <2> SUFFICES ASSUME TypeOK, SessionsOK, Agree, [Next]_vars PROVE Agree'
    OBVIOUS
  <2>1. /\ sync \in [Sources -> RowType]
        /\ "gmail" \in Sources /\ "calendar" \in Sources
    BY DEF TypeOK, RowType, Sources
  <2>2. CASE RowsKept
    BY <2>2 DEF RowsKept
  <2>3. CASE Tick
    BY <2>1, <2>3 DEF Tick, RowType
  <2>4. CASE Commanded
    BY <2>1, <2>4, WrittenAuth DEF Commanded
  <2>5. CASE RecordRefusal
    BY <2>1, <2>5, WrittenAuth DEF RecordRefusal
  <2>6. ASSUME NEW src \in Sources, NEW x \in Answers, RecordAnswer(src, x)
        PROVE  Agree'
    <3>1. /\ sync'[src].auth = InsertedAuth(sync[src])
          /\ \A other \in Sources \ {src} : sync'[other] = sync[other]
      BY <2>1, <2>6, RecordedAnswer
    <3>2. CASE src = "gmail"
      BY <2>1, <3>1, <3>2 DEF InsertedAuth
    <3>3. CASE src = "calendar"
      BY <2>1, <3>1, <3>3 DEF InsertedAuth
    <3> QED
      BY <3>2, <3>3 DEF Sources
  <2> QED
    BY <2>2, <2>3, <2>4, <2>5, <2>6, RowWriters DEF Recorded
<1> HIDE DEF Agree
<1> QED
  BY <1>1, <1>2, <1>3, SourceTypes, PTL DEF Spec

-----------------------------------------------------------------------------
(* What is reported about the reads.                                       *)

(* The inductive form of ReadReportTruthful: a row is without an error and *)
(* with a success exactly when the last recorded read was complete, and    *)
(* the diagnostics follow the row of Gmail while it has no error.          *)
RowInv ==
    /\ sound \in [Sources -> BOOLEAN]
    /\ \A src \in Sources :
          sound[src] <=> sync[src].error = "none" /\ sync[src].success # Never
    /\ sync["gmail"].error = "none" =>
          diag = IF sync["gmail"].success = Never THEN "none" ELSE "healthy"

(* Every step keeps the rows, the diagnostics and the history together.    *)
LEMMA RowInvariant == Spec => []RowInv
<1>1. Init => RowInv
  BY DEF Init, RowInv, Unconfigured, Sources
<1>2. TypeOK /\ SessionsOK /\ RowInv /\ [Next]_vars => RowInv'
  <2> SUFFICES ASSUME TypeOK, SessionsOK, RowInv, [Next]_vars PROVE RowInv'
    OBVIOUS
  <2>1. /\ sync \in [Sources -> RowType]
        /\ "gmail" \in Sources /\ "calendar" \in Sources
        /\ Never \notin Nat /\ 0 # Never
    BY DEF TypeOK, RowType, Sources, Never
  <2>2. CASE RowsKept
    BY <2>2 DEF RowsKept, RowInv
  <2>3. CASE Tick
    <3>1. ASSUME NEW src \in Sources
          PROVE  /\ sync'[src].error = sync[src].error
                 /\ (sync'[src].success = Never) <=> (sync[src].success = Never)
      <4>1. sync[src] \in RowType
        BY <2>1
      <4>2. /\ sync'[src].error = sync[src].error
            /\ sync'[src].success = Older(sync[src].success, StaleAfter)
        BY <2>3, <4>1 DEF Tick, RowType
      <4> QED
        BY <4>1, <4>2, IntervalAssumption DEF Older, RowType, Never
    <3>2. UNCHANGED <<diag, sound>>
      BY <2>3 DEF Tick
    <3> QED
      BY <2>1, <3>1, <3>2 DEF RowInv
  <2>4. CASE Commanded
    <3>1. \A src \in Sources : /\ sync'[src].error = sync[src].error
                               /\ sync'[src].success = sync[src].success
      BY <2>1, <2>4, WrittenAuth DEF Commanded
    <3> QED
      BY <2>1, <2>4, <3>1 DEF Commanded, RowInv
  <2>5. CASE RecordRefusal
    <3>1. \A src \in Sources : sync'[src].error = "invalid_grant"
      BY <2>1, <2>5, WrittenAuth DEF RecordRefusal
    <3> QED
      BY <2>1, <2>5, <3>1 DEF RecordRefusal, RowInv
  <2>6. ASSUME NEW src \in Sources, NEW a \in Answers, RecordAnswer(src, a),
               RecordDiagnostics(src, a)
        PROVE  RowInv'
    <3>1. /\ \A other \in Sources \ {src} : sync'[other] = sync[other]
          /\ a \in {"clear", "found"} =>
               sync'[src].error = "none" /\ sync'[src].success = 0
          /\ a \notin {"clear", "found"} => sync'[src].error # "none"
      BY <2>1, <2>6, RecordedAnswer
    <3>2. /\ sound' \in [Sources -> BOOLEAN]
          /\ sound'[src] <=> a \in {"clear", "found"}
          /\ \A other \in Sources \ {src} : sound'[other] = sound[other]
      <4> DEFINE good == a \in {"clear", "found"}
      <4>1. sound' = [sound EXCEPT ![src] = good] /\ good \in BOOLEAN
        BY <2>6 DEF RecordAnswer
      <4>2. sound \in [Sources -> BOOLEAN]
        BY DEF RowInv
      <4>3. sound'[src] <=> good
        BY <4>1, <4>2, Zenon
      <4> HIDE DEF good
      <4>4. /\ sound' \in [Sources -> BOOLEAN]
            /\ \A other \in Sources \ {src} : sound'[other] = sound[other]
        BY <4>1, <4>2
      <4> QED
        BY <4>3, <4>4 DEF good
    <3>3. a \in {"clear", "found"} => Diagnosis(a) = "healthy"
      BY DEF Diagnosis
    <3>4. ASSUME NEW other \in Sources
          PROVE  sound'[other] <=> /\ sync'[other].error = "none"
                                   /\ sync'[other].success # Never
      <4>1. CASE other = src
        BY <2>1, <3>1, <3>2, <4>1
      <4>2. CASE other # src
        BY <3>1, <3>2, <4>2 DEF RowInv
      <4> QED
        BY <4>1, <4>2
    <3>5. sync'["gmail"].error = "none" =>
            diag' = IF sync'["gmail"].success = Never THEN "none" ELSE "healthy"
      <4>1. CASE src = "gmail"
        BY <2>1, <2>6, <3>1, <3>3, <4>1 DEF RecordDiagnostics
      <4>2. CASE src # "gmail"
        BY <2>1, <2>6, <3>1, <4>2 DEF RecordDiagnostics, RowInv
      <4> QED
        BY <4>1, <4>2
    <3> QED
      BY <3>2, <3>4, <3>5 DEF RowInv
  <2> QED
    BY <2>2, <2>3, <2>4, <2>5, <2>6, RowWriters DEF Recorded
<1> QED
  BY <1>1, <1>2, SourceTypes, PTL DEF Spec

(* proactive_check and get_status report a source as read completely       *)
(* exactly when its last recorded read was complete, whoever recorded it.  *)
THEOREM ReportsTruthful == Spec => []ReadReportTruthful
<1>1. TypeOK /\ RowInv => ReadReportTruthful
  <2> SUFFICES ASSUME TypeOK, RowInv, NEW src \in Sources
               PROVE  (ReadReport(src) = "complete") <=> sound[src]
    BY DEF ReadReportTruthful
  <2>1. /\ sync[src] \in RowType
        /\ sound[src] <=> sync[src].error = "none" /\ sync[src].success # Never
    BY DEF TypeOK, RowType, RowInv
  <2>2. (ReadState(sync[src]) = "complete") <=>
          sync[src].error = "none" /\ sync[src].success # Never
    BY <2>1 DEF ReadState, RowType
  <2>3. CASE src = "calendar" \/ sync[src].error # "none"
    BY <2>1, <2>2, <2>3 DEF ReadReport
  <2>4. CASE src = "gmail" /\ sync[src].error = "none"
    <3>1. CASE sync[src].success = Never
      <4>1. diag = "none"
        BY <2>4, <3>1 DEF RowInv
      <4>2. Freshness(sync[src]) \in {"not_configured", "needs_reauth",
                                      "never_synced"}
        BY <2>1, <2>4, <3>1 DEF Freshness, AuthState, RowType, Auths
      <4>3. DiagnosticReadState(FreshnessDiagnosis(Freshness(sync[src])))
              # "complete"
        BY <4>2 DEF FreshnessDiagnosis, DiagnosticReadState
      <4>4. ReadReport(src) # "complete"
        BY <2>4, <4>1, <4>3 DEF ReadReport
      <4> QED
        BY <2>1, <3>1, <4>4
    <3>2. CASE sync[src].success # Never
      <4>1. diag = "healthy"
        BY <2>4, <3>2 DEF RowInv
      <4>2. ReadReport(src) = "complete"
        BY <2>4, <4>1 DEF ReadReport, DiagnosticReadState
      <4> QED
        BY <2>1, <2>4, <3>2, <4>2
    <3> QED
      BY <3>1, <3>2
  <2> QED
    BY <2>3, <2>4 DEF Sources
<1> QED
  BY <1>1, RowInvariant, SourceTypes, PTL

(* An all-clear rests on a complete last read of both sources.             *)
THEOREM AllClearSound == Spec => []AllClearBacked
<1>1. TypeOK /\ RowInv => AllClearBacked
  <2> SUFFICES ASSUME TypeOK, RowInv, NEW s \in Sessions, AllClear(s),
                      NEW src \in Sources
               PROVE  sound[src]
    BY DEF AllClearBacked
  <2>1. sync[src] \in RowType
    BY DEF TypeOK, RowType
  <2>2. Freshness(sync[src]) \in {"ok", "stale"}
    BY DEF AllClear
  <2>3. sync[src].error = "none" /\ sync[src].success # Never
    BY <2>1, <2>2 DEF Freshness, AuthState, RowType, Auths
  <2> QED
    BY <2>3 DEF RowInv
<1> QED
  BY <1>1, RowInvariant, SourceTypes, PTL

=============================================================================
