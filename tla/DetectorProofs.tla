--------------------------- MODULE DetectorProofs ---------------------------
(***************************************************************************)
(* What the detectors promise for any calendar, any mailbox, any number of *)
(* passes and any changes.                                                 *)
(*                                                                         *)
(* Occasions: a group is announced once per year, a due occasion is not    *)
(* lost, and the next date is the first.                                   *)
(*                                                                         *)
(* InboxRead: no limit on pages, threads or bytes resolves a reply that is *)
(* still due, and a pass that reports complete coverage has it stored.     *)
(*                                                                         *)
(* CalendarConflicts: the sweep finds the conflicts and no others, and one *)
(* that still holds is not resolved.                                       *)
(***************************************************************************)
EXTENDS Occasions, InboxRead, CalendarConflicts, FiniteSetTheorems,
        SequenceTheorems, WellFoundedInduction, TLAPS

-----------------------------------------------------------------------------
(* The calendar.                                                           *)

(* Leap years are counted by whole numbers, and no year takes one away.    *)
LEMMA LeapYearsGrow ==
    /\ \A n \in Nat : LeapYearsUpTo(n) \in Int
    /\ \A m, n \in Nat : m <= n => LeapYearsUpTo(m) <= LeapYearsUpTo(n)
<1>1. ASSUME NEW n \in Nat PROVE LeapYearsUpTo(n) \in Int
    BY DEF LeapYearsUpTo
<1>2. ASSUME NEW m \in Nat, NEW n \in Nat, m <= n
      PROVE  LeapYearsUpTo(m) <= LeapYearsUpTo(n)
    BY <1>2 DEF LeapYearsUpTo
<1> QED
    BY <1>1, <1>2

(* A year more is a day more exactly when it is a leap year.               *)
LEMMA LeapYearCounts ==
    \A n \in Nat : LeapYearsUpTo(n + 1) = LeapYearsUpTo(n) + IF IsLeapYear(n + 1) THEN 1 ELSE 0
    BY DEF LeapYearsUpTo, IsLeapYear

(* Multiples of a positive number keep the order.                          *)
LEMMA MultiplesGrow ==
    ASSUME NEW p \in Nat, NEW m \in Nat, NEW n \in Nat, m <= n
    PROVE  m * p <= n * p /\ m * p \in Nat /\ n * p \in Nat
<1>1. PICK k \in Nat : n = m + k
    <2>1. n - m \in Nat /\ n = m + (n - m)
        OBVIOUS
    <2> QED
        BY <2>1
<1>2. k * p \in Nat /\ m * p \in Nat
    OBVIOUS
<1>3. (m + k) * p = m * p + k * p
    OBVIOUS
<1> QED
    BY <1>1, <1>2, <1>3

(* The days before a year: none before the first, and each year adds its   *)
(* own.                                                                    *)
LEMMA DaysBeforeYears ==
    /\ DaysBefore(0) = 0
    /\ \A y \in Nat :
          /\ DaysBefore(y) \in Nat
          /\ y * PlainDays <= DaysBefore(y)
          /\ DaysBefore(y + 1) =
                DaysBefore(y) + PlainDays + IF IsLeapYear(FirstYear + y) THEN 1 ELSE 0
    /\ \A x, y \in Nat : x < y => DaysBefore(x + 1) <= DaysBefore(y)
<1>0. FirstYear \in Nat \ {0} /\ PlainDays \in Nat \ {0}
    BY OccasionAssumption
<1> DEFINE L(n) == LeapYearsUpTo(n)
<1>1. DaysBefore(0) = 0
    <2>1. FirstYear + 0 - 1 = FirstYear - 1 /\ FirstYear - 1 \in Nat /\ 0 * PlainDays = 0
        BY <1>0
    <2>2. L(FirstYear - 1) \in Int
        BY <2>1, LeapYearsGrow
    <2> HIDE DEF L
    <2> QED
        BY <2>1, <2>2 DEF DaysBefore, L
<1>2. ASSUME NEW y \in Nat
      PROVE  /\ DaysBefore(y) \in Nat
             /\ y * PlainDays <= DaysBefore(y)
             /\ DaysBefore(y + 1) =
                   DaysBefore(y) + PlainDays + IF IsLeapYear(FirstYear + y) THEN 1 ELSE 0
    <2>1. /\ FirstYear - 1 \in Nat /\ FirstYear + y - 1 \in Nat
          /\ FirstYear - 1 <= FirstYear + y - 1
          /\ FirstYear + (y + 1) - 1 = (FirstYear + y - 1) + 1
          /\ (FirstYear + y - 1) + 1 = FirstYear + y
        BY <1>0
    <2>2. /\ L(FirstYear - 1) \in Int /\ L(FirstYear + y - 1) \in Int
          /\ L(FirstYear - 1) <= L(FirstYear + y - 1)
        BY <2>1, LeapYearsGrow
    <2>3. L(FirstYear + (y + 1) - 1) =
            L(FirstYear + y - 1) + IF IsLeapYear(FirstYear + y) THEN 1 ELSE 0
        BY <2>1, LeapYearCounts
    <2>4. y * PlainDays \in Nat /\ (y + 1) * PlainDays = y * PlainDays + PlainDays
        BY <1>0
    <2> DEFINE a == y * PlainDays
               b == (y + 1) * PlainDays
    <2>5. /\ DaysBefore(y) = a + L(FirstYear + y - 1) - L(FirstYear - 1)
          /\ DaysBefore(y + 1) = b + L(FirstYear + (y + 1) - 1) - L(FirstYear - 1)
        BY DEF DaysBefore
    <2> HIDE DEF L, a, b
    <2>6. a \in Nat /\ b = a + PlainDays
        BY <2>4 DEF a, b
    <2>7. DaysBefore(y) \in Nat /\ a <= DaysBefore(y)
        BY <2>2, <2>5, <2>6
    <2>8. DaysBefore(y + 1) =
            DaysBefore(y) + PlainDays + IF IsLeapYear(FirstYear + y) THEN 1 ELSE 0
        BY <1>0, <2>2, <2>3, <2>5, <2>6
    <2> QED
        BY <2>7, <2>8 DEF a
<1>3. ASSUME NEW x \in Nat, NEW y \in Nat, x < y PROVE DaysBefore(x + 1) <= DaysBefore(y)
    <2>1. /\ FirstYear + (x + 1) - 1 \in Nat /\ FirstYear + y - 1 \in Nat
          /\ FirstYear + (x + 1) - 1 <= FirstYear + y - 1 /\ FirstYear - 1 \in Nat
          /\ x + 1 \in Nat /\ x + 1 <= y
        BY <1>0, <1>3
    <2>2. /\ L(FirstYear - 1) \in Int /\ L(FirstYear + y - 1) \in Int
          /\ L(FirstYear + (x + 1) - 1) \in Int
          /\ L(FirstYear + (x + 1) - 1) <= L(FirstYear + y - 1)
        BY <2>1, LeapYearsGrow
    <2> DEFINE a == (x + 1) * PlainDays
               b == y * PlainDays
    <2>3. a <= b /\ a \in Nat /\ b \in Nat
        BY <1>0, <2>1, MultiplesGrow
    <2>4. /\ DaysBefore(x + 1) = a + L(FirstYear + (x + 1) - 1) - L(FirstYear - 1)
          /\ DaysBefore(y) = b + L(FirstYear + y - 1) - L(FirstYear - 1)
        BY DEF DaysBefore
    <2> HIDE DEF L, a, b
    <2> QED
        BY <2>2, <2>3, <2>4
<1> QED
    BY <1>1, <1>2, <1>3

(* A finite set of numbers has its minimum: what Min returns.              *)
LEMMA MinOfFinite ==
    ASSUME NEW S \in SUBSET Int, IsFiniteSet(S), S # {}
    PROVE  Min(S) \in S /\ \A y \in S : Min(S) <= y
<1> DEFINE Until(x) == {y \in S : y <= x}
           R == StrictSubsetOrdering(S)
           T == {Until(x) : x \in S}
<1>1. IsWellFoundedOn(R, FiniteSubsetsOf(S))
    BY FS_StrictSubsetOrderingWellFounded
<1>2. T \subseteq FiniteSubsetsOf(S) /\ T # {}
    <2>1. \A x \in S : IsFiniteSet(Until(x)) /\ Until(x) \subseteq S
        BY FS_Subset
    <2> QED
        BY <2>1 DEF FiniteSubsetsOf
<1>3. PICK u \in T : \A v \in T : ~(<<v, u>> \in R)
    <2> HIDE DEF T, R
    <2> QED
        BY <1>1, <1>2, WFMin
<1>4. PICK x \in S : u = Until(x)
    OBVIOUS
<1>5. ASSUME NEW y \in S, y < x PROVE FALSE
    <2>1. /\ Until(x) = {z \in S : z <= x} /\ Until(y) = {z \in S : z <= y}
          /\ Until(y) \in T
        OBVIOUS
    <2> HIDE DEF Until, T, R
    <2>2. x <= x /\ ~(x <= y) /\ \A z \in S : z <= y => z <= x
        BY <1>5
    <2>3. Until(y) \subseteq Until(x) /\ x \in Until(x) /\ x \notin Until(y)
        BY <2>1, <2>2, Zenon
    <2>4. Until(y) \subseteq S /\ Until(x) \subseteq S
        BY <2>1
    <2>5. <<Until(y), u>> \in R
        BY <1>4, <2>3, <2>4 DEF R, StrictSubsetOrdering
    <2> QED
        BY <1>3, <2>1, <2>5
<1>6. \A y \in S : x <= y
    BY <1>5
<1> QED
    BY <1>6 DEF Min

(* The last of the years ahead, and what the years ahead reach: a day of   *)
(* the behaviour, its next occurrence and the day after that.              *)
LastYear == (MaxDay \div PlainDays) + 2

LEMMA YearsAheadReach ==
    /\ LastYear \in Nat /\ LastYear >= 2 /\ YearsAhead = 0 .. LastYear
    /\ MaxDay < DaysBefore(LastYear - 1)
<1>0. PlainDays \in Nat /\ PlainDays > 0 /\ MaxDay \in Nat
    BY OccasionAssumption
<1> DEFINE q == MaxDay \div PlainDays
<1>1. q \in Nat /\ MaxDay < PlainDays * (q + 1)
    BY <1>0
<1> HIDE DEF q
<1>2. LastYear = q + 2 /\ LastYear - 1 = q + 1
    BY <1>1 DEF LastYear, q
<1>3. YearsAhead = 0 .. LastYear
    BY DEF YearsAhead, LastYear
<1>4. (q + 1) * PlainDays <= DaysBefore(q + 1) /\ DaysBefore(q + 1) \in Nat
    BY <1>1, DaysBeforeYears
<1>5. PlainDays * (q + 1) = (q + 1) * PlainDays /\ (q + 1) * PlainDays \in Nat
    BY <1>0, <1>1
<1> DEFINE a == (q + 1) * PlainDays
<1>6. MaxDay < a /\ a <= DaysBefore(q + 1) /\ a \in Nat
    BY <1>1, <1>4, <1>5
<1> HIDE DEF a
<1>7. MaxDay < DaysBefore(LastYear - 1)
    BY <1>0, <1>2, <1>4, <1>6
<1> QED
    BY <1>1, <1>2, <1>3, <1>7

(* Every day in reach belongs to one year.                                 *)
LEMMA YearOfDay ==
    /\ \A day \in Nat : 0 < day /\ day <= DaysBefore(LastYear + 1) =>
          /\ YearOf(day) \in 0 .. LastYear
          /\ DaysBefore(YearOf(day)) < day /\ day <= DaysBefore(YearOf(day) + 1)
    /\ \A day \in Nat, y \in 0 .. LastYear :
          DaysBefore(y) < day /\ day <= DaysBefore(y + 1) => YearOf(day) = y
<1>0. LastYear \in Nat /\ YearsAhead = 0 .. LastYear
    BY YearsAheadReach
<1>1. ASSUME NEW day \in Nat, 0 < day, day <= DaysBefore(LastYear + 1)
      PROVE  \E y \in 0 .. LastYear : DaysBefore(y) < day /\ day <= DaysBefore(y + 1)
    <2> DEFINE S == {y \in 0 .. LastYear : day <= DaysBefore(y + 1)}
    <2>1. LastYear \in S /\ S \subseteq 0 .. LastYear /\ S \in SUBSET Int
        BY <1>0, <1>1
    <2>2. IsFiniteSet(S)
        <3>1. IsFiniteSet(0 .. LastYear)
            BY <1>0, FS_Interval
        <3> HIDE DEF S
        <3> QED
            BY <2>1, <3>1, FS_Subset
    <2>3. \A y \in 0 .. LastYear : y \in S <=> day <= DaysBefore(y + 1)
        OBVIOUS
    <2> HIDE DEF S
    <2>4. PICK y \in S : \A z \in S : y <= z
        BY <2>1, <2>2, MinOfFinite
    <2>5. y \in 0 .. LastYear /\ day <= DaysBefore(y + 1)
        BY <2>1, <2>3, <2>4
    <2>6. DaysBefore(y) < day
        <3>1. CASE y = 0
            BY <1>1, <3>1, DaysBeforeYears
        <3>2. CASE y # 0
            <4>1. y - 1 \in 0 .. LastYear /\ y - 1 \notin S /\ (y - 1) + 1 = y
                BY <1>0, <2>4, <2>5, <3>2
            <4>2. ~(day <= DaysBefore(y))
                BY <2>3, <4>1
            <4> QED
                BY <1>0, <2>5, <4>2, DaysBeforeYears
        <3> QED
            BY <3>1, <3>2
    <2> QED
        BY <2>5, <2>6
<1>2. ASSUME NEW day \in Nat, NEW x \in 0 .. LastYear, NEW y \in 0 .. LastYear, x < y,
             DaysBefore(x) < day, day <= DaysBefore(x + 1), DaysBefore(y) < day
      PROVE  FALSE
    <2>1. x \in Nat /\ y \in Nat /\ x + 1 \in Nat
        BY <1>0
    <2>2. DaysBefore(x + 1) <= DaysBefore(y) /\ DaysBefore(x + 1) \in Nat /\ DaysBefore(y) \in Nat
        BY <1>2, <2>1, DaysBeforeYears
    <2> QED
        BY <1>2, <2>2
<1>3. ASSUME NEW day \in Nat, NEW x \in 0 .. LastYear, NEW y \in 0 .. LastYear,
             DaysBefore(x) < day, day <= DaysBefore(x + 1),
             DaysBefore(y) < day, day <= DaysBefore(y + 1)
      PROVE  x = y
    <2>1. x < y \/ y < x \/ x = y
        BY <1>0
    <2> QED
        BY <1>2, <1>3, <2>1
<1>4. \A day : YearOf(day) =
        CHOOSE y \in 0 .. LastYear : DaysBefore(y) < day /\ day <= DaysBefore(y + 1)
    BY <1>0 DEF YearOf
<1>5. ASSUME NEW day \in Nat,
             \E y \in 0 .. LastYear : DaysBefore(y) < day /\ day <= DaysBefore(y + 1)
      PROVE  /\ YearOf(day) \in 0 .. LastYear
             /\ DaysBefore(YearOf(day)) < day /\ day <= DaysBefore(YearOf(day) + 1)
    BY <1>4, <1>5
<1> QED
    BY <1>1, <1>3, <1>5

(* The places of a year.                                                   *)
Places == 1 .. PlainDays + 1

(* Each place has its day in each year.                                    *)
LEMMA OccurrenceWithinYear ==
    ASSUME NEW y \in Nat, NEW place \in Places
    PROVE  /\ OccurrenceInYear(y, place) \in Nat
           /\ DaysBefore(y) < OccurrenceInYear(y, place)
           /\ OccurrenceInYear(y, place) <= DaysBefore(y + 1)
<1>1. PlainDays \in Nat \ {0} /\ LeapDay \in 2 .. PlainDays
    BY OccasionAssumption
<1>2. /\ DaysBefore(y) \in Nat
      /\ DaysBefore(y + 1) =
            DaysBefore(y) + PlainDays + IF IsLeapYear(FirstYear + y) THEN 1 ELSE 0
    BY DaysBeforeYears
<1> QED
    BY <1>1, <1>2 DEF OccurrenceInYear, Places

(* A day of the year y with its number in the year.                        *)
LEMMA DayInYear ==
    ASSUME NEW y \in 0 .. LastYear, NEW day \in Nat,
           DaysBefore(y) < day, day <= DaysBefore(y + 1)
    PROVE  /\ YearOf(day) = y
           /\ PlaceOf(day) = LET nth == day - DaysBefore(y)
                             IN  IF nth < LeapDay \/ IsLeapYear(FirstYear + y)
                                 THEN nth ELSE nth + 1
<1>1. YearOf(day) = y
    BY YearOfDay
<1> QED
    BY <1>1 DEF PlaceOf

(* The day that OccurrenceInYear computes is the anniversary of its year,  *)
(* and the year has no other.                                              *)
LEMMA OneAnniversaryAYear ==
    ASSUME NEW y \in 0 .. LastYear, NEW place \in Places, NEW day \in Nat,
           DaysBefore(y) < day, day <= DaysBefore(y + 1)
    PROVE  IsAnniversary(day, place) <=> day = OccurrenceInYear(y, place)
<1> DEFINE nth == day - DaysBefore(y)
           leap == IsLeapYear(FirstYear + y)
<1>0. /\ PlainDays \in Nat \ {0} /\ LeapDay \in 2 .. PlainDays /\ y \in Nat
      /\ LastYear \in Nat
    BY OccasionAssumption, YearsAheadReach
<1>1. /\ DaysBefore(y) \in Nat
      /\ DaysBefore(y + 1) = DaysBefore(y) + PlainDays + IF leap THEN 1 ELSE 0
    BY <1>0, DaysBeforeYears
<1>2. PlaceOf(day) = IF nth < LeapDay \/ leap THEN nth ELSE nth + 1
    BY DayInYear
<1>3. day < DaysBefore(y + 1) =>
        PlaceOf(day + 1) = IF nth + 1 < LeapDay \/ leap THEN nth + 1 ELSE nth + 2
    <2> SUFFICES ASSUME day < DaysBefore(y + 1)
                 PROVE  PlaceOf(day + 1) =
                            IF nth + 1 < LeapDay \/ leap THEN nth + 1 ELSE nth + 2
        OBVIOUS
    <2>0. y + 1 \in Nat /\ DaysBefore(y) \in Nat /\ DaysBefore(y + 1) \in Nat
        BY <1>0, DaysBeforeYears
    <2>1. day + 1 \in Nat /\ DaysBefore(y) < day + 1 /\ day + 1 <= DaysBefore(y + 1)
        BY <2>0
    <2>2. PlaceOf(day + 1) =
            LET n == (day + 1) - DaysBefore(y) IN IF n < LeapDay \/ leap THEN n ELSE n + 1
        BY <2>1, DayInYear
    <2>3. (day + 1) - DaysBefore(y) = nth + 1 /\ (nth + 1) + 1 = nth + 2
        BY <1>1
    <2> QED
        BY <2>2, <2>3
<1>4. OccurrenceInYear(y, place) =
        DaysBefore(y) + IF leap \/ place < LeapDay THEN place ELSE place - 1
    BY DEF OccurrenceInYear
<1>5. IsAnniversary(day, place) <=>
        \/ PlaceOf(day) = place
        \/ place = LeapDay /\ PlaceOf(day) = place - 1 /\ PlaceOf(day + 1) # place
    BY DEF IsAnniversary
<1>6. nth \in Nat \ {0} /\ day = DaysBefore(y) + nth /\ place \in Nat /\ LeapDay \in Nat
    BY <1>0, <1>1 DEF Places
<1> HIDE DEF nth
<1>7. CASE leap
    <2>1. PlaceOf(day) = nth
        BY <1>2, <1>7
    <2>2. OccurrenceInYear(y, place) = DaysBefore(y) + place
        BY <1>4, <1>7
    <2>3. place = LeapDay /\ nth = place - 1 => PlaceOf(day + 1) = place
        BY <1>0, <1>1, <1>3, <1>6, <1>7
    <2> QED
        BY <1>1, <1>5, <1>6, <2>1, <2>2, <2>3
<1>8. CASE ~leap /\ nth < LeapDay
    <2>1. PlaceOf(day) = nth
        BY <1>2, <1>8
    <2>2. OccurrenceInYear(y, place) =
            DaysBefore(y) + IF place < LeapDay THEN place ELSE place - 1
        BY <1>4, <1>8
    <2>3. place = LeapDay /\ nth = place - 1 => PlaceOf(day + 1) # place
        BY <1>0, <1>1, <1>3, <1>6, <1>8
    <2> QED
        BY <1>0, <1>1, <1>5, <1>6, <1>8, <2>1, <2>2, <2>3
<1>9. CASE ~leap /\ ~(nth < LeapDay)
    <2>1. PlaceOf(day) = nth + 1
        BY <1>2, <1>9
    <2>2. OccurrenceInYear(y, place) =
            DaysBefore(y) + IF place < LeapDay THEN place ELSE place - 1
        BY <1>4, <1>9
    <2> QED
        BY <1>0, <1>1, <1>5, <1>6, <1>9, <2>1, <2>2
<1> QED
    BY <1>7, <1>8, <1>9

(* The next occurrence: in this year or in the next, and never past.       *)
LEMMA NextOccurrenceWhere ==
    ASSUME NEW day \in 1 .. MaxDay, NEW place \in Places
    PROVE  LET y == YearOf(day)
               next == YearlyOccurrenceOnOrAfter(day, place)
           IN  /\ y \in Nat /\ y + 2 <= LastYear
               /\ DaysBefore(y) < day /\ day <= DaysBefore(y + 1)
               /\ next \in Nat /\ next >= day
               /\ \/ next = OccurrenceInYear(y, place)
                  \/ next = OccurrenceInYear(y + 1, place) /\ OccurrenceInYear(y, place) < day
<1> DEFINE y == YearOf(day)
<1>0. /\ LastYear \in Nat /\ LastYear >= 2 /\ MaxDay < DaysBefore(LastYear - 1)
      /\ day \in Nat /\ 0 < day /\ day <= MaxDay /\ MaxDay \in Nat
    BY YearsAheadReach, OccasionAssumption
<1>1. DaysBefore(LastYear - 1) <= DaysBefore(LastYear + 1)
      /\ DaysBefore(LastYear - 1) \in Nat /\ DaysBefore(LastYear + 1) \in Nat
    <2>1. /\ LastYear - 1 \in Nat /\ LastYear + 1 \in Nat /\ LastYear - 2 \in Nat
          /\ LastYear - 2 < LastYear + 1 /\ (LastYear - 2) + 1 = LastYear - 1
        BY <1>0
    <2> QED
        BY <2>1, DaysBeforeYears
<1>2. day <= DaysBefore(LastYear + 1)
    BY <1>0, <1>1
<1>3. /\ y \in 0 .. LastYear /\ DaysBefore(y) < day /\ day <= DaysBefore(y + 1)
    BY <1>0, <1>2, YearOfDay
<1>4. y \in Nat /\ y + 2 <= LastYear
    <2>1. y \in Nat /\ DaysBefore(y) \in Nat
        BY <1>0, <1>3, DaysBeforeYears
    <2>2. SUFFICES ASSUME LastYear - 2 < y PROVE FALSE
        BY <1>0, <1>3, <2>1
    <2>3. LastYear - 2 \in Nat /\ (LastYear - 2) + 1 = LastYear - 1
        BY <1>0
    <2>4. DaysBefore(LastYear - 1) <= DaysBefore(y)
        BY <2>1, <2>2, <2>3, DaysBeforeYears
    <2> QED
        BY <1>0, <1>1, <1>3, <2>1, <2>4
<1> DEFINE this == OccurrenceInYear(y, place)
           later == OccurrenceInYear(y + 1, place)
<1>5. this \in Nat /\ later \in Nat /\ DaysBefore(y + 1) < later /\ DaysBefore(y + 1) \in Nat
    <2>1. y + 1 \in Nat
        BY <1>4
    <2> QED
        BY <1>4, <2>1, OccurrenceWithinYear, DaysBeforeYears
<1>6. YearlyOccurrenceOnOrAfter(day, place) = IF this >= day THEN this ELSE later
    BY DEF YearlyOccurrenceOnOrAfter
<1> HIDE DEF y, this, later
<1>7. later >= day
    BY <1>0, <1>3, <1>5
<1>8. /\ YearlyOccurrenceOnOrAfter(day, place) \in Nat
      /\ YearlyOccurrenceOnOrAfter(day, place) >= day
      /\ \/ YearlyOccurrenceOnOrAfter(day, place) = this
         \/ YearlyOccurrenceOnOrAfter(day, place) = later /\ this < day
    BY <1>0, <1>5, <1>6, <1>7
<1> QED
    BY <1>3, <1>4, <1>8 DEF y, this, later

(* yearly_occurrence_on_or_after agrees with a count day by day.           *)
LEMMA NextOccurrenceIsFirst ==
    ASSUME today \in 1 .. MaxDay, NEW place \in Places
    PROVE  NextIsFirst(place)
<1> DEFINE y == YearOf(today)
           next == YearlyOccurrenceOnOrAfter(today, place)
<1>0. LastYear \in Nat /\ today \in Nat
    BY YearsAheadReach
<1>1. /\ y \in Nat /\ y + 2 <= LastYear
      /\ DaysBefore(y) < today /\ today <= DaysBefore(y + 1)
      /\ next \in Nat /\ next >= today
      /\ \/ next = OccurrenceInYear(y, place)
         \/ next = OccurrenceInYear(y + 1, place) /\ OccurrenceInYear(y, place) < today
    BY NextOccurrenceWhere
<1> HIDE DEF y, next
<1>2. y \in 0 .. LastYear /\ y + 1 \in 0 .. LastYear /\ y + 1 \in Nat /\ (y + 1) + 1 = y + 2
      /\ y + 2 \in Nat
    BY <1>0, <1>1
<1>3. /\ DaysBefore(y) \in Nat /\ DaysBefore(y + 1) \in Nat /\ DaysBefore(y + 2) \in Nat
    BY <1>1, <1>2, DaysBeforeYears
<1>4. /\ OccurrenceInYear(y, place) \in Nat
      /\ DaysBefore(y) < OccurrenceInYear(y, place)
      /\ OccurrenceInYear(y, place) <= DaysBefore(y + 1)
      /\ OccurrenceInYear(y + 1, place) \in Nat
      /\ DaysBefore(y + 1) < OccurrenceInYear(y + 1, place)
      /\ OccurrenceInYear(y + 1, place) <= DaysBefore(y + 2)
    BY <1>1, <1>2, OccurrenceWithinYear
<1>5. IsAnniversary(next, place)
    <2>1. CASE next = OccurrenceInYear(y, place)
        BY <1>2, <1>4, <2>1, OneAnniversaryAYear
    <2>2. CASE next = OccurrenceInYear(y + 1, place)
        BY <1>2, <1>4, <2>2, OneAnniversaryAYear
    <2> QED
        BY <1>1, <2>1, <2>2
<1>6. ASSUME NEW day \in today .. next - 1, IsAnniversary(day, place) PROVE FALSE
    <2>1. day \in Nat /\ today <= day /\ day < next
        BY <1>0, <1>1
    <2>2. DaysBefore(y) < day /\ day <= DaysBefore(y + 2)
        BY <1>0, <1>1, <1>3, <1>4, <2>1
    <2>3. CASE day <= DaysBefore(y + 1)
        <3>1. day = OccurrenceInYear(y, place)
            BY <1>2, <1>6, <2>1, <2>2, <2>3, OneAnniversaryAYear
        <3> QED
            BY <1>0, <1>1, <1>3, <1>4, <2>1, <2>3, <3>1
    <2>4. CASE DaysBefore(y + 1) < day
        <3>1. day = OccurrenceInYear(y + 1, place)
            BY <1>2, <1>6, <2>1, <2>2, <2>4, OneAnniversaryAYear
        <3> QED
            BY <1>0, <1>1, <1>3, <1>4, <2>1, <2>4, <3>1
    <2> QED
        BY <1>3, <2>1, <2>3, <2>4
<1> QED
    BY <1>1, <1>5, <1>6 DEF NextIsFirst, next

-----------------------------------------------------------------------------
(* Detection.                                                              *)

(* A dedupe key names a group and a year.                                  *)
OccasionKeys == GroupKeys \X {YearOf(date) : date \in Nat}
Batches ==
    {batch \in UNION {[K -> Nat] : K \in SUBSET OccasionKeys} :
        \A key \in DOMAIN batch : key[2] = YearOf(batch[key])}

(* A memory that has a next date has it as a number.                       *)
LEMMA NextOccurrenceNumber ==
    ASSUME NEW m \in DatedMemories, NEW day \in 1 .. MaxDay
    PROVE  NextOccurrence(m, day) \in Nat
<1>1. m \in DatedMemory
    BY OccasionAssumption
<1>2. m.year \in Nat /\ m.place \in Places
    BY <1>1 DEF DatedMemory, Places
<1>3. YearlyOccurrenceOnOrAfter(day, m.place) \in Nat
    BY <1>2, NextOccurrenceWhere
<1>4. OccurrenceInYear(m.year, m.place) \in Nat
    BY <1>2, OccurrenceWithinYear
<1> QED
    BY <1>3, <1>4 DEF NextOccurrence

(* The trigger of a group with an eligible memory is the date of one of    *)
(* them, and none has an earlier one.                                      *)
LEMMA TriggerEarliest ==
    ASSUME active \subseteq DatedMemories, IsFiniteSet(active),
           NEW day \in 1 .. MaxDay, NEW g, Eligible(g, day) # {}
    PROVE  /\ Trigger(g, day) \in Nat
           /\ Trigger(g, day) \in {NextOccurrence(m, day) : m \in Eligible(g, day)}
           /\ \A m \in Eligible(g, day) : Trigger(g, day) <= NextOccurrence(m, day)
<1> DEFINE E == Eligible(g, day)
           S == {NextOccurrence(m, day) : m \in E}
<1>1. E \subseteq active /\ IsFiniteSet(E)
    <2>1. E \subseteq active
        BY DEF Eligible, Dated
    <2> QED
        BY <2>1, FS_Subset
<1> HIDE DEF E
<1>2. S \subseteq Nat /\ S # {}
    BY <1>1, NextOccurrenceNumber DEF E
<1>3. IsFiniteSet(S)
    <2> DEFINE F == [m \in E |-> NextOccurrence(m, day)]
    <2>1. S = {F[m] : m \in E}
        OBVIOUS
    <2>2. F \in Surjection(E, S)
        BY DEF Surjection
    <2> HIDE DEF F, S
    <2> QED
        BY <1>1, <2>2, FS_Surjection
<1> HIDE DEF S
<1>4. S \in SUBSET Int
    BY <1>2
<1>5. Min(S) \in S /\ \A y \in S : Min(S) <= y
    BY <1>2, <1>3, <1>4, MinOfFinite
<1>6. Trigger(g, day) = Min(S)
    BY DEF Trigger, S, E
<1> QED
    BY <1>2, <1>5, <1>6 DEF S, E

(* Every detection has the dedupe key of its group and of the year of its  *)
(* date, and every group with an eligible memory has one.                  *)
LEMMA DetectionsKeyed ==
    ASSUME active \subseteq DatedMemories, IsFiniteSet(active), NEW day \in 1 .. MaxDay
    PROVE  /\ OccasionDetections(day) \in Batches
           /\ \A g \in GroupKeys : Eligible(g, day) # {} =>
                LET key == DedupeKey(g, Trigger(g, day))
                IN  /\ key \in DOMAIN OccasionDetections(day)
                    /\ OccasionDetections(day)[key] = Trigger(g, day)
<1> DEFINE G == {g \in GroupKeys : Eligible(g, day) # {}}
           K == {DedupeKey(g, Trigger(g, day)) : g \in G}
           batch == OccasionDetections(day)
<1>1. batch = [key \in K |-> Trigger(key[1], day)]
    BY DEF OccasionDetections
<1>2. \A g \in G : g \in GroupKeys /\ Trigger(g, day) \in Nat
    BY TriggerEarliest
<1>3. ASSUME NEW g \in G
      PROVE  LET key == DedupeKey(g, Trigger(g, day))
             IN  /\ key \in OccasionKeys /\ key[1] = g /\ key[2] = YearOf(Trigger(g, day))
                 /\ key \in K
    BY <1>2 DEF DedupeKey, OccasionKeys
<1>4. \A g \in GroupKeys : Eligible(g, day) # {} => g \in G
    OBVIOUS
<1>5. \A key \in K : \E g \in G : key = DedupeKey(g, Trigger(g, day))
    OBVIOUS
<1> HIDE DEF G, K, batch
<1>6. \A key \in K : key \in OccasionKeys /\ Trigger(key[1], day) \in Nat
                     /\ key[2] = YearOf(Trigger(key[1], day))
    BY <1>2, <1>3, <1>5
<1>7. batch \in Batches
    <2>1. DOMAIN batch = K /\ batch \in [K -> Nat] /\ K \in SUBSET OccasionKeys
        BY <1>1, <1>6
    <2>2. \A key \in DOMAIN batch : key[2] = YearOf(batch[key])
        BY <1>1, <1>6
    <2> QED
        BY <2>1, <2>2 DEF Batches
<1>8. ASSUME NEW g \in GroupKeys, Eligible(g, day) # {}
      PROVE  LET key == DedupeKey(g, Trigger(g, day))
             IN  key \in DOMAIN batch /\ batch[key] = Trigger(g, day)
    BY <1>1, <1>3, <1>4, <1>8
<1> QED
    BY <1>7, <1>8 DEF batch

-----------------------------------------------------------------------------
(* The board.                                                              *)

OccasionRow == [state : {"pending", "delivered", "expired", "resolved"},
                date : Nat, told : BOOLEAN]
PassRow == [pc : {"idle", "read", "apply"}, day : Nat, batch : Batches]

OccasionTypeOK ==
    /\ today \in 1 .. MaxDay
    /\ active \subseteq DatedMemories /\ IsFiniteSet(active)
    /\ pass \in [Evaluators -> PassRow]
    /\ \A e \in Evaluators : pass[e].pc = "read" => pass[e].day \in 1 .. MaxDay
    /\ DOMAIN board \subseteq OccasionKeys
    /\ board \in [DOMAIN board -> OccasionRow]
    /\ announced \in [GroupKeys -> Seq(Nat)]

(* The group of the key was announced about a date of its year.            *)
AnnouncedIn(key) ==
    \E i \in 1 .. Len(announced[key[1]]) : YearOf(announced[key[1]][i]) = key[2]

(* A row's date is of the year of its key, a row that waits has not been   *)
(* told, and one that was told has its announcement.                       *)
RowOK(key, row) ==
    /\ key[2] = YearOf(row.date)
    /\ row.state = "pending" => ~row.told
    /\ row.told => AnnouncedIn(key)

(* An announcement has a row that remembers it.                            *)
AnnouncementsKept ==
    \A g \in GroupKeys : \A i \in 1 .. Len(announced[g]) :
        LET key == <<g, YearOf(announced[g][i])>>
        IN  key \in DOMAIN board /\ board[key].told

OccasionInd ==
    /\ OccasionTypeOK
    /\ \A key \in DOMAIN board : RowOK(key, board[key])
    /\ AnnouncementsKept
    /\ AnnouncedOncePerYear

(* A pass that is not under way.                                           *)
LEMMA NoPassTyped == NoPass \in PassRow /\ NoPass.pc = "idle"
<1>1. [key \in {} |-> 0] \in [{} -> Nat] /\ {} \in SUBSET OccasionKeys
      /\ DOMAIN [key \in {} |-> 0] = {}
    OBVIOUS
<1>2. [key \in {} |-> 0] \in Batches
    BY <1>1 DEF Batches
<1> QED
    BY <1>2 DEF NoPass, PassRow

(* Nothing remembered, nothing stored.                                     *)
LEMMA OccasionIndInit == OccasionInit => OccasionInd
<1> SUFFICES ASSUME OccasionInit PROVE OccasionInd
    OBVIOUS
<1>1. DOMAIN board = {} /\ board \in [DOMAIN board -> OccasionRow]
    BY DEF OccasionInit
<1>2. <<>> \in Seq(Nat) /\ Len(<<>>) = 0 /\ DOMAIN <<>> = {}
    OBVIOUS
<1>3. announced = [g \in GroupKeys |-> <<>>]
    BY DEF OccasionInit
<1>4. announced \in [GroupKeys -> Seq(Nat)] /\ \A g \in GroupKeys : announced[g] = <<>>
    BY <1>2, <1>3
<1>5. OccasionTypeOK
    <2>1. today \in 1 .. MaxDay
        BY OccasionAssumption DEF OccasionInit
    <2>2. active \subseteq DatedMemories /\ IsFiniteSet(active)
        BY FS_EmptySet DEF OccasionInit
    <2>3. pass \in [Evaluators -> PassRow]
          /\ \A e \in Evaluators : pass[e].pc # "read"
        BY NoPassTyped DEF OccasionInit
    <2> QED
        BY <1>1, <1>4, <2>1, <2>2, <2>3 DEF OccasionTypeOK
<1>6. AnnouncementsKept /\ AnnouncedOncePerYear
    BY <1>2, <1>4 DEF AnnouncementsKept, AnnouncedOncePerYear
<1> QED
    BY <1>1, <1>5, <1>6 DEF OccasionInd

(* Whatever a pass does to the rows, what was told stays told, in a row of *)
(* the same year, so nothing is announced again.                           *)
LEMMA RowsRewritten ==
    ASSUME OccasionInd, UNCHANGED <<today, active, announced>>,
           pass' \in [Evaluators -> PassRow],
           \A e \in Evaluators : pass'[e].pc = "read" => pass'[e].day \in 1 .. MaxDay,
           DOMAIN board' \subseteq OccasionKeys, DOMAIN board \subseteq DOMAIN board',
           board' \in [DOMAIN board' -> OccasionRow],
           \A key \in DOMAIN board' : RowOK(key, board'[key]),
           \A key \in DOMAIN board : board[key].told => board'[key].told
    PROVE  OccasionInd'
<1>0. OccasionTypeOK /\ AnnouncementsKept /\ AnnouncedOncePerYear
    BY DEF OccasionInd
<1>1. OccasionTypeOK'
    BY <1>0 DEF OccasionTypeOK
<1>2. AnnouncementsKept'
    BY <1>0 DEF AnnouncementsKept
<1>3. AnnouncedOncePerYear'
    BY <1>0 DEF AnnouncedOncePerYear
<1>4. \A key \in DOMAIN board' : RowOK(key, board[key])'
    BY DEF RowOK, AnnouncedIn
<1> QED
    BY <1>1, <1>2, <1>3, <1>4 DEF OccasionInd

(* The three steps of a pass.                                              *)
LEMMA PassSteps ==
    ASSUME OccasionInd, NEW e \in Evaluators,
           ExpireOccasions(e) \/ DetectOccasions(e) \/ ApplyOccasions(e)
    PROVE  OccasionInd'
<1>0. /\ OccasionTypeOK /\ \A key \in DOMAIN board : RowOK(key, board[key])
      /\ pass[e] \in PassRow /\ \A key \in DOMAIN board : board[key] \in OccasionRow
    BY DEF OccasionInd, OccasionTypeOK
<1>1. CASE ExpireOccasions(e)
    <2> DEFINE new(key) ==
            IF board[key].state \in {"pending", "delivered"} /\ Over(board[key])
            THEN [board[key] EXCEPT !.state = "expired"] ELSE board[key]
               row == [pass[e] EXCEPT !.pc = "read", !.day = today]
    <2>1. /\ board' = [key \in DOMAIN board |-> new(key)]
          /\ UNCHANGED <<today, active, announced>>
        BY <1>1 DEF ExpireOccasions
    <2>2. pass' = [pass EXCEPT ![e] = row]
        BY <1>1 DEF ExpireOccasions
    <2>3. row \in PassRow /\ row.day = today
        <3>1. today \in Nat /\ "read" \in {"idle", "read", "apply"}
            BY <1>0 DEF OccasionTypeOK
        <3> QED
            BY <1>0, <3>1 DEF PassRow
    <2>4. ASSUME NEW key \in DOMAIN board
          PROVE  /\ new(key) \in OccasionRow /\ RowOK(key, new(key))
                 /\ board[key].told => new(key).told
        <3>1. board[key] \in OccasionRow /\ RowOK(key, board[key])
            BY <1>0
        <3>2. LET x == [board[key] EXCEPT !.state = "expired"]
              IN  /\ x \in OccasionRow /\ x.state = "expired"
                  /\ x.date = board[key].date /\ x.told = board[key].told
            BY <3>1 DEF OccasionRow
        <3>3. RowOK(key, [board[key] EXCEPT !.state = "expired"])
            BY <3>1, <3>2 DEF RowOK
        <3> QED
            BY <3>1, <3>2, <3>3
    <2> HIDE DEF new, row
    <2>5. DOMAIN board' = DOMAIN board /\ \A key \in DOMAIN board : board'[key] = new(key)
        BY <2>1
    <2>6. board' \in [DOMAIN board' -> OccasionRow]
        BY <2>1, <2>4, <2>5
    <2>7. pass' \in [Evaluators -> PassRow] /\ \A d \in Evaluators :
                pass'[d].pc = "read" => pass'[d].day \in 1 .. MaxDay
        BY <1>0, <2>2, <2>3 DEF OccasionTypeOK
    <2>8. DOMAIN board' \subseteq OccasionKeys
        BY <1>0, <2>5 DEF OccasionTypeOK
    <2> QED
        BY <2>1, <2>4, <2>5, <2>6, <2>7, <2>8, RowsRewritten
<1>2. CASE DetectOccasions(e)
    <2> DEFINE batch == OccasionDetections(pass[e].day)
               row == [NoPass EXCEPT !.pc = "apply", !.batch = batch]
    <2>1. UNCHANGED <<today, active, board, announced>> /\ pass' = [pass EXCEPT ![e] = row]
        BY <1>2 DEF DetectOccasions
    <2>2. batch \in Batches
        <3>1. pass[e].day \in 1 .. MaxDay
            BY <1>0, <1>2 DEF DetectOccasions, OccasionTypeOK
        <3> QED
            BY <1>0, <3>1, DetectionsKeyed DEF OccasionTypeOK
    <2> HIDE DEF batch
    <2>3. "apply" \in {"idle", "read", "apply"}
        OBVIOUS
    <2>4. row \in PassRow /\ row.pc = "apply"
        BY <2>2, <2>3, NoPassTyped DEF PassRow
    <2> HIDE DEF row
    <2>5. pass' \in [Evaluators -> PassRow] /\ \A d \in Evaluators :
                pass'[d].pc = "read" => pass'[d].day \in 1 .. MaxDay
        BY <1>0, <2>1, <2>4 DEF OccasionTypeOK
    <2> QED
        BY <1>0, <2>1, <2>5, RowsRewritten DEF OccasionTypeOK
<1>3. CASE ApplyOccasions(e)
    <2> DEFINE batch == pass[e].batch
               new(key) ==
                 IF key \in DOMAIN batch THEN UpsertedOccasion(key, batch[key])
                 ELSE IF board[key].state \in {"pending", "delivered"}
                 THEN [board[key] EXCEPT !.state = "resolved"] ELSE board[key]
    <2>1. /\ board' = [key \in DOMAIN board \cup DOMAIN batch |-> new(key)]
          /\ UNCHANGED <<today, active, announced>> /\ pass' = [pass EXCEPT ![e] = NoPass]
        BY <1>3 DEF ApplyOccasions
    <2>2. /\ batch \in [DOMAIN batch -> Nat] /\ DOMAIN batch \subseteq OccasionKeys
          /\ \A key \in DOMAIN batch : batch[key] \in Nat /\ key[2] = YearOf(batch[key])
        BY <1>0 DEF PassRow, Batches
    <2> HIDE DEF batch
    <2>4. ASSUME NEW key \in DOMAIN board \cup DOMAIN batch
          PROVE  /\ new(key) \in OccasionRow /\ RowOK(key, new(key))
                 /\ key \in DOMAIN board /\ board[key].told => new(key).told
        <3>1. CASE key \notin DOMAIN board
            <4>1. key \in DOMAIN batch
                  /\ new(key) = [state |-> "pending", date |-> batch[key], told |-> FALSE]
                BY <3>1 DEF UpsertedOccasion
            <4> HIDE DEF new
            <4>2. batch[key] \in Nat /\ key[2] = YearOf(batch[key])
                BY <2>2, <4>1
            <4>3. "pending" \in {"pending", "delivered", "expired", "resolved"}
                OBVIOUS
            <4>4. new(key) \in OccasionRow
                BY <4>1, <4>2, <4>3 DEF OccasionRow
            <4>5. new(key).date = batch[key] /\ new(key).told = FALSE
                BY <4>1
            <4>6. RowOK(key, new(key))
                BY <4>2, <4>5 DEF RowOK
            <4> QED
                BY <3>1, <4>4, <4>6
        <3>2. CASE key \in DOMAIN board
            <4> DEFINE old == board[key]
            <4>1. old \in OccasionRow /\ RowOK(key, old)
                BY <1>0, <3>2
            <4> HIDE DEF old
            <4>2. CASE key \in DOMAIN batch
                <5> DEFINE date == batch[key]
                           dated == [old EXCEPT !.date = date]
                           again == [old EXCEPT !.state = "pending", !.date = date]
                <5>1. date \in Nat /\ key[2] = YearOf(date)
                    BY <2>2, <4>2
                <5> HIDE DEF date
                <5>2. /\ dated \in OccasionRow /\ dated.date = date
                      /\ dated.state = old.state /\ dated.told = old.told
                    BY <4>1, <5>1 DEF OccasionRow
                <5>3. /\ again \in OccasionRow /\ again.date = date
                      /\ again.state = "pending" /\ again.told = old.told
                    BY <4>1, <5>1 DEF OccasionRow
                <5>4. \/ new(key) = dated
                      \/ new(key) = old
                      \/ new(key) = again /\ ~old.told
                    BY <3>2, <4>2 DEF UpsertedOccasion, old, date
                <5> HIDE DEF dated, again, new
                <5>5. RowOK(key, dated) /\ (~old.told => RowOK(key, again))
                    BY <4>1, <5>1, <5>2, <5>3 DEF RowOK
                <5> QED
                    BY <4>1, <5>2, <5>3, <5>4, <5>5 DEF old
            <4>3. CASE key \notin DOMAIN batch
                <5> DEFINE closed == [old EXCEPT !.state = "resolved"]
                <5>1. /\ closed \in OccasionRow /\ closed.date = old.date
                      /\ closed.state = "resolved" /\ closed.told = old.told
                    BY <4>1 DEF OccasionRow
                <5>2. new(key) \in {old, closed}
                    BY <4>3 DEF old
                <5> HIDE DEF closed, new
                <5>3. RowOK(key, closed)
                    BY <4>1, <5>1 DEF RowOK
                <5> QED
                    BY <4>1, <5>1, <5>2, <5>3 DEF old
            <4> QED
                BY <4>2, <4>3
        <3> QED
            BY <3>1, <3>2
    <2> HIDE DEF new
    <2>5. /\ DOMAIN board' = DOMAIN board \cup DOMAIN batch
          /\ \A key \in DOMAIN board' : board'[key] = new(key)
        BY <2>1
    <2>6. board' \in [DOMAIN board' -> OccasionRow]
        BY <2>1, <2>4, <2>5
    <2>7. pass' \in [Evaluators -> PassRow] /\ \A d \in Evaluators :
                pass'[d].pc = "read" => pass'[d].day \in 1 .. MaxDay
        BY <1>0, <2>1, NoPassTyped DEF OccasionTypeOK
    <2>8. DOMAIN board' \subseteq OccasionKeys /\ DOMAIN board \subseteq DOMAIN board'
        BY <1>0, <2>2, <2>5 DEF OccasionTypeOK
    <2>9. /\ \A key \in DOMAIN board' : RowOK(key, board'[key])
          /\ \A key \in DOMAIN board : board[key].told => board'[key].told
        BY <2>4, <2>5, <2>8
    <2> QED
        BY <2>1, <2>6, <2>7, <2>8, <2>9, RowsRewritten
<1> QED
    BY <1>1, <1>2, <1>3

(* A delivery announces a row that was not told; were another announcement *)
(* of the group about a date of that year, the row would remember it.      *)
LEMMA DeliveryStep ==
    ASSUME OccasionInd, NEW key \in DOMAIN board, DeliverOccasion(key)
    PROVE  OccasionInd'
<1> DEFINE g == key[1]
           d == board[key].date
           row == [board[key] EXCEPT !.state = "delivered", !.told = TRUE]
           n == Len(announced[g])
<1>0. /\ OccasionTypeOK /\ \A k \in DOMAIN board : RowOK(k, board[k])
      /\ AnnouncementsKept /\ AnnouncedOncePerYear
    BY DEF OccasionInd
<1>1. /\ board' = [board EXCEPT ![key] = row]
      /\ announced' = [announced EXCEPT ![g] = Append(announced[g], d)]
      /\ UNCHANGED <<today, active, pass>>
    BY DEF DeliverOccasion
<1>2. /\ key \in OccasionKeys /\ board[key] \in OccasionRow
      /\ board \in [DOMAIN board -> OccasionRow]
      /\ announced \in [GroupKeys -> Seq(Nat)]
    BY <1>0 DEF OccasionTypeOK
<1>3. g \in GroupKeys /\ key = <<g, key[2]>>
    BY <1>2 DEF OccasionKeys
<1>4. d \in Nat /\ key[2] = YearOf(d) /\ ~board[key].told
    <2>1. RowOK(key, board[key]) /\ board[key].state = "pending"
        BY <1>0 DEF DeliverOccasion
    <2> QED
        BY <1>2, <2>1 DEF RowOK, OccasionRow
<1>5. row \in OccasionRow /\ row.state = "delivered" /\ row.date = d /\ row.told = TRUE
    <2>1. "delivered" \in {"pending", "delivered", "expired", "resolved"}
        OBVIOUS
    <2> QED
        BY <1>2, <2>1 DEF OccasionRow
<1> HIDE DEF row, d, g
<1>6. /\ announced[g] \in Seq(Nat) /\ n \in Nat
      /\ announced' \in [GroupKeys -> Seq(Nat)]
      /\ announced'[g] = Append(announced[g], d)
      /\ \A h \in GroupKeys : h # g => announced'[h] = announced[h]
    BY <1>1, <1>2, <1>3, <1>4
<1>7. /\ Len(announced'[g]) = n + 1 /\ announced'[g][n + 1] = d
      /\ \A i \in 1 .. n : announced'[g][i] = announced[g][i]
    BY <1>4, <1>6
<1>8. /\ DOMAIN board' = DOMAIN board /\ board' \in [DOMAIN board' -> OccasionRow]
      /\ board'[key] = row
      /\ \A k \in DOMAIN board : k # key => board'[k] = board[k]
    BY <1>1, <1>2, <1>5
<1>9. OccasionTypeOK'
    BY <1>0, <1>1, <1>6, <1>8 DEF OccasionTypeOK
<1>10. AnnouncementsKept'
    <2> SUFFICES ASSUME NEW h \in GroupKeys, NEW i \in 1 .. Len(announced'[h])
                 PROVE  LET k == <<h, YearOf(announced'[h][i])>>
                        IN  k \in DOMAIN board' /\ board'[k].told
        BY DEF AnnouncementsKept
    <2>1. CASE h = g /\ i = n + 1
        BY <1>3, <1>4, <1>5, <1>7, <1>8, <2>1
    <2>2. CASE i \in 1 .. Len(announced[h]) /\ announced'[h][i] = announced[h][i]
        <3> DEFINE k == <<h, YearOf(announced[h][i])>>
        <3>1. k \in DOMAIN board /\ board[k].told
            BY <1>0, <2>2 DEF AnnouncementsKept
        <3> HIDE DEF k
        <3>2. k \in DOMAIN board' /\ board'[k].told
            BY <1>5, <1>8, <3>1
        <3> QED
            BY <2>2, <3>2 DEF k
    <2>3. h # g \/ i \in 1 .. n \/ i = n + 1
        BY <1>6, <1>7
    <2> QED
        BY <1>6, <1>7, <2>1, <2>2, <2>3
<1>11. \A i \in 1 .. n : YearOf(announced[g][i]) # key[2]
    BY <1>0, <1>3, <1>4 DEF AnnouncementsKept
<1>12. AnnouncedOncePerYear'
    <2> SUFFICES ASSUME NEW h \in GroupKeys,
                        NEW i \in DOMAIN announced'[h], NEW j \in DOMAIN announced'[h],
                        YearOf(announced'[h][i]) = YearOf(announced'[h][j])
                 PROVE  i = j
        BY DEF AnnouncedOncePerYear
    <2>1. CASE h # g
        BY <1>0, <1>6, <2>1 DEF AnnouncedOncePerYear
    <2>2. CASE h = g
        <3>1. i \in 1 .. n + 1 /\ j \in 1 .. n + 1 /\ DOMAIN announced[g] = 1 .. n
            BY <1>6, <1>7, <2>2
        <3>2. CASE i \in 1 .. n /\ j \in 1 .. n
            BY <1>0, <1>3, <1>7, <2>2, <3>1, <3>2 DEF AnnouncedOncePerYear
        <3>3. CASE i = n + 1 /\ j \in 1 .. n
            BY <1>4, <1>7, <1>11, <2>2, <3>3
        <3>4. CASE i \in 1 .. n /\ j = n + 1
            BY <1>4, <1>7, <1>11, <2>2, <3>4
        <3> HIDE DEF n
        <3>5. (i \in 1 .. n \/ i = n + 1) /\ (j \in 1 .. n \/ j = n + 1)
            BY <1>6, <3>1
        <3> QED
            BY <3>2, <3>3, <3>4, <3>5
    <2> QED
        BY <2>1, <2>2
<1>13. ASSUME NEW k \in DOMAIN board' PROVE RowOK(k, board[k])'
    <2>1. k \in DOMAIN board /\ k[1] \in GroupKeys
        BY <1>0, <1>8 DEF OccasionTypeOK, OccasionKeys
    <2>2. ASSUME AnnouncedIn(k) PROVE AnnouncedIn(k)'
        <3>1. PICK i \in 1 .. Len(announced[k[1]]) : YearOf(announced[k[1]][i]) = k[2]
            BY <2>2 DEF AnnouncedIn
        <3>2. i \in 1 .. Len(announced'[k[1]]) /\ announced'[k[1]][i] = announced[k[1]][i]
            <4>1. CASE k[1] = g
                <5>1. i \in 1 .. n
                    BY <4>1
                <5> HIDE DEF n
                <5>2. i \in 1 .. n + 1
                    BY <1>6, <5>1
                <5>3. i \in 1 .. Len(announced'[g]) /\ announced'[g][i] = announced[g][i]
                    BY <1>7, <5>1, <5>2
                <5> QED
                    BY <4>1, <5>3
            <4>2. CASE k[1] # g
                BY <1>6, <2>1, <4>2
            <4> QED
                BY <4>1, <4>2
        <3> QED
            BY <3>1, <3>2 DEF AnnouncedIn
    <2>3. CASE k = key
        <3>1. n + 1 \in 1 .. Len(announced'[g])
            BY <1>6, <1>7
        <3>2. AnnouncedIn(key)'
            BY <1>4, <1>7, <3>1 DEF AnnouncedIn, g
        <3> QED
            BY <1>4, <1>5, <1>8, <2>3, <3>2 DEF RowOK
    <2>4. CASE k # key
        BY <1>0, <1>8, <2>1, <2>2, <2>4 DEF RowOK
    <2> QED
        BY <2>3, <2>4
<1> QED
    BY <1>9, <1>10, <1>12, <1>13 DEF OccasionInd

(* What leaves rows and announcements alone leaves the invariant alone.    *)
LEMMA OccasionIndStep == OccasionInd /\ [OccasionNext]_occasionVars => OccasionInd'
<1> SUFFICES ASSUME OccasionInd, [OccasionNext]_occasionVars PROVE OccasionInd'
    OBVIOUS
<1>0. /\ OccasionTypeOK /\ \A key \in DOMAIN board : RowOK(key, board[key])
      /\ AnnouncementsKept /\ AnnouncedOncePerYear
    BY DEF OccasionInd
<1>1. ASSUME UNCHANGED <<board, pass, announced>>, today' \in 1 .. MaxDay,
             active' \subseteq DatedMemories, IsFiniteSet(active')
      PROVE  OccasionInd'
    <2>1. OccasionTypeOK'
        BY <1>0, <1>1 DEF OccasionTypeOK
    <2>2. AnnouncementsKept' /\ AnnouncedOncePerYear'
        BY <1>0, <1>1 DEF AnnouncementsKept, AnnouncedOncePerYear
    <2>3. \A key \in DOMAIN board' : RowOK(key, board[key])'
        BY <1>0, <1>1 DEF RowOK, AnnouncedIn
    <2> QED
        BY <2>1, <2>2, <2>3 DEF OccasionInd
<1>2. today \in 1 .. MaxDay /\ active \subseteq DatedMemories /\ IsFiniteSet(active)
    BY <1>0 DEF OccasionTypeOK
<1>3. CASE \E e \in Evaluators :
             ExpireOccasions(e) \/ DetectOccasions(e) \/ ApplyOccasions(e)
    BY <1>3, PassSteps
<1>4. CASE \E key \in DOMAIN board : DeliverOccasion(key)
    BY <1>4, DeliveryStep
<1>5. CASE \E m \in DatedMemories : RememberDate(m) \/ ForgetDate(m)
    <2>1. PICK m \in DatedMemories : RememberDate(m) \/ ForgetDate(m)
        BY <1>5
    <2>2. active' = active \cup {m} \/ active' = active \ {m}
        BY <2>1 DEF RememberDate, ForgetDate
    <2>3. IsFiniteSet(active \cup {m}) /\ IsFiniteSet(active \ {m})
        <3>1. IsFiniteSet(active \cup {m})
            BY <1>2, FS_AddElement
        <3>2. active \ {m} \subseteq active
            OBVIOUS
        <3> QED
            BY <1>2, <3>1, <3>2, FS_Subset
    <2>4. UNCHANGED <<today, board, pass, announced>>
        BY <2>1 DEF RememberDate, ForgetDate
    <2>5. active' \subseteq DatedMemories /\ IsFiniteSet(active')
        BY <1>2, <2>2, <2>3
    <2> QED
        BY <1>1, <1>2, <2>4, <2>5
<1>6. CASE DayPasses
    <2>1. UNCHANGED <<active, board, pass, announced>> /\ today' \in 1 .. MaxDay
        BY <1>2, <1>6, OccasionAssumption DEF DayPasses
    <2> QED
        BY <1>1, <1>2, <2>1
<1>7. CASE UNCHANGED occasionVars
    BY <1>1, <1>2, <1>7 DEF occasionVars
<1>8. CASE \E m, n \in DatedMemories : UpdateDate(m, n)
    <2>1. PICK m \in DatedMemories, n \in DatedMemories : UpdateDate(m, n)
        BY <1>8
    <2>2. UNCHANGED <<today, board, pass, announced>> /\ active' = (active \ {m}) \cup {n}
        BY <2>1 DEF UpdateDate
    <2>3. IsFiniteSet(active \ {m})
        BY <1>2, FS_Subset
    <2>4. active' \subseteq DatedMemories /\ IsFiniteSet(active')
        BY <1>2, <2>2, <2>3, FS_AddElement
    <2> QED
        BY <1>1, <1>2, <2>2, <2>4
<1> QED
    BY <1>3, <1>4, <1>5, <1>6, <1>7, <1>8 DEF OccasionNext

(* A group is announced at most once about dates of one year, however its  *)
(* memories contradict each other and change and however late a pass       *)
(* applies what it detected (apply_local_detections, dedupe key of         *)
(* detect_personal_occasions): the row of that year remembers the          *)
(* announcement and no pass brings it back.                                *)
THEOREM AnnouncedOnce == OccasionSpec => []AnnouncedOncePerYear
<1>1. OccasionInd => AnnouncedOncePerYear
    BY DEF OccasionInd
<1> QED
    BY <1>1, OccasionIndInit, OccasionIndStep, PTL DEF OccasionSpec

(* The step that ends a pass leaves no due memory out: the group's trigger *)
(* is in the batch, and the upsert either opens its row for that date or   *)
(* finds one that was told, whose announcement is of the same year         *)
(* (apply_local_detections).                                               *)
LEMMA ApplyKeepsDue ==
    ASSUME OccasionInd, NEW e \in Evaluators, ApplyOccasions(e),
           pass[e].batch = OccasionDetections(today),
           NEW m \in active, InLeadWindow(m)
    PROVE  Remembered(m, board', announced')
<1> DEFINE g == GroupKey(m)
           d == Trigger(g, today)
           key == DedupeKey(g, d)
           batch == pass[e].batch
           E == Eligible(g, today)
           D == {a \in active : GroupKey(a) = g /\ InLeadWindow(a)}
<1>0. /\ OccasionTypeOK /\ \A k \in DOMAIN board : RowOK(k, board[k])
    BY DEF OccasionInd
<1>1. today \in 1 .. MaxDay /\ active \subseteq DatedMemories /\ IsFiniteSet(active)
    BY <1>0 DEF OccasionTypeOK
<1>2. g \in GroupKeys /\ E = D /\ m \in E
    BY <1>1 DEF GroupKeys, Eligible, Dated, InLeadWindow
<1>3. /\ d \in Nat /\ d <= NextOccurrence(m, today)
      /\ d \in {NextOccurrence(n, today) : n \in E}
    BY <1>1, <1>2, TriggerEarliest
<1>4. key \in DOMAIN batch /\ batch[key] = d
    BY <1>1, <1>2, DetectionsKeyed
<1>5. key[1] = g /\ key[2] = YearOf(d)
    BY DEF DedupeKey
<1>6. UNCHANGED announced /\ key \in DOMAIN board' /\ board'[key] = UpsertedOccasion(key, d)
    BY <1>4 DEF ApplyOccasions
<1> HIDE DEF g, d, key, batch, E
<1>7. \/ board'[key].date = d /\ board'[key].state \in {"pending", "delivered"}
      \/ \E i \in DOMAIN announced'[g] : YearOf(announced'[g][i]) = YearOf(d)
    <2>1. CASE key \notin DOMAIN board
        BY <1>6, <2>1 DEF UpsertedOccasion
    <2>2. CASE key \in DOMAIN board
        <3> DEFINE old == board[key]
        <3>1. old \in OccasionRow /\ RowOK(key, old)
            BY <1>0, <2>2 DEF OccasionTypeOK
        <3>2. CASE old.state \in {"pending", "delivered"}
            <4>1. board'[key] = [old EXCEPT !.date = d]
                BY <1>6, <2>2, <3>2 DEF UpsertedOccasion
            <4> HIDE DEF old
            <4> QED
                BY <3>1, <3>2, <4>1 DEF OccasionRow
        <3>3. CASE old.state \notin {"pending", "delivered"} /\ ~old.told
            <4>1. board'[key] = [old EXCEPT !.state = "pending", !.date = d]
                BY <1>6, <2>2, <3>3 DEF UpsertedOccasion
            <4> HIDE DEF old
            <4> QED
                BY <3>1, <4>1 DEF OccasionRow
        <3>4. CASE old.told
            <4>1. PICK i \in 1 .. Len(announced[key[1]]) :
                         YearOf(announced[key[1]][i]) = key[2]
                BY <3>1, <3>4 DEF RowOK, AnnouncedIn
            <4>2. announced[g] \in Seq(Nat)
                BY <1>0, <1>2 DEF OccasionTypeOK
            <4>3. i \in DOMAIN announced[g] /\ YearOf(announced[g][i]) = YearOf(d)
                BY <1>5, <4>1, <4>2
            <4> QED
                BY <1>6, <4>3
        <3> QED
            BY <3>2, <3>3, <3>4
    <2> QED
        BY <2>1, <2>2
<1>8. d \in {NextOccurrence(n, today) : n \in D}
    BY <1>2, <1>3
<1> HIDE DEF D
<1> QED
    BY <1>3, <1>5, <1>6, <1>7, <1>8 DEF Remembered, g, D

(* When a pass ends that nothing has overtaken, every memory inside its    *)
(* own lead window is accounted for: its group waits with an eligible date *)
(* that is no later, or was announced about a date of such a year          *)
(* (detect_personal_occasions and apply_local_detections).                 *)
THEOREM DueKept == OccasionSpec => DueOccasionKept
<1> DEFINE Kept ==
        \A e \in Evaluators :
          pass[e].pc = "apply" /\ pass'[e].pc = "idle"
            /\ pass[e].batch = OccasionDetections(today) =>
              \A m \in active : InLeadWindow(m) => Remembered(m, board', announced')
<1>1. OccasionInd /\ [OccasionNext]_occasionVars => [Kept]_occasionVars
    <2> SUFFICES ASSUME OccasionInd, OccasionNext, NEW e \in Evaluators,
                        pass[e].pc = "apply", pass'[e].pc = "idle",
                        pass[e].batch = OccasionDetections(today),
                        NEW m \in active, InLeadWindow(m)
                 PROVE  Remembered(m, board', announced')
        OBVIOUS
    <2>0. pass \in [Evaluators -> PassRow]
        BY DEF OccasionInd, OccasionTypeOK
    <2>1. ApplyOccasions(e)
        <3>1. pass' # pass
            OBVIOUS
        <3>2. PICK x \in Evaluators :
                     ExpireOccasions(x) \/ DetectOccasions(x) \/ ApplyOccasions(x)
            BY <3>1 DEF OccasionNext, DeliverOccasion, RememberDate, ForgetDate,
                     UpdateDate, DayPasses
        <3>3. \A y \in Evaluators : y # x => pass'[y] = pass[y]
            BY <2>0, <3>2 DEF ExpireOccasions, DetectOccasions, ApplyOccasions
        <3>4. x = e
            BY <3>3
        <3> QED
            BY <3>2, <3>4 DEF ExpireOccasions, DetectOccasions
    <2> QED
        BY <2>1, ApplyKeepsDue
<1>2. OccasionInit /\ [][OccasionNext]_occasionVars => []OccasionInd
    BY OccasionIndInit, OccasionIndStep, PTL
<1>3. OccasionInit /\ [][OccasionNext]_occasionVars => [][Kept]_occasionVars
    BY <1>1, <1>2, PTL
<1> QED
    BY <1>3 DEF OccasionSpec, DueOccasionKept

(* On every day, and for every yearly date, the next occurrence that       *)
(* yearly_occurrence_on_or_after computes is an anniversary and none comes *)
(* before it: for every year a behaviour may begin in, every length of the *)
(* year and every place of the leap day.                                   *)
THEOREM NextDateFirst == OccasionSpec => NextDateIsFirst
<1> DEFINE First ==
        today' # today => \A m \in DatedMemories : m.year = 0 => NextIsFirst(m.place)
<1>1. OccasionInd => First
    <2> SUFFICES ASSUME OccasionInd, NEW m \in DatedMemories PROVE NextIsFirst(m.place)
        OBVIOUS
    <2>1. m.place \in Places
        <3>1. m \in DatedMemory
            BY OccasionAssumption
        <3> QED
            BY <3>1 DEF DatedMemory, Places
    <2>2. today \in 1 .. MaxDay
        BY DEF OccasionInd, OccasionTypeOK
    <2> QED
        BY <2>1, <2>2, NextOccurrenceIsFirst
<1>2. OccasionInit /\ [][OccasionNext]_occasionVars => []OccasionInd
    BY OccasionIndInit, OccasionIndStep, PTL
<1>3. OccasionInd => [First]_occasionVars
    BY <1>1
<1>4. OccasionInit /\ [][OccasionNext]_occasionVars => [][First]_occasionVars
    BY <1>2, <1>3, PTL
<1> QED
    BY <1>4 DEF OccasionSpec, NextDateIsFirst

-----------------------------------------------------------------------------
(* The inbox: types.                                                       *)

FormRow == [shape : Shapes, size : Nat \ {0}]
MailEntry == [at : Nat, latest : LatestKinds, inbox : BOOLEAN, form : FormRow]
ReadRow == [stage : {"idle", "profile", "listing", "reading"},
            limit : [pages : Nat, projected : Nat], cutoff : Nat, cursor : Nat,
            pages : Nat, listed : Seq(Threads), skipped : BOOLEAN, left : Seq(Threads),
            detected : SUBSET (Threads \X Nat), safe : SUBSET Threads,
            excluded : SUBSET Threads, complete : BOOLEAN, absent : BOOLEAN,
            bytes : Nat, requests : Nat]

(* No two threads share their latest message.                              *)
MailType ==
    /\ mail \in [Threads -> MailEntry]
    /\ \A s, t \in Threads : mail[s].at = mail[t].at => s = t

(* A thread that the query asks for and that has not changed is listed, or *)
(* counted as skipped, once the cursor has passed it.                      *)
Passed(t, cursor, listed, skipped) ==
    Queried(t) /\ mail[t].at >= cursor =>
        IF mail[t].form.shape = "nameless" THEN skipped ELSE t \in ToSet(listed)
ListingOK ==
    /\ \A t \in Threads \ moved : Passed(t, read.cursor, read.listed, read.skipped)
    /\ read.detected = {} /\ read.safe = {} /\ read.excluded = {}

(* While the pass may speak of what it does not contain, every thread that *)
(* it asked for and that has not changed is still to be read, was read, or *)
(* is excluded; what was read plainly is detected, and a complete pass     *)
(* excludes only what was read with a warning.                             *)
Asks(t) == Queried(t) /\ mail[t].latest = "due"
ReadingOK ==
    /\ read.complete => read.absent
    /\ read.absent =>
         \A t \in Threads \ moved : Queried(t) =>
            /\ mail[t].form.shape # "nameless"
            /\ t \in ToSet(read.left) \cup read.excluded \cup read.safe
    /\ \A t \in read.safe \ moved : Asks(t) => <<t, mail[t].at>> \in read.detected
    /\ read.complete =>
         \A t \in read.excluded \ moved : Asks(t) =>
            mail[t].form.shape \in {"unlabelled", "blank"} \/ <<t, mail[t].at>> \in read.detected

InboxInd ==
    /\ MailType
    /\ read \in ReadRow /\ found \subseteq Threads \X Nat /\ moved \subseteq Threads
    /\ changes \in Nat /\ horizon \in Nat
    /\ read.stage = "profile" => read.cutoff = 0
    /\ read.stage \in {"profile", "listing"} => ListingOK
    /\ read.stage = "reading" => ReadingOK

-----------------------------------------------------------------------------
(* The inbox: numbers and pages.                                           *)

LEMMA ImageFinite ==
    ASSUME NEW S, IsFiniteSet(S), NEW f, f = [x \in S |-> f[x]]
    PROVE  IsFiniteSet({f[x] : x \in S})
<1> DEFINE T == {f[x] : x \in S}
<1>1. f \in Surjection(S, T)
    BY DEF Surjection
<1> HIDE DEF T
<1>2. IsFiniteSet(T)
    BY <1>1, FS_Surjection
<1> QED
    BY <1>2 DEF T

LEMMA MaxOfFinite ==
    ASSUME NEW S \in SUBSET Nat, IsFiniteSet(S), S # {}
    PROVE  Max(S) \in S /\ \A y \in S : Max(S) >= y
<1> DEFINE f == [x \in S |-> -x]
           N == {f[x] : x \in S}
<1>1. IsFiniteSet(N)
    BY ImageFinite
<1>2. N \in SUBSET Int /\ N # {}
    <2>1. \A x \in S : x \in Int /\ -x \in Int /\ f[x] = -x
        OBVIOUS
    <2> QED
        BY <2>1
<1>3. Min(N) \in N /\ \A y \in N : Min(N) <= y
    <2> HIDE DEF N
    <2> QED
        BY <1>1, <1>2, MinOfFinite
<1>4. PICK x \in S : Min(N) = -x
    BY <1>3
<1>5. \A y \in S : -y \in N
    OBVIOUS
<1>6. \A y \in S : x >= y
    <2> TAKE y \in S
    <2>1. -x <= -y /\ x \in Nat /\ y \in Nat
        BY <1>3, <1>4, <1>5
    <2> QED
        BY <2>1
<1> QED
    BY <1>6 DEF Max

LEMMA NewestMail ==
    ASSUME MailType
    PROVE  Newest \in Nat /\ \A t \in Threads : mail[t].at <= Newest
<1> DEFINE f == [t \in Threads |-> mail[t].at]
           S == {f[t] : t \in Threads}
<1>1. \A t \in Threads : mail[t].at \in Nat
    BY DEF MailType, MailEntry
<1>2. IsFiniteSet(Threads) /\ Threads # {}
    BY InboxAssumption
<1>3. IsFiniteSet(S)
    BY <1>2, ImageFinite
<1>4. S \in SUBSET Nat /\ S # {} /\ S = {mail[t].at : t \in Threads}
    BY <1>1, <1>2
<1>5. \A t \in Threads : mail[t].at \in S
    BY <1>4
<1>6. Newest = Max(S)
    BY <1>4 DEF Newest
<1> HIDE DEF S
<1>7. Max(S) \in S /\ \A y \in S : Max(S) >= y
    BY <1>3, <1>4, MaxOfFinite
<1> QED
    BY <1>1, <1>4, <1>5, <1>6, <1>7

(* The order of a page leaves nothing out and adds nothing: the numbers of *)
(* newer threads are different, and below the size of the page.            *)
LEMMA PageInOrder ==
    ASSUME MailType, NEW page \in SUBSET Threads
    PROVE  ByRecency(page) \in Seq(Threads) /\ ToSet(ByRecency(page)) = page
<1> DEFINE newer(t) == {s \in page : mail[s].at > mail[t].at}
           rank(t) == Cardinality(newer(t))
           n == Cardinality(page)
           f == [t \in page |-> rank(t) + 1]
<1>1. IsFiniteSet(page) /\ n \in Nat
    BY InboxAssumption, FS_Subset, FS_CardinalityType
<1>2. \A t \in page : mail[t].at \in Nat
    BY DEF MailType, MailEntry
<1>3. ASSUME NEW t \in page
      PROVE  IsFiniteSet(newer(t)) /\ rank(t) \in Nat /\ rank(t) < n
    <2>1. newer(t) \in SUBSET page /\ t \notin newer(t)
        BY <1>2
    <2>2. IsFiniteSet(newer(t)) /\ rank(t) <= n /\ (n = rank(t) => page = newer(t))
        BY <1>1, <2>1, FS_Subset
    <2>3. rank(t) \in Nat
        BY <2>2, FS_CardinalityType
    <2> QED
        BY <1>1, <2>1, <2>2, <2>3
<1>4. ASSUME NEW t \in page, NEW u \in page, mail[t].at > mail[u].at
      PROVE  rank(t) < rank(u)
    <2>1. newer(t) \in SUBSET newer(u) /\ t \in newer(u) /\ t \notin newer(t)
        BY <1>2, <1>4
    <2>2. rank(t) <= rank(u) /\ (rank(u) = rank(t) => newer(u) = newer(t))
        BY <1>3, <2>1, FS_Subset
    <2>3. rank(t) \in Nat /\ rank(u) \in Nat
        BY <1>3
    <2> QED
        BY <2>1, <2>2, <2>3
<1>5. ASSUME NEW t \in page, NEW u \in page, rank(t) = rank(u)
      PROVE  t = u
    <2>1. mail[t].at = mail[u].at
        <3> HIDE DEF rank
        <3>1. rank(t) \in Nat /\ mail[t].at \in Nat /\ mail[u].at \in Nat
            BY <1>2, <1>3
        <3> QED
            BY <1>4, <1>5, <3>1
    <2> QED
        BY <2>1 DEF MailType
<1> HIDE DEF rank
<1>0. \A t \in page : rank(t) \in Nat /\ rank(t) < n
    BY <1>3
<1> HIDE DEF n, newer
<1>6. f \in [page -> 1 .. n]
    <2>1. \A t \in page : rank(t) + 1 \in 1 .. n
        BY <1>0, <1>1
    <2> QED
        BY <2>1
<1>7. f \in Injection(page, 1 .. n)
    <2>1. \A t, u \in page : f[t] = f[u] => t = u
        BY <1>0, <1>5
    <2> QED
        BY <1>6, <2>1 DEF Injection, IsInjective
<1>8. IsFiniteSet(1 .. n) /\ Cardinality(1 .. n) = n
    BY <1>1, FS_Interval
<1>9. f \in Surjection(page, 1 .. n)
    <2> HIDE DEF f
    <2> QED
        BY <1>7, <1>8, FS_Injection DEF n
<1>10. \A i \in 1 .. n : \E t \in page : rank(t) = i - 1
    <2> TAKE i \in 1 .. n
    <2>1. PICK t \in page : f[t] = i
        BY <1>9 DEF Surjection
    <2>2. rank(t) + 1 = i /\ rank(t) \in Nat
        BY <1>0, <2>1
    <2> QED
        BY <2>2
<1> DEFINE order == [i \in 1 .. n |-> CHOOSE t \in page : rank(t) = i - 1]
<1>11. ByRecency(page) = order
    BY DEF ByRecency, rank, n, newer
<1>12. ASSUME NEW i \in 1 .. n PROVE order[i] \in page /\ rank(order[i]) = i - 1
    BY <1>10
<1>13. order \in Seq(Threads) /\ DOMAIN order = 1 .. n
    BY <1>1, <1>12
<1>14. ASSUME NEW t \in page PROVE \E i \in 1 .. n : order[i] = t
    <2>1. rank(t) + 1 \in 1 .. n /\ (rank(t) + 1) - 1 = rank(t)
        BY <1>0, <1>1
    <2>2. order[rank(t) + 1] \in page /\ rank(order[rank(t) + 1]) = rank(t)
        BY <1>12, <2>1
    <2> QED
        BY <1>5, <2>1, <2>2
<1> HIDE DEF order
<1> QED
    BY <1>11, <1>12, <1>13, <1>14 DEF ToSet

(* A page holds everything between its oldest thread and the cursor, and   *)
(* is empty only when nothing is older.                                    *)
LEMMA PageHolds ==
    ASSUME MailType, NEW cursor \in Nat, NEW page, page = ListPage(cursor)
    PROVE  /\ page \in SUBSET Threads /\ IsFiniteSet(page)
           /\ \A t \in page, u \in Older(cursor) : mail[u].at >= mail[t].at => u \in page
           /\ page = {} => Older(cursor) = {}
<1> DEFINE older == Older(cursor)
           newer(t) == {s \in older : mail[s].at > mail[t].at}
<1>1. page = {t \in older : Cardinality(newer(t)) < ThreadsPerPage}
    BY DEF ListPage
<1>2. older \in SUBSET Threads
    BY DEF Older
<1>3. IsFiniteSet(older) /\ \A t \in older : mail[t].at \in Nat /\ mail[t].at < cursor
    BY <1>2, InboxAssumption, FS_Subset DEF MailType, MailEntry, Older
<1>4. ThreadsPerPage \in Nat \ {0}
    BY InboxAssumption
<1> HIDE DEF older
<1>5. page \in SUBSET Threads /\ IsFiniteSet(page)
    BY <1>1, <1>2, InboxAssumption, FS_Subset
<1>6. ASSUME NEW t \in page, NEW u \in older, mail[u].at >= mail[t].at
      PROVE  u \in page
    <2>1. newer(u) \in SUBSET newer(t) /\ newer(t) \in SUBSET older
        <3>1. mail[t].at \in Nat /\ mail[u].at \in Nat /\ \A s \in older : mail[s].at \in Nat
            BY <1>1, <1>3
        <3> QED
            BY <1>6, <3>1
    <2>2. IsFiniteSet(newer(t))
        BY <1>3, <2>1, FS_Subset
    <2>3. IsFiniteSet(newer(u)) /\ Cardinality(newer(u)) <= Cardinality(newer(t))
        BY <2>1, <2>2, FS_Subset
    <2>4. Cardinality(newer(u)) \in Nat /\ Cardinality(newer(t)) \in Nat
        BY <2>2, <2>3, FS_CardinalityType
    <2>5. Cardinality(newer(t)) < ThreadsPerPage
        BY <1>1
    <2> HIDE DEF newer
    <2>6. Cardinality(newer(u)) < ThreadsPerPage
        BY <1>4, <2>3, <2>4, <2>5
    <2> QED
        BY <1>1, <2>6
<1>7. ASSUME older # {} PROVE page # {}
    <2> DEFINE f == [t \in older |-> mail[t].at]
               S == {f[t] : t \in older}
    <2>1. IsFiniteSet(S)
        BY <1>3, ImageFinite
    <2>2. S \in SUBSET Nat /\ S # {} /\ \A t \in older : mail[t].at \in S
        BY <1>3, <1>7
    <2>3. \A y \in S : \E t \in older : y = mail[t].at
        OBVIOUS
    <2> HIDE DEF S
    <2>4. Max(S) \in S /\ \A y \in S : Max(S) >= y
        BY <2>1, <2>2, MaxOfFinite
    <2>5. PICK t \in older : Max(S) = mail[t].at
        BY <2>3, <2>4
    <2>6. newer(t) = {}
        <3>1. \A s \in older : mail[t].at >= mail[s].at
            BY <2>2, <2>4, <2>5
        <3>2. \A s \in older : ~ (mail[s].at > mail[t].at)
            BY <1>3, <3>1
        <3> QED
            BY <3>2
    <2>7. Cardinality(newer(t)) = 0
        BY <2>6, FS_EmptySet
    <2> HIDE DEF newer
    <2>8. t \in page
        BY <1>1, <1>4, <2>7
    <2> QED
        BY <2>8
<1> QED
    BY <1>5, <1>6, <1>7 DEF older

LEMMA MinOfTwo ==
    ASSUME NEW a \in Nat, NEW b \in Nat
    PROVE  Min({a, b}) = IF a <= b THEN a ELSE b
<1>1. IsFiniteSet({a, b}) /\ {a, b} \in SUBSET Int
    <2>1. IsFiniteSet({a} \cup {b}) /\ {a} \cup {b} = {a, b}
        BY FS_Singleton, FS_AddElement
    <2> QED
        BY <2>1
<1>2. Min({a, b}) \in {a, b} /\ \A y \in {a, b} : Min({a, b}) <= y
    BY <1>1, MinOfFinite
<1> QED
    BY <1>2

(* A request is paid from the budget of the pass, and from nothing else.   *)
LEMMA PaidRead ==
    ASSUME read \in ReadRow, NEW limit \in Nat, NEW size \in Nat
    PROVE  \E b \in Nat, q \in Nat :
              Paid(limit, size) = [read EXCEPT !.bytes = b, !.requests = q]
<1>1. read.bytes \in Nat /\ read.requests \in Nat
    BY DEF ReadRow
<1>2. PICK a : a = Allowed(limit)
    OBVIOUS
<1>3. a \in Nat /\ a <= read.bytes /\ (a # 0 => read.requests # 0)
    BY <1>1, <1>2, MinOfTwo DEF Allowed
<1>4. PICK m : m = Min({size, a})
    OBVIOUS
<1>5. m \in Nat /\ m <= read.bytes
    BY <1>1, <1>3, <1>4, MinOfTwo
<1>6. PICK b : b = read.bytes - m
    OBVIOUS
<1>7. PICK q : q = IF a = 0 THEN read.requests ELSE read.requests - 1
    OBVIOUS
<1>8. b \in Nat /\ q \in Nat
    BY <1>1, <1>3, <1>5, <1>6, <1>7
<1>9. Paid(limit, size) = [read EXCEPT !.bytes = @ - m,
                                       !.requests = IF a = 0 THEN @ ELSE @ - 1]
    BY <1>2, <1>4 DEF Paid
<1>10. Paid(limit, size) = [read EXCEPT !.bytes = b, !.requests = q]
    BY <1>6, <1>7, <1>9
<1> QED
    BY <1>8, <1>10

(* A pass that has only paid.                                              *)
PaidRow(after) ==
    /\ after \in ReadRow
    /\ after.stage = read.stage /\ after.limit = read.limit /\ after.cutoff = read.cutoff
    /\ after.cursor = read.cursor
    /\ after.pages = read.pages /\ after.listed = read.listed /\ after.skipped = read.skipped
    /\ after.left = read.left /\ after.detected = read.detected /\ after.safe = read.safe
    /\ after.excluded = read.excluded /\ after.complete = read.complete
    /\ after.absent = read.absent

LEMMA PaidFields ==
    ASSUME read \in ReadRow, NEW limit \in Nat, NEW size \in Nat
    PROVE  PaidRow(Paid(limit, size))
<1>1. PICK b \in Nat, q \in Nat : Paid(limit, size) = [read EXCEPT !.bytes = b, !.requests = q]
    BY PaidRead
<1>2. PICK after : after = [read EXCEPT !.bytes = b, !.requests = q]
    OBVIOUS
<1>3. after \in ReadRow
    BY <1>2 DEF ReadRow
<1>4. PaidRow(after)
    BY <1>2, <1>3 DEF PaidRow, ReadRow
<1> QED
    BY <1>1, <1>2, <1>4

-----------------------------------------------------------------------------
(* The inbox: every step keeps the invariant.                              *)

LEMMA NoReadTyped == NoRead \in ReadRow /\ NoRead.stage = "idle"
<1>1. ByteBudget \in Nat /\ <<>> \in Seq(Threads)
    BY InboxAssumption
<1> QED
    BY <1>1 DEF NoRead, ReadRow

LEMMA InboxIndInit == InboxInit => InboxInd
<1> SUFFICES ASSUME InboxInit PROVE InboxInd
    OBVIOUS
<1>1. Threads \subseteq Nat /\ Forms \subseteq FormRow
    BY InboxAssumption DEF FormRow
<1>2. MailType
    <2>1. mail \in [Threads -> [at : Threads, latest : {"due"}, inbox : {TRUE}, form : Forms]]
          /\ \A t \in Threads : mail[t].at = t
        BY DEF InboxInit
    <2>2. \A t \in Threads : mail[t] \in MailEntry
        BY <1>1, <2>1 DEF MailEntry, LatestKinds
    <2> QED
        BY <2>1, <2>2 DEF MailType
<1>3. read = NoRead /\ found = {} /\ moved = {} /\ changes = 0 /\ horizon = 0
    BY DEF InboxInit
<1>4. read \in ReadRow /\ read.stage = "idle"
    BY <1>3, NoReadTyped
<1> QED
    BY <1>2, <1>3, <1>4 DEF InboxInd

LEMMA MailChanges ==
    ASSUME InboxInd, NEW t \in Threads, NEW entry \in MailEntry, ChangeThread(t, entry),
           \A s \in Threads \ {t} : mail[s].at # entry.at
    PROVE  InboxInd'
<1>1. /\ mail' = [mail EXCEPT ![t] = entry] /\ read' = read /\ found' = found
      /\ moved' = (IF read = NoRead THEN {} ELSE moved \cup {t}) /\ changes' = changes + 1
      /\ horizon' = horizon
    BY DEF ChangeThread
<1>2. /\ MailType /\ read \in ReadRow /\ found \subseteq Threads \X Nat /\ moved \subseteq Threads
      /\ changes \in Nat /\ horizon \in Nat /\ (read.stage = "profile" => read.cutoff = 0)
    BY DEF InboxInd
<1>3. mail'[t] = entry /\ \A s \in Threads \ {t} : mail'[s] = mail[s]
    BY <1>1, <1>2 DEF MailType
<1>4. MailType'
    <2>1. mail' \in [Threads -> MailEntry]
        BY <1>1, <1>2 DEF MailType
    <2>2. ASSUME NEW r \in Threads, NEW s \in Threads, mail'[r].at = mail'[s].at PROVE r = s
        BY <1>2, <1>3, <2>2 DEF MailType
    <2> QED
        BY <2>1, <2>2 DEF MailType
<1>5. CASE read.stage = "idle"
    BY <1>1, <1>2, <1>4, <1>5 DEF InboxInd
<1>6. CASE read.stage # "idle"
    <2>1. moved' = moved \cup {t}
        BY <1>1, <1>6, NoReadTyped
    <2>2. \A u : u \notin moved' /\ u \in Threads => mail'[u] = mail[u] /\ u \notin moved
        BY <1>3, <2>1
    <2>3. read.stage \in {"profile", "listing"} => ListingOK'
        <3>1. HAVE read.stage \in {"profile", "listing"}
        <3>2. ListingOK
            BY <3>1 DEF InboxInd
        <3> QED
            BY <1>1, <2>2, <3>2 DEF ListingOK, Passed, Queried
    <2>4. read.stage = "reading" => ReadingOK'
        <3>1. HAVE read.stage = "reading"
        <3>2. ReadingOK
            BY <3>1 DEF InboxInd
        <3>3. read.safe \subseteq Threads /\ read.excluded \subseteq Threads
            BY <1>2 DEF ReadRow
        <3> QED
            BY <1>1, <2>2, <3>2, <3>3 DEF ReadingOK, Asks, Queried
    <2> QED
        BY <1>1, <1>2, <1>4, <2>1, <2>3, <2>4 DEF InboxInd
<1> QED
    BY <1>5, <1>6

LEMMA MailKeeps ==
    ASSUME InboxInd, NEW t \in Threads, Message(t) \/ Archive(t) \/ Relabel(t) \/ BecomeDue(t)
    PROVE  InboxInd'
<1>1. MailType
    BY DEF InboxInd
<1>2. /\ mail[t] \in MailEntry /\ mail[t].at \in Nat /\ mail[t].latest \in LatestKinds
      /\ mail[t].inbox \in BOOLEAN /\ mail[t].form \in FormRow /\ mail[t].form.size \in Nat \ {0}
      /\ \A s \in Threads \ {t} : mail[s].at # mail[t].at
    BY <1>1 DEF MailType, MailEntry, FormRow
<1>3. CASE Message(t)
    <2>1. PICK latest \in LatestKinds, form \in Forms :
            ChangeThread(t, [at |-> Newest + 1, latest |-> latest, inbox |-> TRUE, form |-> form])
        BY <1>3 DEF Message
    <2>2. PICK entry : entry = [at |-> Newest + 1, latest |-> latest, inbox |-> TRUE, form |-> form]
        OBVIOUS
    <2>3. Newest \in Nat /\ \A s \in Threads : mail[s].at <= Newest /\ mail[s].at \in Nat
        BY <1>1, NewestMail DEF MailType, MailEntry
    <2>4. form \in FormRow
        BY InboxAssumption DEF FormRow
    <2>5. entry \in MailEntry /\ \A s \in Threads \ {t} : mail[s].at # entry.at
        BY <2>2, <2>3, <2>4 DEF MailEntry
    <2> QED
        BY <2>1, <2>2, <2>5, MailChanges
<1>4. CASE Archive(t)
    <2>1. PICK entry : entry = [mail[t] EXCEPT !.inbox = ~@]
        OBVIOUS
    <2>2. entry \in MailEntry /\ entry.at = mail[t].at
        BY <1>2, <2>1 DEF MailEntry
    <2> QED
        BY <1>2, <1>4, <2>1, <2>2, MailChanges DEF Archive
<1>5. CASE Relabel(t)
    <2>1. PICK shape \in {"plain", "unlabelled"} : ChangeThread(t, [mail[t] EXCEPT !.form.shape = shape])
        BY <1>5 DEF Relabel
    <2>2. PICK form : form = [mail[t].form EXCEPT !.shape = shape]
        OBVIOUS
    <2>3. form \in FormRow
        BY <1>2, <2>2 DEF FormRow, Shapes
    <2>4. PICK entry : entry = [mail[t] EXCEPT !.form.shape = shape]
        OBVIOUS
    <2>5. entry = [mail[t] EXCEPT !.form = form]
        BY <1>2, <2>2, <2>4
    <2>6. entry \in MailEntry /\ entry.at = mail[t].at
        BY <1>2, <2>3, <2>5 DEF MailEntry
    <2> QED
        BY <1>2, <2>1, <2>4, <2>6, MailChanges
<1>6. CASE BecomeDue(t)
    <2>1. PICK entry : entry = [mail[t] EXCEPT !.latest = "due"]
        OBVIOUS
    <2>2. entry \in MailEntry /\ entry.at = mail[t].at
        BY <1>2, <2>1 DEF MailEntry, LatestKinds
    <2> QED
        BY <1>2, <1>6, <2>1, <2>2, MailChanges DEF BecomeDue
<1> QED
    BY <1>3, <1>4, <1>5, <1>6

LEMMA PassEnds ==
    ASSUME InboxInd, FailRead \/ ApplyRead
    PROVE  InboxInd'
<1>1. /\ mail' = mail /\ read' = NoRead /\ moved' = {} /\ changes' = changes
      /\ horizon' = horizon
      /\ found' \subseteq found \cup read.detected
    BY DEF FailRead, ApplyRead
<1>2. /\ MailType /\ read \in ReadRow /\ found \subseteq Threads \X Nat /\ changes \in Nat
      /\ horizon \in Nat /\ read.detected \subseteq Threads \X Nat
    BY DEF InboxInd, ReadRow
<1>3. MailType'
    BY <1>1, <1>2 DEF MailType
<1>4. (read \in ReadRow /\ read.stage = "idle")'
    BY <1>1, NoReadTyped
<1> QED
    BY <1>1, <1>2, <1>3, <1>4 DEF InboxInd

(* A step of the pass leaves the mailbox alone.                            *)
LEMMA Asked ==
    ASSUME InboxInd, NEW after \in ReadRow, Ask(after),
           after.stage = "profile" => after.cutoff = 0,
           after.stage \in {"profile", "listing"} => ListingOK',
           after.stage = "reading" => ReadingOK'
    PROVE  InboxInd'
<1>1. /\ read' = after /\ mail' = mail /\ found' = found /\ moved' = moved
      /\ changes' = changes /\ horizon' = horizon
    BY DEF Ask
<1>2. MailType'
    BY <1>1 DEF InboxInd, MailType
<1> QED
    BY <1>1, <1>2 DEF InboxInd

LEMMA PassBegins ==
    ASSUME InboxInd, BeginRead
    PROVE  InboxInd'
<1>1. MailType
    BY DEF InboxInd
<1>2. PICK limit \in Limits :
        Ask([NoRead EXCEPT !.stage = "profile", !.limit = limit,
                           !.cursor = Newest + MaxChanges + 1, !.requests = RequestBudget(limit)])
    BY DEF BeginRead
<1>3. PICK cursor, requests : cursor = Newest + MaxChanges + 1 /\ requests = RequestBudget(limit)
    OBVIOUS
<1>4. /\ Newest \in Nat /\ MaxChanges \in Nat
      /\ \A t \in Threads : mail[t].at <= Newest /\ mail[t].at \in Nat
    BY <1>1, NewestMail, InboxAssumption DEF MailType, MailEntry
<1>5. limit \in [pages : Nat, projected : Nat] /\ requests \in Nat /\ cursor \in Nat
    <2>1. limit \in [pages : Nat \ {0}, projected : Nat \ {0}]
        BY InboxAssumption
    <2>2. limit \in [pages : Nat, projected : Nat]
        BY <2>1
    <2>3. requests \in Nat
        BY <1>3, <2>1 DEF RequestBudget
    <2> QED
        BY <1>3, <1>4, <2>2, <2>3
<1>6. PICK after : after = [NoRead EXCEPT !.stage = "profile", !.limit = limit,
                                        !.cursor = cursor, !.requests = requests]
    OBVIOUS
<1>7. /\ after \in ReadRow /\ after.stage = "profile" /\ after.cursor = cursor
      /\ after.cutoff = NoRead.cutoff /\ after.detected = NoRead.detected /\ after.safe = NoRead.safe
      /\ after.excluded = NoRead.excluded
    <2>1. NoRead \in ReadRow
        BY NoReadTyped
    <2>2. after \in ReadRow
        BY <1>5, <1>6, <2>1 DEF ReadRow
    <2> QED
        BY <1>6, <2>1, <2>2 DEF ReadRow
<1>8. NoRead.cutoff = 0 /\ NoRead.detected = {} /\ NoRead.safe = {} /\ NoRead.excluded = {}
    BY DEF NoRead
<1>9. Ask(after)
    BY <1>2, <1>3, <1>6
<1>10. read' = after /\ mail' = mail /\ moved' = moved
    BY <1>9 DEF Ask
<1>11. \A t \in Threads : ~ (mail'[t].at >= cursor)
    BY <1>3, <1>4, <1>10
<1>12. ListingOK'
    BY <1>7, <1>8, <1>10, <1>11 DEF ListingOK, Passed
<1> QED
    BY <1>7, <1>8, <1>9, <1>12, Asked

LEMMA ProfileRead ==
    ASSUME InboxInd, ReadProfile
    PROVE  InboxInd'
<1>1. /\ read \in ReadRow /\ read.stage = "profile" /\ read.cutoff = 0 /\ horizon \in Nat
      /\ MailType /\ Ask([Paid(1, 1) EXCEPT !.stage = "listing", !.cutoff = horizon])
    BY DEF InboxInd, ReadProfile
<1>2. PICK paid : paid = Paid(1, 1)
    OBVIOUS
<1>3. PaidRow(paid)
    BY <1>1, <1>2, PaidFields
<1>4. PICK after : after = [paid EXCEPT !.stage = "listing", !.cutoff = horizon]
    OBVIOUS
<1>5. /\ after \in ReadRow /\ after.stage = "listing" /\ after.cursor = read.cursor
      /\ after.cutoff = horizon /\ after.listed = read.listed /\ after.skipped = read.skipped
      /\ after.detected = read.detected /\ after.safe = read.safe /\ after.excluded = read.excluded
    <2>1. after \in ReadRow
        BY <1>1, <1>3, <1>4 DEF PaidRow, ReadRow
    <2> QED
        BY <1>3, <1>4, <2>1 DEF PaidRow, ReadRow
<1>6. Ask(after)
    BY <1>1, <1>2, <1>4
<1>7. read' = after /\ mail' = mail /\ moved' = moved
    BY <1>6 DEF Ask
<1>8. ListingOK
    BY <1>1 DEF InboxInd
<1>9. \A t \in Threads : Queried(t)' => Queried(t)
    <2>1. \A t \in Threads : mail[t].at \in Nat
        BY <1>1 DEF MailType, MailEntry
    <2> QED
        BY <1>1, <1>5, <1>7, <2>1 DEF Queried
<1>10. ListingOK'
    BY <1>5, <1>7, <1>8, <1>9 DEF ListingOK, Passed
<1> QED
    BY <1>5, <1>6, <1>10, Asked

LEMMA ToSetOfJoined ==
    ASSUME NEW S, NEW s \in Seq(S), NEW t \in Seq(S)
    PROVE  s \o t \in Seq(S) /\ ToSet(s \o t) = ToSet(s) \cup ToSet(t)
<1> DEFINE st == s \o t
<1>1. /\ st \in Seq(S) /\ Len(st) = Len(s) + Len(t) /\ Len(s) \in Nat /\ Len(t) \in Nat
      /\ \A i \in 1 .. Len(s) : st[i] = s[i]
      /\ \A i \in 1 .. Len(t) : st[Len(s) + i] = t[i]
    OBVIOUS
<1>2. /\ DOMAIN st = 1 .. Len(st) /\ DOMAIN s = 1 .. Len(s) /\ DOMAIN t = 1 .. Len(t)
    BY <1>1
<1> HIDE DEF st
<1>3. ASSUME NEW i \in 1 .. Len(st) PROVE st[i] \in ToSet(s) \cup ToSet(t)
    <2>1. CASE i <= Len(s)
        BY <1>1, <1>2, <2>1 DEF ToSet
    <2>2. CASE i > Len(s)
        <3>1. i - Len(s) \in 1 .. Len(t) /\ Len(s) + (i - Len(s)) = i
            BY <1>1, <2>2
        <3>2. st[i] = t[i - Len(s)]
            BY <1>1, <3>1
        <3> QED
            BY <1>2, <3>1, <3>2 DEF ToSet
    <2> QED
        BY <1>1, <2>1, <2>2
<1>4. ASSUME NEW i \in 1 .. Len(s) PROVE s[i] \in ToSet(st)
    <2>1. i \in 1 .. Len(st) /\ st[i] = s[i]
        BY <1>1
    <2> QED
        BY <1>2, <2>1 DEF ToSet
<1>5. ASSUME NEW i \in 1 .. Len(t) PROVE t[i] \in ToSet(st)
    <2>1. Len(s) + i \in 1 .. Len(st) /\ st[Len(s) + i] = t[i]
        BY <1>1
    <2> QED
        BY <1>2, <2>1 DEF ToSet
<1>6. ToSet(st) = ToSet(s) \cup ToSet(t)
    BY <1>2, <1>3, <1>4, <1>5 DEF ToSet
<1> QED
    BY <1>1, <1>6 DEF st

(* The end of the list: what was listed is read or excluded.               *)
LEMMA Projected ==
    ASSUME NEW next \in ReadRow, NEW isComplete \in BOOLEAN,
           NEW after, after = Project(next, isComplete)
    PROVE  /\ after \in ReadRow /\ after.stage = "reading" /\ after.detected = next.detected
           /\ after.cutoff = next.cutoff /\ after.safe = next.safe /\ after.complete = after.absent
           /\ after.absent => /\ isComplete /\ ~ next.skipped
                             /\ after.left = next.listed /\ after.excluded = {}
<1>1. /\ next.listed \in Seq(Threads) /\ next.limit.projected \in Nat /\ next.skipped \in BOOLEAN
      /\ Len(next.listed) \in Nat
    BY DEF ReadRow
<1>2. PICK kept : kept = Min({Len(next.listed), next.limit.projected})
    OBVIOUS
<1>3. kept \in Nat /\ kept <= Len(next.listed)
    BY <1>1, <1>2, MinOfTwo
<1>4. PICK whole : whole = (isComplete /\ ~ next.skipped /\ kept = Len(next.listed))
    OBVIOUS
<1>5. whole \in BOOLEAN
    BY <1>4
<1>6. PICK left, excluded : /\ left = SubSeq(next.listed, 1, kept)
                            /\ excluded = {next.listed[i] : i \in (kept + 1) .. Len(next.listed)}
    OBVIOUS
<1>7. left \in Seq(Threads) /\ excluded \in SUBSET Threads
    <2>1. left \in Seq(Threads)
        BY <1>1, <1>3, <1>6
    <2>2. \A i \in (kept + 1) .. Len(next.listed) : next.listed[i] \in Threads
        BY <1>1, <1>3
    <2> QED
        BY <1>6, <2>1, <2>2
<1>8. after = [next EXCEPT !.stage = "reading", !.listed = <<>>, !.cursor = 0, !.left = left,
                          !.excluded = excluded, !.complete = whole, !.absent = whole]
    BY <1>2, <1>4, <1>6 DEF Project
<1>9. after \in ReadRow
    <2>1. <<>> \in Seq(Threads)
        OBVIOUS
    <2>2. PICK a : a = [next EXCEPT !.stage = "reading", !.listed = <<>>, !.cursor = 0]
        OBVIOUS
    <2>3. a \in ReadRow
        BY <2>1, <2>2 DEF ReadRow
    <2>4. PICK b : b = [a EXCEPT !.left = left, !.excluded = excluded]
        OBVIOUS
    <2>5. b \in ReadRow
        BY <1>7, <2>3, <2>4 DEF ReadRow
    <2>6. PICK c : c = [b EXCEPT !.complete = whole, !.absent = whole]
        OBVIOUS
    <2>7. c \in ReadRow
        BY <1>5, <2>5, <2>6 DEF ReadRow
    <2>8. after = c
        BY <1>8, <2>2, <2>4, <2>6
    <2> QED
        BY <2>7, <2>8
<1>10. /\ after.stage = "reading" /\ after.detected = next.detected /\ after.safe = next.safe
       /\ after.cutoff = next.cutoff
       /\ after.left = left /\ after.excluded = excluded /\ after.complete = whole
       /\ after.absent = whole
    BY <1>8 DEF ReadRow
<1>11. whole => left = next.listed /\ excluded = {} /\ isComplete /\ ~ next.skipped
    <2>1. HAVE whole
    <2>2. kept = Len(next.listed) /\ isComplete /\ ~ next.skipped
        BY <1>4, <2>1
    <2>3. left = next.listed
        <3>1. left \in Seq(Threads) /\ Len(left) = kept /\ \A i \in 1 .. kept : left[i] = next.listed[i]
            BY <1>1, <1>3, <1>6
        <3> QED
            BY <1>1, <2>2, <3>1, SeqEqual
    <2>4. (kept + 1) .. Len(next.listed) = {}
        BY <1>1, <2>2
    <2>5. excluded = {}
        BY <1>6, <2>4
    <2> QED
        BY <2>2, <2>3, <2>5
<1> QED
    BY <1>9, <1>10, <1>11

LEMMA ThreadsListed ==
    ASSUME InboxInd, ListThreads
    PROVE  InboxInd'
<1>1. /\ MailType /\ read \in ReadRow /\ moved \subseteq Threads /\ read.stage = "listing"
      /\ ListingOK /\ read.cursor \in Nat /\ read.skipped \in BOOLEAN /\ read.listed \in Seq(Threads)
      /\ read.pages \in Nat
    BY DEF InboxInd, ListThreads, ReadRow
<1>2. PICK page, paid : page = ListPage(read.cursor) /\ paid = Paid(1, 1)
    OBVIOUS
<1>3. PICK oldest, named : /\ oldest = Min({mail[t].at : t \in page})
                           /\ named = {t \in page : mail[t].form.shape # "nameless"}
    OBVIOUS
<1>4. PICK listed, skipped : /\ listed = paid.listed \o ByRecency(named)
                             /\ skipped = (paid.skipped \/ named # page)
    OBVIOUS
<1> DEFINE more == page # {} /\ Older(oldest) # {}
<1>5. PICK next : next = [paid EXCEPT !.pages = @ + 1, !.listed = listed, !.skipped = skipped]
    OBVIOUS
<1>6. Ask(IF more /\ read.pages + 1 < read.limit.pages
          THEN [next EXCEPT !.cursor = oldest] ELSE Project(next, ~ more))
    BY <1>2, <1>3, <1>4, <1>5 DEF ListThreads
<1>7. /\ page \in SUBSET Threads /\ IsFiniteSet(page)
      /\ \A t \in page, u \in Older(read.cursor) : mail[u].at >= mail[t].at => u \in page
      /\ page = {} => Older(read.cursor) = {}
    BY <1>1, <1>2, PageHolds
<1>8. page # {} => oldest \in Nat /\ \E t \in page : oldest = mail[t].at
    <2>1. HAVE page # {}
    <2> DEFINE f == [t \in page |-> mail[t].at]
               S == {f[t] : t \in page}
    <2>2. IsFiniteSet(S)
        <3>1. IsFiniteSet(page) /\ f = [t \in page |-> f[t]]
            BY <1>7
        <3> HIDE DEF f
        <3> QED
            BY <3>1, ImageFinite
    <2>3. S \in SUBSET Nat /\ S # {} /\ S = {mail[t].at : t \in page}
        BY <1>1, <1>7, <2>1 DEF MailType, MailEntry
    <2>4. \A y \in S : \E t \in page : y = mail[t].at
        OBVIOUS
    <2>5. oldest \in S
        <3> HIDE DEF S, f
        <3>1. oldest = Min(S)
            BY <1>3, <2>3
        <3>2. S \in SUBSET Int
            BY <2>3
        <3> QED
            BY <2>2, <2>3, <3>1, <3>2, MinOfFinite
    <2> QED
        BY <2>3, <2>4, <2>5
<1>9. PaidRow(paid)
    BY <1>1, <1>2, PaidFields
<1>10. /\ paid \in ReadRow /\ paid.pages \in Nat /\ paid.listed = read.listed
       /\ paid.skipped = read.skipped /\ paid.cutoff = read.cutoff
    BY <1>1, <1>9 DEF PaidRow
<1>11. listed \in Seq(Threads) /\ ToSet(listed) = ToSet(read.listed) \cup named
    <2>1. named \in SUBSET Threads
        BY <1>3, <1>7
    <2>2. ByRecency(named) \in Seq(Threads) /\ ToSet(ByRecency(named)) = named
        BY <1>1, <2>1, PageInOrder
    <2> QED
        BY <1>1, <1>4, <1>10, <2>2, ToSetOfJoined
<1>12. skipped \in BOOLEAN /\ (skipped <=> read.skipped \/ named # page)
    BY <1>1, <1>4, <1>10
<1>13. /\ next \in ReadRow /\ next.listed = listed /\ next.skipped = skipped
       /\ next.cutoff = read.cutoff
       /\ next.stage = "listing" /\ next.detected = {} /\ next.safe = {} /\ next.excluded = {}
    <2>1. next \in ReadRow
        <3>1. PICK pages : pages = paid.pages + 1
            OBVIOUS
        <3>2. pages \in Nat
            BY <1>10, <3>1
        <3>3. next = [paid EXCEPT !.pages = pages, !.listed = listed, !.skipped = skipped]
            BY <1>5, <3>1
        <3> QED
            BY <1>10, <1>11, <1>12, <3>2, <3>3 DEF ReadRow
    <2>2. /\ next.listed = listed /\ next.skipped = skipped /\ next.stage = paid.stage
          /\ next.cutoff = paid.cutoff
          /\ next.detected = paid.detected /\ next.safe = paid.safe
          /\ next.excluded = paid.excluded
        BY <1>5, <1>10 DEF ReadRow
    <2> QED
        BY <1>1, <1>9, <1>10, <2>1, <2>2 DEF PaidRow, ListingOK
<1>14. ASSUME NEW t \in Threads \ moved, Queried(t), page = {} \/ mail[t].at >= oldest
       PROVE  IF mail[t].form.shape = "nameless" THEN skipped ELSE t \in ToSet(listed)
    <2>1. mail[t].at \in Nat
        BY <1>1 DEF MailType, MailEntry
    <2>2. CASE mail[t].at >= read.cursor
        BY <1>1, <1>11, <1>12, <1>14, <2>2 DEF ListingOK, Passed
    <2>3. CASE mail[t].at < read.cursor
        <3>1. t \in Older(read.cursor)
            BY <1>14, <2>3 DEF Older
        <3>2. t \in page
            BY <1>7, <1>8, <1>14, <3>1
        <3> QED
            BY <1>3, <1>11, <1>12, <3>2
    <2> QED
        BY <1>1, <2>1, <2>2, <2>3
<1>15. CASE more /\ read.pages + 1 < read.limit.pages
    <2>1. PICK after : after = [next EXCEPT !.cursor = oldest]
        OBVIOUS
    <2>2. oldest \in Nat /\ page # {}
        BY <1>8, <1>15
    <2>3. /\ after \in ReadRow /\ after.stage = "listing" /\ after.cursor = oldest
          /\ after.cutoff = read.cutoff /\ after.listed = listed /\ after.skipped = skipped
          /\ after.detected = {} /\ after.safe = {} /\ after.excluded = {}
        <3>1. after \in ReadRow
            BY <1>13, <2>1, <2>2 DEF ReadRow
        <3> QED
            BY <1>13, <2>1, <3>1 DEF ReadRow
    <2>4. Ask(after)
        BY <1>6, <1>15, <2>1
    <2>5. read' = after /\ mail' = mail /\ moved' = moved
        BY <2>4 DEF Ask
    <2>6. ListingOK'
        BY <1>14, <2>2, <2>3, <2>5 DEF ListingOK, Passed, Queried
    <2> QED
        BY <2>3, <2>4, <2>6, Asked
<1>16. CASE ~ (more /\ read.pages + 1 < read.limit.pages)
    <2>1. PICK isComplete, after : isComplete = (~ more) /\ after = Project(next, isComplete)
        OBVIOUS
    <2>2. isComplete \in BOOLEAN
        BY <2>1
    <2>3. /\ after \in ReadRow /\ after.stage = "reading" /\ after.detected = next.detected
          /\ after.cutoff = next.cutoff /\ after.safe = next.safe /\ after.complete = after.absent
          /\ after.absent => /\ isComplete /\ ~ next.skipped
                            /\ after.left = next.listed /\ after.excluded = {}
        BY <1>13, <2>1, <2>2, Projected
    <2>4. Ask(after)
        BY <1>6, <1>16, <2>1
    <2>5. read' = after /\ mail' = mail /\ moved' = moved
        BY <2>4 DEF Ask
    <2>6. ASSUME isComplete, ~ skipped, NEW t \in Threads \ moved, Queried(t)
          PROVE  mail[t].form.shape # "nameless" /\ t \in ToSet(listed)
        <3>1. page = {} \/ Older(oldest) = {}
            BY <2>1, <2>6
        <3>2. page = {} \/ mail[t].at >= oldest
            <4>1. mail[t].at \in Nat
                BY <1>1 DEF MailType, MailEntry
            <4> QED
                BY <1>8, <2>6, <3>1, <4>1 DEF Older
        <3> QED
            BY <1>14, <2>6, <3>2
    <2>7. ReadingOK'
        BY <1>13, <2>3, <2>5, <2>6 DEF ReadingOK, Asks, Queried
    <2> QED
        BY <2>3, <2>4, <2>7, Asked
<1> QED
    BY <1>15, <1>16

(* What is left of the list is its head and its tail.                      *)
LEMMA ToSetOfLeft ==
    ASSUME NEW S, NEW s \in Seq(S), s # <<>>
    PROVE  /\ Head(s) \in S /\ Tail(s) \in Seq(S)
           /\ ToSet(s) = {Head(s)} \cup ToSet(Tail(s)) /\ ToSet(s) \in SUBSET S
<1>1. /\ Len(s) \in Nat \ {0} /\ Head(s) = s[1] /\ Tail(s) \in Seq(S)
      /\ Len(Tail(s)) = Len(s) - 1 /\ \A i \in 1 .. Len(s) - 1 : Tail(s)[i] = s[i + 1]
      /\ DOMAIN s = 1 .. Len(s) /\ \A i \in 1 .. Len(s) : s[i] \in S
    OBVIOUS
<1>2. PICK t : t = Tail(s)
    OBVIOUS
<1>3. DOMAIN t = 1 .. Len(s) - 1 /\ \A i \in 1 .. Len(s) - 1 : t[i] = s[i + 1]
    BY <1>1, <1>2
<1>4. Head(s) \in S /\ Head(s) \in ToSet(s)
    <2>1. 1 \in 1 .. Len(s)
        BY <1>1
    <2> QED
        BY <1>1, <2>1 DEF ToSet
<1>5. ASSUME NEW i \in 1 .. Len(s) PROVE s[i] \in {Head(s)} \cup ToSet(t)
    <2>1. CASE i = 1
        BY <1>1, <2>1
    <2>2. CASE i # 1
        <3>1. i - 1 \in 1 .. Len(s) - 1 /\ (i - 1) + 1 = i
            BY <1>1, <2>2
        <3>2. t[i - 1] = s[i]
            BY <1>3, <3>1
        <3> QED
            BY <1>3, <3>1, <3>2 DEF ToSet
    <2> QED
        BY <2>1, <2>2
<1>6. ASSUME NEW i \in 1 .. Len(s) - 1 PROVE t[i] \in ToSet(s)
    <2>1. i + 1 \in 1 .. Len(s) /\ t[i] = s[i + 1]
        BY <1>1, <1>3
    <2> QED
        BY <1>1, <2>1 DEF ToSet
<1>7. ToSet(s) = {Head(s)} \cup ToSet(t)
    <2>1. ToSet(s) \subseteq {Head(s)} \cup ToSet(t)
        <3>1. \A x \in ToSet(s) : \E i \in 1 .. Len(s) : x = s[i]
            BY <1>1 DEF ToSet
        <3> QED
            BY <1>5, <3>1
    <2>2. ToSet(t) \subseteq ToSet(s)
        <3>1. \A x \in ToSet(t) : \E i \in 1 .. Len(s) - 1 : x = t[i]
            BY <1>3 DEF ToSet
        <3> QED
            BY <1>6, <3>1
    <2> QED
        BY <1>4, <2>1, <2>2
<1>8. ToSet(s) \in SUBSET S
    BY <1>1 DEF ToSet
<1> QED
    BY <1>1, <1>2, <1>4, <1>7, <1>8

(* What one detail adds to the pass.                                       *)
LEMMA DetectedIn ==
    ASSUME MailType, NEW t \in Threads
    PROVE  /\ Detected(t) \subseteq Threads \X Nat
           /\ Asks(t) /\ mail[t].form.shape \in {"plain", "clipped"} =>
                <<t, mail[t].at>> \in Detected(t) /\ ShapeRead(t) = mail[t].form.shape
           /\ Asks(t) => ShapeRead(t) = mail[t].form.shape
<1>1. mail[t].at \in Nat
    BY DEF MailType, MailEntry
<1>2. Asks(t) => ShapeRead(t) = mail[t].form.shape
    BY DEF Asks, Queried, ShapeRead
<1>3. Detected(t) \subseteq Threads \X Nat
    BY <1>1 DEF Detected
<1>4. Asks(t) /\ mail[t].form.shape \in {"plain", "clipped"} => <<t, mail[t].at>> \in Detected(t)
    BY <1>2 DEF Detected, Asks, Queried
<1> QED
    BY <1>2, <1>3, <1>4

(* A thread read in full is detected, and safe or excluded.                *)
LEMMA DetailWhole ==
    ASSUME InboxInd, read.stage = "reading", NEW t \in Threads, NEW left \in Seq(Threads),
           ToSet(read.left) = {t} \cup ToSet(left), NEW safe, NEW excluded,
           \/ safe = read.safe \cup {t} /\ excluded = read.excluded /\ ShapeRead(t) = "plain"
           \/ safe = read.safe /\ excluded = read.excluded \cup {t} /\ ShapeRead(t) # "plain",
           mail' = mail, moved' = moved,
           NEW after, read' = after, after.left = left, after.safe = safe, after.excluded = excluded,
           after.detected = read.detected \cup Detected(t), after.complete = read.complete,
           after.absent = read.absent, after.cutoff = read.cutoff
    PROVE  ReadingOK'
<1>1. MailType /\ ReadingOK
    BY DEF InboxInd
<1>2. /\ Asks(t) => ShapeRead(t) = mail[t].form.shape
      /\ Asks(t) /\ mail[t].form.shape \in {"plain", "clipped"} => <<t, mail[t].at>> \in Detected(t)
    BY <1>1, DetectedIn
<1>3. mail[t].form.shape \in Shapes
    BY <1>1 DEF MailType, MailEntry, FormRow
<1>4. after.complete => after.absent
    BY <1>1 DEF ReadingOK
<1>5. after.absent =>
        \A u \in Threads \ moved : Queried(u) =>
            mail[u].form.shape # "nameless" /\ u \in ToSet(left) \cup excluded \cup safe
    BY <1>1 DEF ReadingOK
<1>6. \A u \in safe \ moved : Asks(u) => <<u, mail[u].at>> \in after.detected
    BY <1>1, <1>2 DEF ReadingOK
<1>7. after.complete =>
        \A u \in excluded \ moved : Asks(u) =>
            mail[u].form.shape \in {"unlabelled", "blank"} \/ <<u, mail[u].at>> \in after.detected
    <2>1. SUFFICES ASSUME after.complete, NEW u \in excluded \ moved, Asks(u)
                   PROVE  mail[u].form.shape \in {"unlabelled", "blank"}
                            \/ <<u, mail[u].at>> \in after.detected
        OBVIOUS
    <2>2. CASE u \in read.excluded
        BY <1>1, <2>1, <2>2 DEF ReadingOK
    <2>3. CASE u \notin read.excluded
        <3>1. u = t /\ ShapeRead(t) # "plain"
            BY <2>1, <2>3
        <3>2. mail[t].form.shape # "nameless"
            BY <1>1, <2>1, <3>1 DEF ReadingOK, Asks
        <3> QED
            BY <1>2, <1>3, <2>1, <3>1, <3>2 DEF Shapes
    <2> QED
        BY <2>2, <2>3
<1> QED
    BY <1>4, <1>5, <1>6, <1>7 DEF ReadingOK, Asks, Queried

LEMMA ThreadRead ==
    ASSUME InboxInd, ReadThread
    PROVE  InboxInd'
<1>1. /\ MailType /\ read \in ReadRow /\ read.stage = "reading" /\ ReadingOK
      /\ read.left \in Seq(Threads) /\ read.left # <<>> /\ read.complete \in BOOLEAN
      /\ Ask(Detail(Head(read.left)))
      /\ read.detected \in SUBSET (Threads \X Nat) /\ read.safe \in SUBSET Threads
      /\ read.excluded \in SUBSET Threads
    BY DEF InboxInd, ReadThread, ReadRow
<1>2. PICK t : t = Head(read.left)
    OBVIOUS
<1>3. /\ t \in Threads /\ Tail(read.left) \in Seq(Threads)
      /\ ToSet(read.left) = {t} \cup ToSet(Tail(read.left)) /\ ToSet(read.left) \in SUBSET Threads
    BY <1>1, <1>2, ToSetOfLeft
<1>4. ThreadLimit \in Nat /\ mail[t].form.size \in Nat
    BY <1>1, <1>3, InboxAssumption DEF MailType, MailEntry, FormRow
<1>5. PICK cut, bill : cut = CutShort(ThreadLimit, mail[t].form.size)
                       /\ bill = Paid(ThreadLimit, mail[t].form.size)
    OBVIOUS
<1>6. PaidRow(bill)
    BY <1>1, <1>4, <1>5, PaidFields
<1>7. PICK left : left = IF cut = "sync" THEN <<>> ELSE Tail(read.left)
    OBVIOUS
<1>8. left \in Seq(Threads)
    BY <1>3, <1>7
<1>9. PICK paid : paid = [bill EXCEPT !.left = left]
    OBVIOUS
<1>10. /\ paid \in ReadRow /\ paid.stage = "reading" /\ paid.left = left
       /\ paid.cutoff = read.cutoff
       /\ paid.detected = read.detected /\ paid.safe = read.safe
       /\ paid.excluded = read.excluded /\ paid.complete = read.complete
       /\ paid.absent = read.absent
    <2>1. paid \in ReadRow
        BY <1>6, <1>8, <1>9 DEF PaidRow, ReadRow
    <2> QED
        BY <1>1, <1>6, <1>9, <2>1 DEF PaidRow, ReadRow
<1>11. PICK after : after = Detail(t)
    OBVIOUS
<1>12. paid = [Paid(ThreadLimit, mail[t].form.size) EXCEPT
                 !.left = IF cut = "sync" THEN <<>> ELSE Tail(@)]
    BY <1>5, <1>6, <1>7, <1>9 DEF PaidRow
<1>13. after = IF cut # "no"
              THEN [paid EXCEPT !.complete = FALSE,
                                !.excluded = @ \cup IF cut = "sync"
                                                    THEN ToSet(read.left) ELSE {t}]
              ELSE IF ShapeRead(t) = "plain"
              THEN [paid EXCEPT !.detected = @ \cup Detected(t), !.safe = @ \cup {t}]
              ELSE [paid EXCEPT !.detected = @ \cup Detected(t), !.excluded = @ \cup {t}]
    BY <1>5, <1>11, <1>12 DEF Detail
<1>14. Ask(after)
    BY <1>1, <1>2, <1>11
<1>15. read' = after /\ mail' = mail /\ moved' = moved
    BY <1>14 DEF Ask
<1>16. Detected(t) \in SUBSET (Threads \X Nat)
    BY <1>1, <1>3, DetectedIn
<1>17. CASE cut # "no"
    <2>1. PICK gone : gone = IF cut = "sync" THEN ToSet(read.left) ELSE {t}
        OBVIOUS
    <2>2. gone \in SUBSET Threads /\ ToSet(read.left) \subseteq ToSet(left) \cup gone
        BY <1>3, <1>7, <2>1
    <2>3. PICK excluded : excluded = read.excluded \cup gone
        OBVIOUS
    <2>4. after = [paid EXCEPT !.complete = FALSE, !.excluded = excluded]
        BY <1>10, <1>13, <1>17, <2>1, <2>3
    <2>5. /\ after \in ReadRow /\ after.stage = "reading" /\ after.left = left
          /\ after.detected = read.detected /\ after.safe = read.safe
          /\ after.excluded = excluded /\ after.complete = FALSE /\ after.absent = read.absent
          /\ after.cutoff = read.cutoff
        <3>1. after \in ReadRow
            BY <1>1, <1>10, <2>2, <2>3, <2>4 DEF ReadRow
        <3> QED
            BY <1>10, <2>4, <3>1 DEF ReadRow
    <2>6. ReadingOK'
        BY <1>1, <1>15, <2>2, <2>3, <2>5 DEF ReadingOK, Asks, Queried
    <2> QED
        BY <1>14, <2>5, <2>6, Asked
<1>18. CASE cut = "no"
    <2>1. PICK detected : detected = read.detected \cup Detected(t)
        OBVIOUS
    <2>2. detected \in SUBSET (Threads \X Nat)
        BY <1>1, <1>16, <2>1
    <2>3. left = Tail(read.left) /\ ToSet(read.left) = {t} \cup ToSet(left)
        BY <1>3, <1>7, <1>18
    <2>4. CASE ShapeRead(t) = "plain"
        <3>1. PICK safe : safe = read.safe \cup {t}
            OBVIOUS
        <3>2. after = [paid EXCEPT !.detected = detected, !.safe = safe]
            BY <1>10, <1>13, <1>18, <2>1, <2>4, <3>1
        <3>3. /\ after \in ReadRow /\ after.stage = "reading" /\ after.left = left
              /\ after.detected = detected /\ after.safe = safe
              /\ after.excluded = read.excluded /\ after.complete = read.complete
              /\ after.absent = read.absent /\ after.cutoff = read.cutoff
            <4>1. after \in ReadRow
                BY <1>1, <1>3, <1>10, <2>2, <3>1, <3>2 DEF ReadRow
            <4> QED
                BY <1>10, <3>2, <4>1 DEF ReadRow
        <3>4. ReadingOK'
            BY <1>1, <1>3, <1>8, <1>15, <2>1, <2>3, <2>4, <3>1, <3>3, DetailWhole
        <3> QED
            BY <1>14, <3>3, <3>4, Asked
    <2>5. CASE ShapeRead(t) # "plain"
        <3>1. PICK excluded : excluded = read.excluded \cup {t}
            OBVIOUS
        <3>2. after = [paid EXCEPT !.detected = detected, !.excluded = excluded]
            BY <1>10, <1>13, <1>18, <2>1, <2>5, <3>1
        <3>3. /\ after \in ReadRow /\ after.stage = "reading" /\ after.left = left
              /\ after.detected = detected /\ after.safe = read.safe
              /\ after.excluded = excluded /\ after.complete = read.complete
              /\ after.absent = read.absent /\ after.cutoff = read.cutoff
            <4>1. after \in ReadRow
                BY <1>1, <1>3, <1>10, <2>2, <3>1, <3>2 DEF ReadRow
            <4> QED
                BY <1>10, <3>2, <4>1 DEF ReadRow
        <3>4. ReadingOK'
            BY <1>1, <1>3, <1>8, <1>15, <2>1, <2>3, <2>5, <3>1, <3>3, DetailWhole
        <3> QED
            BY <1>14, <3>3, <3>4, Asked
    <2> QED
        BY <2>4, <2>5
<1> QED
    BY <1>17, <1>18

LEMMA InboxIndStep == InboxInd /\ [InboxNext]_inboxVars => InboxInd'
<1> SUFFICES ASSUME InboxInd, [InboxNext]_inboxVars PROVE InboxInd'
    OBVIOUS
<1>1. CASE \E t \in Threads : Message(t) \/ Archive(t) \/ Relabel(t) \/ BecomeDue(t)
    BY <1>1, MailKeeps
<1>2. CASE BeginRead
    BY <1>2, PassBegins
<1>3. CASE ReadProfile
    BY <1>3, ProfileRead
<1>4. CASE ListThreads
    BY <1>4, ThreadsListed
<1>5. CASE ReadThread
    BY <1>5, ThreadRead
<1>6. CASE ApplyRead \/ FailRead
    BY <1>6, PassEnds
<1>7. CASE Age
    <2>1. /\ mail' = mail /\ read' = read /\ found' = found /\ moved' = moved
          /\ changes' = changes /\ horizon' = horizon + 1
        BY <1>7 DEF Age
    <2> QED
        BY <2>1 DEF InboxInd, MailType, ListingOK, Passed, ReadingOK, Asks, Queried
<1>8. CASE UNCHANGED inboxVars
    BY <1>8 DEF inboxVars, InboxInd, MailType, ListingOK, Passed, ReadingOK, Asks, Queried
<1> QED
    BY <1>1, <1>2, <1>3, <1>4, <1>5, <1>6, <1>7, <1>8 DEF InboxNext

LEMMA InboxAlways == InboxSpec => []InboxInd
    BY InboxIndInit, InboxIndStep, PTL DEF InboxSpec

-----------------------------------------------------------------------------
(* The inbox: the theorems.                                                *)

(* Only the end of a pass changes what is stored.                          *)
LEMMA OnlyApplied ==
    ASSUME [InboxNext]_inboxVars
    PROVE  /\ found' # found => ApplyRead
           /\ read.stage = "reading" /\ read.left = <<>> /\ read' # read => ApplyRead
BY DEF InboxNext, inboxVars, Message, Archive, Relabel, BecomeDue, ChangeThread, Age, BeginRead,
       ReadProfile, ListThreads, ReadThread, FailRead, Ask

(* For every mailbox, every limit of pages and threads and every budget, a *)
(* reply situation is resolved only when its thread changed during the     *)
(* pass, left the inbox, had aged out of the lookback when the pass began  *)
(* to list, or shows another latest message or one that needs no reply;    *)
(* the exception is a thread a complete pass projected with a warning or   *)
(* not at all.  (after_query, resolution_excluded_thread_ids,              *)
(* allows_absent_resolution)                                               *)
THEOREM NothingFalselyResolved == InboxSpec => NoFalseResolution
<1>1. InboxInd /\ [InboxNext]_inboxVars =>
        [\A r \in found \ found' :
            \/ ~Steady(r[1]) \/ mail[r[1]].at # r[2]
            \/ read.complete /\ mail[r[1]].form.shape \in {"unlabelled", "blank"}]_inboxVars
    <2> SUFFICES ASSUME InboxInd, [InboxNext]_inboxVars, NEW r \in found \ found',
                        Steady(r[1]), mail[r[1]].at = r[2]
                 PROVE  read.complete /\ mail[r[1]].form.shape \in {"unlabelled", "blank"}
        OBVIOUS
    <2>0. found' # found
        OBVIOUS
    <2>1. ApplyRead
        BY <2>0, OnlyApplied
    <2>2. /\ ReadingOK /\ read.left = <<>> /\ r \notin read.detected /\ Resolves(r)
          /\ found \subseteq Threads \X Nat
        BY <2>1 DEF ApplyRead, InboxInd
    <2>3. r[1] \in Threads /\ r = <<r[1], r[2]>>
        BY <2>2
    <2>4. PICK t : t = r[1]
        OBVIOUS
    <2>5. t \in Threads \ moved /\ Queried(t) /\ Asks(t) /\ r = <<t, mail[t].at>>
        BY <2>3, <2>4 DEF Steady, Asks
    <2>6. ToSet(read.left) = {}
        BY <2>2 DEF ToSet
    <2>7. t \notin read.safe
        BY <2>2, <2>5 DEF ReadingOK
    <2>8. read.absent => t \in read.excluded
        BY <2>2, <2>5, <2>6, <2>7 DEF ReadingOK
    <2>9. read.complete
        BY <2>2, <2>4, <2>7, <2>8 DEF Resolves
    <2>10. t \in read.excluded
        BY <2>2, <2>8, <2>9 DEF ReadingOK
    <2>11. mail[t].form.shape \in {"unlabelled", "blank"}
        BY <2>2, <2>5, <2>9, <2>10 DEF ReadingOK
    <2> QED
        BY <2>4, <2>9, <2>11
<1> QED
    BY <1>1, InboxAlways, PTL DEF InboxSpec, NoFalseResolution

(* For every mailbox and every limit, a pass that reports complete coverage*)
(* leaves every reply that is due in an unchanged, plainly readable thread *)
(* of its lookback window stored.  (coverage_complete, after_query)        *)
THEOREM CompleteCovers == InboxSpec => CompleteMeansCovered
<1>1. InboxInd /\ [InboxNext]_inboxVars =>
        [read.stage = "reading" /\ read'.stage = "idle" /\ read.complete
           /\ read.left = <<>> =>
           \A t \in Threads :
              Steady(t) /\ mail[t].form.shape \in {"plain", "clipped"} =>
                  <<t, mail[t].at>> \in found']_inboxVars
    <2> SUFFICES ASSUME InboxInd, [InboxNext]_inboxVars, read.stage = "reading",
                        read'.stage = "idle", read.complete, read.left = <<>>,
                        NEW t \in Threads, Steady(t),
                        mail[t].form.shape \in {"plain", "clipped"}
                 PROVE  <<t, mail[t].at>> \in found'
        OBVIOUS
    <2>1. ApplyRead
        BY OnlyApplied
    <2>2. ReadingOK /\ read.detected \subseteq found'
        BY <2>1 DEF ApplyRead, InboxInd
    <2>3. ToSet(read.left) = {}
        BY DEF ToSet
    <2>4. t \in Threads \ moved /\ Queried(t) /\ Asks(t)
        BY DEF Steady, Asks
    <2>5. t \in read.excluded \cup read.safe
        BY <2>2, <2>3, <2>4 DEF ReadingOK
    <2>6. <<t, mail[t].at>> \in read.detected
        BY <2>2, <2>4, <2>5 DEF ReadingOK
    <2> QED
        BY <2>2, <2>6
<1> QED
    BY <1>1, InboxAlways, PTL DEF InboxSpec, CompleteMeansCovered

-----------------------------------------------------------------------------
(* The calendar: types.                                                    *)

View == [id : Events, form : EventInputs]
SyncRow == [stage : {"idle", "listing", "listed", "sweeping"}, since : Nat,
            last : Int \X Nat, pages : Nat, events : SUBSET View, skipped : BOOLEAN,
            now : Nat, todo : SUBSET View, active : SUBSET View,
            found : SUBSET SUBSET View, full : BOOLEAN]

(* An event that has not changed and that the query asks for is among the  *)
(* events of the pass, or counted as skipped, once the list has passed it. *)
Wanted(e) == calendar[e].end > sync.since /\ calendar[e].start < sync.since + Lookahead
Covered(e) ==
    IF calendar[e].kind = "malformed" THEN sync.skipped
    ELSE [id |-> e, form |-> calendar[e]] \in sync.events
ListedOK ==
    \A e \in Events \ touched :
        Wanted(e) /\ (sync.stage = "listing" => ~ Earlier(sync.last, Position(e))) => Covered(e)

(* The loop of the sweep.  What has been swept comes before what has not;  *)
(* what is no longer active ends before anything that is still to come;    *)
(* and the detections so far are the conflicts among what has been swept.  *)
Counting == Committed(sync.events, sync.now)
Swept == Counting \ sync.todo
SweepOpen ==
    /\ sync.active \subseteq Swept
    /\ \A v \in Swept, w \in sync.todo : SweptBefore(v, w)
    /\ \A v \in Swept \ sync.active, w \in sync.todo : v.form.end <= w.form.start
    /\ sync.found = ConflictingPairs(Swept, sync.now)
    /\ Cardinality(sync.found) <= MaxConflicts
SweepFull ==
    /\ sync.todo = {}
    /\ sync.found \subseteq ConflictingPairs(sync.events, sync.now)
    /\ Cardinality(sync.found) = MaxConflicts
    /\ Cardinality(ConflictingPairs(sync.events, sync.now)) > MaxConflicts
SweepOK ==
    /\ sync.now \in sync.since .. hour
    /\ sync.todo \subseteq Counting
    /\ IF sync.full THEN SweepFull ELSE SweepOpen

CalendarInd ==
    /\ calendar \in [Events -> EventInputs] /\ hour \in Nat /\ moves \in Nat
    /\ sync \in SyncRow /\ IsFiniteSet(sync.events) /\ touched \subseteq Events
    /\ \A pair \in conflicts : \E e, f \in Events : pair = {e, f}
    /\ sync.stage # "idle" => sync.since <= hour /\ ListedOK
    /\ sync.stage \in {"listing", "listed"} =>
         /\ sync.todo = {} /\ sync.active = {} /\ sync.found = {} /\ ~ sync.full
    /\ sync.stage = "sweeping" => SweepOK

-----------------------------------------------------------------------------
(* The calendar: events, positions and pairs.                              *)

LEMMA EventForms ==
    ASSUME NEW v \in EventInputs
    PROVE  /\ v.start \in Nat /\ v.end \in Nat /\ v.allDay \in BOOLEAN /\ v.start <= v.end
           /\ v.kind \in {"committed", "other", "malformed"}
    BY CalendarAssumption

LEMMA Numbers ==
    /\ Events \subseteq Nat /\ IsFiniteSet(Events)
    /\ EventsPerPage \in Nat \ {0} /\ Lookahead \in Nat \ {0} /\ MaxConflicts \in Nat
    BY CalendarAssumption

LEMMA NoSyncTyped == NoSync \in SyncRow /\ NoSync.stage = "idle" /\ NoSync.events = {}
<1>1. <<-1, 0>> \in Int \X Nat
    OBVIOUS
<1> QED
    BY <1>1 DEF NoSync, SyncRow

LEMMA CalendarIndInit == CalendarInit => CalendarInd
    BY NoSyncTyped, FS_EmptySet DEF CalendarInit, CalendarInd

LEMMA EarlierThrough ==
    ASSUME NEW a \in Nat, NEW x \in Nat, NEW b \in Nat, NEW y \in Nat, NEW c \in Nat,
           NEW z \in Nat, Earlier(<<a, x>>, <<b, y>>), ~ Earlier(<<c, z>>, <<b, y>>)
    PROVE  Earlier(<<a, x>>, <<c, z>>)
    BY DEF Earlier

(* A page holds everything up to its last event.                           *)
LEMMA EventPageHolds ==
    ASSUME CalendarInd, NEW last \in LastPositions
    PROVE  /\ EventPage \in SUBSET Events /\ last \in Int \X Nat
           /\ \A e \in Unlisted(sync.last) : ~ Earlier(last, Position(e)) => e \in EventPage
<1> DEFINE older == Unlisted(sync.last)
           before(e) == {f \in older : Earlier(Position(f), Position(e))}
<1>1. EventPage = {e \in older : Cardinality(before(e)) < EventsPerPage}
    BY DEF EventPage
<1>2. older \in SUBSET Events /\ \A e \in older : Earlier(sync.last, Position(e))
    BY DEF Unlisted
<1>3. \A e \in Events : calendar[e].start \in Nat /\ e \in Nat
    BY EventForms, Numbers DEF CalendarInd
<1>4. IsFiniteSet(older) /\ EventsPerPage \in Nat
    BY <1>2, Numbers, FS_Subset
<1>5. EventPage \in SUBSET Events
    BY <1>1, <1>2
<1>6. \A e \in Events : Position(e) = <<calendar[e].start, e>>
    BY DEF Position
<1>7. last \in Int \X Nat
    <2>1. CASE EventPage = {}
        BY <2>1 DEF LastPositions, CalendarInd, SyncRow
    <2>2. CASE EventPage # {}
        <3>1. PICK e \in EventPage : last = Position(e)
            BY <2>2 DEF LastPositions
        <3>2. e \in Events
            BY <1>5
        <3> QED
            BY <1>3, <1>6, <3>1, <3>2
    <2> QED
        BY <2>1, <2>2
<1>8. ASSUME NEW e \in older, ~ Earlier(last, Position(e)) PROVE e \in EventPage
    <2>1. CASE EventPage = {}
        BY <1>2, <1>8, <2>1 DEF LastPositions
    <2>2. CASE EventPage # {}
        <3>1. PICK g \in EventPage : last = Position(g)
            BY <2>2 DEF LastPositions
        <3>2. g \in older /\ Cardinality(before(g)) < EventsPerPage
            BY <1>1
        <3>3. before(e) \in SUBSET before(g) /\ before(g) \in SUBSET older
            <4> SUFFICES ASSUME NEW f \in older, Earlier(Position(f), Position(e))
                         PROVE  Earlier(Position(f), Position(g))
                OBVIOUS
            <4>1. e \in Events /\ f \in Events /\ g \in Events
                BY <1>2, <3>2
            <4>2. /\ calendar[e].start \in Nat /\ calendar[f].start \in Nat
                  /\ calendar[g].start \in Nat /\ e \in Nat /\ f \in Nat /\ g \in Nat
                BY <1>3, <4>1
            <4>3. ~ Earlier(Position(g), Position(e))
                BY <1>8, <3>1
            <4> QED
                BY <1>6, <4>1, <4>2, <4>3, EarlierThrough
        <3>4. IsFiniteSet(before(g))
            BY <1>4, <3>3, FS_Subset
        <3>5. IsFiniteSet(before(e)) /\ Cardinality(before(e)) <= Cardinality(before(g))
            BY <3>3, <3>4, FS_Subset
        <3>6. Cardinality(before(e)) \in Nat /\ Cardinality(before(g)) \in Nat
            BY <3>4, <3>5, FS_CardinalityType
        <3> HIDE DEF before
        <3>7. Cardinality(before(e)) < EventsPerPage
            BY <1>4, <3>2, <3>5, <3>6
        <3> QED
            BY <1>1, <3>7
    <2> QED
        BY <2>1, <2>2
<1> QED
    BY <1>5, <1>7, <1>8

LEMMA ParsedFinite ==
    ASSUME CalendarInd, NEW page \in SUBSET Events
    PROVE  Parsed(page) \in SUBSET View /\ IsFiniteSet(Parsed(page))
<1> DEFINE readable == {f \in page : calendar[f].kind # "malformed"}
           view == [e \in readable |-> [id |-> e, form |-> calendar[e]]]
<1>1. readable \in SUBSET Events /\ IsFiniteSet(readable)
    BY Numbers, FS_Subset
<1>2. Parsed(page) = {view[e] : e \in readable}
    BY DEF Parsed
<1>3. \A e \in readable : view[e] \in View
    BY <1>1 DEF CalendarInd, View
<1>4. view = [e \in readable |-> view[e]]
    OBVIOUS
<1> HIDE DEF readable, view
<1>5. IsFiniteSet({view[e] : e \in readable})
    BY <1>1, <1>4, ImageFinite
<1> QED
    BY <1>2, <1>3, <1>5

-----------------------------------------------------------------------------
(* The calendar: every step keeps the invariant.                           *)

(* Neither a change of the calendar nor the clock disturbs the sweep.      *)
LEMMA SweepKept ==
    ASSUME SweepOK, sync \in SyncRow, sync' = sync, hour \in Nat, hour' \in Nat, hour <= hour'
    PROVE  SweepOK'
<1>1. sync.now \in Nat /\ sync.since \in Nat
    BY DEF SyncRow
<1>2. (sync.now \in sync.since .. hour)'
    BY <1>1 DEF SweepOK
<1>3. (sync.todo \subseteq Counting)'
    BY DEF SweepOK, Counting, Committed
<1>4. (IF sync.full THEN SweepFull ELSE SweepOpen)'
    BY DEF SweepOK, SweepFull, SweepOpen, Swept, Counting, Committed, ConflictingPairs,
           Conflicting, SweptBefore
<1> QED
    BY <1>2, <1>3, <1>4 DEF SweepOK

LEMMA EventChanges ==
    ASSUME CalendarInd, NEW e \in Events, NEW form \in EventInputs, ChangeEvent(e, form)
    PROVE  CalendarInd'
<1>1. /\ calendar' = [calendar EXCEPT ![e] = form] /\ hour' = hour /\ sync' = sync
      /\ conflicts' = conflicts /\ moves' = moves + 1
      /\ touched' = (IF sync = NoSync THEN {} ELSE touched \cup {e})
    BY DEF ChangeEvent
<1>2. /\ calendar \in [Events -> EventInputs] /\ hour \in Nat /\ moves \in Nat
      /\ sync \in SyncRow /\ touched \subseteq Events
    BY DEF CalendarInd
<1>3. calendar' \in [Events -> EventInputs] /\ \A u \in Events \ {e} : calendar'[u] = calendar[u]
    BY <1>1, <1>2
<1>4. ASSUME sync.stage # "idle" PROVE ListedOK'
    <2>1. touched' = touched \cup {e}
        BY <1>1, <1>4, NoSyncTyped
    <2>2. ListedOK
        BY <1>4 DEF CalendarInd
    <2>3. \A u \in Events \ touched' : u \in Events \ touched /\ calendar'[u] = calendar[u]
        BY <1>3, <2>1
    <2> QED
        BY <1>1, <2>2, <2>3 DEF ListedOK, Wanted, Covered, Position, Earlier
<1>5. ASSUME sync.stage = "sweeping" PROVE SweepOK'
    BY <1>1, <1>2, <1>5, SweepKept DEF CalendarInd
<1>6. touched' \subseteq Events /\ moves' \in Nat
    BY <1>1, <1>2
<1> QED
    BY <1>1, <1>3, <1>4, <1>5, <1>6 DEF CalendarInd

LEMMA HourGoesOn ==
    ASSUME CalendarInd, HourPasses
    PROVE  CalendarInd'
<1>1. /\ hour' = hour + 1 /\ calendar' = calendar /\ sync' = sync /\ conflicts' = conflicts
      /\ touched' = touched /\ moves' = moves /\ hour \in Nat /\ sync \in SyncRow
    BY DEF HourPasses, CalendarInd
<1>2. hour' \in Nat /\ hour <= hour' /\ sync.since \in Nat
    BY <1>1 DEF SyncRow
<1>3. ASSUME sync.stage = "sweeping" PROVE SweepOK'
    BY <1>1, <1>2, <1>3, SweepKept DEF CalendarInd
<1>4. ASSUME sync.stage # "idle" PROVE (sync.since <= hour)' /\ ListedOK'
    <2>1. sync.since <= hour /\ ListedOK
        BY <1>4 DEF CalendarInd
    <2>2. (sync.since <= hour)'
        BY <1>1, <1>2, <2>1
    <2> QED
        BY <1>1, <2>1, <2>2 DEF ListedOK, Wanted, Covered, Position, Earlier
<1> QED
    BY <1>1, <1>2, <1>3, <1>4 DEF CalendarInd

LEMMA SyncBegins ==
    ASSUME CalendarInd, BeginSync
    PROVE  CalendarInd'
<1>1. /\ sync' = [NoSync EXCEPT !.stage = "listing", !.since = hour]
      /\ calendar' = calendar /\ hour' = hour /\ conflicts' = conflicts
      /\ touched' = touched /\ moves' = moves /\ hour \in Nat
    BY DEF BeginSync, CalendarInd
<1>2. /\ sync' = [stage |-> "listing", since |-> hour, last |-> <<-1, 0>>, pages |-> 0,
                  events |-> {}, skipped |-> FALSE, now |-> 0, todo |-> {},
                  active |-> {}, found |-> {}, full |-> FALSE]
    BY <1>1 DEF NoSync
<1>3. PICK row : row = sync'
    OBVIOUS
<1>4. /\ row.stage = "listing" /\ row.since = hour /\ row.last = <<-1, 0>> /\ row.events = {}
      /\ row.todo = {} /\ row.active = {} /\ row.found = {} /\ row.full = FALSE
    BY <1>2, <1>3
<1>5. row \in SyncRow
    <2>1. <<-1, 0>> \in Int \X Nat
        OBVIOUS
    <2> QED
        BY <1>1, <1>2, <1>3, <2>1 DEF SyncRow
<1>6. \A e \in Events : Earlier(<<-1, 0>>, Position(e))
    <2> TAKE e \in Events
    <2>1. calendar[e].start \in Nat
        BY EventForms DEF CalendarInd
    <2>2. -1 < calendar[e].start
        BY <2>1
    <2> QED
        BY <2>2 DEF Earlier, Position
<1>7. ListedOK'
    BY <1>1, <1>3, <1>4, <1>6 DEF ListedOK, Position, Earlier
<1>8. (sync.since <= hour)' /\ IsFiniteSet(sync.events)' /\ (~ sync.full)'
    BY <1>1, <1>3, <1>4, FS_EmptySet
<1> QED
    BY <1>1, <1>3, <1>4, <1>5, <1>7, <1>8 DEF CalendarInd

LEMMA EventsListed ==
    ASSUME CalendarInd, ListEvents
    PROVE  CalendarInd'
<1>1. PICK last \in LastPositions :
        /\ sync.stage = "listing"
        /\ sync' = [sync EXCEPT
                      !.stage = IF Unlisted(last) # {} THEN "listing" ELSE "listed",
                      !.pages = @ + 1, !.last = last,
                      !.events = @ \cup Parsed(EventPage),
                      !.skipped = @ \/ \E e \in EventPage : calendar[e].kind = "malformed"]
    BY DEF ListEvents
<1>2. calendar' = calendar /\ hour' = hour /\ conflicts' = conflicts /\ touched' = touched
      /\ moves' = moves
    BY DEF ListEvents
<1>3. /\ sync \in SyncRow /\ sync.pages \in Nat /\ sync.skipped \in BOOLEAN /\ ListedOK
      /\ sync.events \in SUBSET View /\ IsFiniteSet(sync.events)
      /\ sync.todo = {} /\ sync.active = {} /\ sync.found = {} /\ ~ sync.full
    BY <1>1 DEF CalendarInd, SyncRow
<1>4. PICK page, stage, pages, events, skipped :
        /\ page = EventPage
        /\ stage = (IF Unlisted(last) # {} THEN "listing" ELSE "listed")
        /\ pages = sync.pages + 1
        /\ events = sync.events \cup Parsed(page)
        /\ skipped = (sync.skipped \/ \E e \in page : calendar[e].kind = "malformed")
    OBVIOUS
<1>5. PICK row : row = [sync EXCEPT !.stage = stage, !.pages = pages, !.last = last,
                                    !.events = events, !.skipped = skipped]
    OBVIOUS
<1>6. sync' = row
    BY <1>1, <1>4, <1>5
<1>7. /\ page \in SUBSET Events /\ last \in Int \X Nat
      /\ \A e \in Unlisted(sync.last) : ~ Earlier(last, Position(e)) => e \in page
    BY <1>4, EventPageHolds
<1>8. Parsed(page) \in SUBSET View /\ IsFiniteSet(Parsed(page))
    BY <1>7, ParsedFinite
<1>9. events \in SUBSET View /\ IsFiniteSet(events) /\ pages \in Nat /\ skipped \in BOOLEAN
    <2>1. IsFiniteSet(sync.events \cup Parsed(page))
        BY <1>3, <1>8, FS_Union
    <2>2. pages \in Nat
        BY <1>3, <1>4
    <2>3. skipped \in BOOLEAN
        BY <1>4
    <2>4. events \in SUBSET View
        BY <1>3, <1>4, <1>8
    <2> QED
        BY <1>4, <2>1, <2>2, <2>3, <2>4
<1>10. /\ row \in SyncRow /\ row.stage = stage /\ row.last = last /\ row.events = events
       /\ row.skipped = skipped /\ row.since = sync.since /\ row.todo = sync.todo
       /\ row.active = sync.active /\ row.found = sync.found /\ row.full = sync.full
    <2>1. stage \in {"listing", "listed"}
        BY <1>4
    <2>2. PICK a : a = [sync EXCEPT !.stage = stage, !.pages = pages, !.last = last]
        OBVIOUS
    <2>3. a \in SyncRow
        BY <1>3, <1>7, <1>9, <2>1, <2>2 DEF SyncRow
    <2>4. row = [a EXCEPT !.events = events, !.skipped = skipped]
        BY <1>5, <2>2
    <2>5. row \in SyncRow
        BY <1>9, <2>3, <2>4 DEF SyncRow
    <2> QED
        BY <1>3, <1>5, <2>5 DEF SyncRow
<1>11. ASSUME NEW e \in Events \ touched, Wanted(e), stage = "listing" => ~ Earlier(last, Position(e))
       PROVE  IF calendar[e].kind = "malformed" THEN skipped
              ELSE [id |-> e, form |-> calendar[e]] \in events
    <2>1. ~ Earlier(last, Position(e))
        <3>1. CASE Unlisted(last) # {}
            BY <1>4, <1>11, <3>1
        <3>2. CASE Unlisted(last) = {}
            BY <1>11, <3>2 DEF Unlisted, Wanted
        <3> QED
            BY <3>1, <3>2
    <2>2. CASE Earlier(sync.last, Position(e))
        <3>1. e \in Unlisted(sync.last)
            BY <1>11, <2>2 DEF Unlisted, Wanted
        <3>2. e \in page
            BY <1>7, <2>1, <3>1
        <3> QED
            BY <1>4, <3>2 DEF Parsed
    <2>3. CASE ~ Earlier(sync.last, Position(e))
        <3>1. Covered(e)
            BY <1>3, <1>11, <2>3 DEF ListedOK
        <3> QED
            BY <1>4, <3>1 DEF Covered
    <2> QED
        BY <2>2, <2>3
<1>12. ListedOK'
    BY <1>2, <1>6, <1>10, <1>11 DEF ListedOK, Wanted, Covered, Position, Earlier
<1>13. stage \in {"listing", "listed"}
    BY <1>4
<1>14. (sync.since <= hour)'
    BY <1>1, <1>2, <1>6, <1>10 DEF CalendarInd
<1> QED
    BY <1>2, <1>3, <1>6, <1>9, <1>10, <1>12, <1>13, <1>14 DEF CalendarInd

LEMMA SweepBegins ==
    ASSUME CalendarInd, BeginSweep
    PROVE  CalendarInd'
<1>1. /\ sync.stage = "listed" /\ calendar' = calendar /\ hour' = hour /\ conflicts' = conflicts
      /\ touched' = touched /\ moves' = moves
    BY DEF BeginSweep
<1>2. /\ sync \in SyncRow /\ hour \in Nat /\ sync.since <= hour /\ sync.since \in Nat /\ ListedOK
      /\ sync.events \in SUBSET View /\ sync.todo = {} /\ sync.active = {} /\ sync.found = {}
      /\ ~ sync.full
    BY <1>1 DEF CalendarInd, SyncRow
<1>3. PICK todo : todo = {v \in sync.events : v.form.kind = "committed" /\ v.form.end > hour}
    OBVIOUS
<1>4. todo \in SUBSET View
    BY <1>2, <1>3
<1>5. PICK row : row = [sync EXCEPT !.stage = "sweeping", !.now = hour, !.todo = todo]
    OBVIOUS
<1>6. sync' = row
    BY <1>3, <1>5 DEF BeginSweep, Committed
<1>7. /\ row \in SyncRow /\ row.stage = "sweeping" /\ row.now = hour /\ row.todo = todo
      /\ row.since = sync.since /\ row.events = sync.events /\ row.skipped = sync.skipped
      /\ row.active = {} /\ row.found = {} /\ row.full = sync.full
    <2>1. row \in SyncRow
        BY <1>2, <1>4, <1>5 DEF SyncRow
    <2> QED
        BY <1>2, <1>5, <2>1 DEF SyncRow
<1>8. Counting' = todo /\ Swept' = {}
    BY <1>3, <1>6, <1>7 DEF Counting, Committed, Swept
<1>9. SweepOpen'
    <2>1. ConflictingPairs({}, hour) = {}
        BY DEF ConflictingPairs
    <2>2. Cardinality({}) = 0 /\ MaxConflicts \in Nat
        BY FS_EmptySet, Numbers
    <2>3. (sync.found = ConflictingPairs(Swept, sync.now))'
        BY <1>6, <1>7, <1>8, <2>1 DEF ConflictingPairs, Conflicting
    <2>4. (Cardinality(sync.found) <= MaxConflicts)'
        BY <1>6, <1>7, <2>2
    <2> QED
        BY <1>6, <1>7, <1>8, <2>3, <2>4 DEF SweepOpen
<1>10. SweepOK'
    <2>1. (sync.now \in sync.since .. hour)'
        BY <1>1, <1>2, <1>6, <1>7
    <2> QED
        BY <1>2, <1>6, <1>7, <1>8, <1>9, <2>1 DEF SweepOK
<1>11. ListedOK'
    BY <1>1, <1>2, <1>6, <1>7 DEF ListedOK, Wanted, Covered
<1> QED
    BY <1>1, <1>2, <1>6, <1>7, <1>10, <1>11 DEF CalendarInd

(* Pairs of events that conflict.                                          *)
LEMMA PairsAre ==
    ASSUME NEW S, NEW now, NEW x
    PROVE  x \in ConflictingPairs(S, now)
             <=> \E v, w \in S : v # w /\ Conflicting(v.form, w.form, now) /\ x = {v, w}
<1> DEFINE C(v, w) == Conflicting(v.form, w.form, now)
<1>1. ConflictingPairs(S, now)
        = {{p[1], p[2]} : p \in {q \in S \X S : q[1] # q[2] /\ C(q[1], q[2])}}
    BY DEF ConflictingPairs
<1> HIDE DEF C
<1>2. ASSUME NEW v \in S, NEW w \in S, v # w, C(v, w), x = {v, w}
      PROVE  x \in ConflictingPairs(S, now)
    <2>1. PICK q : q = <<v, w>>
        OBVIOUS
    <2>2. q \in S \X S /\ q[1] = v /\ q[2] = w
        BY <2>1
    <2> QED
        BY <1>1, <1>2, <2>2
<1>3. ASSUME x \in ConflictingPairs(S, now)
      PROVE  \E v, w \in S : v # w /\ C(v, w) /\ x = {v, w}
    <2>1. PICK q \in S \X S : q[1] # q[2] /\ C(q[1], q[2]) /\ x = {q[1], q[2]}
        BY <1>1, <1>3
    <2> QED
        BY <2>1
<1> QED
    BY <1>2, <1>3 DEF C

LEMMA ConflictingBothWays ==
    ASSUME NEW v, NEW w, NEW now, Conflicting(v, w, now)
    PROVE  Conflicting(w, v, now)
    BY DEF Conflicting

(* One event more adds its own conflicts.                                  *)
PairsWith(A, current) == {{v, current} : v \in A}
ConflictsOf(current, S, now) == {v \in S : Conflicting(v.form, current.form, now)}

LEMMA PairsGrow ==
    ASSUME NEW S, NEW current, current \notin S, NEW now
    PROVE  ConflictingPairs(S \cup {current}, now)
             = ConflictingPairs(S, now) \cup PairsWith(ConflictsOf(current, S, now), current)
<1> DEFINE T == S \cup {current}
           C(v, w) == Conflicting(v.form, w.form, now)
           A == {v \in S : Conflicting(v.form, current.form, now)}
<1>1. ASSUME NEW x \in ConflictingPairs(T, now)
      PROVE  x \in ConflictingPairs(S, now) \cup {{v, current} : v \in A}
    <2>1. PICK v \in T, w \in T : v # w /\ C(v, w) /\ x = {v, w}
        BY <1>1, PairsAre
    <2>2. C(w, v)
        BY <2>1, ConflictingBothWays
    <2> HIDE DEF C
    <2>3. CASE v \in S /\ w \in S
        BY <2>1, <2>3, PairsAre DEF C
    <2>4. CASE w = current
        BY <2>1, <2>4 DEF C
    <2>5. CASE v = current
        <3>1. w \in A /\ x = {w, current}
            BY <2>1, <2>2, <2>5 DEF C
        <3> QED
            BY <3>1
    <2> QED
        BY <2>3, <2>4, <2>5
<1>2. ASSUME NEW x \in ConflictingPairs(S, now) PROVE x \in ConflictingPairs(T, now)
    <2>1. PICK v \in S, w \in S : v # w /\ C(v, w) /\ x = {v, w}
        BY <1>2, PairsAre
    <2>2. v \in T /\ w \in T
        OBVIOUS
    <2> QED
        BY <2>1, <2>2, PairsAre
<1>3. ASSUME NEW v \in A PROVE {v, current} \in ConflictingPairs(T, now)
    <2>1. v \in T /\ current \in T /\ v # current /\ C(v, current)
        OBVIOUS
    <2> QED
        BY <2>1, PairsAre
<1> QED
    BY <1>1, <1>2, <1>3 DEF PairsWith, ConflictsOf

LEMMA PairsFinite ==
    ASSUME NEW S, IsFiniteSet(S), NEW now
    PROVE  /\ ConflictingPairs(S, now) \in SUBSET SUBSET S
           /\ IsFiniteSet(ConflictingPairs(S, now))
<1>1. ConflictingPairs(S, now) \in SUBSET SUBSET S
    <2>1. ASSUME NEW x \in ConflictingPairs(S, now) PROVE x \in SUBSET S
        BY PairsAre
    <2> QED
        BY <2>1
<1>2. IsFiniteSet(SUBSET S)
    BY FS_SUBSET
<1> QED
    BY <1>1, <1>2, FS_Subset

(* As many new pairs as candidates, none of them found before.             *)
LEMMA NewPairs ==
    ASSUME NEW S, NEW seen \in SUBSET SUBSET S, IsFiniteSet(seen), NEW current,
           current \notin S, NEW A \in SUBSET S, IsFiniteSet(A)
    PROVE  /\ IsFiniteSet(seen \cup PairsWith(A, current))
           /\ Cardinality(seen \cup PairsWith(A, current)) = Cardinality(seen) + Cardinality(A)
<1> DEFINE f == [v \in A |-> {v, current}]
           N == {{v, current} : v \in A}
           all == seen \cup N
<1>1. f \in Surjection(A, N) /\ f \in Injection(A, N)
    <2>1. f \in [A -> N] /\ \A x \in N : \E v \in A : f[v] = x
        OBVIOUS
    <2>2. ASSUME NEW v \in A, NEW w \in A, f[v] = f[w] PROVE v = w
        <3>1. {v, current} = {w, current} /\ v # current /\ w # current
            BY <2>2
        <3>2. v \in {w, current}
            BY <3>1
        <3> QED
            BY <3>1, <3>2
    <2> HIDE DEF N, f
    <2> QED
        BY <2>1, <2>2 DEF Surjection, Injection, IsInjective
<1>2. seen \cap N = {}
    OBVIOUS
<1>3. all = seen \cup N /\ N = PairsWith(A, current)
    BY DEF PairsWith
<1> HIDE DEF N, f, all
<1>4. IsFiniteSet(N) /\ Cardinality(N) = Cardinality(A)
    BY <1>1, FS_Surjection
<1>5. /\ IsFiniteSet(all)
      /\ Cardinality(all) = Cardinality(seen) + Cardinality(N) - Cardinality(seen \cap N)
    BY <1>3, <1>4, FS_Union
<1>6. Cardinality(seen \cap N) = 0 /\ Cardinality(seen) \in Nat /\ Cardinality(N) \in Nat
    BY <1>2, <1>4, FS_EmptySet, FS_CardinalityType
<1> QED
    BY <1>3, <1>4, <1>5, <1>6

(* What is still open when an event starts, and not over, conflicts with   *)
(* it: that is what the order of the sweep is for.                         *)
LEMMA OpenConflicts ==
    ASSUME NEW v \in View, NEW current \in View, NEW now \in Nat,
           v.form.kind = "committed", current.form.kind = "committed",
           v.form.end > now, current.form.end > now, SweptBefore(v, current)
    PROVE  Conflicting(v.form, current.form, now)
             <=> /\ v.form.end > current.form.start
                 /\ ~ (current.form.allDay /\ v.form.allDay)
                 /\ Min({v.form.end, current.form.end}) > now
<1>1. v.form \in EventInputs /\ current.form \in EventInputs
    BY DEF View
<1>2. PICK s, t, a, b : s = v.form.start /\ t = v.form.end /\ a = current.form.start
                        /\ b = current.form.end
    OBVIOUS
<1>3. s \in Nat /\ t \in Nat /\ a \in Nat /\ b \in Nat /\ s <= t /\ a <= b /\ t > now /\ b > now
    BY <1>1, <1>2, EventForms
<1>4. s < a \/ (s = a /\ t <= b)
    <2>1. s < a \/ (s = a /\ t < b) \/ (s = a /\ t = b)
        BY <1>2 DEF SweptBefore
    <2> QED
        BY <1>3, <2>1
<1>5. Min({t, b}) > now
    BY <1>3, MinOfTwo
<1>6. t > a <=> s < b /\ a < t
    BY <1>3, <1>4
<1> QED
    BY <1>2, <1>3, <1>5, <1>6 DEF Conflicting

(* One round of the sweep.                                                 *)
LEMMA RoundKeeps ==
    ASSUME CalendarInd, SweepRound
    PROVE  CalendarInd'
<1>1. PICK current \in sync.todo :
        LET open == {v \in sync.active : StillOpen(v, current)}
            candidates == {v \in open :
                             /\ ~(current.form.allDay /\ v.form.allDay)
                             /\ Min({v.form.end, current.form.end}) > sync.now}
            room == MaxConflicts - Cardinality(sync.found)
            over == Cardinality(candidates) > room
        IN  \E added \in SUBSET candidates :
                /\ sync.stage = "sweeping"
                /\ \A v \in sync.todo : v = current \/ SweptBefore(current, v)
                /\ Cardinality(added) = IF over THEN room ELSE Cardinality(candidates)
                /\ sync' = [sync EXCEPT
                              !.todo = IF over THEN {} ELSE @ \ {current},
                              !.active = open \cup {current},
                              !.found = @ \cup {{v, current} : v \in added},
                              !.full = over]
    BY DEF SweepRound
<1>2. PICK open : open = {v \in sync.active : v.form.end > current.form.start}
    OBVIOUS
<1>3. PICK candidates : candidates = {v \in open :
                             /\ ~(current.form.allDay /\ v.form.allDay)
                             /\ Min({v.form.end, current.form.end}) > sync.now}
    OBVIOUS
<1>4. PICK room : room = MaxConflicts - Cardinality(sync.found)
    OBVIOUS
<1>5. PICK over : over = (Cardinality(candidates) > room)
    OBVIOUS
<1>6. PICK added \in SUBSET candidates :
        /\ sync.stage = "sweeping"
        /\ \A v \in sync.todo : v = current \/ SweptBefore(current, v)
        /\ Cardinality(added) = IF over THEN room ELSE Cardinality(candidates)
        /\ sync' = [sync EXCEPT
                      !.todo = IF over THEN {} ELSE @ \ {current},
                      !.active = open \cup {current},
                      !.found = @ \cup {{v, current} : v \in added},
                      !.full = over]
    BY <1>1, <1>2, <1>3, <1>4, <1>5 DEF StillOpen
<1>7. calendar' = calendar /\ hour' = hour /\ conflicts' = conflicts /\ touched' = touched
      /\ moves' = moves
    BY DEF SweepRound
<1>8. /\ sync \in SyncRow /\ IsFiniteSet(sync.events) /\ ListedOK /\ sync.since <= hour /\ SweepOK
      /\ sync.events \in SUBSET View /\ sync.todo \in SUBSET View /\ sync.active \in SUBSET View
      /\ sync.found \in SUBSET SUBSET View /\ sync.now \in Nat
    BY <1>6 DEF CalendarInd, SyncRow
<1>9. SweepOpen /\ ~ sync.full
    BY <1>8 DEF SweepOK, SweepFull
<1>10. PICK swept, counting, now : swept = Swept /\ counting = Counting /\ now = sync.now
    OBVIOUS
<1>11. /\ counting \in SUBSET sync.events /\ swept = counting \ sync.todo
       /\ sync.todo \in SUBSET counting /\ sync.active \in SUBSET swept
       /\ counting = {v \in sync.events : v.form.kind = "committed" /\ v.form.end > now}
       /\ \A v \in swept, w \in sync.todo : SweptBefore(v, w)
       /\ \A v \in swept \ sync.active, w \in sync.todo : v.form.end <= w.form.start
       /\ sync.found = ConflictingPairs(swept, now) /\ Cardinality(sync.found) <= MaxConflicts
    BY <1>8, <1>9, <1>10 DEF SweepOK, SweepOpen, Swept, Counting, Committed
<1>12. /\ current \in counting /\ current \notin swept /\ current \in View
       /\ swept \in SUBSET View /\ now \in Nat
    BY <1>8, <1>10, <1>11
<1>13. candidates = {v \in swept : Conflicting(v.form, current.form, now)}
    <2>1. ASSUME NEW v \in swept
          PROVE  /\ v \in View /\ v.form.kind = "committed" /\ v.form.end > now
                 /\ SweptBefore(v, current)
                 /\ v \notin sync.active => ~ (v.form.end > current.form.start)
        <3>1. v \in counting /\ v \in View
            BY <1>11, <1>12
        <3>2. v.form.end \in Nat /\ current.form.start \in Nat
            BY <1>12, <3>1, EventForms DEF View
        <3>3. v \notin sync.active => ~ (v.form.end > current.form.start)
            <4>1. v \notin sync.active => v.form.end <= current.form.start
                BY <1>11
            <4> QED
                BY <3>2, <4>1
        <3> QED
            BY <1>11, <3>1, <3>3
    <2>2. current.form.kind = "committed" /\ current.form.end > now
        BY <1>11, <1>12
    <2>3. ASSUME NEW v \in swept
          PROVE  Conflicting(v.form, current.form, now)
                   <=> /\ v.form.end > current.form.start
                       /\ ~ (current.form.allDay /\ v.form.allDay)
                       /\ Min({v.form.end, current.form.end}) > now
        BY <1>12, <2>1, <2>2, OpenConflicts
    <2> QED
        BY <1>2, <1>3, <1>10, <1>11, <2>1, <2>3
<1>14. candidates \in SUBSET swept /\ added \in SUBSET swept
    BY <1>13
<1>15. /\ IsFiniteSet(swept) /\ IsFiniteSet(candidates) /\ IsFiniteSet(added)
       /\ IsFiniteSet(sync.found) /\ sync.found \in SUBSET SUBSET swept
    <2>1. IsFiniteSet(swept)
        BY <1>8, <1>11, FS_Subset
    <2>2. IsFiniteSet(candidates) /\ IsFiniteSet(added)
        BY <1>14, <2>1, FS_Subset
    <2>3. /\ ConflictingPairs(swept, now) \in SUBSET SUBSET swept
          /\ IsFiniteSet(ConflictingPairs(swept, now))
        BY <2>1, PairsFinite
    <2> QED
        BY <1>11, <2>1, <2>2, <2>3
<1>16. PICK c, n, m : c = Cardinality(candidates) /\ n = Cardinality(sync.found)
                      /\ m = Cardinality(added)
    OBVIOUS
<1>17. /\ c \in Nat /\ n \in Nat /\ m \in Nat /\ MaxConflicts \in Nat /\ n <= MaxConflicts
       /\ room = MaxConflicts - n /\ m = (IF over THEN room ELSE c) /\ over \in BOOLEAN
       /\ over <=> c > room
    <2>1. c \in Nat /\ n \in Nat /\ m \in Nat
        BY <1>15, <1>16, FS_CardinalityType
    <2>2. MaxConflicts \in Nat /\ n <= MaxConflicts
        BY <1>11, <1>16, Numbers
    <2>3. room = MaxConflicts - n /\ m = (IF over THEN room ELSE c)
        BY <1>4, <1>6, <1>16
    <2>4. over = (c > room)
        BY <1>5, <1>16
    <2>5. over \in BOOLEAN
        BY <2>4
    <2> QED
        BY <2>1, <2>2, <2>3, <2>4, <2>5
<1>18. PICK seen, todo, opened :
         /\ seen = sync.found \cup {{v, current} : v \in added}
         /\ todo = (IF over THEN {} ELSE sync.todo \ {current})
         /\ opened = open \cup {current}
    OBVIOUS
<1>19. PICK row : row = [sync EXCEPT !.todo = todo, !.active = opened, !.found = seen, !.full = over]
    OBVIOUS
<1>20. sync' = row
    BY <1>6, <1>18, <1>19
<1>21. /\ row \in SyncRow /\ row.stage = "sweeping" /\ row.now = now /\ row.todo = todo
       /\ row.since = sync.since /\ row.events = sync.events /\ row.skipped = sync.skipped
       /\ row.active = opened /\ row.found = seen /\ row.full = over
    <2>1. todo \in SUBSET View /\ opened \in SUBSET View
        BY <1>2, <1>8, <1>12, <1>18
    <2>2. seen \in SUBSET SUBSET View
        BY <1>8, <1>12, <1>14, <1>18
    <2>3. row \in SyncRow
        BY <1>8, <1>17, <1>19, <2>1, <2>2 DEF SyncRow
    <2> QED
        BY <1>6, <1>8, <1>10, <1>19, <2>3 DEF SyncRow
<1>22. ConflictingPairs(swept \cup {current}, now)
         = sync.found \cup {{v, current} : v \in candidates}
    <2>1. current \notin swept
        BY <1>12
    <2>2. candidates = ConflictsOf(current, swept, now)
        BY <1>13 DEF ConflictsOf
    <2>3. ConflictingPairs(swept \cup {current}, now)
            = ConflictingPairs(swept, now) \cup PairsWith(candidates, current)
        BY <2>1, <2>2, PairsGrow
    <2> QED
        BY <1>11, <2>3 DEF PairsWith
<1>23. IsFiniteSet(seen) /\ Cardinality(seen) = n + m
    <2>1. PICK old : old = sync.found
        OBVIOUS
    <2>2. /\ old \in SUBSET SUBSET swept /\ IsFiniteSet(old) /\ current \notin swept
          /\ added \in SUBSET swept /\ IsFiniteSet(added)
          /\ seen = old \cup PairsWith(added, current)
        BY <1>12, <1>14, <1>15, <1>18, <2>1 DEF PairsWith
    <2>3. IsFiniteSet(seen) /\ Cardinality(seen) = Cardinality(old) + Cardinality(added)
        BY <2>2, NewPairs
    <2> QED
        BY <1>16, <2>1, <2>3
<1>24. Counting' = counting
    BY <1>11, <1>20, <1>21 DEF Counting, Committed
<1>25. ASSUME ~ over PROVE SweepOpen' /\ (sync.todo \subseteq Counting)'
    <2>1. added = candidates
        BY <1>6, <1>15, <1>16, <1>17, <1>25, FS_Subset
    <2>2. Swept' = swept \cup {current}
        BY <1>11, <1>12, <1>18, <1>20, <1>21, <1>24, <1>25 DEF Swept
    <2>3. \A v \in swept \cup {current}, w \in todo : SweptBefore(v, w)
        BY <1>6, <1>11, <1>18, <1>25
    <2>4. ASSUME NEW v \in (swept \cup {current}) \ opened, NEW w \in todo
          PROVE  v.form.end <= w.form.start
        <3>1. v \in swept /\ v \notin open /\ w \in sync.todo /\ w # current /\ w \in View /\ v \in View
            BY <1>8, <1>12, <1>18, <1>25
        <3>2. CASE v \notin sync.active
            BY <1>11, <3>1, <3>2
        <3>3. CASE v \in sync.active
            <4>1. ~ (v.form.end > current.form.start)
                BY <1>2, <3>1, <3>3
            <4>2. SweptBefore(current, w)
                BY <1>6, <3>1
            <4>3. v.form.end \in Nat /\ current.form.start \in Nat /\ w.form.start \in Nat
                BY <1>12, <3>1, EventForms DEF View
            <4>4. current.form.start <= w.form.start
                BY <4>2, <4>3 DEF SweptBefore
            <4> QED
                BY <4>1, <4>3, <4>4
        <3> QED
            BY <3>2, <3>3
    <2>5. seen = ConflictingPairs(swept \cup {current}, now)
        BY <1>18, <1>22, <2>1
    <2>6. Cardinality(seen) <= MaxConflicts
        BY <1>17, <1>23, <1>25
    <2>7. opened \subseteq swept \cup {current}
        BY <1>2, <1>11, <1>18
    <2>8. SweepOpen'
        <3>1. (sync.found = ConflictingPairs(Swept, sync.now))'
            BY <1>20, <1>21, <2>2, <2>5 DEF ConflictingPairs, Conflicting
        <3>2. (\A v \in Swept, w \in sync.todo : SweptBefore(v, w))'
            BY <1>20, <1>21, <2>2, <2>3 DEF SweptBefore
        <3> QED
            BY <1>20, <1>21, <2>2, <2>4, <2>6, <2>7, <3>1, <3>2 DEF SweepOpen
    <2>9. todo \subseteq counting
        BY <1>11, <1>18
    <2> QED
        BY <1>20, <1>21, <1>24, <1>25, <2>8, <2>9
<1>26. ASSUME over PROVE SweepFull' /\ (sync.todo \subseteq Counting)'
    <2>1. Cardinality(seen) = MaxConflicts /\ todo = {}
        BY <1>17, <1>18, <1>23, <1>26
    <2>2. PICK most : most = sync.found \cup {{v, current} : v \in candidates}
        OBVIOUS
    <2>3. IsFiniteSet(most) /\ Cardinality(most) = n + c
        <3>1. PICK old : old = sync.found
            OBVIOUS
        <3>2. /\ old \in SUBSET SUBSET swept /\ IsFiniteSet(old) /\ current \notin swept
              /\ candidates \in SUBSET swept /\ IsFiniteSet(candidates)
              /\ most = old \cup PairsWith(candidates, current)
            BY <1>12, <1>14, <1>15, <2>2, <3>1 DEF PairsWith
        <3>3. IsFiniteSet(most) /\ Cardinality(most) = Cardinality(old) + Cardinality(candidates)
            BY <3>2, NewPairs
        <3> QED
            BY <1>16, <3>1, <3>3
    <2>4. PICK pairs : pairs = ConflictingPairs(sync.events, now)
        OBVIOUS
    <2>5. most \in SUBSET pairs /\ seen \in SUBSET most
        <3>1. swept \cup {current} \in SUBSET sync.events
            BY <1>11, <1>12
        <3>2. ASSUME NEW x \in ConflictingPairs(swept \cup {current}, now) PROVE x \in pairs
            <4>1. PICK v \in swept \cup {current}, w \in swept \cup {current} :
                    v # w /\ Conflicting(v.form, w.form, now) /\ x = {v, w}
                BY <3>2, PairsAre
            <4> QED
                BY <2>4, <3>1, <4>1, PairsAre
        <3> QED
            BY <1>18, <1>22, <2>2, <3>2
    <2>6. IsFiniteSet(pairs)
        BY <1>8, <2>4, PairsFinite
    <2>7. Cardinality(most) <= Cardinality(pairs) /\ Cardinality(pairs) \in Nat
        BY <2>5, <2>6, FS_Subset, FS_CardinalityType
    <2>8. Cardinality(pairs) > MaxConflicts
        BY <1>17, <1>26, <2>3, <2>7
    <2>9. SweepFull'
        <3>1. ConflictingPairs(sync.events, sync.now)' = pairs
            BY <1>20, <1>21, <2>4 DEF ConflictingPairs, Conflicting
        <3> QED
            BY <1>20, <1>21, <2>1, <2>5, <2>8, <3>1 DEF SweepFull
    <2> QED
        BY <1>20, <1>21, <1>24, <1>26, <2>1, <2>9
<1>27. SweepOK'
    <2>1. (sync.now \in sync.since .. hour)'
        BY <1>7, <1>8, <1>10, <1>20, <1>21 DEF SweepOK
    <2>2. sync'.full = over
        BY <1>20, <1>21
    <2> QED
        BY <1>17, <1>25, <1>26, <2>1, <2>2 DEF SweepOK
<1>28. ListedOK'
    <2>1. sync.stage # "listing" /\ sync'.stage # "listing"
        BY <1>6, <1>20, <1>21
    <2> QED
        BY <1>7, <1>8, <1>20, <1>21, <2>1 DEF ListedOK, Wanted, Covered
<1> QED
    BY <1>7, <1>8, <1>20, <1>21, <1>27, <1>28 DEF CalendarInd

LEMMA SyncEnds ==
    ASSUME CalendarInd, FailSync \/ ApplySync
    PROVE  CalendarInd'
<1>1. calendar' = calendar /\ hour' = hour /\ sync' = NoSync /\ touched' = {} /\ moves' = moves
    BY DEF FailSync, ApplySync
<1>2. \A pair \in conflicts' : \E e, f \in Events : pair = {e, f}
    <2>1. CASE FailSync
        BY <2>1 DEF FailSync, CalendarInd
    <2>2. CASE ApplySync
        <3>1. SweepOK /\ sync.events \in SUBSET View
            BY <2>2 DEF ApplySync, CalendarInd, SyncRow
        <3>2. ASSUME NEW p \in sync.found PROVE \E e, f \in Events : Key(p) = {e, f}
            <4>1. p \in ConflictingPairs(sync.events, sync.now)
                    \/ p \in ConflictingPairs(Swept, sync.now)
                BY <3>1 DEF SweepOK, SweepFull, SweepOpen
            <4>2. PICK v \in sync.events, w \in sync.events : p = {v, w}
                BY <4>1, PairsAre DEF Swept, Counting, Committed
            <4>3. v.id \in Events /\ w.id \in Events
                BY <3>1 DEF View
            <4>4. Key(p) = {v.id, w.id}
                BY <4>2 DEF Key
            <4> QED
                BY <4>3, <4>4
        <3>3. \A pair \in conflicts' : pair \in Detections \/ pair \in conflicts
            BY <2>2 DEF ApplySync
        <3> QED
            BY <3>2, <3>3 DEF Detections, CalendarInd
    <2> QED
        BY <2>1, <2>2
<1>3. (sync \in SyncRow /\ sync.stage = "idle" /\ IsFiniteSet(sync.events))'
    BY <1>1, NoSyncTyped, FS_EmptySet
<1> QED
    BY <1>1, <1>2, <1>3 DEF CalendarInd

LEMMA CalendarIndStep == CalendarInd /\ [CalendarNext]_calendarVars => CalendarInd'
<1> SUFFICES ASSUME CalendarInd, [CalendarNext]_calendarVars PROVE CalendarInd'
    OBVIOUS
<1>1. CASE \E e \in Events, form \in EventInputs : ChangeEvent(e, form)
    BY <1>1, EventChanges
<1>2. CASE HourPasses
    BY <1>2, HourGoesOn
<1>3. CASE BeginSync
    BY <1>3, SyncBegins
<1>4. CASE ListEvents
    BY <1>4, EventsListed
<1>5. CASE BeginSweep
    BY <1>5, SweepBegins
<1>6. CASE SweepRound
    BY <1>6, RoundKeeps
<1>7. CASE FailSync \/ ApplySync
    BY <1>7, SyncEnds
<1>8. CASE UNCHANGED calendarVars
    <2>1. /\ calendar' = calendar /\ hour' = hour /\ sync' = sync /\ conflicts' = conflicts
          /\ touched' = touched /\ moves' = moves
        BY <1>8 DEF calendarVars
    <2>2. hour \in Nat /\ hour <= hour /\ sync \in SyncRow
        BY DEF CalendarInd
    <2>3. sync.stage = "sweeping" => SweepOK'
        BY <2>1, <2>2, SweepKept DEF CalendarInd
    <2>4. ListedOK => ListedOK'
        BY <2>1 DEF ListedOK, Wanted, Covered, Position, Earlier
    <2> QED
        BY <2>1, <2>3, <2>4 DEF CalendarInd
<1> QED
    BY <1>1, <1>2, <1>3, <1>4, <1>5, <1>6, <1>7, <1>8 DEF CalendarNext

LEMMA CalendarAlways == CalendarSpec => []CalendarInd
    BY CalendarIndInit, CalendarIndStep, PTL DEF CalendarSpec

-----------------------------------------------------------------------------
(* The calendar: the theorems.                                             *)

(* Only what counts and is not over can conflict.                          *)
LEMMA SweptWhole ==
    ASSUME CalendarInd, sync.stage = "sweeping", sync.todo = {}, ~ sync.full
    PROVE  /\ sync.found = ConflictingPairs(sync.events, sync.now)
           /\ Cardinality(sync.found) \in Nat /\ Cardinality(sync.found) <= MaxConflicts
<1>1. SweepOpen /\ IsFiniteSet(sync.events)
    BY DEF CalendarInd, SweepOK
<1>2. Swept = Counting
    BY DEF Swept
<1>3. ASSUME NEW x \in ConflictingPairs(sync.events, sync.now)
      PROVE  x \in ConflictingPairs(Counting, sync.now)
    <2>1. PICK v \in sync.events, w \in sync.events :
            v # w /\ Conflicting(v.form, w.form, sync.now) /\ x = {v, w}
        BY <1>3, PairsAre
    <2>2. v \in Counting /\ w \in Counting
        BY <2>1 DEF Counting, Committed, Conflicting
    <2> QED
        BY <2>1, <2>2, PairsAre
<1>4. ASSUME NEW x \in ConflictingPairs(Counting, sync.now)
      PROVE  x \in ConflictingPairs(sync.events, sync.now)
    <2>1. PICK v \in Counting, w \in Counting :
            v # w /\ Conflicting(v.form, w.form, sync.now) /\ x = {v, w}
        BY <1>4, PairsAre
    <2>2. v \in sync.events /\ w \in sync.events
        BY DEF Counting, Committed
    <2> QED
        BY <2>1, <2>2, PairsAre
<1>5. sync.found = ConflictingPairs(sync.events, sync.now)
    BY <1>1, <1>2, <1>3, <1>4 DEF SweepOpen
<1>6. IsFiniteSet(sync.found)
    BY <1>1, <1>5, PairsFinite
<1>7. Cardinality(sync.found) \in Nat
    BY <1>6, FS_CardinalityType
<1> QED
    BY <1>1, <1>5, <1>7 DEF SweepOpen

(* For every calendar, every order of its bounds and every limit, the      *)
(* sweep with its heap of ends finds the pairs that conflict and no others,*)
(* as many as fit, and reports an overflow exactly when there are more.    *)
(* (run_calendar_conflict_detection)                                       *)
THEOREM SweepExact == CalendarSpec => []SweepFindsConflicts
<1>1. CalendarInd => SweepFindsConflicts
    <2> SUFFICES ASSUME CalendarInd, sync.stage = "sweeping", sync.todo = {}
                 PROVE  LET pairs == ConflictingPairs(sync.events, sync.now)
                        IN  /\ sync.found \subseteq pairs
                            /\ sync.full <=> Cardinality(pairs) > MaxConflicts
                            /\ IF sync.full THEN Cardinality(sync.found) = MaxConflicts
                                            ELSE sync.found = pairs
        BY DEF SweepFindsConflicts
    <2>1. CASE sync.full
        BY <2>1 DEF CalendarInd, SweepOK, SweepFull
    <2>2. CASE ~ sync.full
        <3>1. /\ sync.found = ConflictingPairs(sync.events, sync.now)
              /\ Cardinality(sync.found) \in Nat /\ Cardinality(sync.found) <= MaxConflicts
            BY <2>2, SweptWhole
        <3>2. ~ (Cardinality(sync.found) > MaxConflicts)
            BY <3>1, Numbers
        <3> QED
            BY <2>2, <3>1, <3>2
    <2> QED
        BY <2>1, <2>2
<1> QED
    BY <1>1, CalendarAlways, PTL

(* Only the end of a pass changes what is stored.                          *)
LEMMA OnlySyncApplies ==
    ASSUME [CalendarNext]_calendarVars, conflicts' # conflicts
    PROVE  ApplySync
BY DEF CalendarNext, calendarVars, ChangeEvent, HourPasses, BeginSync, ListEvents, FailSync,
       BeginSweep, SweepRound

(* For every calendar and every limit, a stored conflict between events of *)
(* the window that did not change during the pass is resolved only when    *)
(* they no longer conflict: no overflow, unreadable event or failed page   *)
(* resolves it, however the calendar changes between the pages and during  *)
(* the sweep.  (resolution_safe, skipped_count)                            *)
THEOREM ConflictsKept == CalendarSpec => ConflictNotDropped
<1>1. CalendarInd /\ [CalendarNext]_calendarVars =>
        [\A pair \in conflicts \ conflicts' :
           (\A e \in pair : InWindow(e)) => ~ConflictNow(pair)]_calendarVars
    <2> SUFFICES ASSUME CalendarInd, [CalendarNext]_calendarVars, NEW pair \in conflicts \ conflicts',
                        \A e \in pair : InWindow(e), ConflictNow(pair)
                 PROVE  FALSE
        OBVIOUS
    <2>0. conflicts' # conflicts
        OBVIOUS
    <2>1. ApplySync
        BY <2>0, OnlySyncApplies
    <2>2. /\ sync.stage = "sweeping" /\ sync.todo = {} /\ ~ sync.skipped /\ ~ sync.full
          /\ pair \notin Detections
        BY <2>1 DEF ApplySync, ResolvesAbsent
    <2>3. PICK e \in pair, f \in pair : e # f /\ Conflicting(calendar[e], calendar[f], hour)
        BY DEF ConflictNow
    <2>4. e \in Events /\ f \in Events /\ pair = {e, f}
        <3>1. PICK a \in Events, b \in Events : pair = {a, b}
            BY DEF CalendarInd
        <3> QED
            BY <2>3, <3>1
    <2>5. /\ ListedOK /\ sync.since \in Nat /\ sync.now \in Nat /\ hour \in Nat
          /\ sync.since <= sync.now /\ sync.now <= hour
        <3>1. ListedOK /\ sync.since \in Nat /\ sync.now \in sync.since .. hour /\ hour \in Nat
            BY <2>2 DEF CalendarInd, SyncRow, SweepOK
        <3> QED
            BY <3>1
    <2>6. ASSUME NEW u \in Events, InWindow(u), calendar[u].end > hour,
                 calendar[u].kind = "committed"
          PROVE  [id |-> u, form |-> calendar[u]] \in sync.events /\ calendar[u].end > sync.now
        <3>1. calendar[u].end \in Nat
            BY EventForms DEF CalendarInd
        <3>2. calendar[u].end > sync.since /\ calendar[u].end > sync.now
            BY <2>5, <2>6, <3>1
        <3>3. Wanted(u) /\ u \in Events \ touched
            BY <2>6, <3>2 DEF Wanted, InWindow
        <3>4. Covered(u)
            BY <2>2, <2>5, <3>3 DEF ListedOK
        <3> QED
            BY <2>6, <3>2, <3>4 DEF Covered
    <2>7. PICK v, w : v = [id |-> e, form |-> calendar[e]] /\ w = [id |-> f, form |-> calendar[f]]
        OBVIOUS
    <2>8. v.id = e /\ w.id = f /\ v.form = calendar[e] /\ w.form = calendar[f] /\ v # w
        BY <2>3, <2>7
    <2>9. v \in sync.events /\ w \in sync.events /\ Conflicting(v.form, w.form, sync.now)
        <3>1. /\ InWindow(e) /\ InWindow(f) /\ calendar[e].end > hour /\ calendar[f].end > hour
              /\ calendar[e].kind = "committed" /\ calendar[f].kind = "committed"
            BY <2>3, <2>4 DEF Conflicting
        <3>2. /\ v \in sync.events /\ w \in sync.events
              /\ calendar[e].end > sync.now /\ calendar[f].end > sync.now
            BY <2>4, <2>6, <2>7, <3>1
        <3> QED
            BY <2>3, <2>8, <3>2 DEF Conflicting
    <2>10. {v, w} \in ConflictingPairs(sync.events, sync.now)
        BY <2>8, <2>9, PairsAre
    <2>11. {v, w} \in sync.found
        BY <2>2, <2>10, SweptWhole
    <2>12. Key({v, w}) = pair
        BY <2>4, <2>8 DEF Key
    <2> QED
        BY <2>2, <2>11, <2>12 DEF Detections
<1> QED
    BY <1>1, CalendarAlways, PTL DEF CalendarSpec, ConflictNotDropped

=============================================================================
