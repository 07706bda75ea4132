--------------------------- MODULE ScheduleProofs ---------------------------
(***************************************************************************)
(* What the schedule and its cache promise, for every number of requests,  *)
(* rules, exceptions, readers and writers, any day, week and bounds.       *)
(*                                                                         *)
(*   OverlapIsReported: Conflicts names two rules that share an hour of    *)
(*     the week, unless the zone skips hours in the week ahead.            *)
(*   ExpandIsDue: the intervals of Expand play at every instant of its     *)
(*     range what the rules and exceptions mean.                           *)
(*   ScheduleTypeCorrect, RulesStayApart and SchedulePlaysAsMeant: the     *)
(*     invariants of the requests.                                         *)
(*   CacheTypeCorrect, LastGoodStays, ChangesAreSeen and NeverStale: those *)
(*     of the cache.                                                       *)
(*                                                                         *)
(* An instant and a reading of the wall clock are compared through         *)
(* FirstShows, the instant from which the clock has shown the reading:     *)
(* localTime finds it (LocalTimeIs), it grows with the reading             *)
(* (FirstShowsGrows), and the windows of a day lie between two of them.    *)
(***************************************************************************)
EXTENDS Schedule, IntervalCache, FiniteSetTheorems, WellFoundedInduction, TLAPS

(***************************************************************************)
(* Instants and readings of the wall clock.                                *)
(***************************************************************************)

\* The instant from which the wall clock has shown the reading: the first that shows it, or the change
\* that skips it.
FirstShows(z, reading) ==
    IF reading - z.before < z.change THEN reading - z.before
    ELSE IF reading - z.after >= z.change THEN reading - z.after
    ELSE z.change

\* Whether the wall clock shows the reading at all.
Appears(z, reading) == reading - z.before < z.change \/ reading - z.after >= z.change

LEMMA FirstShowsInt ==
    ASSUME NEW z, ValidZone(z), NEW x \in Int
    PROVE  FirstShows(z, x) \in Int
BY DEF ValidZone, FirstShows

\* A later reading is not shown before an earlier one, and later when the earlier is shown at all.
LEMMA FirstShowsGrows ==
    ASSUME NEW z, ValidZone(z), NEW x \in Int, NEW y \in Int
    PROVE  /\ x <= y => FirstShows(z, x) <= FirstShows(z, y)
           /\ x < y /\ Appears(z, x) => FirstShows(z, x) < FirstShows(z, y)
<1>1. z.before \in Int /\ z.after \in Int /\ z.change \in Int
  BY ProbeAssumption DEF ValidZone
<1> QED
  BY <1>1 DEF FirstShows, Appears

\* The least and the greatest of a set that names one.
LEMMA MinIs ==
    ASSUME NEW S \in SUBSET Int, NEW v \in S, \A y \in S : v <= y
    PROVE  Min(S) = v
<1>1. \E x \in S : \A y \in S : x <= y
  OBVIOUS
<1>2. Min(S) \in S /\ \A y \in S : Min(S) <= y
  BY <1>1 DEF Min
<1>3. Min(S) \in Int /\ v \in Int /\ v <= Min(S) /\ Min(S) <= v
  BY <1>2
<1> QED
  BY <1>3

LEMMA MaxIs ==
    ASSUME NEW S \in SUBSET Int, NEW v \in S, \A y \in S : y <= v
    PROVE  Max(S) = v
<1>1. \E x \in S : \A y \in S : x >= y
  OBVIOUS
<1>2. Max(S) \in S /\ \A y \in S : Max(S) >= y
  BY <1>1 DEF Max
<1>3. Max(S) \in Int /\ v \in Int /\ v <= Max(S) /\ Max(S) <= v
  <2>1. Max(S) \in S /\ \A y \in S : Max(S) >= y
    BY <1>2
  <2> HIDE <1>2
  <2> QED
    BY <2>1
<1> QED
  BY <1>3

\* localTime finds that instant: the two offsets it probes are those of the zone, the first exact one is
\* taken, and the search between the two inexact ones ends at the change.
LEMMA LocalTimeIs ==
    ASSUME NEW z, ValidZone(z), NEW midnight, NEW minute \in Int, DayOf(z, midnight) \in Int
    PROVE  LocalTime(z, midnight, minute) = FirstShows(z, DayOf(z, midnight) * DayLength + minute)
<1>1. PICK want \in Int : want = DayOf(z, midnight) * DayLength + minute
  BY DayLengthAssumption
<1>2. /\ z.before \in Int /\ z.after \in Int /\ z.change \in Int /\ Probe \in Nat
      /\ -Probe <= z.before /\ z.before <= Probe /\ -Probe <= z.after /\ z.after <= Probe
  BY ProbeAssumption DEF ValidZone
<1> DEFINE candidates == {want - Offset(z, want + p) : p \in {-Probe, 0, Probe}}
           exact == {c \in candidates : Wall(z, c) = want}
           reached == {c \in candidates : Wall(z, c) >= want}
           short == candidates \ reached
           low == IF short = {} THEN Min(candidates) ELSE Max(short)
           high == IF reached = {} THEN Max(candidates) ELSE Min(reached)
           search == {t \in (low + 1)..high : Wall(z, t) >= want} \cup {high}
           B == want - z.before
           A == want - z.after
<1>3. LocalTime(z, midnight, minute) =
          IF exact # {} THEN Min(exact) ELSE IF low >= high THEN high ELSE Min(search)
  BY <1>1 DEF LocalTime
<1>4. candidates \subseteq {A, B} /\ A \in Int /\ B \in Int
  BY <1>2 DEF Offset
<1>5. /\ B < z.change => B \in candidates
      /\ B >= z.change => A \in candidates
      /\ A < z.change => B \in candidates
  <2>1. want - Offset(z, want + (-Probe)) \in candidates /\ want - Offset(z, want + Probe) \in candidates
    OBVIOUS
  <2>2. /\ B < z.change \/ A < z.change => want + (-Probe) < z.change
        /\ B >= z.change => ~(want + Probe < z.change)
    BY <1>2
  <2> QED
    BY <2>1, <2>2 DEF Offset
<1>6. FirstShows(z, want) = IF B < z.change THEN B ELSE IF A >= z.change THEN A ELSE z.change
  BY DEF FirstShows
<1>7. /\ Wall(z, A) = IF A < z.change THEN A + z.before ELSE want
      /\ Wall(z, B) = IF B < z.change THEN want ELSE B + z.after
  BY <1>2 DEF Wall, Offset
<1>w. /\ A < z.change /\ Wall(z, A) = want => A = B
      /\ B >= z.change /\ Wall(z, B) = want => A = B
      /\ A < z.change /\ B >= z.change => A < B /\ Wall(z, A) < want /\ Wall(z, B) > want
  BY <1>2, <1>7
<1> HIDE DEF candidates
<1>8. CASE B < z.change
  <2>1. B \in exact /\ \A y \in exact : B <= y
    BY <1>2, <1>4, <1>5, <1>7, <1>w, <1>8
  <2>2. exact \in SUBSET Int
    BY <1>4
  <2>3. Min(exact) = B /\ exact # {}
    BY <2>1, <2>2, MinIs
  <2> QED
    BY <1>1, <1>3, <1>6, <1>8, <2>3
<1>9. CASE B >= z.change /\ A >= z.change
  <2>1. A \in exact /\ \A y \in exact : A <= y
    BY <1>2, <1>4, <1>5, <1>7, <1>w, <1>9
  <2>2. exact \in SUBSET Int
    BY <1>4
  <2>3. Min(exact) = A /\ exact # {}
    BY <2>1, <2>2, MinIs
  <2>4. ~(B < z.change)
    BY <1>2, <1>4, <1>9
  <2> QED
    BY <1>1, <1>3, <1>6, <1>9, <2>3, <2>4
<1>10. CASE B >= z.change /\ A < z.change
  <2>1. candidates = {A, B} /\ A < B /\ Wall(z, A) < want /\ Wall(z, B) > want
    BY <1>4, <1>5, <1>10, <1>w
  <2>2. Wall(z, A) \in Int /\ Wall(z, B) \in Int
    BY <1>2, <1>4, <1>7
  <2>3. exact = {} /\ reached = {B} /\ short = {A}
    BY <2>1, <2>2, <1>1
  <2>4. low = A /\ high = B
    <3>1. /\ {A} \in SUBSET Int /\ A \in {A} /\ \A y \in {A} : y <= A
          /\ {B} \in SUBSET Int /\ B \in {B} /\ \A y \in {B} : B <= y
      BY <1>4
    <3> HIDE DEF A, B
    <3>2. Max({A}) = A
      BY <3>1, MaxIs
    <3>3. Min({B}) = B
      BY <3>1, MinIs
    <3> QED
      BY <3>2, <3>3, <2>3
  <2>5. search = {t \in (A + 1)..B : Wall(z, t) >= want} \cup {B}
    BY <2>4
  <2>6. \A t \in Int : t \in (A + 1)..B /\ Wall(z, t) >= want => z.change <= t
    <3> SUFFICES ASSUME NEW t \in Int, t \in (A + 1)..B, t < z.change PROVE Wall(z, t) < want
      BY <1>1, <1>2 DEF Wall, Offset
    <3> QED
      BY <1>2, <1>4, <1>10 DEF Wall, Offset
  <2>7. z.change \in (A + 1)..B /\ Wall(z, z.change) >= want
    BY <1>2, <1>4, <1>10 DEF Wall, Offset
  <2>8. Min(search) = z.change
    <3>1. search \in SUBSET Int /\ z.change \in search
      <4> HIDE DEF A, B, search
      <4> QED
        BY <2>5, <2>7, <1>4
    <3>2. \A y \in search : z.change <= y
      BY <2>5, <2>6, <1>4, <1>10
    <3> HIDE DEF search
    <3> QED
      BY <3>1, <3>2, MinIs
  <2>9. exact = {} /\ ~(low >= high) /\ ~(B < z.change) /\ ~(A >= z.change)
    BY <2>1, <2>3, <2>4, <1>2, <1>4, <1>10
  <2> HIDE DEF search, exact, low, high, A, B
  <2> QED
    BY <1>1, <1>3, <1>6, <2>8, <2>9
<1> QED
  BY <1>2, <1>4, <1>8, <1>9, <1>10

(***************************************************************************)
(* Days.                                                                   *)
(***************************************************************************)

LEMMA DayProducts ==
    ASSUME NEW d \in Int, NEW e \in Int
    PROVE  /\ d * DayLength \in Int
           /\ (d + e) * DayLength = d * DayLength + e * DayLength
           /\ d < e => d * DayLength + DayLength <= e * DayLength
<1>1. DayLength \in Nat \ {0}
  BY DayLengthAssumption
<1>2. ASSUME d < e PROVE d * DayLength + DayLength <= e * DayLength
  <2>1. e - d - 1 \in Nat
    BY <1>2
  <2>2. (e - d - 1) * DayLength \in Nat
    BY <1>1, <2>1
  <2>3. e * DayLength = d * DayLength + DayLength + (e - d - 1) * DayLength
    BY <1>1
  <2>4. d * DayLength \in Int /\ e * DayLength \in Int /\ DayLength \in Int
    BY <1>1
  <2> HIDE <1>2, <2>1
  <2> QED
    BY <2>2, <2>3, <2>4
<1>3. d * DayLength \in Int /\ (d + e) * DayLength = d * DayLength + e * DayLength
  BY <1>1
<1> QED
  BY <1>2, <1>3

\* A quotient and its remainder are known from the multiple below.
LEMMA Quotients ==
    ASSUME NEW n \in Nat \ {0}, NEW q \in Int, NEW x \in Int, q * n <= x, x < q * n + n
    PROVE  x \div n = q /\ x % n = x - q * n
<1>1. q * n \in Int /\ n * q = q * n
  OBVIOUS
<1>2. x = n * q + (x - q * n) /\ x - q * n \in 0..(n - 1)
  BY <1>1
<1>3. \A k \in 0..(n - 1) : x = n * q + k => x \div n = q /\ x % n = k
  OBVIOUS
<1> QED
  BY <1>2, <1>3

LEMMA Division ==
    ASSUME NEW n \in Nat \ {0}, NEW x \in Int
    PROVE  x \div n \in Int /\ x % n \in 0..(n - 1) /\ x = (x \div n) * n + (x % n)
<1>1. x \div n \in Int /\ x % n \in 0..(n - 1) /\ x = n * (x \div n) + (x % n)
  OBVIOUS
<1>2. \A q \in Int : n * q = q * n
  OBVIOUS
<1> QED
  BY <1>1, <1>2

LEMMA DayOfWall ==
    ASSUME NEW z, NEW t, NEW d \in Int, Wall(z, t) \in Int,
           d * DayLength <= Wall(z, t), Wall(z, t) < d * DayLength + DayLength
    PROVE  DayOf(z, t) = d
BY Quotients, DayLengthAssumption DEF DayOf

\* The midnight of a day, by the zone and by whether it is shown.
LEMMA DayAtIs ==
    ASSUME NEW z, ValidZone(z), NEW d \in Int
    PROVE  LET u == d * DayLength
           IN  /\ DayAt(z, d) = IF u < z.change
                                THEN IF u - z.before < z.change THEN u - z.before ELSE u - z.after
                                ELSE IF u - z.after < z.change THEN u - z.before ELSE u - z.after
               /\ DayAt(z, d) \in Int /\ u \in Int
               /\ Appears(z, u) => Wall(z, DayAt(z, d)) = u
<1>1. z.before \in Int /\ z.after \in Int /\ z.change \in Int
  BY ProbeAssumption DEF ValidZone
<1>2. PICK u \in Int : u = d * DayLength
  BY DayProducts
<1>3. DayAt(z, d) = IF u < z.change
                    THEN IF u - z.before < z.change THEN u - z.before ELSE u - z.after
                    ELSE IF u - z.after < z.change THEN u - z.before ELSE u - z.after
  BY <1>1, <1>2 DEF DayAt, Date, Offset
<1>4. Appears(z, u) => Wall(z, DayAt(z, d)) = u
  BY <1>1, <1>3 DEF Appears, Wall, Offset
<1> QED
  BY <1>1, <1>2, <1>3, <1>4

LEMMA DayAtShown ==
    ASSUME NEW z, ValidZone(z), NEW d \in Int, Appears(z, d * DayLength)
    PROVE  DayAt(z, d) \in Int /\ DayOf(z, DayAt(z, d)) = d
<1>1. DayAt(z, d) \in Int /\ Wall(z, DayAt(z, d)) = d * DayLength /\ d * DayLength \in Int
  BY DayAtIs
<1>2. DayLength \in Nat \ {0}
  BY DayLengthAssumption
<1> QED
  BY <1>1, <1>2, DayOfWall

(***************************************************************************)
(* The week that checkConflicts expands.  From "first" on it holds a whole *)
(* week whose readings are all shown in it, unless the change of the zone  *)
(* skips hours there.                                                      *)
(***************************************************************************)
WholeWeek(z, today, first) ==
    /\ \A d \in (first - 1)..(first + WeekDays) : DayAt(z, d) \in Int /\ DayOf(z, DayAt(z, d)) = d
    /\ \A x \in Int : first * DayLength <= x /\ x < (first + WeekDays) * DayLength =>
           /\ Appears(z, x)
           /\ DayAt(z, today) <= FirstShows(z, x) /\ FirstShows(z, x) < DayAt(z, today + WeekDays + 1)
    /\ DayOf(z, DayAt(z, today)) <= first
    /\ first + WeekDays - 2 <= DayOf(z, DayAt(z, today + WeekDays + 1))

LEMMA WholeWeekAhead ==
    ASSUME NEW z, ValidZone(z), NEW today \in Int,
           ~ (/\ z.after > z.before
              /\ z.change \in DayAt(z, today)..DayAt(z, today + WeekDays + 1))
    PROVE  \E first \in {today, today + 1} : WholeWeek(z, today, first)
<1> DEFINE last == today + WeekDays + 1
           p == today * DayLength
           q == last * DayLength
           from == DayAt(z, today)
           to == DayAt(z, last)
<1>1. /\ z.before \in Int /\ z.after \in Int /\ z.change \in Int
      /\ z.after - z.before < DayLength /\ z.before - z.after < DayLength
      /\ DayLength \in Nat \ {0} /\ WeekDays \in Nat \ {0}
  BY ProbeAssumption, DayLengthAssumption, WeekDaysAssumption DEF ValidZone
<1>2. last \in Int /\ p \in Int /\ q \in Int /\ p + DayLength <= q
  BY <1>1, DayProducts
<1>3. /\ (today + 1) * DayLength = p + DayLength
      /\ (today + 1 + WeekDays) * DayLength = q
      /\ (today + WeekDays) * DayLength = q - DayLength
  <2>1. (today + WeekDays + 1) * DayLength = (today + WeekDays) * DayLength + 1 * DayLength
    BY <1>1, DayProducts
  <2>2. (today + 1) * DayLength = today * DayLength + 1 * DayLength
    BY <1>1, DayProducts
  <2>3. today + 1 + WeekDays = today + WeekDays + 1 /\ (today + WeekDays) * DayLength \in Int
    BY <1>1, DayProducts
  <2> QED
    BY <1>1, <2>1, <2>2, <2>3
<1>4. /\ from = IF p < z.change THEN IF p - z.before < z.change THEN p - z.before ELSE p - z.after
                ELSE IF p - z.after < z.change THEN p - z.before ELSE p - z.after
      /\ to = IF q < z.change THEN IF q - z.before < z.change THEN q - z.before ELSE q - z.after
              ELSE IF q - z.after < z.change THEN q - z.before ELSE q - z.after
      /\ from \in Int /\ to \in Int
  BY <1>2, DayAtIs
<1>5. \A d \in Int : /\ d * DayLength \in Int
                     /\ d < today => d * DayLength + DayLength <= p
                     /\ d < last => d * DayLength + DayLength <= q
                     /\ today < d => p + DayLength <= d * DayLength
  BY <1>2, DayProducts
<1>6. \A d \in Int : Appears(z, d * DayLength) => DayAt(z, d) \in Int /\ DayOf(z, DayAt(z, d)) = d
  BY DayAtShown
<1>w. /\ Wall(z, from) = IF from < z.change THEN from + z.before ELSE from + z.after
      /\ Wall(z, to) = IF to < z.change THEN to + z.before ELSE to + z.after
  BY <1>1, <1>4 DEF Wall, Offset
<1>d. /\ \A d \in Int : Wall(z, from) \in Int /\ d * DayLength <= Wall(z, from)
                        /\ Wall(z, from) < d * DayLength + DayLength => DayOf(z, from) = d
      /\ \A d \in Int : Wall(z, to) \in Int /\ d * DayLength <= Wall(z, to)
                        /\ Wall(z, to) < d * DayLength + DayLength => DayOf(z, to) = d
  BY DayOfWall
<1> HIDE DEF p, q, from, to
\* No hour is ever skipped.
<1>7. CASE z.after <= z.before
  <2>1. \A x \in Int : Appears(z, x)
    BY <1>1, <1>7 DEF Appears
  <2>2. \A d \in Int : DayAt(z, d) \in Int /\ DayOf(z, DayAt(z, d)) = d
    BY <2>1, <1>5, <1>6
  <2>3. ASSUME NEW x \in Int, p + DayLength <= x, x < q
        PROVE  from <= FirstShows(z, x) /\ FirstShows(z, x) < to
    BY <1>1, <1>2, <1>4, <1>7, <2>3 DEF FirstShows
  <2>4. WholeWeek(z, today, today + 1)
    BY <1>1, <1>2, <1>3, <2>1, <2>2, <2>3 DEF WholeWeek, from, to
  <2> QED
    BY <2>4
\* The change is over.
<1>8. CASE z.after > z.before /\ z.change < from
  <2>1. p - z.after >= z.change \/ (p - z.after < z.change /\ z.change < p - z.before /\ from = p - z.before)
    BY <1>1, <1>2, <1>4, <1>8
  <2>2. \A x \in Int : p + DayLength <= x => x - z.after >= z.change /\ FirstShows(z, x) = x - z.after
    BY <1>1, <1>2, <2>1, <1>8 DEF FirstShows
  <2>3. DayOf(z, from) = today
    <3>1. p <= Wall(z, from) /\ Wall(z, from) < p + DayLength /\ Wall(z, from) \in Int
      BY <1>1, <1>2, <1>4, <1>w, <1>8, <2>1
    <3> QED
      BY <3>1, <1>d DEF p
  <2>4. \A d \in today..(today + 1 + WeekDays) : DayAt(z, d) \in Int /\ DayOf(z, DayAt(z, d)) = d
    <3> SUFFICES ASSUME NEW d \in Int, today < d PROVE Appears(z, d * DayLength)
      BY <1>4, <1>6, <2>3, <1>1 DEF from
    <3> QED
      BY <1>5, <2>2 DEF Appears
  <2>5. ASSUME NEW x \in Int, p + DayLength <= x, x < q
        PROVE  Appears(z, x) /\ from <= FirstShows(z, x) /\ FirstShows(z, x) < to
    <3>1. FirstShows(z, x) = x - z.after /\ x - z.after >= z.change
      BY <2>2, <2>5
    <3>2. q - z.after >= z.change
      BY <1>2, <2>2
    <3>3. to = q - z.after
      BY <1>1, <1>2, <1>4, <3>2, <1>8
    <3>4. from <= x - z.after
      BY <1>1, <1>2, <1>4, <2>1, <2>5
    <3> QED
      BY <3>1, <3>3, <3>4, <1>1, <1>2, <2>5 DEF Appears
  <2>6. DayOf(z, to) = last
    BY <2>4, <1>1 DEF to
  <2>7. WholeWeek(z, today, today + 1)
    BY <1>1, <1>2, <1>3, <2>3, <2>4, <2>5, <2>6 DEF WholeWeek, from, to
  <2> QED
    BY <2>7
\* The change is still to come.
<1>9. CASE z.after > z.before /\ z.change > to
  <2>1. \A x \in Int : x <= q - DayLength => x - z.before < z.change /\ FirstShows(z, x) = x - z.before
    BY <1>1, <1>2, <1>4, <1>9 DEF FirstShows
  <2>2. \A d \in Int : d < last => DayAt(z, d) \in Int /\ DayOf(z, DayAt(z, d)) = d
    <3> SUFFICES ASSUME NEW d \in Int, d < last PROVE Appears(z, d * DayLength)
      BY <1>6
    <3>1. d * DayLength \in Int /\ d * DayLength <= q - DayLength
      BY <1>1, <1>2, <1>5
    <3> QED
      BY <3>1, <2>1 DEF Appears
  <2>3. p - z.before < z.change /\ from = p - z.before
    BY <1>1, <1>2, <1>4, <2>1, <1>9
  <2>4. ASSUME NEW x \in Int, p <= x, x < q - DayLength
        PROVE  Appears(z, x) /\ from <= FirstShows(z, x) /\ FirstShows(z, x) < to
    <3>1. FirstShows(z, x) = x - z.before /\ x - z.before < z.change
      BY <1>1, <1>2, <2>1, <2>4
    <3>2. to = q - z.before \/ to = q - z.after
      BY <1>4
    <3>3. x - z.before < to
      BY <1>1, <1>2, <3>2, <2>4
    <3> QED
      BY <3>1, <3>3, <2>3, <1>1, <1>2, <2>4 DEF Appears
  <2>5. DayOf(z, to) \in {last - 1, last}
    <3>1. q - DayLength <= Wall(z, to) /\ Wall(z, to) <= q
      BY <1>1, <1>2, <1>4, <1>w, <1>9
    <3>2. (last - 1) * DayLength = q - DayLength /\ Wall(z, to) \in Int
      BY <1>1, <1>2, <1>3, <1>4, <1>w
    <3>3. CASE Wall(z, to) < q
      <4>1. DayOf(z, to) = last - 1
        BY <1>1, <1>2, <1>d, <3>1, <3>2, <3>3
      <4> QED
        BY <4>1
    <3>4. CASE Wall(z, to) = q
      <4>1. q <= Wall(z, to) /\ Wall(z, to) < q + DayLength
        BY <1>1, <1>2, <3>4
      <4>2. DayOf(z, to) = last
        BY <1>2, <1>d, <3>2, <4>1 DEF q
      <4> QED
        BY <4>2
    <3> QED
      BY <3>1, <3>2, <3>3, <3>4, <1>2
  <2>6. DayOf(z, from) = today
    BY <2>2, <1>1 DEF from
  <2>7. WholeWeek(z, today, today)
    BY <1>1, <1>2, <1>3, <2>2, <2>4, <2>5, <2>6 DEF WholeWeek, from, to, p
  <2> QED
    BY <2>7
<1> QED
  BY <1>1, <1>4, <1>7, <1>8, <1>9 DEF from, to

\* A rule that runs at a reading of that week has an interval among those expanded that holds the first
\* instant of the reading.
LEMMA RuleIsExpanded ==
    ASSUME NEW z, ValidZone(z), NEW today \in Int, NEW first \in Int, WholeWeek(z, today, first),
           NEW R, NEW id \in DOMAIN R, R[id] # NoRule, ValidRule(R[id]), R[id].enabled,
           NEW x \in Int, first * DayLength <= x, x < (first + WeekDays) * DayLength,
           NEW d \in (first - 1)..(first + WeekDays - 1), (d % WeekDays) \in R[id].days,
           d * DayLength + R[id].start <= x,
           x < d * DayLength + (IF R[id].end > R[id].start THEN R[id].end ELSE R[id].end + DayLength)
    PROVE  \E iv \in Expand(R, <<>>, z, DayAt(z, today), DayAt(z, today + WeekDays + 1)) :
               /\ iv.rule = id /\ iv.start \in Int /\ iv.end \in Int
               /\ iv.start <= FirstShows(z, x) /\ FirstShows(z, x) < iv.end
<1> DEFINE rule == R[id]
           m == DayAt(z, d)
           next == IF rule.end > rule.start THEN d ELSE d + 1
           S == LocalTime(z, m, rule.start)
           E == LocalTime(z, IF rule.end > rule.start THEN m ELSE NextDay(z, m), rule.end)
           iv == [start |-> S, end |-> E, rule |-> id, source |-> rule.source]
           from == DayAt(z, today)
           to == DayAt(z, today + WeekDays + 1)
<1>1. /\ DayLength \in Nat \ {0} /\ WeekDays \in Nat \ {0}
      /\ rule.start \in Int /\ rule.end \in Int /\ d \in Int
  BY DayLengthAssumption, WeekDaysAssumption DEF ValidRule, TimesOfDay
<1>2. DayOf(z, m) = d /\ NextDay(z, m) = DayAt(z, d + 1) /\ DayOf(z, DayAt(z, d + 1)) = d + 1
  BY <1>1 DEF WholeWeek, NextDay
<1>3. S = FirstShows(z, d * DayLength + rule.start)
  BY <1>1, <1>2, LocalTimeIs
<1>4. E = FirstShows(z, next * DayLength + rule.end)
  <2>1. CASE rule.end > rule.start
    BY <1>1, <1>2, <2>1, LocalTimeIs
  <2>2. CASE ~(rule.end > rule.start)
    <3>1. E = LocalTime(z, DayAt(z, d + 1), rule.end) /\ next = d + 1
      BY <1>2, <2>2
    <3> HIDE DEF E, next, m, rule
    <3> QED
      BY <1>1, <1>2, <3>1, LocalTimeIs
  <2> QED
    BY <2>1, <2>2
<1>5. d * DayLength \in Int /\ (d + 1) * DayLength = d * DayLength + DayLength
  BY <1>1, DayProducts
<1>6. x < next * DayLength + rule.end /\ next * DayLength \in Int
  BY <1>1, <1>5
<1>7. /\ Appears(z, x) /\ FirstShows(z, x) \in Int
      /\ from <= FirstShows(z, x) /\ FirstShows(z, x) < to /\ from \in Int /\ to \in Int
  <2>1. DayAt(z, today) \in Int /\ DayAt(z, today + WeekDays + 1) \in Int
    BY <1>1, DayAtIs
  <2> QED
    BY <2>1, FirstShowsInt DEF WholeWeek
<1>8. S <= FirstShows(z, x) /\ FirstShows(z, x) < E /\ S \in Int /\ E \in Int
  <2>1. d * DayLength + rule.start \in Int /\ next * DayLength + rule.end \in Int
    BY <1>1, <1>5, <1>6
  <2> HIDE DEF rule, next, S, E
  <2> QED
    BY <2>1, <1>3, <1>4, <1>6, <1>7, FirstShowsGrows, FirstShowsInt DEF rule
<1>9. E > S /\ E > from /\ S < to
  <2> HIDE DEF S, E, from, to
  <2> QED
    BY <1>7, <1>8
<1>10. [start |-> S, end |-> E] \in Windows(z, m, rule.start, rule.end)
  <2>1. Windows(z, m, rule.start, rule.end) = IF E > S THEN {[start |-> S, end |-> E]} ELSE {}
    BY DEF Windows
  <2> QED
    BY <2>1, <1>9
<1>11. iv \in OfRules(R, z, m)
  <2>1. RunsOn(rule, DayOf(z, m))
    BY <1>2 DEF RunsOn
  <2>2. iv = Interval([start |-> S, end |-> E], id, rule.source)
    BY DEF Interval
  <2> DEFINE of(i) == {Interval(w, i, R[i].source) : w \in Windows(z, m, R[i].start, R[i].end)}
             on == {i \in DOMAIN R : RunsOn(R[i], DayOf(z, m))}
  <2>3. iv \in of(id)
    <3> HIDE DEF iv, S, E, m
    <3> QED
      BY <2>2, <1>10
  <2>4. id \in on
    BY <2>1
  <2>5. OfRules(R, z, m) = UNION {of(i) : i \in on}
    BY DEF OfRules
  <2> HIDE DEF of, on, iv, m
  <2> QED
    BY <2>3, <2>4, <2>5
<1>12. iv \in OnDay(R, <<>>, z, m)
  <2>1. \A day : Exception(<<>>, day) = NoException
    BY DEF Exception
  <2> HIDE DEF iv, m
  <2> QED
    BY <2>1, <1>11 DEF OnDay, Clip
<1>13. m \in Days(z, from, to)
  <2>1. d \in (DayOf(z, from) - 1)..(DayOf(z, to) + 1)
    <3>1. DayOf(z, from) \in Int /\ DayOf(z, to) \in Int
      <4>1. Wall(z, from) \in Int /\ Wall(z, to) \in Int
        BY <1>7, ProbeAssumption DEF Wall, Offset, ValidZone
      <4> QED
        BY <4>1, <1>1 DEF DayOf
    <3> QED
      BY <3>1, <1>1 DEF WholeWeek
  <2> HIDE DEF from, to
  <2> QED
    BY <2>1 DEF Days
<1>14. iv.rule = id /\ iv.start = S /\ iv.end = E
  OBVIOUS
<1>15. iv \in Expand(R, <<>>, z, from, to)
  <2> HIDE DEF iv, m, S, E, from, to
  <2> QED
    BY <1>9, <1>12, <1>13, <1>14 DEF Expand
<1> QED
  BY <1>8, <1>14, <1>15

(***************************************************************************)
(* The hours of a rule in the week.                                        *)
(***************************************************************************)
Week == WeekDays * DayLength

LEMMA WeekIs ==
    /\ Week \in Nat \ {0}
    /\ \A d \in Int : (d + WeekDays) * DayLength = d * DayLength + Week
    /\ \A d, k \in Int : /\ k * WeekDays \in Int /\ k * Week \in Int
                         /\ (d + k * WeekDays) * DayLength = d * DayLength + k * Week
<1>1. DayLength \in Nat \ {0} /\ WeekDays \in Nat \ {0}
  BY DayLengthAssumption, WeekDaysAssumption
<1>2. Week \in Nat \ {0}
  <2>1. 0 * DayLength + DayLength <= WeekDays * DayLength /\ WeekDays * DayLength \in Int
    BY <1>1, DayProducts
  <2> QED
    BY <1>1, <2>1 DEF Week
<1>3. \A d \in Int : (d + WeekDays) * DayLength = d * DayLength + Week
  BY <1>1, DayProducts DEF Week
<1>4. ASSUME NEW d \in Int, NEW k \in Int
      PROVE  /\ k * WeekDays \in Int /\ k * Week \in Int
             /\ (d + k * WeekDays) * DayLength = d * DayLength + k * Week
  <2>1. k * WeekDays \in Int
    BY <1>1
  <2>2. (d + k * WeekDays) * DayLength = d * DayLength + (k * WeekDays) * DayLength
    BY <2>1, DayProducts
  <2>3. (k * WeekDays) * DayLength = k * Week
    BY <1>1 DEF Week
  <2> QED
    BY <1>2, <2>1, <2>2, <2>3
<1> QED
  BY <1>2, <1>3, <1>4

\* Every hour of the week comes once in the week that starts with the day first.
LEMMA HourComes ==
    ASSUME NEW h \in Int, NEW first \in Int
    PROVE  \E k \in Int : /\ k * Week + h \in Int
                          /\ first * DayLength <= k * Week + h
                          /\ k * Week + h < (first + WeekDays) * DayLength
<1>1. Week \in Nat \ {0} /\ (first + WeekDays) * DayLength = first * DayLength + Week
  BY WeekIs
<1>2. PICK u \in Int : u = first * DayLength
  BY DayProducts
<1> DEFINE j == (h - u) \div Week
           r == (h - u) % Week
<1>3. j \in Int /\ r \in 0..(Week - 1) /\ h - u = j * Week + r
  <2>1. h - u \in Int
    BY <1>2
  <2> QED
    BY <1>1, <2>1, Division
<1>4. (-j) * Week + h = u + r
  <2>1. (-j) * Week = -(j * Week) /\ j * Week \in Int
    BY <1>1, <1>3
  <2> HIDE DEF j, r
  <2> QED
    BY <1>1, <1>2, <1>3, <2>1
<1> HIDE DEF j, r
<1>5. -j \in Int
  BY <1>3
<1>6. u + r \in Int /\ u <= u + r /\ u + r < u + Week
  BY <1>1, <1>2, <1>3
<1> QED
  BY <1>1, <1>2, <1>4, <1>5, <1>6

\* Where an hour of the rule comes in that week, the rule runs: from the day before or from the same day.
LEMMA RunsAtHour ==
    ASSUME NEW rule, ValidRule(rule), NEW h \in Hours(rule), NEW first \in Int, NEW x \in Int, NEW k \in Int,
           x = k * Week + h, first * DayLength <= x, x < (first + WeekDays) * DayLength
    PROVE  \E d \in (first - 1)..(first + WeekDays - 1) :
               /\ (d % WeekDays) \in rule.days
               /\ d * DayLength + rule.start <= x
               /\ x < d * DayLength + (IF rule.end > rule.start THEN rule.end ELSE rule.end + DayLength)
<1> DEFINE over == IF rule.end > rule.start THEN rule.end ELSE rule.end + DayLength
<1>1. /\ DayLength \in Nat \ {0} /\ WeekDays \in Nat \ {0} /\ Week \in Nat \ {0}
      /\ rule.start \in Int /\ rule.end \in Int /\ 0 <= rule.start /\ over \in Int /\ over <= 2 * DayLength
      /\ rule.days \subseteq 0..(WeekDays - 1)
  BY DayLengthAssumption, WeekDaysAssumption, WeekIs DEF ValidRule, TimesOfDay
<1>2. PICK e \in rule.days : \E m \in rule.start..(over - 1) : h = (e * DayLength + m) % Week
  BY DEF Hours, Week
<1>3. PICK m \in rule.start..(over - 1) : h = (e * DayLength + m) % Week
  BY <1>2
<1>4. e \in Int /\ m \in Int /\ 0 <= m /\ m < 2 * DayLength /\ 0 <= e /\ e < WeekDays
  BY <1>1
<1>5. PICK y \in Int : y = e * DayLength + m
  <2>1. e * DayLength \in Int
    BY <1>4, DayProducts
  <2> QED
    BY <1>4, <2>1
<1> DEFINE j == y \div Week
           d == e + (k - j) * WeekDays
<1>6. j \in Int /\ h = y - j * Week
  <2> HIDE DEF d, over
  <2>1. y \div Week \in Int /\ y % Week \in 0..(Week - 1) /\ y = (y \div Week) * Week + (y % Week)
    BY <1>1, Division
  <2>2. h = y % Week
    BY <1>3, <1>5
  <2>3. (y \div Week) * Week \in Int
    BY <1>1, <2>1
  <2>4. y % Week \in Int
    BY <1>1, <2>1
  <2> QED
    BY <2>1, <2>2, <2>3, <2>4
<1> HIDE DEF j, over
<1>7. d \in Int /\ (k - j) * WeekDays \in Int /\ d * DayLength = e * DayLength + (k - j) * Week
  <2>1. k - j \in Int
    BY <1>6
  <2>2. (k - j) * WeekDays \in Int /\ (e + (k - j) * WeekDays) * DayLength = e * DayLength + (k - j) * Week
    BY <1>4, <2>1, WeekIs
  <2> QED
    BY <1>4, <2>2
<1>8. d * DayLength + m = x
  <2>1. (k - j) * Week = k * Week - j * Week /\ k * Week \in Int /\ j * Week \in Int
    BY <1>1, <1>6
  <2>2. e * DayLength \in Int
    BY <1>4, DayProducts
  <2> QED
    BY <1>4, <1>5, <1>6, <1>7, <2>1, <2>2
<1>9. d % WeekDays = e
  <2>1. k - j \in Int /\ (k - j) * WeekDays <= d /\ d < (k - j) * WeekDays + WeekDays
    BY <1>1, <1>4, <1>6, <1>7
  <2>2. d % WeekDays = d - (k - j) * WeekDays
    BY <2>1, <1>1, <1>7, Quotients
  <2> QED
    BY <2>2, <1>4, <1>7
<1> HIDE DEF d
<1>10. d \in (first - 1)..(first + WeekDays - 1)
  <2>1. d * DayLength \in Int /\ first * DayLength \in Int /\ (first + WeekDays) * DayLength \in Int
    BY <1>1, <1>7, DayProducts
  <2>2. d < first + WeekDays
    <3>1. first + WeekDays < d => (first + WeekDays) * DayLength + DayLength <= d * DayLength
      BY <1>1, <1>7, DayProducts
    <3> QED
      BY <3>1, <2>1, <1>1, <1>4, <1>7, <1>8
  <2>3. first - 1 <= d
    <3>1. d < first - 1 => d * DayLength + DayLength <= (first - 1) * DayLength
      BY <1>1, <1>7, DayProducts
    <3>2. (first - 1) * DayLength + 1 * DayLength = first * DayLength /\ (first - 1) * DayLength \in Int
      <4>1. ((first - 1) + 1) * DayLength = (first - 1) * DayLength + 1 * DayLength
        BY DayProducts
      <4>2. (first - 1) + 1 = first /\ (first - 1) * DayLength \in Int
        BY DayProducts
      <4> QED
        BY <4>1, <4>2
    <3> QED
      BY <3>1, <3>2, <2>1, <1>1, <1>4, <1>7, <1>8
  <2> QED
    BY <2>2, <2>3, <1>1, <1>7
<1>11. d * DayLength + rule.start <= x /\ x < d * DayLength + over
  <2>1. d * DayLength \in Int
    BY <1>7, DayProducts
  <2> QED
    BY <2>1, <1>1, <1>3, <1>8
<1> QED
  BY <1>9, <1>10, <1>11 DEF over

LEMMA TwoMembers ==
    ASSUME NEW a, NEW b, a # b
    PROVE  Cardinality({a, b}) = 2
<1>1. IsFiniteSet({a}) /\ Cardinality({a}) = 1
  BY FS_Singleton
<1>2. b \notin {a} /\ {a, b} = {a} \cup {b}
  OBVIOUS
<1>3. Cardinality({a} \cup {b}) = Cardinality({a}) + 1
  BY <1>1, <1>2, FS_AddElement
<1>4. PICK n : n = Cardinality({a} \cup {b})
  OBVIOUS
<1>5. n = 1 + 1
  BY <1>1, <1>3, <1>4, Zenon
<1>6. n = 2
  BY <1>5
<1> QED
  BY <1>2, <1>4, <1>6, Zenon

\* What checkConflicts is for: two rules that want the same hour of the week are reported as a pair, in
\* every week that skips no hours.
THEOREM OverlapIsReported ==
    ASSUME NEW z, ValidZone(z), NEW t, DayOf(z, t) \in Int,
           ~ (/\ z.after > z.before
              /\ z.change \in DayAt(z, DayOf(z, t))..DayAt(z, DayOf(z, t) + WeekDays + 1)),
           NEW R, NEW a \in DOMAIN R, NEW b \in DOMAIN R, a # b,
           R[a] # NoRule, ValidRule(R[a]), R[b] # NoRule, ValidRule(R[b]), Overlap(R[a], R[b])
    PROVE  {a, b} \in Conflicts(R, z, t)
<1> DEFINE today == DayOf(z, t)
           ivs == Expand(R, <<>>, z, DayAt(z, today), DayAt(z, today + WeekDays + 1))
<1>1. PICK first \in Int : WholeWeek(z, today, first)
  BY WholeWeekAhead
<1>2. PICK h \in Hours(R[a]) : h \in Hours(R[b])
  BY DEF Overlap
<1>3. R[a].enabled /\ R[b].enabled
  BY DEF Overlap
<1>4. h \in Int
  <2>1. WeekDays * DayLength \in Nat \ {0}
    BY WeekIs DEF Week
  <2>2. PICK d \in R[a].days, m \in R[a].start..((IF R[a].end > R[a].start THEN R[a].end ELSE R[a].end + DayLength) - 1) :
            h = (d * DayLength + m) % (WeekDays * DayLength)
    BY <1>2 DEF Hours
  <2>3. d * DayLength \in Int /\ m \in Int
    <3>1. d \in Int /\ R[a].start \in Int /\ R[a].end \in Int /\ DayLength \in Int
      BY DayLengthAssumption, WeekDaysAssumption DEF ValidRule, TimesOfDay
    <3> QED
      BY <3>1, DayProducts
  <2>4. d * DayLength + m \in Int
    BY <2>3
  <2> QED
    BY <2>1, <2>2, <2>4, Division
<1>5. PICK k \in Int : /\ k * Week + h \in Int
                       /\ first * DayLength <= k * Week + h
                       /\ k * Week + h < (first + WeekDays) * DayLength
  BY <1>4, HourComes
<1>6. PICK x \in Int : x = k * Week + h
  BY <1>5
<1>7. first * DayLength <= x /\ x < (first + WeekDays) * DayLength
  BY <1>5, <1>6
<1>8. ASSUME NEW id \in DOMAIN R, R[id] # NoRule, ValidRule(R[id]), R[id].enabled, h \in Hours(R[id])
      PROVE  \E iv \in ivs : /\ iv.rule = id /\ iv.start \in Int /\ iv.end \in Int
                             /\ iv.start <= FirstShows(z, x) /\ FirstShows(z, x) < iv.end
  <2>1. PICK d \in (first - 1)..(first + WeekDays - 1) :
            /\ (d % WeekDays) \in R[id].days
            /\ d * DayLength + R[id].start <= x
            /\ x < d * DayLength + (IF R[id].end > R[id].start THEN R[id].end ELSE R[id].end + DayLength)
    BY <1>6, <1>7, <1>8, RunsAtHour
  <2> QED
    BY <2>1, <1>1, <1>7, <1>8, RuleIsExpanded
<1>9. PICK i \in ivs : /\ i.rule = a /\ i.start \in Int /\ i.end \in Int
                       /\ i.start <= FirstShows(z, x) /\ FirstShows(z, x) < i.end
  BY <1>2, <1>3, <1>8
<1>10. PICK j \in ivs : /\ j.rule = b /\ j.start \in Int /\ j.end \in Int
                       /\ j.start <= FirstShows(z, x) /\ FirstShows(z, x) < j.end
  BY <1>2, <1>3, <1>8
<1>11. FirstShows(z, x) \in Int
  BY FirstShowsInt
<1>12. \/ {i.rule, j.rule} = {a, b} /\ i.start <= j.start /\ j.start < i.end
       \/ {j.rule, i.rule} = {a, b} /\ j.start <= i.start /\ i.start < j.end
  BY <1>9, <1>10, <1>11
<1>13. {a, b} \in SUBSET DOMAIN R /\ Cardinality({a, b}) = 2
  BY TwoMembers
<1>14. \E p, q \in ivs : {p.rule, q.rule} = {a, b} /\ p.start <= q.start /\ q.start < p.end
  BY <1>9, <1>10, <1>12
<1>15. Conflicts(R, z, t) =
           {p \in SUBSET DOMAIN R :
              Cardinality(p) = 2 /\ \E c, d \in ivs : {c.rule, d.rule} = p /\ c.start <= d.start /\ d.start < c.end}
  BY DEF Conflicts
<1> HIDE DEF ivs
<1> QED
  BY <1>13, <1>14, <1>15

(***************************************************************************)
(* The requests: types.                                                    *)
(***************************************************************************)
RuleTable == [RuleIds -> Rules \cup {NoRule}]

Pending == [pc : {"idle"}]
           \cup [pc : {"check"}, id : RuleIds \cup {NewId}, rule : Rules]
           \cup [pc : {"store"}, id : RuleIds \cup {NewId}, rule : Rules, seen : RuleTable, skips : BOOLEAN]
           \cup [pc : {"put"}, date : Dates, exception : Exceptions]

TypeInv ==
    /\ zone \in Zones /\ now \in Int
    /\ rules \in RuleTable
    /\ DOMAIN exceptions \subseteq Dates /\ \A d \in DOMAIN exceptions : exceptions[d] \in Exceptions
    /\ request \in [Requests -> Pending]
    /\ blind \in BOOLEAN

\* What a pending request is, by its pc.
LEMMA PendingIs ==
    ASSUME request \in [Requests -> Pending], NEW q \in Requests
    PROVE  /\ request[q] \in Pending
           /\ request[q].pc \in {"check", "store"} => request[q].id \in RuleIds \cup {NewId} /\ request[q].rule \in Rules
           /\ request[q].pc = "store" => request[q].seen \in RuleTable /\ request[q].skips \in BOOLEAN
           /\ request[q].pc = "put" => request[q].date \in Dates /\ request[q].exception \in Exceptions
<1>1. request[q] \in Pending
  OBVIOUS
<1>2. PICK r \in Pending : r = request[q]
  BY <1>1
<1>3. /\ r.pc \in {"check", "store"} => r.id \in RuleIds \cup {NewId} /\ r.rule \in Rules
      /\ r.pc = "store" => r.seen \in RuleTable /\ r.skips \in BOOLEAN
      /\ r.pc = "put" => r.date \in Dates /\ r.exception \in Exceptions
  BY DEF Pending
<1> QED
  BY <1>1, <1>2, <1>3

\* A step of one request leaves the others alone.
LEMMA OneRequest ==
    ASSUME request \in [Requests -> Pending], NEW q \in Requests, NEW r \in Pending,
           request' = [request EXCEPT ![q] = r]
    PROVE  /\ request' \in [Requests -> Pending]
           /\ request'[q] = r
           /\ \A o \in Requests : o # q => request'[o] = request[o]
OBVIOUS

LEMMA IdleIsPending == Idle \in Pending /\ Idle.pc = "idle"
BY DEF Idle, Pending

LEMMA CheckSteps ==
    ASSUME TypeInv, NEW q \in Requests, Check(q)
    PROVE  \/ request' = [request EXCEPT ![q] = Idle]
           \/ \E r \in Pending :
                  /\ request' = [request EXCEPT ![q] = r]
                  /\ r = [pc |-> "store", id |-> request[q].id, rule |-> request[q].rule,
                          seen |-> rules, skips |-> SkipsHours]
                  /\ ~Refused(request[q].id, request[q].rule)
<1>1. request[q].id \in RuleIds \cup {NewId} /\ request[q].rule \in Rules /\ rules \in RuleTable
  BY PendingIs DEF Check, TypeInv
<1>2. SkipsHours \in BOOLEAN
  BY DEF SkipsHours
<1>3. PICK r : r = [pc |-> "store", id |-> request[q].id, rule |-> request[q].rule,
                    seen |-> rules, skips |-> SkipsHours]
  OBVIOUS
<1>4. r \in Pending
  <2> HIDE DEF RuleTable
  <2> QED
    BY <1>1, <1>2, <1>3 DEF Pending
<1>5. request' = [request EXCEPT ![q] = IF Refused(request[q].id, request[q].rule) THEN Idle ELSE r]
  BY <1>3 DEF Check
<1> QED
  BY <1>3, <1>4, <1>5

\* The next-state relation, one disjunct per action.
LEMMA Requested ==
    ASSUME Next
    PROVE  \/ Tick
           \/ \E q \in Requests :
                  \/ \E id \in RuleIds \cup {NewId}, r \in Rules : Save(q, id, r)
                  \/ Check(q) \/ Store(q) \/ StoreException(q)
                  \/ \E d \in Dates, e \in Exceptions : Put(q, d, e)
                  \/ \E id \in RuleIds : DeleteSchedule(q, id)
                  \/ \E d \in Dates : DeleteException(q, d)
                  \/ \E z \in Zones : SetZone(q, z)
                  \/ \E l \in Lists : DeletePlaylist(q, l)
BY DEF Next

LEMMA TypeInvInit == Init => TypeInv
<1> SUFFICES ASSUME Init PROVE TypeInv
  OBVIOUS
<1>1. now \in Int /\ zone \in Zones /\ blind = FALSE
  BY StartsAssumption DEF Init
<1>2. rules \in RuleTable
  BY DEF Init, RuleTable
<1>3. DOMAIN exceptions \subseteq Dates /\ \A d \in DOMAIN exceptions : exceptions[d] \in Exceptions
  <2>1. exceptions \in ExceptionTable
    BY DEF Init
  <2>2. PICK ds \in SUBSET Dates, e \in [Dates -> Exceptions] : exceptions = [d \in ds |-> e[d]]
    BY <2>1 DEF ExceptionTable
  <2> QED
    BY <2>2
<1>4. request \in [Requests -> Pending]
  BY IdleIsPending DEF Init
<1> QED
  BY <1>1, <1>2, <1>3, <1>4 DEF TypeInv

LEMMA TypeInvStep == TypeInv /\ [Next]_vars => TypeInv'
<1> SUFFICES ASSUME TypeInv, [Next]_vars PROVE TypeInv'
  OBVIOUS
<1>t. /\ request \in [Requests -> Pending] /\ rules \in RuleTable /\ now \in Int /\ zone \in Zones
      /\ DOMAIN exceptions \subseteq Dates /\ \A d \in DOMAIN exceptions : exceptions[d] \in Exceptions
      /\ blind \in BOOLEAN
  BY DEF TypeInv
<1>i. Idle \in Pending
  BY IdleIsPending
<1>1. CASE UNCHANGED vars
  BY <1>1 DEF TypeInv, vars
<1>2. CASE Tick
  BY <1>2 DEF Tick, TypeInv, tables
<1>3. ASSUME NEW q \in Requests, NEW id \in RuleIds \cup {NewId}, NEW r \in Rules, Save(q, id, r) PROVE TypeInv'
  <2>1. PICK p : p = [pc |-> "check", id |-> id, rule |-> r]
    OBVIOUS
  <2>2. p \in Pending
    BY <2>1 DEF Pending
  <2>3. request' = [request EXCEPT ![q] = p]
    BY <1>3, <2>1 DEF Save, Starts1
  <2>4. request' \in [Requests -> Pending]
    BY <2>2, <2>3, <1>t, OneRequest
  <2> QED
    BY <1>3, <2>4 DEF Save, TypeInv, tables, clock
<1>4. ASSUME NEW q \in Requests, Check(q) PROVE TypeInv'
  <2>1. request' \in [Requests -> Pending]
    BY <1>4, <1>i, <1>t, CheckSteps, OneRequest
  <2> QED
    BY <1>4, <2>1 DEF Check, TypeInv, tables, clock
<1>5. ASSUME NEW q \in Requests, Store(q) PROVE TypeInv'
  <2>1. UNCHANGED <<exceptions, playlists, zone, now, ticks, changes>>
    BY <1>5 DEF Store, clock
  <2>2. CASE request' = [request EXCEPT ![q] = Idle] /\ UNCHANGED <<rules, lastId, blind>>
    <3>1. request' \in [Requests -> Pending]
      BY <2>2, <1>i, <1>t, OneRequest
    <3> QED
      BY <2>1, <2>2, <3>1 DEF TypeInv
  <2>3. ASSUME NEW place \in RuleIds, rules' = [rules EXCEPT ![place] = request[q].rule],
               request' = [request EXCEPT ![q] = Idle],
               blind' = (blind \/ Unseen(request[q].seen) \/ request[q].skips)
        PROVE  TypeInv'
    <3>1. request' \in [Requests -> Pending]
      BY <2>3, <1>i, <1>t, OneRequest
    <3>2. request[q].rule \in Rules /\ request[q].skips \in BOOLEAN
      BY <1>5, <1>t, PendingIs DEF Store
    <3>3. rules' \in RuleTable
      BY <2>3, <3>2, <1>t DEF RuleTable
    <3>4. blind' \in BOOLEAN
      BY <2>3, <3>2, <1>t, Zenon DEF Unseen
    <3> QED
      BY <2>1, <2>3, <3>1, <3>3, <3>4, <1>t DEF TypeInv
  <2> QED
    BY <1>5, <2>2, <2>3 DEF Store
<1>6. ASSUME NEW q \in Requests, StoreException(q) PROVE TypeInv'
  <2>1. request[q].date \in Dates /\ request[q].exception \in Exceptions
    BY <1>6, <1>t, PendingIs DEF StoreException
  <2>2. exceptions' = [d \in DOMAIN exceptions \cup {request[q].date} |->
                         IF d = request[q].date THEN request[q].exception ELSE exceptions[d]]
    BY <1>6 DEF StoreException
  <2>3. DOMAIN exceptions' \subseteq Dates /\ \A d \in DOMAIN exceptions' : exceptions'[d] \in Exceptions
    BY <2>1, <2>2, <1>t
  <2>4. request' \in [Requests -> Pending]
    BY <1>6, <1>i, <1>t, OneRequest DEF StoreException
  <2> QED
    BY <1>6, <2>3, <2>4, <1>t DEF StoreException, TypeInv, clock
<1>7. ASSUME NEW q \in Requests, NEW d \in Dates, NEW e \in Exceptions, Put(q, d, e) PROVE TypeInv'
  <2>1. PICK p : p = [pc |-> "put", date |-> d, exception |-> e]
    OBVIOUS
  <2>2. p \in Pending
    BY <2>1 DEF Pending
  <2>3. request' = [request EXCEPT ![q] = p]
    BY <1>7, <2>1 DEF Put, Starts1
  <2>4. request' \in [Requests -> Pending]
    BY <2>2, <2>3, <1>t, OneRequest
  <2> QED
    BY <1>7, <2>4 DEF Put, TypeInv, tables, clock
<1>8. ASSUME NEW q \in Requests, NEW id \in RuleIds, DeleteSchedule(q, id) PROVE TypeInv'
  <2>1. request' \in [Requests -> Pending]
    BY <1>8, <1>i, <1>t, OneRequest DEF DeleteSchedule, Starts1
  <2>2. rules' \in RuleTable
    BY <1>8, <1>t DEF DeleteSchedule, RuleTable
  <2> QED
    BY <1>8, <2>1, <2>2, <1>t DEF DeleteSchedule, TypeInv, clock
<1>9. ASSUME NEW q \in Requests, NEW d \in Dates, DeleteException(q, d) PROVE TypeInv'
  <2>1. request' \in [Requests -> Pending]
    BY <1>9, <1>i, <1>t, OneRequest DEF DeleteException, Starts1
  <2>2. DOMAIN exceptions' \subseteq Dates /\ \A c \in DOMAIN exceptions' : exceptions'[c] \in Exceptions
    BY <1>9, <1>t DEF DeleteException
  <2> QED
    BY <1>9, <2>1, <2>2, <1>t DEF DeleteException, TypeInv, clock
<1>10. ASSUME NEW q \in Requests, NEW z \in Zones, SetZone(q, z) PROVE TypeInv'
  <2>1. request' \in [Requests -> Pending]
    BY <1>10, <1>i, <1>t, OneRequest DEF SetZone, Starts1
  <2> QED
    BY <1>10, <2>1, <1>t DEF SetZone, TypeInv, clock
<1>11. ASSUME NEW q \in Requests, NEW l \in Lists, DeletePlaylist(q, l) PROVE TypeInv'
  <2>1. request' \in [Requests -> Pending]
    BY <1>11, <1>i, <1>t, OneRequest DEF DeletePlaylist, Starts1
  <2>2. rules' \in RuleTable
    BY <1>11, <1>t DEF DeletePlaylist, RuleTable
  <2>3. DOMAIN exceptions' \subseteq Dates /\ \A c \in DOMAIN exceptions' : exceptions'[c] \in Exceptions
    BY <1>11, <1>t DEF DeletePlaylist
  <2> QED
    BY <1>11, <2>1, <2>2, <2>3, <1>t DEF DeletePlaylist, TypeInv, clock
<1> QED
  BY <1>1, <1>2, <1>3, <1>4, <1>5, <1>6, <1>7, <1>8, <1>9, <1>10, <1>11, Requested

\* The table of exceptions is a table: a function on some of the days.
TablesInv ==
    /\ playlists \subseteq Lists
    /\ [Dates -> Exceptions] # {}
    /\ exceptions = [d \in DOMAIN exceptions |-> exceptions[d]]

LEMMA TablesInvStep == TablesInv /\ [Next]_vars => TablesInv'
<1> SUFFICES ASSUME TablesInv, [Next]_vars PROVE TablesInv'
  OBVIOUS
<1>1. ASSUME UNCHANGED <<playlists, exceptions>> PROVE TablesInv'
  BY <1>1 DEF TablesInv
<1>2. ASSUME NEW f, exceptions' = f, f = [d \in DOMAIN f |-> f[d]], playlists' \subseteq playlists PROVE TablesInv'
  BY <1>2 DEF TablesInv
<1>3. CASE UNCHANGED vars
  BY <1>1, <1>3 DEF vars
<1>4. CASE Tick
  BY <1>1, <1>4 DEF Tick, tables
<1>5. ASSUME NEW q \in Requests, Check(q) \/ Store(q) PROVE TablesInv'
  BY <1>1, <1>5 DEF Check, Store, tables
<1>6. ASSUME NEW q \in Requests, NEW id, NEW r, Save(q, id, r) \/ DeleteSchedule(q, id) \/ SetZone(q, r)
      PROVE  TablesInv'
  BY <1>1, <1>6 DEF Save, DeleteSchedule, SetZone, tables
<1>7. ASSUME NEW q \in Requests, NEW d, NEW e, Put(q, d, e) PROVE TablesInv'
  BY <1>1, <1>7 DEF Put, tables
<1>8. ASSUME NEW q \in Requests, StoreException(q) PROVE TablesInv'
  BY <1>8, <1>2 DEF StoreException
<1>9. ASSUME NEW q \in Requests, NEW d, DeleteException(q, d) PROVE TablesInv'
  BY <1>9, <1>2 DEF DeleteException
<1>10. ASSUME NEW q \in Requests, NEW l, DeletePlaylist(q, l) PROVE TablesInv'
  BY <1>10, <1>2 DEF DeletePlaylist
<1> QED
  BY <1>3, <1>4, <1>5, <1>6, <1>7, <1>8, <1>9, <1>10, Requested

\* The tables hold rules, exceptions and playlists that people saved, for any of them, and a request is
\* always at one of its steps (the handlers of handlers_schedule.go).
THEOREM ScheduleTypeCorrect == Spec => []TypeOK
<1>1. Init => TablesInv
  <2> SUFFICES ASSUME Init PROVE TablesInv
    OBVIOUS
  <2>1. PICK ds \in SUBSET Dates, e \in [Dates -> Exceptions] : exceptions = [d \in ds |-> e[d]]
    BY DEF Init, ExceptionTable
  <2> QED
    BY <2>1 DEF Init, TablesInv
<1>2. TypeInv /\ TablesInv => TypeOK
  <2> SUFFICES ASSUME TypeInv, TablesInv PROVE TypeOK
    OBVIOUS
  <2>1. exceptions \in ExceptionTable
    <3>1. PICK o \in [Dates -> Exceptions] : TRUE
      BY DEF TablesInv
    <3>2. PICK e : e = [d \in Dates |-> IF d \in DOMAIN exceptions THEN exceptions[d] ELSE o[d]]
      OBVIOUS
    <3>3. e \in [Dates -> Exceptions] /\ DOMAIN exceptions \in SUBSET Dates
      BY <3>2 DEF TypeInv
    <3>4. [d \in DOMAIN exceptions |-> e[d]] = exceptions
      <4>1. \A d \in DOMAIN exceptions : e[d] = exceptions[d]
        BY <3>2 DEF TypeInv
      <4> QED
        BY <4>1 DEF TablesInv
    <3> QED
      BY <3>3, <3>4 DEF ExceptionTable
  <2>2. \A q \in Requests : request[q].pc \in {"idle", "check", "store", "put"}
    <3>1. \A p \in Pending : p.pc \in {"idle", "check", "store", "put"}
      BY DEF Pending
    <3> QED
      BY <3>1 DEF TypeInv
  <2> QED
    BY <2>1, <2>2 DEF TypeInv, TablesInv, TypeOK, RuleTable
<1> QED
  BY <1>1, <1>2, TypeInvInit, TypeInvStep, TablesInvStep, PTL DEF Spec

(***************************************************************************)
(* The rules stay apart.                                                   *)
(***************************************************************************)
Apart(table) ==
    \A i, j \in {id \in RuleIds : table[id] # NoRule} : i # j => ~Overlap(table[i], table[j])

\* A rule that was checked in a week without a gap is apart from the others it was checked with.
Checked(r) ==
    r.pc = "store" /\ ~r.skips =>
        \A id \in RuleIds : id # r.id /\ r.seen[id] # NoRule => ~Overlap(r.rule, r.seen[id])

CheckedInv == \A q \in Requests : Checked(request[q])

LEMMA OverlapIsMutual == \A a, b : Overlap(a, b) <=> Overlap(b, a)
BY DEF Overlap

LEMMA FewerApart ==
    ASSUME NEW table \in RuleTable, NEW fewer \in RuleTable, Apart(table),
           \A id \in RuleIds : fewer[id] \in {table[id], NoRule}
    PROVE  Apart(fewer)
BY DEF Apart

LEMMA OneMoreApart ==
    ASSUME NEW table \in RuleTable, NEW place \in RuleIds, NEW rule, Apart(table),
           \A id \in RuleIds : id # place /\ table[id] # NoRule => ~Overlap(rule, table[id])
    PROVE  Apart([table EXCEPT ![place] = rule])
<1> DEFINE more == [table EXCEPT ![place] = rule]
<1>1. \A id \in RuleIds : more[id] = IF id = place THEN rule ELSE table[id]
  BY DEF RuleTable
<1> HIDE DEF more
<1>2. SUFFICES ASSUME NEW i \in RuleIds, NEW j \in RuleIds, more[i] # NoRule, more[j] # NoRule, i # j
               PROVE  ~Overlap(more[i], more[j])
  BY DEF Apart, more
<1>3. CASE i = place
  BY <1>1, <1>2, <1>3
<1>4. CASE j = place
  BY <1>1, <1>2, <1>4, OverlapIsMutual
<1>5. CASE i # place /\ j # place
  BY <1>1, <1>2, <1>5 DEF Apart
<1> QED
  BY <1>3, <1>4, <1>5

\* What Check lets pass, it has compared with every other rule.
LEMMA PassedIsApart ==
    ASSUME TypeInv, NEW id \in RuleIds \cup {NewId}, NEW rule \in Rules, ~Refused(id, rule), ~SkipsHours,
           NEW other \in RuleIds, other # id, rules[other] # NoRule
    PROVE  ~Overlap(rule, rules[other])
<1> SUFFICES ASSUME Overlap(rule, rules[other]) PROVE FALSE
  OBVIOUS
<1> DEFINE all == With(id, rule)
<1>1. /\ id \in DOMAIN all /\ other \in DOMAIN all /\ all[id] = rule /\ all[other] = rules[other]
  BY DEF With
<1>2. rule # NoRule /\ ValidRule(rule) /\ ValidRule(rules[other])
  BY RulesAssumption DEF TypeInv, RuleTable
<1>3. ValidZone(zone) /\ now \in Int
  BY ZonesAssumption DEF TypeInv
<1>4. DayOf(zone, now) \in Int
  <2>1. Wall(zone, now) \in Int
    BY <1>3, ProbeAssumption DEF Wall, Offset, ValidZone
  <2> QED
    BY <2>1, DayLengthAssumption DEF DayOf
<1> HIDE DEF all
<1>5. {id, other} \in Conflicts(all, zone, now)
  BY <1>1, <1>2, <1>3, <1>4, OverlapIsReported DEF SkipsHours
<1>6. rule.enabled
  BY DEF Overlap
<1> QED
  BY <1>5, <1>6 DEF Refused, all

ApartInv == RulesApart /\ CheckedInv

LEMMA ApartIs == RulesApart <=> blind \/ Apart(rules)
BY DEF RulesApart, Apart

\* A step of a request that is not a check that passes.
LEMMA NothingChecked ==
    ASSUME TypeInv, CheckedInv, NEW q \in Requests, NEW r, r.pc # "store", request' = [request EXCEPT ![q] = r]
    PROVE  CheckedInv'
<1>1. request \in [Requests -> Pending]
  BY DEF TypeInv
<1>2. request'[q] = r /\ \A o \in Requests : o # q => request'[o] = request[o]
  BY <1>1
<1> QED
  BY <1>2 DEF CheckedInv, Checked

LEMMA ApartStep == TypeInv /\ TypeInv' /\ ApartInv /\ [Next]_vars => ApartInv'
<1> SUFFICES ASSUME TypeInv, TypeInv', ApartInv, [Next]_vars PROVE ApartInv'
  OBVIOUS
<1>t. request \in [Requests -> Pending] /\ rules \in RuleTable /\ rules' \in RuleTable
  BY DEF TypeInv
<1>a. blind \/ Apart(rules)
  BY ApartIs DEF ApartInv
<1>c. CheckedInv
  BY DEF ApartInv
<1>s. ASSUME UNCHANGED <<rules, blind>> PROVE RulesApart'
  BY <1>s DEF ApartInv, RulesApart
<1>p. ASSUME rules' = rules \/ (Apart(rules) => Apart(rules')), blind' = blind PROVE RulesApart'
  <2>1. Apart(rules) => Apart(rules')
    BY <1>p
  <2> QED
    BY <2>1, <1>a, <1>p DEF RulesApart, Apart
<1>i. Idle.pc # "store"
  BY DEF Idle
<1>1. CASE UNCHANGED vars
  BY <1>1, <1>c, <1>s DEF vars, CheckedInv, ApartInv
<1>2. CASE Tick
  BY <1>2, <1>c, <1>s DEF Tick, tables, CheckedInv, ApartInv
<1>3. ASSUME NEW q \in Requests, NEW id \in RuleIds \cup {NewId}, NEW r \in Rules, Save(q, id, r) PROVE ApartInv'
  <2>1. PICK p : p = [pc |-> "check", id |-> id, rule |-> r]
    OBVIOUS
  <2>2. p.pc # "store" /\ request' = [request EXCEPT ![q] = p]
    BY <1>3, <2>1 DEF Save, Starts1
  <2>3. CheckedInv'
    BY <2>2, <1>c, NothingChecked
  <2> QED
    BY <1>3, <2>3, <1>s DEF Save, tables, ApartInv
<1>4. ASSUME NEW q \in Requests, Check(q) PROVE ApartInv'
  <2>1. UNCHANGED <<rules, blind>>
    BY <1>4 DEF Check, tables
  <2>2. CASE request' = [request EXCEPT ![q] = Idle]
    BY <2>1, <2>2, <1>c, <1>i, <1>s, NothingChecked DEF ApartInv
  <2>3. ASSUME NEW r \in Pending, request' = [request EXCEPT ![q] = r],
               r = [pc |-> "store", id |-> request[q].id, rule |-> request[q].rule,
                    seen |-> rules, skips |-> SkipsHours],
               ~Refused(request[q].id, request[q].rule)
        PROVE  CheckedInv'
    <3>1. /\ r.id = request[q].id /\ r.rule = request[q].rule /\ r.seen = rules /\ r.skips = SkipsHours
      BY <2>3
    <3>2. request[q].id \in RuleIds \cup {NewId} /\ request[q].rule \in Rules
      BY <1>4, <1>t, PendingIs DEF Check
    <3>3. Checked(r)
      BY <2>3, <3>1, <3>2, PassedIsApart DEF Checked
    <3>4. request'[q] = r /\ \A o \in Requests : o # q => request'[o] = request[o]
      BY <2>3, <1>t
    <3> QED
      BY <3>3, <3>4, <1>c DEF CheckedInv, Checked
  <2> QED
    BY <1>4, <2>1, <2>2, <2>3, <1>s, CheckSteps DEF ApartInv
<1>5. ASSUME NEW q \in Requests, Store(q) PROVE ApartInv'
  <2>1. CheckedInv'
    BY <1>5, <1>c, <1>i, NothingChecked DEF Store
  <2>2. CASE UNCHANGED <<rules, blind>>
    BY <2>1, <2>2, <1>s DEF ApartInv
  <2>3. ASSUME NEW place \in RuleIds, rules' = [rules EXCEPT ![place] = request[q].rule],
               place = (IF request[q].id = NewId THEN lastId + 1 ELSE request[q].id),
               blind' = (blind \/ Unseen(request[q].seen) \/ request[q].skips)
        PROVE  RulesApart'
    <3>1. CASE blind \/ Unseen(request[q].seen) \/ request[q].skips
      BY <2>3, <3>1 DEF RulesApart
    <3>2. CASE ~blind /\ ~Unseen(request[q].seen) /\ ~request[q].skips
      <4>1. Apart(rules)
        BY <3>2, <1>a
      <4>2. \A id \in RuleIds : id # request[q].id /\ rules[id] # NoRule => ~Overlap(request[q].rule, rules[id])
        <5>1. \A id \in RuleIds : rules[id] # NoRule => request[q].seen[id] = rules[id]
          BY <3>2 DEF Unseen
        <5> QED
          BY <1>5, <3>2, <5>1, <1>c DEF CheckedInv, Checked, Store
      <4>3. \A id \in RuleIds : id # place => id # request[q].id
        BY <2>3, RuleIdsAssumption
      <4>4. \A id \in RuleIds : id # place /\ rules[id] # NoRule => ~Overlap(request[q].rule, rules[id])
        BY <4>2, <4>3
      <4>5. Apart(rules')
        BY <2>3, <4>1, <4>4, <1>t, OneMoreApart
      <4> QED
        BY <4>5 DEF RulesApart, Apart
    <3> QED
      BY <3>1, <3>2
  <2> QED
    BY <1>5, <2>1, <2>2, <2>3 DEF Store, ApartInv
<1>6. ASSUME NEW q \in Requests, StoreException(q) PROVE ApartInv'
  BY <1>6, <1>c, <1>i, <1>s, NothingChecked DEF StoreException, ApartInv
<1>7. ASSUME NEW q \in Requests, NEW d \in Dates, NEW e \in Exceptions, Put(q, d, e) PROVE ApartInv'
  <2>1. PICK p : p = [pc |-> "put", date |-> d, exception |-> e]
    OBVIOUS
  <2>2. p.pc # "store" /\ request' = [request EXCEPT ![q] = p]
    BY <1>7, <2>1 DEF Put, Starts1
  <2>3. CheckedInv'
    BY <2>2, <1>c, NothingChecked
  <2> QED
    BY <1>7, <2>3, <1>s DEF Put, tables, ApartInv
<1>8. ASSUME NEW q \in Requests, NEW id \in RuleIds, DeleteSchedule(q, id) PROVE ApartInv'
  <2>1. CheckedInv'
    BY <1>8, <1>c, <1>i, NothingChecked DEF DeleteSchedule, Starts1
  <2>2. \A i \in RuleIds : rules'[i] \in {rules[i], NoRule}
    BY <1>8, <1>t DEF DeleteSchedule, RuleTable
  <2>3. blind' = blind
    BY <1>8 DEF DeleteSchedule
  <2> QED
    BY <2>1, <2>2, <2>3, <1>p, <1>t, FewerApart DEF ApartInv
<1>9. ASSUME NEW q \in Requests, NEW d \in Dates, DeleteException(q, d) PROVE ApartInv'
  BY <1>9, <1>c, <1>i, <1>s, NothingChecked DEF DeleteException, Starts1, ApartInv
<1>10. ASSUME NEW q \in Requests, NEW z \in Zones, SetZone(q, z) PROVE ApartInv'
  BY <1>10, <1>c, <1>i, <1>s, NothingChecked DEF SetZone, Starts1, ApartInv
<1>11. ASSUME NEW q \in Requests, NEW l \in Lists, DeletePlaylist(q, l) PROVE ApartInv'
  <2>1. CheckedInv'
    BY <1>11, <1>c, <1>i, NothingChecked DEF DeletePlaylist, Starts1
  <2>2. \A i \in RuleIds : rules'[i] \in {rules[i], NoRule}
    BY <1>11 DEF DeletePlaylist
  <2>3. blind' = blind
    BY <1>11 DEF DeletePlaylist
  <2> QED
    BY <2>1, <2>2, <2>3, <1>p, <1>t, FewerApart DEF ApartInv
<1> QED
  BY <1>1, <1>2, <1>3, <1>4, <1>5, <1>6, <1>7, <1>8, <1>9, <1>10, <1>11, Requested

\* Unless a rule is stored when another was saved since its check, or is checked in a week that skips
\* hours, no two enabled rules ever want the same hour of the week, through all saves, deletions and
\* changes of the zone.
THEOREM RulesStayApart == Spec => []RulesApart
<1>1. Init => ApartInv
  <2> SUFFICES ASSUME Init PROVE ApartInv
    OBVIOUS
  <2>1. \A i \in RuleIds : rules[i] # NoRule => i = 1
    BY DEF Init
  <2>2. RulesApart
    BY <2>1 DEF RulesApart
  <2>3. CheckedInv
    BY DEF Init, Idle, CheckedInv, Checked
  <2> QED
    BY <2>2, <2>3 DEF ApartInv
<1>2. ApartInv => RulesApart
  BY DEF ApartInv
<1> QED
  BY <1>1, <1>2, TypeInvInit, TypeInvStep, ApartStep, PTL DEF Spec

(***************************************************************************)
(* What plays.  A day begins once, at the midnight that dayAt finds: so it *)
(* is in every zone that does not change over a midnight, and where the    *)
(* change skips the hours from a midnight on.                              *)
(***************************************************************************)
DaysBeginOnce(z) == \A d, t \in Int : BeginsAt(z, d, t)

LEMMA FirstShowsIs ==
    ASSUME NEW z, ValidZone(z), NEW x \in Int, NEW t \in Int
    PROVE  /\ Wall(z, t) \in Int
           /\ t < FirstShows(z, x) => Wall(z, t) < x
           /\ x <= Wall(z, FirstShows(z, x))
           /\ FirstShows(z, x) <= t /\ Wall(z, t) < x => t - FirstShows(z, x) < DayLength
           /\ FirstShows(z, x) < FirstShows(z, x + DayLength)
<1>1. /\ z.before \in Int /\ z.after \in Int /\ z.change \in Int /\ DayLength \in Nat \ {0}
      /\ z.after - z.before < DayLength /\ z.before - z.after < DayLength
  BY ProbeAssumption, DayLengthAssumption DEF ValidZone
<1> QED
  BY <1>1 DEF FirstShows, Wall, Offset

\* Shown asks whether that instant is over.
LEMMA ShownIs ==
    ASSUME NEW z, ValidZone(z), NEW x \in Int, NEW t \in Int
    PROVE  Shown(z, x, t) <=> FirstShows(z, x) <= t
<1>1. FirstShows(z, x) \in Int /\ DayLength \in Nat \ {0}
  BY FirstShowsInt, DayLengthAssumption
<1>2. ASSUME Shown(z, x, t) PROVE FirstShows(z, x) <= t
  <2>1. PICK u \in (t - 2 * DayLength)..t : Wall(z, u) >= x
    BY <1>2 DEF Shown
  <2>2. u \in Int /\ u <= t /\ Wall(z, u) \in Int
    BY <1>1, <2>1, FirstShowsIs
  <2>3. ~(u < FirstShows(z, x))
    BY <2>1, <2>2, FirstShowsIs
  <2> QED
    BY <1>1, <2>2, <2>3
<1>3. ASSUME FirstShows(z, x) <= t PROVE Shown(z, x, t)
  <2>1. CASE Wall(z, t) >= x
    BY <1>1, <2>1 DEF Shown
  <2>2. CASE ~(Wall(z, t) >= x)
    <3>1. Wall(z, t) \in Int
      BY FirstShowsIs
    <3>2. t - FirstShows(z, x) < DayLength
      BY <1>3, <2>2, <3>1, FirstShowsIs
    <3>3. FirstShows(z, x) \in (t - 2 * DayLength)..t
      BY <1>1, <1>3, <3>2
    <3>4. Wall(z, FirstShows(z, x)) >= x
      <4>1. Wall(z, FirstShows(z, x)) \in Int /\ x <= Wall(z, FirstShows(z, x))
        BY <1>1, FirstShowsIs
      <4> QED
        BY <4>1
    <3> QED
      BY <3>3, <3>4 DEF Shown
  <2> QED
    BY <2>1, <2>2
<1> QED
  BY <1>2, <1>3

LEMMA DayOfIs ==
    ASSUME NEW z, ValidZone(z), NEW t \in Int
    PROVE  /\ DayOf(z, t) \in Int /\ DayOf(z, t) * DayLength \in Int
           /\ DayOf(z, t) * DayLength <= Wall(z, t)
           /\ Wall(z, t) < DayOf(z, t) * DayLength + DayLength
<1>1. Wall(z, t) \in Int /\ DayLength \in Nat \ {0}
  BY FirstShowsIs, DayLengthAssumption
<1>2. /\ DayOf(z, t) \in Int
      /\ Wall(z, t) % DayLength \in 0..(DayLength - 1)
      /\ Wall(z, t) = DayOf(z, t) * DayLength + (Wall(z, t) % DayLength)
  BY <1>1, Division DEF DayOf
<1>3. DayOf(z, t) * DayLength \in Int
  BY <1>2, DayProducts
<1> QED
  BY <1>1, <1>2, <1>3

\* The midnights and the days they begin.
LEMMA DaysBegin ==
    ASSUME NEW z, ValidZone(z), DaysBeginOnce(z), NEW d \in Int
    PROVE  /\ DayAt(z, d) = FirstShows(z, d * DayLength) /\ DayAt(z, d) \in Int
           /\ \A t \in Int : DayAt(z, d) <= t <=> d <= DayOf(z, t)
           /\ DayOf(z, DayAt(z, d)) = d
<1>1. d * DayLength \in Int /\ DayAt(z, d) \in Int /\ DayLength \in Nat \ {0}
  BY DayAtIs, DayLengthAssumption
<1>2. FirstShows(z, d * DayLength) \in Int
  BY <1>1, FirstShowsInt
<1>3. \A e, t \in Int : DayAt(z, e) <= t <=> e * DayLength <= Wall(z, t)
  BY DEF DaysBeginOnce, BeginsAt
<1>4. DayAt(z, d) = FirstShows(z, d * DayLength)
  <2>1. DayAt(z, d) <= FirstShows(z, d * DayLength)
    BY <1>1, <1>2, <1>3, FirstShowsIs
  <2>2. ~(DayAt(z, d) < FirstShows(z, d * DayLength))
    <3>1. d * DayLength <= Wall(z, DayAt(z, d))
      BY <1>1, <1>3
    <3>2. Wall(z, DayAt(z, d)) \in Int
      BY <1>1, FirstShowsIs
    <3>3. DayAt(z, d) < FirstShows(z, d * DayLength) => Wall(z, DayAt(z, d)) < d * DayLength
      BY <1>1, FirstShowsIs
    <3> QED
      BY <1>1, <3>1, <3>2, <3>3
  <2> QED
    BY <1>1, <1>2, <2>1, <2>2
<1>5. ASSUME NEW e \in Int, NEW t \in Int PROVE DayAt(z, e) <= t <=> e <= DayOf(z, t)
  <2>1. /\ DayOf(z, t) \in Int /\ DayOf(z, t) * DayLength \in Int /\ e * DayLength \in Int
        /\ DayOf(z, t) * DayLength <= Wall(z, t) /\ Wall(z, t) < DayOf(z, t) * DayLength + DayLength
        /\ Wall(z, t) \in Int
    BY DayOfIs, DayProducts, FirstShowsIs
  <2>2. /\ e < DayOf(z, t) => e * DayLength + DayLength <= DayOf(z, t) * DayLength
        /\ DayOf(z, t) < e => DayOf(z, t) * DayLength + DayLength <= e * DayLength
    BY <2>1, DayProducts
  <2>3. e <= DayOf(z, t) <=> e * DayLength <= Wall(z, t)
    BY <1>1, <2>1, <2>2
  <2> QED
    BY <1>3, <2>3
<1>6. DayOf(z, DayAt(z, d)) = d
  <2>1. DayOf(z, DayAt(z, d)) \in Int /\ d <= DayOf(z, DayAt(z, d))
    BY <1>1, <1>5, DayOfIs
  <2>2. (d + 1) * DayLength = d * DayLength + DayLength
    <3>1. (d + 1) * DayLength = d * DayLength + 1 * DayLength
      BY DayProducts
    <3> QED
      BY <1>1, <3>1
  <2>3. ~(d + 1 <= DayOf(z, DayAt(z, d)))
    <3>1. DayAt(z, d) < FirstShows(z, (d + 1) * DayLength)
      BY <1>1, <1>4, <2>2, FirstShowsIs
    <3>2. Wall(z, DayAt(z, d)) < (d + 1) * DayLength
      BY <1>1, <2>2, <3>1, FirstShowsIs
    <3>3. DayAt(z, d + 1) <= DayAt(z, d) => (d + 1) * DayLength <= Wall(z, DayAt(z, d))
      BY <1>1, <1>3
    <3>4. Wall(z, DayAt(z, d)) \in Int /\ (d + 1) * DayLength \in Int
      BY <1>1, <2>2, FirstShowsIs
    <3> QED
      BY <1>1, <1>5, <3>2, <3>3, <3>4
  <2> QED
    BY <2>1, <2>3
<1> QED
  BY <1>1, <1>4, <1>5, <1>6

\* Where the hours from-to of a day begin and end.
Begins(z, d, from) == FirstShows(z, d * DayLength + from)
Ends(z, d, from, to) == FirstShows(z, (IF to > from THEN d ELSE d + 1) * DayLength + to)

LEMMA HoursAre ==
    ASSUME NEW z, ValidZone(z), DaysBeginOnce(z), NEW d \in Int, NEW from \in TimesOfDay, NEW to \in TimesOfDay
    PROVE  /\ Begins(z, d, from) \in Int /\ Ends(z, d, from, to) \in Int
           /\ Windows(z, DayAt(z, d), from, to) =
                  IF Ends(z, d, from, to) > Begins(z, d, from)
                  THEN {[start |-> Begins(z, d, from), end |-> Ends(z, d, from, to)]} ELSE {}
           /\ \A t \in Int : Inside(z, d, from, to, t) <=> Begins(z, d, from) <= t /\ t < Ends(z, d, from, to)
           /\ \A t \in Int : Inside(z, d, from, to, t) => DayOf(z, t) \in {d, d + 1}
<1> DEFINE next == IF to > from THEN d ELSE d + 1
           m == DayAt(z, d)
<1>1. /\ DayLength \in Nat \ {0} /\ from \in Int /\ to \in Int /\ 0 <= from /\ to < DayLength
      /\ d * DayLength \in Int /\ next \in Int /\ next * DayLength \in Int
  BY DayLengthAssumption, DayProducts DEF TimesOfDay
<1>2. Begins(z, d, from) \in Int /\ Ends(z, d, from, to) \in Int
  <2>1. d * DayLength + from \in Int /\ next * DayLength + to \in Int
    BY <1>1
  <2> QED
    BY <2>1, FirstShowsInt DEF Begins, Ends
<1>3. DayOf(z, m) = d /\ NextDay(z, m) = DayAt(z, d + 1) /\ DayOf(z, DayAt(z, d + 1)) = d + 1
  BY DaysBegin DEF NextDay
<1>4. LocalTime(z, m, from) = Begins(z, d, from)
  BY <1>1, <1>3, LocalTimeIs DEF Begins
<1>5. LocalTime(z, IF to > from THEN m ELSE NextDay(z, m), to) = Ends(z, d, from, to)
  <2>1. CASE to > from
    BY <1>1, <1>3, <2>1, LocalTimeIs DEF Ends
  <2>2. CASE ~(to > from)
    <3> HIDE DEF next, m
    <3>1. LocalTime(z, DayAt(z, d + 1), to) = FirstShows(z, (d + 1) * DayLength + to)
      <4>1. PICK n : n = DayAt(z, d + 1)
        OBVIOUS
      <4>2. DayOf(z, n) = d + 1 /\ d + 1 \in Int
        BY <1>3, <4>1
      <4>3. LocalTime(z, n, to) = FirstShows(z, DayOf(z, n) * DayLength + to)
        BY <1>1, <4>2, LocalTimeIs
      <4> QED
        BY <4>1, <4>2, <4>3, Zenon
    <3> USE DEF next, m
    <3> QED
      BY <1>3, <2>2, <3>1 DEF Ends
  <2> QED
    BY <2>1, <2>2
<1>6. Windows(z, m, from, to) =
          IF Ends(z, d, from, to) > Begins(z, d, from)
          THEN {[start |-> Begins(z, d, from), end |-> Ends(z, d, from, to)]} ELSE {}
  <2> HIDE DEF m
  <2> QED
    BY <1>4, <1>5 DEF Windows
<1>7. ASSUME NEW t \in Int
      PROVE  Inside(z, d, from, to, t) <=> Begins(z, d, from) <= t /\ t < Ends(z, d, from, to)
  <2>1. d * DayLength + from \in Int /\ next * DayLength + to \in Int
    BY <1>1
  <2>2. Shown(z, d * DayLength + from, t) <=> Begins(z, d, from) <= t
    BY <2>1, ShownIs DEF Begins
  <2>3. Shown(z, next * DayLength + to, t) <=> Ends(z, d, from, to) <= t
    BY <2>1, ShownIs DEF Ends
  <2> QED
    BY <1>2, <2>2, <2>3 DEF Inside
<1>8. ASSUME NEW t \in Int, Inside(z, d, from, to, t) PROVE DayOf(z, t) \in {d, d + 1}
  <2>1. Begins(z, d, from) <= t /\ t < Ends(z, d, from, to) /\ DayOf(z, t) \in Int
    BY <1>7, <1>8, DayOfIs
  <2>2. d <= DayOf(z, t)
    <3>1. d * DayLength + from \in Int /\ d * DayLength <= d * DayLength + from
      BY <1>1
    <3>2. DayAt(z, d) <= Begins(z, d, from)
      BY <1>1, <3>1, DaysBegin, FirstShowsGrows DEF Begins
    <3>3. DayAt(z, d) <= t
      BY <1>2, <2>1, <3>2, DaysBegin
    <3> QED
      BY <3>3, DaysBegin
  <2>3. ~(d + 2 <= DayOf(z, t))
    <3>1. (d + 2) * DayLength \in Int /\ (d + 1) * DayLength + DayLength <= (d + 2) * DayLength
          /\ d * DayLength + DayLength <= (d + 1) * DayLength /\ (d + 1) * DayLength \in Int
      BY DayProducts
    <3>2. next * DayLength + to \in Int /\ next * DayLength + to <= (d + 2) * DayLength
      BY <1>1, <3>1
    <3>3. Ends(z, d, from, to) <= DayAt(z, d + 2)
      <4>1. DayAt(z, d + 2) = FirstShows(z, (d + 2) * DayLength)
        BY DaysBegin
      <4> QED
        BY <3>1, <3>2, <4>1, FirstShowsGrows DEF Ends
    <3>4. ~(DayAt(z, d + 2) <= t)
      <4>1. DayAt(z, d + 2) \in Int
        BY DaysBegin
      <4> QED
        BY <1>2, <2>1, <3>3, <4>1
    <3> QED
      BY <3>4, DaysBegin
  <2> QED
    BY <2>1, <2>2, <2>3
<1> QED
  BY <1>2, <1>6, <1>7, <1>8

IsInterval(iv) ==
    /\ iv.start \in Int /\ iv.end \in Int
    /\ iv = [start |-> iv.start, end |-> iv.end, rule |-> iv.rule, source |-> iv.source]

AllIntervals(ivs) == \A iv \in ivs : IsInterval(iv)

LEMMA SourceAt ==
    ASSUME NEW ivs, NEW t, NEW s
    PROVE  s \in Sources(ivs, t) <=> \E iv \in ivs : iv.start <= t /\ t < iv.end /\ iv.source = s
BY DEF Sources

\* The hours of a day as intervals.
HoursOf(z, d, from, to, id, source) == {Interval(w, id, source) : w \in Windows(z, DayAt(z, d), from, to)}

\* They hold an instant when it is inside.
LEMMA HoursPlay ==
    ASSUME NEW z, ValidZone(z), DaysBeginOnce(z), NEW d \in Int, NEW from \in TimesOfDay, NEW to \in TimesOfDay,
           NEW id, NEW source
    PROVE  /\ AllIntervals(HoursOf(z, d, from, to, id, source))
           /\ \A iv \in HoursOf(z, d, from, to, id, source) : iv.source = source
           /\ \A t \in Int :
                  (\E iv \in HoursOf(z, d, from, to, id, source) : iv.start <= t /\ t < iv.end)
                      <=> Inside(z, d, from, to, t)
<1> DEFINE ws == Windows(z, DayAt(z, d), from, to)
           ivs == {Interval(w, id, source) : w \in ws}
<1>1. PICK b \in Int : b = Begins(z, d, from)
  BY HoursAre
<1>2. PICK e \in Int : e = Ends(z, d, from, to)
  BY HoursAre
<1>3. ws = IF e > b THEN {[start |-> b, end |-> e]} ELSE {}
  BY <1>1, <1>2, HoursAre
<1>4. \A t \in Int : Inside(z, d, from, to, t) <=> b <= t /\ t < e
  BY <1>1, <1>2, HoursAre
<1> HIDE DEF ws
<1>5. \A iv \in ivs : iv = [start |-> b, end |-> e, rule |-> id, source |-> source]
  BY <1>3 DEF Interval
<1>6. e > b => [start |-> b, end |-> e, rule |-> id, source |-> source] \in ivs
  <2> SUFFICES ASSUME e > b PROVE [start |-> b, end |-> e, rule |-> id, source |-> source] \in ivs
    OBVIOUS
  <2>1. PICK w : w = [start |-> b, end |-> e]
    OBVIOUS
  <2>2. w \in ws /\ Interval(w, id, source) = [start |-> b, end |-> e, rule |-> id, source |-> source]
    BY <1>3, <2>1 DEF Interval
  <2> QED
    BY <2>2
<1> HIDE DEF ivs
<1>7. AllIntervals(ivs) /\ \A iv \in ivs : iv.source = source
  BY <1>5 DEF AllIntervals, IsInterval
<1>8. ASSUME NEW t \in Int PROVE (\E iv \in ivs : iv.start <= t /\ t < iv.end) <=> Inside(z, d, from, to, t)
  <2>1. ASSUME NEW iv \in ivs, iv.start <= t, t < iv.end PROVE Inside(z, d, from, to, t)
    BY <2>1, <1>4, <1>5
  <2>2. ASSUME Inside(z, d, from, to, t) PROVE \E iv \in ivs : iv.start <= t /\ t < iv.end
    <3>1. b <= t /\ t < e /\ e > b
      BY <2>2, <1>4
    <3> QED
      BY <3>1, <1>6
  <2> QED
    BY <2>1, <2>2
<1> QED
  BY <1>7, <1>8 DEF ivs, ws, HoursOf

Running(R, z, d, t) == {id \in DOMAIN R : RunsOn(R[id], d) /\ Inside(z, d, R[id].start, R[id].end, t)}

LEMMA RulesPlay ==
    ASSUME NEW z, ValidZone(z), DaysBeginOnce(z), NEW d \in Int, NEW R \in RuleTable
    PROVE  /\ AllIntervals(OfRules(R, z, DayAt(z, d)))
           /\ \A t \in Int : Sources(OfRules(R, z, DayAt(z, d)), t) = {R[id].source : id \in Running(R, z, d, t)}
<1> DEFINE m == DayAt(z, d)
           of(i) == HoursOf(z, d, R[i].start, R[i].end, i, R[i].source)
           on == {i \in DOMAIN R : RunsOn(R[i], d)}
<1>1. DayOf(z, m) = d
  BY DaysBegin
<1>2. OfRules(R, z, m) = UNION {of(i) : i \in on}
  BY <1>1 DEF OfRules, HoursOf
<1>3. ASSUME NEW i \in on
      PROVE  /\ AllIntervals(of(i)) /\ \A iv \in of(i) : iv.source = R[i].source
             /\ \A t \in Int : (\E iv \in of(i) : iv.start <= t /\ t < iv.end) <=> Inside(z, d, R[i].start, R[i].end, t)
  <2>1. R[i].start \in TimesOfDay /\ R[i].end \in TimesOfDay
    <3>1. R[i] # NoRule /\ R[i] \in Rules \cup {NoRule}
      BY DEF RunsOn, RuleTable
    <3> QED
      BY <3>1, RulesAssumption DEF ValidRule
  <2> HIDE DEF on
  <2> QED
    BY <2>1, HoursPlay
<1> HIDE DEF of, m
<1>4. \A iv : iv \in OfRules(R, z, m) <=> \E i \in on : iv \in of(i)
  BY <1>2
<1>5. AllIntervals(OfRules(R, z, m))
  BY <1>3, <1>4 DEF AllIntervals
<1>6. ASSUME NEW t \in Int PROVE Sources(OfRules(R, z, m), t) = {R[id].source : id \in Running(R, z, d, t)}
  <2>1. ASSUME NEW s
        PROVE  s \in Sources(OfRules(R, z, m), t) <=> \E id \in Running(R, z, d, t) : R[id].source = s
    <3>1. ASSUME NEW iv \in OfRules(R, z, m), iv.start <= t, t < iv.end, iv.source = s
          PROVE  \E id \in Running(R, z, d, t) : R[id].source = s
      <4>1. PICK i \in on : iv \in of(i)
        BY <1>4
      <4>2. Inside(z, d, R[i].start, R[i].end, t) /\ R[i].source = s
        BY <1>3, <3>1, <4>1
      <4>3. i \in Running(R, z, d, t)
        BY <4>2 DEF Running
      <4> QED
        BY <4>2, <4>3
    <3>2. ASSUME NEW id \in Running(R, z, d, t), R[id].source = s
          PROVE  \E iv \in OfRules(R, z, m) : iv.start <= t /\ t < iv.end /\ iv.source = s
      <4>1. id \in on /\ Inside(z, d, R[id].start, R[id].end, t)
        BY DEF Running
      <4>2. PICK iv \in of(id) : iv.start <= t /\ t < iv.end
        BY <1>3, <4>1
      <4> QED
        BY <1>3, <1>4, <3>2, <4>1, <4>2
    <3> QED
      BY <3>1, <3>2, SourceAt
  <2>2. \A s : s \in Sources(OfRules(R, z, m), t) <=> s \in {R[id].source : id \in Running(R, z, d, t)}
    BY <2>1
  <2> QED
    BY <2>2 DEF Sources
<1> QED
  BY <1>5, <1>6 DEF m

LEMMA OtherSource ==
    ASSUME NEW iv, IsInterval(iv), NEW s
    PROVE  LET other == [iv EXCEPT !.source = s]
           IN  IsInterval(other) /\ other.start = iv.start /\ other.end = iv.end /\ other.source = s
<1>p. PICK a \in Int : a = iv.start
  BY DEF IsInterval
<1>q. PICK b \in Int : b = iv.end
  BY DEF IsInterval
<1>r. PICK r : r = iv.rule
  OBVIOUS
<1>s. PICK o : o = iv.source
  OBVIOUS
<1>1. iv = [start |-> a, end |-> b, rule |-> r, source |-> o]
  BY <1>p, <1>q, <1>r, <1>s DEF IsInterval
<1>2. [iv EXCEPT !.source = s] = [start |-> a, end |-> b, rule |-> r, source |-> s]
  BY <1>1
<1>3. iv.start = a /\ iv.end = b
  BY <1>1
<1> QED
  BY <1>2, <1>3 DEF IsInterval

LEMMA OtherEnd ==
    ASSUME NEW iv, IsInterval(iv), NEW e \in Int
    PROVE  LET other == [iv EXCEPT !.end = e]
           IN  IsInterval(other) /\ other.start = iv.start /\ other.end = e /\ other.source = iv.source
<1>p. PICK a \in Int : a = iv.start
  BY DEF IsInterval
<1>q. PICK b \in Int : b = iv.end
  BY DEF IsInterval
<1>r. PICK r : r = iv.rule
  OBVIOUS
<1>s. PICK o : o = iv.source
  OBVIOUS
<1>1. iv = [start |-> a, end |-> b, rule |-> r, source |-> o]
  BY <1>p, <1>q, <1>r, <1>s DEF IsInterval
<1>2. [iv EXCEPT !.end = e] = [start |-> a, end |-> e, rule |-> r, source |-> o]
  BY <1>1
<1>3. iv.start = a /\ iv.source = o
  BY <1>1
<1> QED
  BY <1>2, <1>3 DEF IsInterval

\* What a day plays before the exception of the next day cuts it.
Unclipped(R, X, z, d) ==
    IF Exception(X, d) = NoException THEN OfRules(R, z, DayAt(z, d))
    ELSE ApplyException(Exception(X, d), OfRules(R, z, DayAt(z, d)), z, DayAt(z, d))

LEMMA DayPlays ==
    ASSUME NEW z, ValidZone(z), DaysBeginOnce(z), NEW d \in Int, NEW R \in RuleTable,
           NEW X, \A c \in DOMAIN X : X[c] \in Exceptions, NEW t \in Int
    PROVE  /\ AllIntervals(Unclipped(R, X, z, d))
           /\ Sources(Unclipped(R, X, z, d), t) = DueOn(R, X, z, d, t)
<1> DEFINE m == DayAt(z, d)
           ofRules == OfRules(R, z, m)
           running == Running(R, z, d, t)
<1>1. PICK e : e = Exception(X, d)
  OBVIOUS
<1>2. AllIntervals(ofRules) /\ Sources(ofRules, t) = {R[id].source : id \in running}
  BY RulesPlay
<1>3. DueOn(R, X, z, d, t) =
          IF e = NoException THEN {R[id].source : id \in running}
          ELSE IF e.kind = "source" /\ running # {} THEN {e.source}
          ELSE IF e.kind = "hours" /\ Inside(z, d, e.start, e.end, t) THEN {e.source}
          ELSE {}
  BY <1>1 DEF DueOn, Running
<1>4. Unclipped(R, X, z, d) = IF e = NoException THEN ofRules ELSE ApplyException(e, ofRules, z, m)
  BY <1>1 DEF Unclipped
<1>5. e # NoException => e \in Exceptions /\ ValidException(e)
  BY <1>1, ExceptionsAssumption DEF Exception
<1> HIDE DEF ofRules, running, m
<1>6. CASE e = NoException
  BY <1>2, <1>3, <1>4, <1>6
<1>7. CASE e # NoException /\ e.kind = "silent"
  <2>1. Unclipped(R, X, z, d) = {}
    BY <1>4, <1>7 DEF ApplyException
  <2>2. DueOn(R, X, z, d, t) = {}
    BY <1>3, <1>7
  <2> QED
    BY <2>1, <2>2 DEF AllIntervals, Sources
<1>8. CASE e # NoException /\ e.kind = "hours"
  <2>1. e.start \in TimesOfDay /\ e.end \in TimesOfDay
    BY <1>5, <1>8 DEF ValidException
  <2>2. Unclipped(R, X, z, d) = HoursOf(z, d, e.start, e.end, 0, e.source)
    BY <1>4, <1>8 DEF ApplyException, HoursOf, m
  <2>3. PICK ivs : ivs = HoursOf(z, d, e.start, e.end, 0, e.source)
    OBVIOUS
  <2>4. /\ AllIntervals(ivs) /\ \A iv \in ivs : iv.source = e.source
        /\ (\E iv \in ivs : iv.start <= t /\ t < iv.end) <=> Inside(z, d, e.start, e.end, t)
    BY <2>1, <2>3, HoursPlay
  <2>5. DueOn(R, X, z, d, t) = IF Inside(z, d, e.start, e.end, t) THEN {e.source} ELSE {}
    BY <1>3, <1>8
  <2>6. \A s : s \in Sources(ivs, t) <=> Inside(z, d, e.start, e.end, t) /\ s = e.source
    BY <2>4, SourceAt
  <2>7. Sources(ivs, t) = IF Inside(z, d, e.start, e.end, t) THEN {e.source} ELSE {}
    BY <2>6 DEF Sources
  <2> QED
    BY <2>2, <2>3, <2>4, <2>5, <2>7
<1>9. CASE e # NoException /\ e.kind = "source"
  <2> DEFINE others == {[iv EXCEPT !.source = e.source] : iv \in ofRules}
  <2>1. Unclipped(R, X, z, d) = others
    BY <1>4, <1>9 DEF ApplyException
  <2>2. DueOn(R, X, z, d, t) = IF running # {} THEN {e.source} ELSE {}
    BY <1>3, <1>9
  <2>3. \A iv \in ofRules : IsInterval(iv)
    BY <1>2 DEF AllIntervals
  <2>4. AllIntervals(others)
    BY <2>3, OtherSource DEF AllIntervals
  <2>5. ASSUME NEW other \in others, other.start <= t, t < other.end
        PROVE  running # {} /\ other.source = e.source
    <3>1. PICK iv \in ofRules : other = [iv EXCEPT !.source = e.source]
      OBVIOUS
    <3>2. iv.start <= t /\ t < iv.end /\ other.source = e.source
      BY <2>3, <2>5, <3>1, OtherSource
    <3>3. iv.source \in Sources(ofRules, t)
      BY <3>2, SourceAt
    <3> QED
      BY <3>2, <3>3, <1>2
  <2>6. ASSUME running # {} PROVE \E other \in others : other.start <= t /\ t < other.end
    <3>1. PICK s : s \in Sources(ofRules, t)
      BY <2>6, <1>2
    <3>2. PICK iv \in ofRules : iv.start <= t /\ t < iv.end
      BY <3>1, SourceAt
    <3>3. PICK other : other = [iv EXCEPT !.source = e.source]
      OBVIOUS
    <3>4. other \in others /\ other.start = iv.start /\ other.end = iv.end
      BY <2>3, <3>3, OtherSource
    <3> QED
      BY <3>2, <3>4
  <2> HIDE DEF others
  <2>7. \A s : s \in Sources(others, t) <=> running # {} /\ s = e.source
    BY <2>5, <2>6, SourceAt
  <2>8. Sources(others, t) = IF running # {} THEN {e.source} ELSE {}
    BY <2>7 DEF Sources
  <2> QED
    BY <2>1, <2>2, <2>4, <2>8
<1> QED
  BY <1>5, <1>6, <1>7, <1>8, <1>9 DEF ValidException

\* What a day plays, it plays on that day and on the next.
LEMMA DueTwoDays ==
    ASSUME NEW z, ValidZone(z), DaysBeginOnce(z), NEW d \in Int, NEW R \in RuleTable,
           NEW X, \A c \in DOMAIN X : X[c] \in Exceptions, NEW t \in Int, DueOn(R, X, z, d, t) # {}
    PROVE  DayOf(z, t) \in {d, d + 1}
<1>1. PICK e : e = Exception(X, d)
  OBVIOUS
<1>2. DueOn(R, X, z, d, t) =
          IF e = NoException THEN {R[id].source : id \in Running(R, z, d, t)}
          ELSE IF e.kind = "source" /\ Running(R, z, d, t) # {} THEN {e.source}
          ELSE IF e.kind = "hours" /\ Inside(z, d, e.start, e.end, t) THEN {e.source}
          ELSE {}
  BY <1>1 DEF DueOn, Running
<1>3. \/ Running(R, z, d, t) # {}
      \/ e # NoException /\ e.kind = "hours" /\ Inside(z, d, e.start, e.end, t)
  BY <1>2
<1>4. CASE Running(R, z, d, t) # {}
  <2>1. PICK id \in DOMAIN R : RunsOn(R[id], d) /\ Inside(z, d, R[id].start, R[id].end, t)
    BY <1>4 DEF Running
  <2>2. R[id].start \in TimesOfDay /\ R[id].end \in TimesOfDay
    <3>1. R[id] # NoRule /\ R[id] \in Rules \cup {NoRule}
      BY <2>1 DEF RunsOn, RuleTable
    <3> QED
      BY <3>1, RulesAssumption DEF ValidRule
  <2> QED
    BY <2>1, <2>2, HoursAre
<1>5. CASE e # NoException /\ e.kind = "hours" /\ Inside(z, d, e.start, e.end, t)
  <2>1. ValidException(e)
    BY <1>1, <1>5, ExceptionsAssumption DEF Exception
  <2>2. e.start \in TimesOfDay /\ e.end \in TimesOfDay
    BY <2>1, <1>5 DEF ValidException
  <2> QED
    BY <2>2, <1>5, HoursAre
<1> QED
  BY <1>3, <1>4, <1>5

\* With the cut of the next day's exception.
LEMMA OnDayPlays ==
    ASSUME NEW z, ValidZone(z), DaysBeginOnce(z), NEW d \in Int, NEW R \in RuleTable,
           NEW X, \A c \in DOMAIN X : X[c] \in Exceptions, NEW t \in Int
    PROVE  /\ AllIntervals(OnDay(R, X, z, DayAt(z, d)))
           /\ Sources(OnDay(R, X, z, DayAt(z, d)), t) =
                  IF DayOf(z, t) = d \/ (DayOf(z, t) = d + 1 /\ Exception(X, d + 1) = NoException)
                  THEN DueOn(R, X, z, d, t) ELSE {}
<1> DEFINE m == DayAt(z, d)
<1>1. PICK base : base = Unclipped(R, X, z, d)
  OBVIOUS
<1>2. PICK next \in Int : next = DayAt(z, d + 1)
  BY DaysBegin
<1>3. DayOf(z, m) = d /\ NextDay(z, m) = next /\ DayOf(z, next) = d + 1
  <2>1. DayOf(z, m) = d /\ DayOf(z, DayAt(z, d + 1)) = d + 1
    BY DaysBegin
  <2> QED
    BY <2>1, <1>2 DEF NextDay
<1> DEFINE cut == {[iv EXCEPT !.end = IF iv.end > next THEN next ELSE iv.end] : iv \in base}
<1>4. OnDay(R, X, z, m) = IF Exception(X, d + 1) = NoException THEN base ELSE cut
  <2>1. OnDay(R, X, z, m) = Clip(base, X, z, m)
    BY <1>1, <1>3 DEF OnDay, Unclipped
  <2> HIDE DEF m
  <2> QED
    BY <2>1, <1>3 DEF Clip
<1>5. AllIntervals(base) /\ Sources(base, t) = DueOn(R, X, z, d, t)
  BY <1>1, DayPlays
<1>6. DueOn(R, X, z, d, t) # {} => DayOf(z, t) \in {d, d + 1}
  BY DueTwoDays
<1>7. DayOf(z, t) \in Int /\ (next <= t <=> d + 1 <= DayOf(z, t))
  BY <1>2, DayOfIs, DaysBegin
<1> HIDE DEF m
<1>8. CASE Exception(X, d + 1) = NoException
  <2>1. OnDay(R, X, z, m) = base
    BY <1>4, <1>8
  <2> QED
    BY <2>1, <1>5, <1>6, <1>8 DEF m
<1>9. CASE Exception(X, d + 1) # NoException
  <2>1. \A iv \in base : IsInterval(iv) /\ iv.start \in Int /\ iv.end \in Int
    BY <1>5 DEF AllIntervals, IsInterval
  <2>2. ASSUME NEW other \in cut
        PROVE  \E iv \in base : /\ IsInterval(other) /\ other.start = iv.start /\ other.source = iv.source
                                /\ other.end = IF iv.end > next THEN next ELSE iv.end
    <3>1. PICK iv \in base : other = [iv EXCEPT !.end = IF iv.end > next THEN next ELSE iv.end]
      OBVIOUS
    <3> QED
      BY <2>1, <3>1, OtherEnd
  <2>3. ASSUME NEW iv \in base
        PROVE  \E other \in cut : /\ other.start = iv.start /\ other.source = iv.source
                                  /\ other.end = IF iv.end > next THEN next ELSE iv.end
    <3>1. PICK other : other = [iv EXCEPT !.end = IF iv.end > next THEN next ELSE iv.end]
      OBVIOUS
    <3>2. other \in cut
      BY <3>1
    <3>3. /\ other.start = iv.start /\ other.source = iv.source
          /\ other.end = IF iv.end > next THEN next ELSE iv.end
      <4> HIDE DEF cut
      <4> QED
        BY <2>1, <3>1, OtherEnd
    <3> HIDE DEF cut
    <3> QED
      BY <3>2, <3>3, Zenon
  <2> HIDE DEF cut
  <2>4. AllIntervals(cut)
    BY <2>2 DEF AllIntervals
  <2>5. ASSUME NEW s
        PROVE  s \in Sources(cut, t) <=> s \in Sources(base, t) /\ t < next
    <3>1. ASSUME NEW other \in cut, other.start <= t, t < other.end, other.source = s
          PROVE  (\E iv \in base : iv.start <= t /\ t < iv.end /\ iv.source = s) /\ t < next
      BY <2>1, <2>2, <3>1
    <3>2. ASSUME NEW iv \in base, iv.start <= t, t < iv.end, iv.source = s, t < next
          PROVE  \E other \in cut : other.start <= t /\ t < other.end /\ other.source = s
      BY <2>1, <2>3, <3>2
    <3> QED
      BY <3>1, <3>2, SourceAt
  <2>6. t < next <=> ~(d + 1 <= DayOf(z, t))
    BY <1>7
  <2>7. Sources(cut, t) = IF t < next THEN DueOn(R, X, z, d, t) ELSE {}
    <3>1. \A s : s \in Sources(cut, t) <=> s \in Sources(base, t) /\ t < next
      BY <2>5
    <3>2. Sources(cut, t) = IF t < next THEN Sources(base, t) ELSE {}
      BY <3>1 DEF Sources
    <3> QED
      BY <3>2, <1>5
  <2>8. Sources(cut, t) = IF DayOf(z, t) = d THEN DueOn(R, X, z, d, t) ELSE {}
    <3>1. CASE DayOf(z, t) = d
      BY <2>6, <2>7, <3>1
    <3>2. CASE DayOf(z, t) # d
      <4>1. DueOn(R, X, z, d, t) = {} \/ ~(t < next)
        BY <1>6, <1>7, <2>6, <3>2
      <4> QED
        BY <2>7, <3>2, <4>1
    <3> QED
      BY <3>1, <3>2
  <2> QED
    BY <1>4, <1>9, <2>4, <2>8 DEF m
<1> QED
  BY <1>8, <1>9

\* What Expand plays at an instant of its range: what is due.
THEOREM ExpandIsDue ==
    ASSUME NEW z, ValidZone(z), DaysBeginOnce(z), NEW R \in RuleTable,
           NEW X, \A c \in DOMAIN X : X[c] \in Exceptions,
           NEW from \in Int, NEW to \in Int, NEW t \in Int, from <= t, t < to
    PROVE  /\ Sources(Expand(R, X, z, from, to), t) = Due(R, X, z, t)
           /\ AllIntervals(Expand(R, X, z, from, to))
<1> DEFINE today == DayOf(z, t)
           of(d) == OnDay(R, X, z, DayAt(z, d))
           days == (DayOf(z, from) - 1)..(DayOf(z, to) + 1)
           ivs == Expand(R, X, z, from, to)
<1>1. today \in Int /\ DayOf(z, from) \in Int /\ DayOf(z, to) \in Int
  BY DayOfIs
<1>2. today \in days /\ today - 1 \in days
  <2>1. DayAt(z, DayOf(z, from)) <= from /\ DayAt(z, DayOf(z, from)) \in Int
    BY <1>1, DaysBegin
  <2>2. DayAt(z, DayOf(z, from)) <= t
    BY <2>1
  <2>3. DayOf(z, from) <= today
    BY <1>1, <2>2, DaysBegin
  <2>4. DayAt(z, today) <= t /\ DayAt(z, today) \in Int
    BY <1>1, DaysBegin
  <2>5. DayAt(z, today) <= to
    BY <2>4
  <2>6. today <= DayOf(z, to)
    BY <1>1, <2>5, DaysBegin
  <2> QED
    BY <1>1, <2>3, <2>6
<1>3. \A d \in days : d \in Int
  BY <1>1
<1>4. \A d \in days : AllIntervals(of(d)) /\
          Sources(of(d), t) = IF today = d \/ (today = d + 1 /\ Exception(X, d + 1) = NoException)
                              THEN DueOn(R, X, z, d, t) ELSE {}
  BY <1>3, OnDayPlays
<1> HIDE DEF of, days
<1>5. \A iv : iv \in ivs <=> (\E d \in days : iv \in of(d)) /\ iv.end > from /\ iv.start < to /\ iv.end > iv.start
  <2>1. ivs = {iv \in UNION {OnDay(R, X, z, n) : n \in {DayAt(z, d) : d \in days}} :
                 iv.end > from /\ iv.start < to /\ iv.end > iv.start}
    BY DEF Expand, Days, days
  <2>2. UNION {OnDay(R, X, z, n) : n \in {DayAt(z, d) : d \in days}} = UNION {of(d) : d \in days}
    BY DEF of
  <2> HIDE DEF ivs
  <2> QED
    BY <2>1, <2>2
<1> HIDE DEF ivs
<1>6. AllIntervals(ivs)
  BY <1>4, <1>5 DEF AllIntervals
<1>7. \A s : s \in Sources(ivs, t) <=> \E d \in days : s \in Sources(of(d), t)
  <2>1. ASSUME NEW iv \in ivs, iv.start <= t, t < iv.end PROVE \E d \in days : iv \in of(d)
    BY <1>5
  <2>2. ASSUME NEW d \in days, NEW iv \in of(d), iv.start <= t, t < iv.end PROVE iv \in ivs
    <3>1. iv.start \in Int /\ iv.end \in Int
      BY <1>4 DEF AllIntervals, IsInterval
    <3>2. iv.end > from /\ iv.start < to /\ iv.end > iv.start
      BY <2>2, <3>1
    <3> QED
      BY <3>2, <1>5
  <2> QED
    BY <2>1, <2>2, SourceAt
<1>8. \A s : s \in Sources(ivs, t) <=>
          \/ s \in DueOn(R, X, z, today, t)
          \/ Exception(X, today) = NoException /\ s \in DueOn(R, X, z, today - 1, t)
  <2>1. Sources(of(today), t) = DueOn(R, X, z, today, t)
    BY <1>2, <1>4
  <2>2. Sources(of(today - 1), t) = IF Exception(X, today) = NoException THEN DueOn(R, X, z, today - 1, t) ELSE {}
    <3>1. today - 1 + 1 = today /\ today # today - 1
      BY <1>1
    <3> QED
      BY <3>1, <1>2, <1>4
  <2>3. ASSUME NEW d \in days, d # today, d # today - 1 PROVE Sources(of(d), t) = {}
    <3>1. today # d /\ today # d + 1
      BY <1>1, <1>3, <2>3
    <3> QED
      BY <3>1, <1>4
  <2> HIDE DEF today
  <2> QED
    BY <2>1, <2>2, <2>3, <1>2, <1>7
<1>9. Due(R, X, z, t) = DueOn(R, X, z, today, t)
                        \cup IF Exception(X, today) # NoException THEN {} ELSE DueOn(R, X, z, today - 1, t)
  BY DEF Due
<1>10. \A s : s \in Sources(ivs, t) <=> s \in Due(R, X, z, t)
  <2> HIDE DEF today
  <2> QED
    BY <1>8, <1>9
<1>11. Sources(ivs, t) = Due(R, X, z, t)
  BY <1>10 DEF Sources, Due
<1> QED
  BY <1>6, <1>11 DEF ivs

(***************************************************************************)
(* The next boundary.                                                      *)
(***************************************************************************)

\* Integers that are all after one of them have a least.
LEMMA LeastLater ==
    ASSUME NEW S \in SUBSET Int, NEW n \in Int, \A x \in S : n < x, S # {}
    PROVE  Min(S) \in S /\ \A y \in S : Min(S) <= y
<1> DEFINE R == StrictSubsetOrdering(Int)
           B == {n..x : x \in S}
<1>1. B \subseteq FiniteSubsetsOf(Int) /\ B # {}
  <2>1. \A x \in S : n..x \in FiniteSubsetsOf(Int)
    BY FS_Interval DEF FiniteSubsetsOf
  <2> QED
    BY <2>1
<1>2. IsWellFoundedOn(R, FiniteSubsetsOf(Int))
  BY FS_StrictSubsetOrderingWellFounded
<1> HIDE DEF R, B
<1>3. PICK b \in B : \A c \in B : ~(<<c, b>> \in R)
  BY <1>1, <1>2, WFMin
<1>4. PICK x \in S : b = n..x
  BY <1>3 DEF B
<1>5. ASSUME NEW y \in S, ~(x <= y) PROVE FALSE
  <2>1. n..y \in B
    BY DEF B
  <2>2. n..y \subseteq n..x /\ x \in n..x /\ x \notin n..y /\ n..x \subseteq Int
    BY <1>5
  <2>3. <<n..y, n..x>> \in R
    BY <2>2 DEF R, StrictSubsetOrdering
  <2> QED
    BY <1>3, <1>4, <2>1, <2>3
<1>6. x \in S /\ \A y \in S : x <= y
  BY <1>5
<1> QED
  BY <1>6, MinIs

\* No interval starts or ends between an instant and the boundary that follows it.
LEMMA BoundaryIs ==
    ASSUME NEW ivs, AllIntervals(ivs), NEW t \in Int
    PROVE  /\ NextBoundary(ivs, t) \in Int
           /\ \A iv \in ivs : /\ t < iv.start => NextBoundary(ivs, t) <= iv.start
                              /\ t < iv.end => NextBoundary(ivs, t) <= iv.end
<1> DEFINE S == {b \in {iv.start : iv \in ivs} \cup {iv.end : iv \in ivs} : b > t} \cup {t + DayLength}
<1>1. DayLength \in Nat \ {0}
  BY DayLengthAssumption
<1>2. \A iv \in ivs : iv.start \in Int /\ iv.end \in Int
  BY DEF AllIntervals, IsInterval
<1>3. S \in SUBSET Int /\ t + DayLength \in S /\ \A b \in S : t < b
  BY <1>1, <1>2
<1>4. \A iv \in ivs : (t < iv.start => iv.start \in S) /\ (t < iv.end => iv.end \in S)
  BY <1>2
<1>5. NextBoundary(ivs, t) = Min(S)
  BY DEF NextBoundary
<1> HIDE DEF S
<1>6. Min(S) \in S /\ \A b \in S : Min(S) <= b
  BY <1>3, LeastLater
<1> QED
  BY <1>3, <1>4, <1>5, <1>6

LEMMA SameUntilBoundary ==
    ASSUME NEW ivs, AllIntervals(ivs), NEW n \in Int, NEW t \in Int, n <= t, t < NextBoundary(ivs, n)
    PROVE  /\ Sources(ivs, t) = Sources(ivs, n)
           /\ Sources(Current(ivs, t), t) = Sources(Current(ivs, n), n)
<1>1. \A iv \in ivs : (iv.start <= t /\ t < iv.end) <=> (iv.start <= n /\ n < iv.end)
  <2> SUFFICES ASSUME NEW iv \in ivs PROVE (iv.start <= t /\ t < iv.end) <=> (iv.start <= n /\ n < iv.end)
    OBVIOUS
  <2>1. iv.start \in Int /\ iv.end \in Int
    BY DEF AllIntervals, IsInterval
  <2>2. NextBoundary(ivs, n) \in Int
    BY BoundaryIs
  <2>3. (n < iv.start => NextBoundary(ivs, n) <= iv.start) /\ (n < iv.end => NextBoundary(ivs, n) <= iv.end)
    BY BoundaryIs
  <2> QED
    BY <2>1, <2>2, <2>3
<1>2. {iv \in ivs : iv.start <= t /\ t < iv.end} = {iv \in ivs : iv.start <= n /\ n < iv.end}
  BY <1>1
<1>3. Sources(ivs, t) = Sources(ivs, n)
  BY <1>2 DEF Sources
<1>4. Current(ivs, t) = Current(ivs, n)
  BY <1>2 DEF Current
<1>5. Current(ivs, n) \subseteq ivs
  BY DEF Current
<1>6. \A c \in SUBSET ivs : Sources(c, t) = Sources(c, n)
  <2> SUFFICES ASSUME NEW c \in SUBSET ivs PROVE Sources(c, t) = Sources(c, n)
    OBVIOUS
  <2>1. {iv \in c : iv.start <= t /\ t < iv.end} = {iv \in c : iv.start <= n /\ n < iv.end}
    BY <1>1
  <2> QED
    BY <2>1 DEF Sources
<1> QED
  BY <1>3, <1>4, <1>5, <1>6

(***************************************************************************)
(* The hypothesis: a zone whose change neither skips nor repeats a         *)
(* midnight begins every day once.                                         *)
(***************************************************************************)
KeepsMidnights(z) == \A d \in Int :
    /\ ~(z.change + z.before <= d * DayLength /\ d * DayLength < z.change + z.after)
    /\ ~(z.change + z.after <= d * DayLength /\ d * DayLength < z.change + z.before)

LEMMA MidnightsKept ==
    ASSUME NEW z, ValidZone(z), KeepsMidnights(z)
    PROVE  DaysBeginOnce(z)
<1> SUFFICES ASSUME NEW d \in Int, NEW t \in Int PROVE BeginsAt(z, d, t)
  BY DEF DaysBeginOnce
<1>1. PICK x \in Int : x = d * DayLength
  BY DayProducts
<1>2. z.before \in Int /\ z.after \in Int /\ z.change \in Int
  BY ProbeAssumption DEF ValidZone
<1>3. /\ ~(z.change + z.before <= x /\ x < z.change + z.after)
      /\ ~(z.change + z.after <= x /\ x < z.change + z.before)
  BY <1>1 DEF KeepsMidnights
<1>4. Date(z, x) <= t <=> x <= Wall(z, t)
  BY <1>2, <1>3 DEF Date, Wall, Offset
<1> QED
  BY <1>1, <1>4 DEF BeginsAt, DayAt

LEMMA PlaysHere ==
    ASSUME TypeInv, \A z \in Zones : DaysBeginOnce(z)
    PROVE  PlaysAsMeant
<1>1. /\ now \in Int /\ rules \in RuleTable /\ \A d \in DOMAIN exceptions : exceptions[d] \in Exceptions
      /\ ValidZone(zone) /\ DaysBeginOnce(zone) /\ DayLength \in Nat \ {0}
  BY ZonesAssumption, DayLengthAssumption DEF TypeInv
<1>2. PICK to \in Int : to = now + DayLength + 3
  BY <1>1
<1>3. Ivs = Expand(rules, exceptions, zone, now, to)
  BY <1>2 DEF Ivs
<1>4. ASSUME NEW t \in Int, now <= t, t < to
      PROVE  Sources(Ivs, t) = Due(rules, exceptions, zone, t) /\ AllIntervals(Ivs)
  BY <1>1, <1>3, <1>4, ExpandIsDue
<1>5. \A t \in Ahead : t \in Int /\ now <= t /\ t < to
  BY <1>1, <1>2 DEF Ahead
<1>6. ExpandAgrees
  BY <1>4, <1>5 DEF ExpandAgrees
<1>7. now < to
  BY <1>1, <1>2
<1>8. AllIntervals(Ivs) /\ Sources(Ivs, now) = Due(rules, exceptions, zone, now)
  BY <1>1, <1>4, <1>7
<1>9. NextBoundary(Ivs, now) \in Int
  BY <1>1, <1>8, BoundaryIs
<1>10. PICK last \in Int : last = Min({NextBoundary(Ivs, now), now + DayLength + 2})
                           /\ last <= NextBoundary(Ivs, now) /\ last <= now + DayLength + 2
  <2>1. PICK a \in Int : a = NextBoundary(Ivs, now)
    BY <1>9
  <2>2. PICK b \in Int : b = now + DayLength + 2
    BY <1>1
  <2>3. a <= b => Min({a, b}) = a
    <3>1. {a, b} \in SUBSET Int
      OBVIOUS
    <3> QED
      BY <3>1, MinIs
  <2>4. ~(a <= b) => Min({a, b}) = b
    <3>1. {a, b} \in SUBSET Int
      OBVIOUS
    <3>2. ~(a <= b) => \A y \in {a, b} : b <= y
      OBVIOUS
    <3> QED
      BY <3>1, <3>2, MinIs
  <2> QED
    BY <2>1, <2>2, <2>3, <2>4
<1>11. ASSUME NEW t \in now..(last - 1)
       PROVE  /\ Sources(Current(Ivs, t), t) = Sources(Current(Ivs, now), now)
              /\ Due(rules, exceptions, zone, t) = Due(rules, exceptions, zone, now)
  <2>1. t \in Int /\ now <= t /\ t < NextBoundary(Ivs, now) /\ t < to
    BY <1>1, <1>2, <1>9, <1>10
  <2>2. /\ Sources(Ivs, t) = Sources(Ivs, now)
        /\ Sources(Current(Ivs, t), t) = Sources(Current(Ivs, now), now)
    BY <1>1, <1>8, <2>1, SameUntilBoundary
  <2> QED
    BY <1>4, <1>8, <2>1, <2>2
<1>12. BoundaryIsNext
  BY <1>10, <1>11 DEF BoundaryIsNext
<1> QED
  BY <1>6, <1>12 DEF PlaysAsMeant

\* Where every day begins once, the intervals the scheduler follows play at every instant what the
\* rules and the exceptions mean, and nothing changes in them before the next boundary.
THEOREM SchedulePlaysAsMeant ==
    ASSUME \A z \in Zones : DaysBeginOnce(z)
    PROVE  Spec => []PlaysAsMeant
<1>1. TypeInv => PlaysAsMeant
  BY PlaysHere
<1> QED
  BY <1>1, TypeInvInit, TypeInvStep, PTL DEF Spec

(***************************************************************************)
(* The cache of the expanded schedule.                                     *)
(*                                                                         *)
(* The age of a window is an argument about three times.  A reader reads   *)
(* after the time of its snapshot, so every input it has read is at least  *)
(* as new as the tables were at any earlier tick of the clock (ReadAfter); *)
(* a window is stored with the time of the snapshot and not of the store,  *)
(* so the cache inherits that (CacheAfter); and a cached window is used    *)
(* less than an hour after that time, so what a reader is answered is at   *)
(* least as new as the tables were an hour before (AnswerAfter).           *)
(***************************************************************************)

(***************************************************************************)
(* Types.                                                                  *)
(***************************************************************************)

\* A window that was read completely is one: the versions of all inputs, in their order.
LEMMA FullReadIsWindow ==
    ASSUME NEW s \in Seq(Versions), Len(s) = Len(Inputs)
    PROVE  s \in CachedWindows /\ s # NoIntervals
<1>1. s \in [1..Len(s) -> Versions]
  OBVIOUS
<1>2. s \in CachedWindows
  BY <1>1 DEF CachedWindows, Tables
<1> QED
  BY <1>2, NoIntervalsIsNoWindow

\* What a step does to the snapshot of one reader, field by field.
LEMMA OneReader ==
    ASSUME reader \in [Readers -> Snapshots], NEW r \in Readers, NEW v \in Snapshots,
           reader' = [reader EXCEPT ![r] = v]
    PROVE  /\ reader' \in [Readers -> Snapshots]
           /\ reader'[r] = v
           /\ \A q \in Readers : q # r => reader'[q] = reader[q]
OBVIOUS

LEMMA ReaderAnswers ==
    ASSUME reader \in [Readers -> Snapshots], NEW r \in Readers, NEW win \in WindowOrNone, Answer(r, win)
    PROVE  /\ reader' \in [Readers -> Snapshots]
           /\ reader'[r].pc = "done" /\ reader'[r].win = win
           /\ reader'[r].now = reader[r].now /\ reader'[r].read = reader[r].read
           /\ reader'[r].floor = reader[r].floor /\ reader'[r].told = reader[r].told
           /\ reader'[r].had = reader[r].had
           /\ \A q \in Readers : q # r => reader'[q] = reader[q]
BY DEF Answer, Snapshots

\* The next input is read after those read before.
LEMMA ReaderReads ==
    ASSUME reader \in [Readers -> Snapshots], NEW r \in Readers, NEW v \in Versions,
           reader' = [reader EXCEPT ![r].read = Append(@, v)]
    PROVE  /\ reader' \in [Readers -> Snapshots]
           /\ reader'[r].read = Append(reader[r].read, v)
           /\ Len(reader'[r].read) = Len(reader[r].read) + 1
           /\ reader'[r].pc = reader[r].pc /\ reader'[r].now = reader[r].now
           /\ reader'[r].win = reader[r].win /\ reader'[r].floor = reader[r].floor
           /\ reader'[r].told = reader[r].told /\ reader'[r].had = reader[r].had
           /\ \A q \in Readers : q # r => reader'[q] = reader[q]
<1>1. reader[r].read \in Seq(Versions)
  BY DEF Snapshots
<1>2. Append(reader[r].read, v) \in Seq(Versions) /\ Len(Append(reader[r].read, v)) = Len(reader[r].read) + 1
  BY <1>1
<1> DEFINE longer == Append(reader[r].read, v)
<1>3. reader' = [reader EXCEPT ![r].read = longer]
  OBVIOUS
<1>4. longer \in Seq(Versions) /\ Len(longer) = Len(reader[r].read) + 1
  BY <1>2
<1> HIDE DEF longer
<1>5. reader' \in [Readers -> Snapshots]
  <2>1. [reader[r] EXCEPT !.read = longer] \in Snapshots
    BY <1>4 DEF Snapshots
  <2>2. reader' = [reader EXCEPT ![r] = [reader[r] EXCEPT !.read = longer]]
    BY <1>3
  <2> QED
    BY <2>1, <2>2
<1>6. /\ reader'[r].read = longer
      /\ reader'[r].pc = reader[r].pc /\ reader'[r].now = reader[r].now
      /\ reader'[r].win = reader[r].win /\ reader'[r].floor = reader[r].floor
      /\ reader'[r].told = reader[r].told /\ reader'[r].had = reader[r].had
      /\ \A q \in Readers : q # r => reader'[q] = reader[q]
  BY <1>3 DEF Snapshots
<1> QED
  BY <1>4, <1>5, <1>6 DEF longer

\* The next-state relation, one disjunct per action: what every proof below splits on.
LEMMA CacheSteps ==
    ASSUME CacheNext
    PROVE  \/ \E r \in Readers : \/ Begin(r) \/ Look(r) \/ ReadInput(r)
                                 \/ ReadFails(r) \/ StoreWindow(r) \/ Finish(r)
           \/ \E w \in Writers : Invalidate(w) \/ \E t \in Tables : Change(w, t)
           \/ \E ts \in SUBSET Sourced : DeletesPlaylist(ts)
           \/ Passes \/ \E t \in Times : JumpsBack(t)
BY DEF CacheNext, Reader

LEMMA CacheTypeStep == CacheTypeOK /\ [CacheNext]_cacheVars => CacheTypeOK'
<1> SUFFICES ASSUME CacheTypeOK, [CacheNext]_cacheVars PROVE CacheTypeOK'
  OBVIOUS
<1> USE CacheConstantsOK
<1>t. reader \in [Readers -> Snapshots] /\ cache \in [win : WindowOrNone, at : 0..MaxTime]
  BY DEF CacheTypeOK
<1>1. CASE UNCHANGED cacheVars
  BY <1>1 DEF CacheTypeOK, cacheVars, bounds
<1>2. ASSUME NEW r \in Readers, Begin(r) PROVE CacheTypeOK'
  <2> DEFINE fresh == [pc |-> "look", now |-> time, read |-> <<>>, win |-> NoIntervals, floor |-> dropped,
                       told |-> ~raced, had |-> cache.win # NoIntervals]
  <2>1. fresh \in Snapshots
    <3>1. <<>> \in Seq(Versions) /\ NoIntervals \in WindowOrNone /\ time \in Times /\ dropped \in CachedWindows
      BY DEF CacheTypeOK, WindowOrNone
    <3> QED
      BY <3>1 DEF Snapshots
  <2>2. fresh.read = <<>>
    OBVIOUS
  <2>3. reader' = [reader EXCEPT ![r] = fresh]
    BY <1>2 DEF Begin
  <2> HIDE DEF fresh
  <2>4. /\ reader' \in [Readers -> Snapshots]
        /\ \A q \in Readers : Len(reader'[q].read) <= Len(Inputs)
    BY <2>1, <2>2, <2>3, OneReader DEF CacheTypeOK
  <2> QED
    BY <1>2, <2>4 DEF CacheTypeOK, Begin, bounds
<1>3. ASSUME NEW r \in Readers, Look(r) PROVE CacheTypeOK'
  <2>1. CASE Usable(reader[r].now)
    <3>1. Answer(r, cache.win)
      BY <1>3, <2>1 DEF Look
    <3>2. reader' \in [Readers -> Snapshots] /\ \A q \in Readers : reader'[q].read = reader[q].read
      BY <3>1, <1>t, ReaderAnswers
    <3> QED
      BY <1>3, <3>2 DEF Look, CacheTypeOK, bounds
  <2>2. CASE ~Usable(reader[r].now)
    <3>1. reader' = [reader EXCEPT ![r].pc = "expand"]
      BY <1>3, <2>2 DEF Look
    <3>2. reader' \in [Readers -> Snapshots] /\ \A q \in Readers : reader'[q].read = reader[q].read
      BY <3>1, <1>t DEF Snapshots
    <3> QED
      BY <1>3, <3>2 DEF Look, CacheTypeOK, bounds
  <2> QED
    BY <2>1, <2>2
<1>4. ASSUME NEW r \in Readers, ReadInput(r) PROVE CacheTypeOK'
  <2> DEFINE v == db[Len(reader[r].read) + 1]
  <2>1. reader[r].read \in Seq(Versions)
    BY <1>t DEF Snapshots
  <2>2. v \in Versions
    BY <1>4, <2>1 DEF ReadInput, CacheTypeOK, CachedWindows, Tables
  <2>3. reader' = [reader EXCEPT ![r].read = Append(@, v)]
    BY <1>4 DEF ReadInput
  <2>4. Len(reader[r].read) < Len(Inputs) /\ Len(reader[r].read) \in Nat
    BY <1>4, <2>1 DEF ReadInput
  <2> HIDE DEF v
  <2>5. reader' \in [Readers -> Snapshots] /\ Len(reader'[r].read) = Len(reader[r].read) + 1
        /\ \A q \in Readers : q # r => reader'[q] = reader[q]
    BY <2>2, <2>3, <1>t, ReaderReads
  <2>6. \A q \in Readers : Len(reader'[q].read) <= Len(Inputs)
    BY <2>4, <2>5 DEF CacheTypeOK
  <2> QED
    BY <1>4, <2>5, <2>6 DEF ReadInput, CacheTypeOK, bounds
<1>5. ASSUME NEW r \in Readers, ReadFails(r) PROVE CacheTypeOK'
  <2>1. reader' \in [Readers -> Snapshots] /\ \A q \in Readers : reader'[q].read = reader[q].read
    BY <1>5, <1>t, ReaderAnswers DEF ReadFails
  <2> QED
    BY <1>5, <2>1 DEF ReadFails, CacheTypeOK, bounds
<1>6. ASSUME NEW r \in Readers, StoreWindow(r) PROVE CacheTypeOK'
  <2>1. reader[r].read \in Seq(Versions) /\ reader[r].now \in Times
    BY <1>t DEF Snapshots
  <2>2. reader[r].read \in CachedWindows
    BY <1>6, <2>1, FullReadIsWindow DEF StoreWindow
  <2>3. reader' \in [Readers -> Snapshots] /\ \A q \in Readers : reader'[q].read = reader[q].read
    BY <1>6, <1>t, <2>2, ReaderAnswers DEF StoreWindow, WindowOrNone
  <2>4. cache' = [win |-> reader[r].read, at |-> reader[r].now]
    BY <1>6 DEF StoreWindow
  <2>5. cache' \in [win : WindowOrNone, at : 0..MaxTime] /\ cache'.win \in CachedWindows
    BY <2>1, <2>2, <2>4 DEF WindowOrNone, Times
  <2> QED
    BY <1>6, <2>3, <2>5 DEF StoreWindow, CacheTypeOK, bounds
<1>7. ASSUME NEW r \in Readers, Finish(r) PROVE CacheTypeOK'
  <2>1. First \in CachedWindows /\ 1 \in Times
    BY DEF First, CachedWindows, Versions, Times
  <2>2. IdleReader \in Snapshots /\ IdleReader.read = <<>>
    BY <2>1 DEF IdleReader, Snapshots, WindowOrNone
  <2>3. reader' = [reader EXCEPT ![r] = IdleReader]
    BY <1>7 DEF Finish
  <2>4. /\ reader' \in [Readers -> Snapshots]
        /\ \A q \in Readers : Len(reader'[q].read) <= Len(Inputs)
    BY <2>2, <2>3, OneReader DEF CacheTypeOK
  <2> QED
    BY <1>7, <2>4 DEF CacheTypeOK, Finish, bounds
<1>8. ASSUME NEW w \in Writers, NEW t \in Tables, Change(w, t) PROVE CacheTypeOK'
  <2>1. db \in [Tables -> 0..MaxWrites] /\ db[t] <= writes /\ writes < MaxWrites /\ writes \in Nat
    BY <1>8 DEF Change, CacheTypeOK, CachedWindows, Versions
  <2>2. db' = [db EXCEPT ![t] = db[t] + 1] /\ writes' = writes + 1
    BY <1>8 DEF Change
  <2>3. db' \in [Tables -> 0..MaxWrites]
    BY <2>1, <2>2
  <2>4. \A u \in Tables : db'[u] <= writes'
    BY <2>1, <2>2 DEF CacheTypeOK
  <2>5. writer' \in [Writers -> {"idle", "changed"}]
    BY <1>8 DEF Change, CacheTypeOK
  <2> QED
    BY <1>8, <2>1, <2>2, <2>3, <2>4, <2>5 DEF Change, CacheTypeOK, CachedWindows, Versions
<1>9. ASSUME NEW w \in Writers, Invalidate(w) PROVE CacheTypeOK'
  <2>1. cache' \in [win : WindowOrNone, at : 0..MaxTime] /\ cache'.at = 0
    BY <1>9, <1>t DEF Invalidate
  <2>2. writer' \in [Writers -> {"idle", "changed"}]
    BY <1>9 DEF Invalidate, CacheTypeOK
  <2> QED
    BY <1>9, <2>1, <2>2 DEF Invalidate, Drops, CacheTypeOK, bounds
<1>10. CASE Passes
  <2>1. past' \in Seq(CachedWindows) /\ Len(past') < MaxTime
    BY <1>10 DEF Passes, CacheTypeOK, Times
  <2> QED
    BY <1>10, <2>1 DEF Passes, CacheTypeOK, bounds, Times
<1>11. ASSUME NEW t \in Times, JumpsBack(t) PROVE CacheTypeOK'
  BY <1>11 DEF JumpsBack, CacheTypeOK, Times
<1>12. ASSUME NEW ts \in SUBSET Sourced, DeletesPlaylist(ts) PROVE CacheTypeOK'
  <2>1. db \in [Tables -> 0..MaxWrites] /\ writes < MaxWrites /\ writes \in Nat /\ \A t \in Tables : db[t] <= writes
    BY <1>12 DEF DeletesPlaylist, CacheTypeOK, CachedWindows, Versions
  <2>2. db' = [t \in Tables |-> IF t \in ts THEN db[t] + 1 ELSE db[t]] /\ writes' = writes + 1
    BY <1>12 DEF DeletesPlaylist
  <2>3. db' \in CachedWindows /\ \A t \in Tables : db'[t] <= writes'
    BY <2>1, <2>2 DEF CachedWindows, Versions
  <2> QED
    BY <1>12, <2>1, <2>2, <2>3 DEF DeletesPlaylist, CacheTypeOK
<1> QED
  BY <1>1, <1>2, <1>3, <1>4, <1>5, <1>6, <1>7, <1>8, <1>9, <1>10, <1>11, <1>12, CacheSteps

\* Every variable keeps its shape, and a stored time comes with a window.
THEOREM CacheTypeCorrect == CacheSpec => []CacheTypeOK
<1>1. CacheInit => CacheTypeOK
  <2> SUFFICES ASSUME CacheInit PROVE CacheTypeOK
    OBVIOUS
  <2> USE CacheConstantsOK
  <2>1. First \in CachedWindows /\ 1 \in Times
    BY DEF First, CachedWindows, Versions, Times
  <2>2. IdleReader \in Snapshots /\ IdleReader.read = <<>>
    BY <2>1 DEF IdleReader, Snapshots, WindowOrNone
  <2>3. reader \in [Readers -> Snapshots] /\ \A r \in Readers : Len(reader[r].read) <= Len(Inputs)
    BY <2>2 DEF CacheInit
  <2>4. \A t \in Tables : db[t] <= writes
    BY DEF CacheInit, First
  <2>5. raced \in BOOLEAN /\ writer \in [Writers -> {"idle", "changed"}]
    BY DEF CacheInit
  <2> QED
    BY <2>1, <2>3, <2>4, <2>5 DEF CacheInit, CacheTypeOK, WindowOrNone
<1> QED
  BY <1>1, CacheTypeStep, PTL DEF CacheSpec

(***************************************************************************)
(* The last good window.                                                   *)
(***************************************************************************)

\* A window is never taken out of the cache, only its time is, so a snapshot that began with one there
\* still finds one, whether it uses the cache, reads, or fails to.
Kept == \A r \in Readers : reader[r].had =>
            /\ cache.win # NoIntervals
            /\ reader[r].pc = "done" => reader[r].win # NoIntervals

LEMMA KeptStep == CacheTypeOK /\ Kept /\ [CacheNext]_cacheVars => Kept'
<1> SUFFICES ASSUME CacheTypeOK, Kept, [CacheNext]_cacheVars PROVE Kept'
  OBVIOUS
<1>t. reader \in [Readers -> Snapshots] /\ cache \in [win : WindowOrNone, at : 0..MaxTime]
  BY DEF CacheTypeOK
<1>1. CASE UNCHANGED cacheVars
  BY <1>1 DEF Kept, cacheVars
<1>2. ASSUME NEW r \in Readers, Begin(r) PROVE Kept'
  BY <1>2, <1>t DEF Begin, Kept, Snapshots
<1>3. ASSUME NEW r \in Readers, Look(r) PROVE Kept'
  <2>1. CASE Usable(reader[r].now)
    <3>1. Answer(r, cache.win) /\ cache.win \in WindowOrNone /\ cache' = cache
      BY <1>3, <2>1, <1>t DEF Look
    <3> QED
      BY <3>1, <1>t, ReaderAnswers DEF Kept
  <2>2. CASE ~Usable(reader[r].now)
    <3>1. reader' = [reader EXCEPT ![r].pc = "expand"] /\ cache' = cache
      BY <1>3, <2>2 DEF Look
    <3> QED
      BY <3>1, <1>t DEF Kept, Snapshots
  <2> QED
    BY <2>1, <2>2
<1>4. ASSUME NEW r \in Readers, ReadInput(r) PROVE Kept'
  <2>1. reader' = [reader EXCEPT ![r].read = Append(@, db[Len(@) + 1])] /\ cache' = cache
    BY <1>4 DEF ReadInput
  <2>2. \A q \in Readers : /\ reader'[q].pc = reader[q].pc /\ reader'[q].had = reader[q].had
                           /\ reader'[q].win = reader[q].win
    BY <2>1, <1>t DEF Snapshots
  <2> QED
    BY <2>1, <2>2 DEF Kept
<1>5. ASSUME NEW r \in Readers, ReadFails(r) PROVE Kept'
  <2>1. Answer(r, cache.win) /\ cache.win \in WindowOrNone /\ cache' = cache
    BY <1>5, <1>t DEF ReadFails
  <2> QED
    BY <2>1, <1>t, ReaderAnswers DEF Kept
<1>6. ASSUME NEW r \in Readers, StoreWindow(r) PROVE Kept'
  <2>1. reader[r].read \in CachedWindows /\ reader[r].read # NoIntervals
    BY <1>6, <1>t, FullReadIsWindow DEF StoreWindow, Snapshots
  <2>2. Answer(r, reader[r].read) /\ cache'.win = reader[r].read
    BY <1>6 DEF StoreWindow
  <2> QED
    BY <2>1, <2>2, <1>t, ReaderAnswers DEF Kept, WindowOrNone
<1>7. ASSUME NEW r \in Readers, Finish(r) PROVE Kept'
  BY <1>7, <1>t DEF Finish, Kept, IdleReader
<1>8. ASSUME NEW w \in Writers, NEW t \in Tables, Change(w, t) PROVE Kept'
  BY <1>8 DEF Change, Kept
<1>9. ASSUME NEW w \in Writers, Invalidate(w) PROVE Kept'
  BY <1>9, <1>t DEF Invalidate, Kept
<1>10. CASE Passes
  BY <1>10 DEF Passes, Kept
<1>11. ASSUME NEW t \in Times, JumpsBack(t) PROVE Kept'
  BY <1>11 DEF JumpsBack, Kept
<1>12. ASSUME NEW ts \in SUBSET Sourced, DeletesPlaylist(ts) PROVE Kept'
  BY <1>12 DEF DeletesPlaylist, Kept
<1> QED
  BY <1>1, <1>2, <1>3, <1>4, <1>5, <1>6, <1>7, <1>8, <1>9, <1>10, <1>11, <1>12, CacheSteps

\* "The last good window is better than an empty one": a snapshot that begins with a window in the
\* cache is answered one, for any number of readers and writers and any pattern of failing reads.
THEOREM LastGoodStays == CacheSpec => []KeepsLastGood
<1>1. CacheInit => Kept
  BY DEF CacheInit, Kept, IdleReader
<1>2. Kept => KeepsLastGood
  BY DEF Kept, KeepsLastGood, Done
<1> QED
  BY <1>1, <1>2, KeptStep, CacheTypeCorrect, PTL DEF CacheSpec

(***************************************************************************)
(* The age of a window.                                                    *)
(***************************************************************************)

\* win[t] is at least as new as input t was at every tick the clock left before until.
After(version, t, until) == \A i \in 1..Len(past) : i < until => version >= past[i][t]

\* A clock that does not jump: one entry of past per tick, and no entry newer than the tables.
Ticks == /\ Len(past) = time - 1
         /\ \A t \in Tables : After(db[t], t, time)

\* What a reader has read, it has read since the time of its snapshot.
ReadAfter == \A r \in Readers :
    /\ reader[r].pc # "idle" => reader[r].now <= time
    /\ reader[r].pc \in {"look", "expand"} =>
           \A t \in 1..Len(reader[r].read) : After(reader[r].read[t], t, reader[r].now)

\* The cached window was read after the time it is stored with.
CacheAfter == cache.at <= time /\ (cache.at # 0 => \A t \in Tables : After(cache.win[t], t, cache.at))

\* What a reader is answered is less than an hour older than its time.
AnswerAfter == faults = 0 =>
    \A r \in Readers : Done(r) => \A t \in Tables : After(reader[r].win[t], t, (reader[r].now - Hour) + 1)

Aged == jumps = 0 => Ticks /\ ReadAfter /\ CacheAfter /\ AnswerAfter

\* A version that is newer than the tables before one time is newer than the tables before an earlier one.
LEMMA AfterEarlier ==
    ASSUME NEW version, NEW t, NEW until \in Int, NEW sooner \in Int, sooner <= until,
           After(version, t, until)
    PROVE  After(version, t, sooner)
BY DEF After

LEMMA AgedInit == CacheInit => Aged
<1> SUFFICES ASSUME CacheInit PROVE Ticks /\ ReadAfter /\ CacheAfter /\ AnswerAfter
  BY DEF Aged
<1>1. Len(past) = 0 /\ time = 1
  BY DEF CacheInit
<1>2. \A version, t, until : After(version, t, until)
  BY <1>1 DEF After
<1>3. \A r \in Readers : reader[r].pc = "idle"
  BY DEF CacheInit, IdleReader
<1>4. cache.at = 0
  BY DEF CacheInit
<1> QED
  BY <1>1, <1>2, <1>3, <1>4 DEF Ticks, ReadAfter, CacheAfter, AnswerAfter, Done

\* While the tables, the clock and its history stay, only the reader that steps and the cache need a look.
LEMMA AgedRead ==
    ASSUME CacheTypeOK, Aged, UNCHANGED <<time, db, past, jumps>>, jumps = 0, ReadAfter', CacheAfter', AnswerAfter'
    PROVE  Aged'
BY DEF Aged, Ticks, After

LEMMA ReaderStep ==
    ASSUME CacheTypeOK, Aged, NEW r \in Readers,
           Begin(r) \/ Look(r) \/ ReadInput(r) \/ ReadFails(r) \/ StoreWindow(r) \/ Finish(r)
    PROVE  Aged'
<1> USE CacheConstantsOK
<1>u. UNCHANGED <<time, db, past, jumps>>
  BY DEF Begin, Look, ReadInput, ReadFails, StoreWindow, Finish, bounds
<1> SUFFICES ASSUME jumps = 0 PROVE ReadAfter' /\ CacheAfter' /\ AnswerAfter'
  BY <1>u, AgedRead DEF Aged
<1>t. /\ reader \in [Readers -> Snapshots] /\ cache \in [win : WindowOrNone, at : 0..MaxTime]
      /\ time \in Nat /\ \A q \in Readers : reader[q].now \in Nat /\ reader[q].read \in Seq(Versions)
  BY DEF CacheTypeOK, Snapshots, Times
<1>a. Ticks /\ ReadAfter /\ CacheAfter /\ AnswerAfter
  BY DEF Aged
<1>f. faults \in Nat
  BY DEF CacheTypeOK
<1>1. CASE Begin(r)
  <2>1. /\ reader'[r].pc = "look" /\ reader'[r].now = time
        /\ \A q \in Readers : q # r => reader'[q] = reader[q]
    BY <1>1, <1>t DEF Begin
  <2>2. cache' = cache /\ faults' = faults
    BY <1>1 DEF Begin, bounds
  <2>3. ReadAfter'
    <3>1. reader'[r].read = <<>> /\ time <= time
      BY <1>1, <1>t DEF Begin
    <3>2. \A t \in 1..Len(reader'[r].read) : FALSE
      BY <3>1
    <3>3. reader'[r].now <= time' /\ time' = time
      BY <2>1, <3>1, <1>u
    <3>4. ASSUME NEW q \in Readers
          PROVE  /\ reader'[q].pc # "idle" => reader'[q].now <= time'
                 /\ reader'[q].pc \in {"look", "expand"} =>
                        \A t \in 1..Len(reader'[q].read) : After(reader[q].read[t], t, reader[q].now)'
      <4>1. CASE q = r
        <5>1. ASSUME NEW t \in 1..Len(reader'[q].read) PROVE FALSE
          BY <3>2, <4>1, <5>1
        <5>2. reader'[q].now <= time'
          BY <3>3, <4>1
        <5> QED
          BY <5>1, <5>2
      <4>2. CASE q # r
        <5>1. reader'[q] = reader[q]
          BY <2>1, <4>2
        <5>2. /\ reader[q].pc # "idle" => reader[q].now <= time
              /\ reader[q].pc \in {"look", "expand"} =>
                     \A t \in 1..Len(reader[q].read) : After(reader[q].read[t], t, reader[q].now)
          BY <1>a DEF ReadAfter
        <5> QED
          BY <5>1, <5>2, <1>u DEF After
      <4> QED
        BY <4>1, <4>2
    <3> QED
      BY <3>4, Zenon DEF ReadAfter
  <2>4. CacheAfter'
    BY <2>2, <1>a, <1>u DEF CacheAfter, After
  <2>5. AnswerAfter'
    BY <2>1, <2>2, <1>a, <1>u DEF AnswerAfter, After, Done
  <2> QED
    BY <2>3, <2>4, <2>5
<1>2. CASE Look(r)
  <2>1. cache' = cache /\ faults' = faults /\ CacheAfter'
    BY <1>2, <1>a, <1>u DEF Look, bounds, CacheAfter, After
  <2>2. CASE Usable(reader[r].now)
    <3>1. /\ reader'[r].pc = "done" /\ reader'[r].win = cache.win /\ reader'[r].now = reader[r].now
          /\ \A q \in Readers : q # r => reader'[q] = reader[q]
      BY <1>2, <2>2, <1>t, ReaderAnswers DEF Look
    <3>2. reader[r].pc # "idle"
      BY <1>2 DEF Look
    <3>3. ReadAfter'
      BY <3>1, <3>2, <1>a, <1>u DEF ReadAfter, After
    <3>4. cache.at \in Nat /\ cache.at # 0 /\ (reader[r].now - Hour) + 1 <= cache.at
      BY <2>2, <1>t DEF Usable
    <3>5. \A t \in Tables : After(cache.win[t], t, (reader[r].now - Hour) + 1)
      BY <3>4, <1>a, <1>t, AfterEarlier DEF CacheAfter
    <3>6. AnswerAfter'
      BY <3>1, <3>5, <2>1, <1>a, <1>u DEF AnswerAfter, After, Done
    <3> QED
      BY <2>1, <3>3, <3>6
  <2>3. CASE ~Usable(reader[r].now)
    <3>1. reader' = [reader EXCEPT ![r].pc = "expand"] /\ reader[r].pc # "idle" /\ reader[r].pc = "look"
      BY <1>2, <2>3 DEF Look
    <3>2. /\ reader'[r].pc = "expand" /\ reader'[r].now = reader[r].now /\ reader'[r].read = reader[r].read
          /\ \A q \in Readers : q # r => reader'[q] = reader[q]
      BY <3>1, <1>t DEF Snapshots
    <3>3. ReadAfter'
      BY <3>1, <3>2, <1>a, <1>u DEF ReadAfter, After
    <3>4. AnswerAfter'
      BY <3>2, <2>1, <1>a, <1>u DEF AnswerAfter, After, Done
    <3> QED
      BY <2>1, <3>3, <3>4
  <2> QED
    BY <2>2, <2>3
<1>3. CASE ReadInput(r)
  <2> DEFINE n == Len(reader[r].read) + 1
             v == db[n]
  <2>1. reader[r].read \in Seq(Versions) /\ n \in Tables /\ db \in CachedWindows /\ v \in Versions
    BY <1>3, <1>t DEF ReadInput, CacheTypeOK, CachedWindows, Tables
  <2>2. reader' = [reader EXCEPT ![r].read = Append(@, v)]
    BY <1>3 DEF ReadInput
  <2>3. reader[r].pc = "expand" /\ reader[r].now <= time
    BY <1>3, <1>a DEF ReadInput, ReadAfter
  <2>4. cache' = cache /\ faults' = faults
    BY <1>3 DEF ReadInput, bounds
  <2>5. After(v, n, time)
    BY <2>1, <1>a DEF Ticks
  <2>6. After(v, n, reader[r].now)
    BY <2>3, <2>5, <1>t, AfterEarlier
  <2>7. n = Len(reader[r].read) + 1 /\ v \in Versions
    BY <2>1
  <2> HIDE DEF n, v
  <2>8. /\ reader'[r].read = Append(reader[r].read, v)
        /\ reader'[r].pc = "expand" /\ reader'[r].now = reader[r].now
        /\ \A q \in Readers : q # r => reader'[q] = reader[q]
    BY <2>2, <2>3, <2>7, <1>t, ReaderReads
  <2>9. \A t \in 1..Len(reader'[r].read) : After(reader'[r].read[t], t, reader[r].now)
    <3>1. SUFFICES ASSUME NEW t \in 1..Len(reader'[r].read) PROVE After(reader'[r].read[t], t, reader[r].now)
      OBVIOUS
    <3>2. CASE t = n
      <4>1. reader'[r].read[t] = v
        BY <2>1, <2>7, <2>8, <3>2
      <4> QED
        BY <4>1, <3>2, <2>6
    <3>3. CASE t # n
      <4>1. t \in 1..Len(reader[r].read) /\ reader'[r].read[t] = reader[r].read[t]
        BY <2>1, <2>7, <2>8, <3>3
      <4> QED
        BY <4>1, <2>3, <1>a DEF ReadAfter
    <3> QED
      BY <3>2, <3>3
  <2>10. ReadAfter'
    BY <2>3, <2>8, <2>9, <1>a, <1>u DEF ReadAfter, After
  <2>11. CacheAfter'
    BY <2>4, <1>a, <1>u DEF CacheAfter, After
  <2>12. AnswerAfter'
    BY <2>4, <2>8, <1>a, <1>u DEF AnswerAfter, After, Done
  <2> QED
    BY <2>10, <2>11, <2>12
<1>4. CASE ReadFails(r)
  <2>1. /\ reader'[r].pc = "done" /\ reader'[r].now = reader[r].now /\ reader[r].pc # "idle"
        /\ \A q \in Readers : q # r => reader'[q] = reader[q]
    BY <1>4, <1>t, ReaderAnswers DEF ReadFails
  <2>2. cache' = cache /\ faults' # 0
    BY <1>4, <1>f DEF ReadFails
  <2>3. ReadAfter'
    BY <2>1, <1>a, <1>u DEF ReadAfter, After
  <2>4. CacheAfter'
    BY <2>2, <1>a, <1>u DEF CacheAfter, After
  <2> QED
    BY <2>2, <2>3, <2>4 DEF AnswerAfter
<1>5. CASE StoreWindow(r)
  <2>1. reader[r].pc = "expand" /\ reader[r].read \in CachedWindows /\ Len(reader[r].read) = Len(Inputs)
    BY <1>5, <1>t, FullReadIsWindow DEF StoreWindow
  <2>2. /\ reader'[r].pc = "done" /\ reader'[r].win = reader[r].read /\ reader'[r].now = reader[r].now
        /\ \A q \in Readers : q # r => reader'[q] = reader[q]
    BY <1>5, <2>1, <1>t, ReaderAnswers DEF StoreWindow, WindowOrNone
  <2>3. cache'.win = reader[r].read /\ cache'.at = reader[r].now /\ faults' = faults
    BY <1>5 DEF StoreWindow, bounds
  <2>4. reader[r].now <= time /\ \A t \in Tables : After(reader[r].read[t], t, reader[r].now)
    BY <2>1, <1>a DEF ReadAfter, Tables
  <2>5. \A t \in Tables : After(reader[r].read[t], t, (reader[r].now - Hour) + 1)
    BY <2>4, <1>t, AfterEarlier
  <2>6. ReadAfter'
    BY <2>2, <2>4, <1>a, <1>u DEF ReadAfter, After
  <2>7. CacheAfter'
    BY <2>3, <2>4, <1>u DEF CacheAfter, After
  <2>8. AnswerAfter'
    BY <2>2, <2>3, <2>5, <1>a, <1>u DEF AnswerAfter, After, Done
  <2> QED
    BY <2>6, <2>7, <2>8
<1>6. CASE Finish(r)
  <2>1. reader'[r].pc = "idle" /\ \A q \in Readers : q # r => reader'[q] = reader[q]
    BY <1>6, <1>t DEF Finish, IdleReader
  <2>2. cache' = cache /\ faults' = faults
    BY <1>6 DEF Finish, bounds
  <2>3. ReadAfter'
    BY <2>1, <1>a, <1>u DEF ReadAfter, After
  <2>4. CacheAfter'
    BY <2>2, <1>a, <1>u DEF CacheAfter, After
  <2>5. AnswerAfter'
    BY <2>1, <2>2, <1>a, <1>u DEF AnswerAfter, After, Done
  <2> QED
    BY <2>3, <2>4, <2>5
<1> QED
  BY <1>1, <1>2, <1>3, <1>4, <1>5, <1>6

LEMMA NewerTables ==
    ASSUME CacheTypeOK, Aged, UNCHANGED <<time, cache, reader, past, faults, jumps>>,
           \A u \in Tables : db'[u] \in Nat /\ db'[u] >= db[u]
    PROVE  Aged'
<1>t. time \in Nat /\ past \in Seq(CachedWindows) /\ db \in CachedWindows
  BY DEF CacheTypeOK, Times
<1>1. ASSUME jumps = 0 PROVE Ticks'
  <2>1. Len(past) = time - 1 /\ \A u \in Tables : After(db[u], u, time)
    BY <1>1 DEF Aged, Ticks
  <2>2. \A u \in Tables, i \in 1..Len(past) : past[i][u] \in Nat /\ db[u] \in Nat
    BY <1>t DEF CachedWindows, Versions
  <2>3. \A u \in Tables, i \in 1..Len(past) : i < time => db'[u] >= past[i][u]
    BY <2>1, <2>2 DEF After
  <2> QED
    BY <2>1, <2>3 DEF Ticks, After
<1> QED
  BY <1>1 DEF Aged, Ticks, ReadAfter, CacheAfter, AnswerAfter, After, Done

LEMMA AgedStep == CacheTypeOK /\ Aged /\ [CacheNext]_cacheVars => Aged'
<1> SUFFICES ASSUME CacheTypeOK, Aged, [CacheNext]_cacheVars PROVE Aged'
  OBVIOUS
<1>t. time \in Nat /\ past \in Seq(CachedWindows) /\ db \in CachedWindows /\ jumps \in Nat
  BY DEF CacheTypeOK, Times
<1>1. CASE UNCHANGED cacheVars
  BY <1>1 DEF cacheVars, bounds, Aged, Ticks, ReadAfter, CacheAfter, AnswerAfter, After, Done
<1>2. ASSUME NEW r \in Readers, Begin(r) \/ Look(r) \/ ReadInput(r) \/ ReadFails(r) \/ StoreWindow(r) \/ Finish(r)
      PROVE  Aged'
  BY <1>2, ReaderStep
\* A change and a deletion make inputs newer, and Invalidate takes the time out of the cache.
<1>3. ASSUME NEW w \in Writers, NEW t \in Tables, Change(w, t) PROVE Aged'
  <2>1. UNCHANGED <<time, cache, reader, past, faults, jumps>> /\ db' = [db EXCEPT ![t] = @ + 1]
    BY <1>3 DEF Change
  <2>2. \A u \in Tables : db'[u] \in Nat /\ db'[u] >= db[u]
    BY <2>1, <1>t DEF CachedWindows, Versions
  <2> QED
    BY <2>1, <2>2, NewerTables
<1>4. ASSUME NEW w \in Writers, Invalidate(w) PROVE Aged'
  <2>1. UNCHANGED <<time, db, reader, past, faults, jumps>> /\ cache'.at = 0
    BY <1>4 DEF Invalidate, CacheTypeOK, bounds
  <2> QED
    BY <2>1, <1>t DEF Aged, Ticks, ReadAfter, CacheAfter, AnswerAfter, After, Done
\* The tick that ends is recorded with the tables as they are, and every time that was taken is past.
<1>5. CASE Passes
  <2>1. UNCHANGED <<db, cache, reader, faults, jumps>> /\ time' = time + 1
    BY <1>5 DEF Passes, bounds
  <2> SUFFICES ASSUME jumps = 0 PROVE Ticks' /\ ReadAfter' /\ CacheAfter' /\ AnswerAfter'
    BY <2>1 DEF Aged
  <2>2. Ticks /\ ReadAfter /\ CacheAfter /\ AnswerAfter
    BY DEF Aged
  <2>3. past' = Append(past, db)
    BY <1>5, <2>2, <1>t DEF Passes, Ticks
  <2>4. /\ Len(past') = time /\ Len(past) = time - 1 /\ past'[time] = db
        /\ \A i \in 1..Len(past) : past'[i] = past[i]
    BY <2>2, <2>3, <1>t DEF Ticks
  <2>5. \A version, t : \A until \in Int :
            After(version, t, until) /\ until <= time => \A i \in 1..Len(past') : i < until => version >= past'[i][t]
    BY <2>4, <1>t DEF After
  <2>6. Ticks'
    <3>1. \A t \in Tables : db[t] >= db[t]
      BY <1>t DEF CachedWindows, Versions
    <3>2. \A t \in Tables, i \in 1..Len(past') : i < time => db[t] >= past'[i][t]
      BY <2>2, <2>5, <1>t DEF Ticks
    <3> QED
      BY <3>1, <3>2, <2>1, <2>4, <1>t DEF Ticks, After
  <2>7. \A r \in Readers : reader[r].now \in Nat
    BY DEF CacheTypeOK, Snapshots, Times
  <2>8. ReadAfter'
    <3>1. \A r \in Readers : reader[r].pc # "idle" => reader[r].now <= time'
      BY <2>1, <2>2, <2>7, <1>t DEF ReadAfter
    <3>2. \A r \in Readers : reader[r].pc \in {"look", "expand"} =>
              \A t \in 1..Len(reader[r].read), i \in 1..Len(past') :
                  i < reader[r].now => reader[r].read[t] >= past'[i][t]
      BY <2>2, <2>5, <2>7 DEF ReadAfter
    <3> QED
      BY <2>1, <3>1, <3>2 DEF ReadAfter, After
  <2>9. CacheAfter'
    <3>1. cache.at \in Nat
      BY DEF CacheTypeOK
    <3>2. cache.at # 0 => \A t \in Tables, i \in 1..Len(past') : i < cache.at => cache.win[t] >= past'[i][t]
      BY <3>1, <2>2, <2>5 DEF CacheAfter
    <3> QED
      BY <2>1, <2>2, <3>1, <3>2, <1>t DEF CacheAfter, After
  <2>10. AnswerAfter'
    <3> DEFINE until(r) == (reader[r].now - Hour) + 1
    <3>1. \A r \in Readers : Done(r) => until(r) \in Int /\ until(r) <= time
      BY <2>2, <2>7, CacheConstantsOK, <1>t DEF ReadAfter, Done
    <3>2. faults = 0 => \A r \in Readers : Done(r) => \A t \in Tables : After(reader[r].win[t], t, until(r))
      BY <2>2 DEF AnswerAfter
    <3> HIDE DEF until
    <3>3. faults = 0 => \A r \in Readers : Done(r) => \A t \in Tables, i \in 1..Len(past') :
              i < until(r) => reader[r].win[t] >= past'[i][t]
      BY <2>5, <3>1, <3>2
    <3> QED
      BY <2>1, <3>3 DEF AnswerAfter, After, Done, until
  <2> QED
    BY <2>6, <2>8, <2>9, <2>10
<1>6. ASSUME NEW t \in Times, JumpsBack(t) PROVE Aged'
  BY <1>6, <1>t DEF JumpsBack, Aged
<1>7. ASSUME NEW ts \in SUBSET Sourced, DeletesPlaylist(ts) PROVE Aged'
  <2>1. /\ UNCHANGED <<time, cache, reader, past, faults, jumps>>
        /\ db' = [t \in Tables |-> IF t \in ts THEN db[t] + 1 ELSE db[t]]
    BY <1>7 DEF DeletesPlaylist
  <2>2. \A u \in Tables : db'[u] \in Nat /\ db'[u] >= db[u]
    BY <2>1, <1>t DEF CachedWindows, Versions
  <2> QED
    BY <2>1, <2>2, NewerTables
<1> QED
  BY <1>1, <1>2, <1>3, <1>4, <1>5, <1>6, <1>7, CacheSteps

\* Without a read that fails and a clock that jumps back, a decision never rests on a schedule that was
\* replaced an hour before it, whatever the requests that change and invalidate do meanwhile.
THEOREM NeverStale == CacheSpec => []AtMostAnHourOld
<1>1. CacheTypeOK /\ Aged => AtMostAnHourOld
  <2> SUFFICES ASSUME CacheTypeOK, Aged, NEW r \in Readers, Done(r), reader[r].now > Hour, faults = 0, jumps = 0,
                      NEW t \in Tables
               PROVE  reader[r].win[t] >= past[reader[r].now - Hour][t]
    BY DEF AtMostAnHourOld
  <2> DEFINE i == reader[r].now - Hour
  <2>1. After(reader[r].win[t], t, i + 1)
    BY DEF Aged, AnswerAfter
  <2>2. reader[r].now <= time /\ Len(past) = time - 1
    BY DEF Aged, ReadAfter, Ticks, Done
  <2>3. reader[r].now \in Nat /\ time \in Nat /\ Hour \in Nat \ {0}
    BY CacheConstantsOK DEF CacheTypeOK, Snapshots, Times
  <2>4. i \in 1..Len(past) /\ i < i + 1
    BY <2>2, <2>3
  <2> QED
    BY <2>1, <2>4 DEF After
<1> QED
  BY <1>1, AgedInit, AgedStep, CacheTypeCorrect, PTL DEF CacheSpec

(***************************************************************************)
(* What Invalidate promises.  Versions count as dropped when they were the *)
(* tables at the last Invalidate and nobody was reading then, or when a    *)
(* snapshot that was told of them goes on.  Nothing that is cached or has  *)
(* been read since is older than dropped versions (Seen), so neither is an *)
(* answer (AnswersSeen).                                                   *)
(***************************************************************************)
NotOlder(win, f) == \A t \in Tables : win[t] >= f[t]

Since(f) ==
    /\ NotOlder(db, f)
    /\ cache.at # 0 => NotOlder(cache.win, f)
    /\ \A r \in Readers : Reading(r) => \A t \in 1..Len(reader[r].read) : reader[r].read[t] >= f[t]

Dropped(f) == \/ ~raced /\ f = dropped
              \/ \E r \in Readers : reader[r].told /\ f = reader[r].floor

Looking == \A r \in Readers : reader[r].pc = "look" => reader[r].read = <<>>
Seen == Looking /\ \A f \in CachedWindows : Dropped(f) => Since(f)
AnswersSeen == faults = 0 => \A r \in Readers : Done(r) /\ reader[r].told => NotOlder(reader[r].win, reader[r].floor)

\* What is not older than some versions never gets older than them, whatever a step does.
LEMMA SinceStep ==
    ASSUME CacheTypeOK, Looking, [CacheNext]_cacheVars, NEW f \in CachedWindows, Since(f)
    PROVE  Since(f)'
<1>t. /\ reader \in [Readers -> Snapshots] /\ cache \in [win : WindowOrNone, at : 0..MaxTime]
      /\ db \in CachedWindows /\ \A u \in Tables : f[u] \in Nat /\ db[u] \in Nat
  BY DEF CacheTypeOK, CachedWindows, Versions
<1>1. CASE UNCHANGED cacheVars
  BY <1>1 DEF cacheVars, Since, NotOlder, Reading
\* A step that leaves the tables and what readers have read, and caches nothing.
<1>s. ASSUME \A u \in Tables : db'[u] >= db[u] /\ db'[u] \in Nat,
             cache'.at # 0 => cache' = cache,
             \A q \in Readers : Reading(q)' =>
                 reader'[q].read = <<>> \/ (Reading(q) /\ reader'[q].read = reader[q].read)
      PROVE  Since(f)'
  <2>1. NotOlder(db, f)'
    BY <1>s, <1>t DEF Since, NotOlder
  <2>2. (cache.at # 0 => NotOlder(cache.win, f))'
    BY <1>s DEF Since, NotOlder
  <2>3. ASSUME NEW q \in Readers, Reading(q)', NEW t \in 1..Len(reader'[q].read)
        PROVE  reader'[q].read[t] >= f[t]
    BY <1>s, <2>3 DEF Since
  <2> QED
    BY <2>1, <2>2, <2>3 DEF Since
<1>d. \A u \in Tables : db[u] >= db[u] /\ db[u] \in Nat
  BY <1>t
<1>2. ASSUME NEW r \in Readers, Begin(r) PROVE Since(f)'
  <2>1. db' = db /\ cache' = cache
    BY <1>2 DEF Begin
  <2>2. reader'[r].pc = "look" /\ \A q \in Readers : q # r => reader'[q] = reader[q]
    BY <1>2, <1>t DEF Begin
  <2> QED
    BY <1>d, <1>s, <2>1, <2>2 DEF Reading
<1>3. ASSUME NEW r \in Readers, Look(r) PROVE Since(f)'
  <2>1. db' = db /\ cache' = cache
    BY <1>3 DEF Look
  <2>2. \A q \in Readers : q # r => reader'[q] = reader[q]
    BY <1>3, <1>t DEF Look, Answer
  <2>3. reader'[r].read = <<>>
    BY <1>3, <1>t DEF Look, Answer, Looking, Snapshots
  <2> QED
    BY <1>d, <1>s, <2>1, <2>2, <2>3 DEF Reading
<1>4. ASSUME NEW r \in Readers, ReadInput(r) PROVE Since(f)'
  <2>1. PICK v : v = db[Len(reader[r].read) + 1]
    OBVIOUS
  <2>2. PICK n : n = Len(reader[r].read) + 1
    OBVIOUS
  <2>3. reader[r].read \in Seq(Versions) /\ n \in Tables /\ v = db[n] /\ v \in Versions
    BY <1>4, <1>t, <2>1, <2>2 DEF ReadInput, CachedWindows, Tables, Snapshots
  <2>4. reader' = [reader EXCEPT ![r].read = Append(@, v)] /\ db' = db /\ cache' = cache /\ Reading(r)
    BY <1>4, <2>1 DEF ReadInput, Reading
  <2>5. reader'[r].read = Append(reader[r].read, v) /\ \A q \in Readers : q # r => reader'[q] = reader[q]
    BY <2>3, <2>4, <1>t, ReaderReads
  <2>6. \A t \in 1..Len(reader'[r].read) : reader'[r].read[t] >= f[t]
    <3> SUFFICES ASSUME NEW t \in 1..Len(reader'[r].read) PROVE reader'[r].read[t] >= f[t]
      OBVIOUS
    <3>1. CASE t = n
      BY <2>2, <2>3, <2>5, <3>1 DEF Since, NotOlder
    <3>2. CASE t # n
      <4>1. t \in 1..Len(reader[r].read) /\ reader'[r].read[t] = reader[r].read[t]
        BY <2>2, <2>3, <2>5, <3>2
      <4> QED
        BY <4>1, <2>4 DEF Since
    <3> QED
      BY <3>1, <3>2
  <2>7. ASSUME NEW q \in Readers, Reading(q)', NEW t \in 1..Len(reader'[q].read)
        PROVE  reader'[q].read[t] >= f[t]
    <3>1. CASE q = r
      BY <2>6, <2>7, <3>1
    <3>2. CASE q # r
      BY <2>5, <2>7, <3>2 DEF Since, Reading
    <3> QED
      BY <3>1, <3>2
  <2> QED
    BY <2>4, <2>7 DEF Since, NotOlder
<1>5. ASSUME NEW r \in Readers, ReadFails(r) PROVE Since(f)'
  <2>1. reader'[r].pc = "done" /\ \A q \in Readers : q # r => reader'[q] = reader[q]
    BY <1>5, <1>t, ReaderAnswers DEF ReadFails
  <2>2. db' = db /\ cache' = cache
    BY <1>5 DEF ReadFails
  <2> QED
    BY <1>d, <1>s, <2>1, <2>2 DEF Reading
<1>6. ASSUME NEW r \in Readers, StoreWindow(r) PROVE Since(f)'
  <2>1. Reading(r) /\ Len(reader[r].read) = Len(Inputs) /\ db' = db /\ cache'.win = reader[r].read
    BY <1>6 DEF StoreWindow, Reading
  <2>2. reader[r].read \in CachedWindows
    BY <1>6, <1>t, FullReadIsWindow DEF StoreWindow, Snapshots
  <2>3. reader'[r].pc = "done" /\ \A q \in Readers : q # r => reader'[q] = reader[q]
    BY <1>6, <2>2, <1>t, ReaderAnswers DEF StoreWindow, WindowOrNone
  <2>4. \A u \in Tables : reader[r].read[u] >= f[u]
    BY <2>1 DEF Since, Tables
  <2>5. ASSUME NEW q \in Readers, Reading(q)', NEW t \in 1..Len(reader'[q].read)
        PROVE  reader'[q].read[t] >= f[t]
    BY <2>3, <2>5 DEF Since, Reading
  <2> QED
    BY <2>1, <2>4, <2>5 DEF Since, NotOlder
<1>7. ASSUME NEW r \in Readers, Finish(r) PROVE Since(f)'
  <2>1. reader'[r].pc = "idle" /\ \A q \in Readers : q # r => reader'[q] = reader[q]
    BY <1>7, <1>t DEF Finish, IdleReader
  <2>2. db' = db /\ cache' = cache
    BY <1>7 DEF Finish
  <2> QED
    BY <1>d, <1>s, <2>1, <2>2 DEF Reading
<1>8. ASSUME NEW w \in Writers, NEW t \in Tables, Change(w, t) PROVE Since(f)'
  <2>1. reader' = reader /\ cache' = cache /\ db' = [db EXCEPT ![t] = @ + 1]
    BY <1>8 DEF Change
  <2>2. \A u \in Tables : db'[u] >= db[u] /\ db'[u] \in Nat
    BY <2>1, <1>t DEF CachedWindows
  <2> QED
    BY <1>s, <2>1, <2>2 DEF Reading
<1>9. ASSUME NEW w \in Writers, Invalidate(w) PROVE Since(f)'
  <2>1. reader' = reader /\ db' = db /\ cache'.at = 0
    BY <1>9, <1>t DEF Invalidate
  <2> QED
    BY <1>d, <1>s, <2>1 DEF Reading
<1>10. CASE Passes
  BY <1>10, <1>d, <1>s DEF Passes, Reading
<1>11. ASSUME NEW t \in Times, JumpsBack(t) PROVE Since(f)'
  BY <1>11, <1>d, <1>s DEF JumpsBack, Reading
<1>12. ASSUME NEW ts \in SUBSET Sourced, DeletesPlaylist(ts) PROVE Since(f)'
  <2>1. reader' = reader /\ cache' = cache /\ db' = [t \in Tables |-> IF t \in ts THEN db[t] + 1 ELSE db[t]]
    BY <1>12 DEF DeletesPlaylist
  <2>2. \A u \in Tables : db'[u] >= db[u] /\ db'[u] \in Nat
    BY <2>1, <1>t
  <2> QED
    BY <1>s, <2>1, <2>2 DEF Reading
<1> QED
  BY <1>1, <1>2, <1>3, <1>4, <1>5, <1>6, <1>7, <1>8, <1>9, <1>10, <1>11, <1>12, CacheSteps

\* What a reader is told of stays what it was told when it began, and is forgotten at the end.
LEMMA TellsOnce ==
    ASSUME CacheTypeOK, [CacheNext]_cacheVars, NEW q \in Readers, reader'[q].told
    PROVE  \/ reader[q].told /\ reader'[q].floor = reader[q].floor
           \/ ~raced /\ reader'[q].floor = dropped
<1>t. reader \in [Readers -> Snapshots] /\ cache \in [win : WindowOrNone, at : 0..MaxTime]
  BY DEF CacheTypeOK
<1>1. CASE reader' = reader
  BY <1>1
<1>2. ASSUME NEW r \in Readers, Begin(r)
      PROVE  \/ reader[q].told /\ reader'[q].floor = reader[q].floor
             \/ ~raced /\ reader'[q].floor = dropped
  BY <1>2, <1>t DEF Begin
<1>3. ASSUME NEW r \in Readers, Look(r) \/ ReadFails(r) \/ StoreWindow(r)
      PROVE  reader[q].told /\ reader'[q].floor = reader[q].floor
  <2>1. \/ \E win : reader' = [reader EXCEPT ![r].pc = "done", ![r].win = win]
        \/ reader' = [reader EXCEPT ![r].pc = "expand"]
    BY <1>3 DEF Look, ReadFails, StoreWindow, Answer
  <2>2. ASSUME NEW win, reader' = [reader EXCEPT ![r].pc = "done", ![r].win = win]
        PROVE  reader[q].told /\ reader'[q].floor = reader[q].floor
    BY <2>2, <1>t DEF Snapshots
  <2>3. CASE reader' = [reader EXCEPT ![r].pc = "expand"]
    BY <2>3, <1>t DEF Snapshots
  <2> QED
    BY <2>1, <2>2, <2>3
<1>4. ASSUME NEW r \in Readers, ReadInput(r) PROVE reader[q].told /\ reader'[q].floor = reader[q].floor
  BY <1>4, <1>t DEF ReadInput, Snapshots
<1>5. ASSUME NEW r \in Readers, Finish(r) PROVE reader[q].told /\ reader'[q].floor = reader[q].floor
  BY <1>5, <1>t DEF Finish, IdleReader
<1>6. CASE /\ ~(\E r \in Readers : \/ Begin(r) \/ Look(r) \/ ReadInput(r)
                                   \/ ReadFails(r) \/ StoreWindow(r) \/ Finish(r))
           /\ CacheNext
  <2>1. reader' = reader
    BY <1>6, CacheSteps DEF Invalidate, Change, DeletesPlaylist, Passes, JumpsBack
  <2> QED
    BY <2>1, <1>1
<1>7. CASE UNCHANGED cacheVars
  BY <1>7, <1>1 DEF cacheVars
<1> QED
  BY <1>2, <1>3, <1>4, <1>5, <1>6, <1>7

\* Versions are dropped by an Invalidate while nobody reads: nothing is cached or half read then.
LEMMA DroppedStep ==
    ASSUME CacheTypeOK, [CacheNext]_cacheVars, NEW f \in CachedWindows, Dropped(f)'
    PROVE  Dropped(f) \/ Since(f)'
<1>1. CASE \E q \in Readers : reader'[q].told /\ f = reader'[q].floor
  <2>1. PICK q \in Readers : reader'[q].told /\ f = reader'[q].floor
    BY <1>1
  <2> QED
    BY <2>1, TellsOnce DEF Dropped
<1>2. CASE ~raced' /\ f = dropped'
  <2>1. CASE UNCHANGED <<raced, dropped>>
    BY <1>2, <2>1 DEF Dropped
  <2>2. CASE \E w \in Writers : Invalidate(w)
    <3>1. PICK w \in Writers : Invalidate(w)
      BY <2>2
    <3>2. reader' = reader /\ db' = db /\ cache'.at = 0 /\ f = db /\ \A r \in Readers : ~Reading(r)
      BY <3>1, <1>2 DEF Invalidate, Drops, CacheTypeOK
    <3>3. \A t \in Tables : db[t] >= db[t]
      BY DEF CacheTypeOK, CachedWindows, Versions
    <3> QED
      BY <3>2, <3>3 DEF Since, NotOlder, Reading
  <2> QED
    BY <2>1, <2>2, CacheSteps DEF cacheVars, Begin, Look, ReadInput, ReadFails, StoreWindow, Finish, Change,
                                  DeletesPlaylist, Passes, JumpsBack
<1> QED
  BY <1>1, <1>2 DEF Dropped

LEMMA LookingStep == CacheTypeOK /\ Looking /\ [CacheNext]_cacheVars => Looking'
<1> SUFFICES ASSUME CacheTypeOK, Looking, [CacheNext]_cacheVars, NEW q \in Readers, reader'[q].pc = "look"
             PROVE  reader'[q].read = <<>>
  BY DEF Looking
<1>t. reader \in [Readers -> Snapshots]
  BY DEF CacheTypeOK
<1>1. CASE reader' = reader
  BY <1>1 DEF Looking
<1>2. ASSUME NEW r \in Readers, Begin(r) PROVE reader'[q].read = <<>>
  BY <1>2, <1>t DEF Begin, Looking
<1>3. ASSUME NEW r \in Readers, Look(r) \/ ReadFails(r) \/ StoreWindow(r) \/ ReadInput(r) \/ Finish(r)
      PROVE  reader'[q] = reader[q]
  <2>1. reader'[r].pc # "look"
    BY <1>3, <1>t DEF Look, ReadFails, StoreWindow, Answer, ReadInput, Finish, IdleReader, Snapshots
  <2>2. q # r
    BY <2>1
  <2> QED
    BY <1>3, <2>2, <1>t DEF Look, ReadFails, StoreWindow, Answer, ReadInput, Finish
<1>4. CASE /\ ~(\E r \in Readers : \/ Begin(r) \/ Look(r) \/ ReadInput(r)
                                   \/ ReadFails(r) \/ StoreWindow(r) \/ Finish(r))
           /\ CacheNext
  <2>1. reader' = reader
    BY <1>4, CacheSteps DEF Invalidate, Change, DeletesPlaylist, Passes, JumpsBack
  <2> QED
    BY <2>1, <1>1
<1>5. CASE UNCHANGED cacheVars
  BY <1>5, <1>1 DEF cacheVars
<1>6. ASSUME NEW r \in Readers, reader'[q] = reader[q] PROVE reader'[q].read = <<>>
  BY <1>6 DEF Looking
<1> QED
  BY <1>2, <1>3, <1>4, <1>5, <1>6

LEMMA SeenStep == CacheTypeOK /\ Seen /\ [CacheNext]_cacheVars => Seen'
<1> SUFFICES ASSUME CacheTypeOK, Seen, [CacheNext]_cacheVars PROVE Seen'
  OBVIOUS
<1>1. Looking'
  BY LookingStep DEF Seen
<1>2. ASSUME NEW f \in CachedWindows, Dropped(f)' PROVE Since(f)'
  BY <1>2, DroppedStep, SinceStep DEF Seen
<1>3. CachedWindows' = CachedWindows
  BY DEF CachedWindows, Tables, Versions
<1> QED
  BY <1>1, <1>2, <1>3 DEF Seen

LEMMA AnswersStep == CacheTypeOK /\ Seen /\ AnswersSeen /\ [CacheNext]_cacheVars => AnswersSeen'
<1> SUFFICES ASSUME CacheTypeOK, Seen, AnswersSeen, [CacheNext]_cacheVars, faults' = 0,
                    NEW q \in Readers, Done(q)', reader'[q].told
             PROVE  NotOlder(reader'[q].win, reader'[q].floor)
  BY DEF AnswersSeen, NotOlder
<1>t. /\ reader \in [Readers -> Snapshots] /\ cache \in [win : WindowOrNone, at : 0..MaxTime]
      /\ faults \in Nat /\ reader[q].floor \in CachedWindows
  BY DEF CacheTypeOK, Snapshots
<1>1. ASSUME reader'[q] = reader[q], faults' = faults PROVE NotOlder(reader'[q].win, reader'[q].floor)
  BY <1>1 DEF AnswersSeen, Done
<1>s. ASSUME reader[q].told PROVE Since(reader[q].floor)
  BY <1>s, <1>t DEF Seen, Dropped
<1>2. ASSUME NEW r \in Readers, Begin(r) PROVE NotOlder(reader'[q].win, reader'[q].floor)
  BY <1>2, <1>t, <1>1 DEF Begin, Done, bounds
<1>3. ASSUME NEW r \in Readers, Look(r) PROVE NotOlder(reader'[q].win, reader'[q].floor)
  <2>1. CASE q # r
    BY <1>3, <1>t, <1>1, <2>1 DEF Look, Answer, bounds
  <2>2. CASE q = r /\ Usable(reader[r].now)
    <3>1. reader'[q].win = cache.win /\ reader'[q].floor = reader[q].floor /\ reader[q].told /\ cache.at # 0
      BY <1>3, <1>t, <2>2, ReaderAnswers DEF Look, Usable
    <3> QED
      BY <3>1, <1>s DEF Since
  <2>3. CASE q = r /\ ~Usable(reader[r].now)
    BY <1>3, <1>t, <2>3 DEF Look, Done, Snapshots
  <2> QED
    BY <2>1, <2>2, <2>3
<1>4. ASSUME NEW r \in Readers, ReadInput(r) PROVE NotOlder(reader'[q].win, reader'[q].floor)
  BY <1>4, <1>t, <1>1 DEF ReadInput, Done, bounds, Snapshots
<1>5. ASSUME NEW r \in Readers, ReadFails(r) PROVE NotOlder(reader'[q].win, reader'[q].floor)
  BY <1>5, <1>t DEF ReadFails
<1>6. ASSUME NEW r \in Readers, StoreWindow(r) PROVE NotOlder(reader'[q].win, reader'[q].floor)
  <2>1. reader[r].read \in CachedWindows /\ Reading(r) /\ Len(reader[r].read) = Len(Inputs)
    BY <1>6, <1>t, FullReadIsWindow DEF StoreWindow, Snapshots, Reading
  <2>2. Answer(r, reader[r].read) /\ faults' = faults
    BY <1>6 DEF StoreWindow, bounds
  <2>3. /\ reader'[r].win = reader[r].read /\ reader'[r].floor = reader[r].floor
        /\ reader'[r].told = reader[r].told /\ \A p \in Readers : p # r => reader'[p] = reader[p]
    BY <2>1, <2>2, <1>t, ReaderAnswers DEF WindowOrNone
  <2>4. CASE q = r
    <3>1. Since(reader[q].floor)
      BY <2>3, <2>4, <1>s
    <3> QED
      BY <3>1, <2>1, <2>3, <2>4 DEF Since, NotOlder, Tables
  <2>5. CASE q # r
    BY <2>2, <2>3, <2>5, <1>1
  <2> QED
    BY <2>4, <2>5
<1>7. ASSUME NEW r \in Readers, Finish(r) PROVE NotOlder(reader'[q].win, reader'[q].floor)
  BY <1>7, <1>t, <1>1 DEF Finish, Done, IdleReader, bounds
<1>8. CASE /\ ~(\E r \in Readers : \/ Begin(r) \/ Look(r) \/ ReadInput(r)
                                   \/ ReadFails(r) \/ StoreWindow(r) \/ Finish(r))
           /\ CacheNext
  <2>1. reader' = reader /\ faults' = faults
    BY <1>8, CacheSteps DEF Invalidate, Change, DeletesPlaylist, Passes, JumpsBack, bounds
  <2> QED
    BY <2>1, <1>1
<1>9. CASE UNCHANGED cacheVars
  BY <1>9, <1>1 DEF cacheVars, bounds
<1> QED
  BY <1>2, <1>3, <1>4, <1>5, <1>6, <1>7, <1>8, <1>9

\* A snapshot that begins after changes were dropped decides by what the tables were then or later, for any
\* number of readers, writers and inputs, unless a snapshot was being read at that Invalidate or a read fails.
THEOREM ChangesAreSeen == CacheSpec => []ToldIsSeen
<1>1. CacheInit => Seen /\ AnswersSeen
  <2> SUFFICES ASSUME CacheInit PROVE Seen /\ AnswersSeen
    OBVIOUS
  <2>1. \A r \in Readers : reader[r] = IdleReader
    BY DEF CacheInit
  <2>2. db = First /\ dropped = First /\ cache.at = 0 /\ \A t \in Tables : First[t] >= First[t]
    BY DEF CacheInit, First
  <2>3. \A r \in Readers : ~reader[r].told /\ reader[r].pc = "idle"
    BY <2>1 DEF IdleReader
  <2> QED
    BY <2>2, <2>3 DEF Seen, AnswersSeen, Looking, Dropped, Since, NotOlder, Reading, Done
<1>2. AnswersSeen => ToldIsSeen
  BY DEF AnswersSeen, ToldIsSeen, NotOlder
<1> QED
  BY <1>1, <1>2, SeenStep, AnswersStep, CacheTypeCorrect, PTL DEF CacheSpec
=============================================================================
