------------------------ MODULE AnnouncementsProofs ------------------------
(****************************************************************************)
(* For any table of announcements, any length of a day and any number of    *)
(* tests, edits, failures and kills: the waiting list always has exactly    *)
(* one group, a play moves the cycle on by one, the detailed model          *)
(* implements PlayPromise, so that no time of an announcement is heard      *)
(* twice, the times the code computes are the times the table means, and    *)
(* no time is stepped over while the loop runs.                             *)
(****************************************************************************)
EXTENDS Announcements, SequenceTheorems, FiniteSetTheorems, TLAPS

LEMMA InitHandOff == Init => HandOff
BY DEF Init, HandOff

\* Only a request that finds no group starts one, and only the group that finds no request ends.
LEMMA NextHandOff == HandOff /\ [Next]_vars => HandOff'
<1> SUFFICES ASSUME HandOff, [Next]_vars PROVE HandOff'   OBVIOUS
<1> USE DEF HandOff
<1>1. ASSUME NEW new, Requested(new) PROVE HandOff'
  <2>1. CASE running \/ waiting' = <<>>
        BY <1>1, <2>1 DEF Requested
  <2>2. CASE ~(running \/ waiting' = <<>>)
        BY <1>1, <2>2 DEF Requested
  <2> QED BY <2>1, <2>2
<1>2. CASE Check
  <2>1. CASE CheckList   BY <2>1 DEF CheckList, requests, group
  <2>2. CASE CheckAsk
    <3>1. PICK new : Requested(new)   BY <2>2 DEF CheckAsk
    <3> QED BY <3>1, <1>1
  <2> QED BY <1>2, <2>1, <2>2 DEF Check
<1>3. CASE People
  <2>1. ASSUME NEW a, TestPlay(a) PROVE HandOff'
    <3>1. PICK new : Requested(new)   BY <2>1 DEF TestPlay
    <3> QED BY <3>1, <1>1
  <2>2. ASSUME UNCHANGED <<requests, pc>> PROVE HandOff'   BY <2>2 DEF requests
  <2>3. ASSUME NEW a, NEW r, Delete(a) \/ Update(a, r) \/ Create(r) PROVE HandOff'
        BY <2>2, <2>3 DEF Delete, Update, Create, Edited
  <2> QED BY <1>3, <2>1, <2>3 DEF People
<1>4. CASE GroupTake   BY <1>4 DEF GroupTake
<1>5. CASE Group /\ ~GroupTake
  <2>1. CASE GroupJoin           BY <2>1 DEF GroupJoin
  <2>2. CASE GroupGet            BY <2>2 DEF GroupGet, requests
  <2>3. CASE GroupMark           BY <2>3 DEF GroupMark, requests
  <2>4. CASE GroupQueue          BY <2>4 DEF GroupQueue
  <2>5. CASE GroupNothingReady   BY <2>5 DEF GroupNothingReady, requests
  <2>6. CASE GroupHears          BY <2>6 DEF GroupHears, requests
  <2>7. CASE GroupEnds           BY <2>7 DEF GroupEnds, requests
  <2> QED BY <1>5, <2>1, <2>2, <2>3, <2>4, <2>5, <2>6, <2>7 DEF Group
<1>6. CASE Failures
      BY <1>6 DEF Failures, CheckFails, PrepareFails, GroupSkips, GroupCut, requests, group
<1>7. CASE Minute             BY <1>7 DEF Minute, requests, group
<1>8. CASE Kill               BY <1>8 DEF Kill
<1>9. CASE UNCHANGED vars     BY <1>9 DEF vars, requests, group
<1> QED BY <1>2, <1>3, <1>4, <1>5, <1>6, <1>7, <1>8, <1>9 DEF Next

\* announceMu hands the waiting list over without a gap (addAnnouncements, takeAnnouncements): there
\* is one group exactly while announceRunning is set, and whatever waits has a group to take it.
THEOREM OneGroup == Spec => []HandOff
BY InitHandOff, NextHandOff, PTL DEF Spec

(****************************************************************************)
(* The play times.                                                          *)
(****************************************************************************)
ValidRows == {r \in Row : ValidRow(r)}

\* Whole days and whole intervals: rounding down to a multiple keeps the order.
LEMMA Multiples ==
  ASSUME NEW n \in Nat \ {0}, NEW x \in Int
  PROVE  /\ x \div n \in Int /\ (x \div n) * n \in Int
         /\ (x \div n) * n <= x /\ x < (x \div n) * n + n
<1>1. x \div n \in Int /\ x % n \in 0..(n - 1) /\ x = n * (x \div n) + (x % n)   OBVIOUS
<1>2. n * (x \div n) = (x \div n) * n   BY <1>1
<1> QED BY <1>1, <1>2

LEMMA MultiplesKeepOrder ==
  ASSUME NEW n \in Nat \ {0}, NEW x \in Int, NEW y \in Int, x <= y
  PROVE  /\ x \div n <= y \div n /\ (x \div n) * n <= (y \div n) * n
         /\ x \div n < y \div n => x < (y \div n) * n
<1> DEFINE p == x \div n
           q == y \div n
<1>1. /\ p \in Int /\ q \in Int /\ p * n <= x /\ x < p * n + n /\ q * n <= y /\ y < q * n + n
      /\ p * n \in Int /\ q * n \in Int
      BY Multiples
<1> HIDE DEF p, q
<1>2. \A i, j \in Int : i < j => i * n + n <= j * n
  <2> SUFFICES ASSUME NEW i \in Int, NEW j \in Int, i < j PROVE i * n + n <= j * n   OBVIOUS
  <2>1. PICK k \in Nat : j = i + 1 + k   BY j - i - 1 \in Nat, j = i + 1 + (j - i - 1)
  <2>2. j * n = i * n + n + k * n   BY <2>1
  <2>3. k * n \in Nat /\ i * n \in Int   OBVIOUS
  <2> QED BY <2>2, <2>3
<1>3. p <= q
  <2> SUFFICES ASSUME q < p PROVE FALSE   BY <1>1
  <2> QED BY <1>1, <1>2
<1>4. p * n <= q * n
  <2>1. CASE p = q   BY <1>1, <2>1
  <2>2. CASE p < q   BY <1>1, <1>2, <2>2
  <2> QED BY <1>1, <1>3, <2>1, <2>2
<1>5. p < q => x < q * n   BY <1>1, <1>2
<1> QED BY <1>3, <1>4, <1>5 DEF p, q

\* The time a row gives at t is on the day of t and not after t.
LEMMA SlotOfDay ==
  ASSUME NEW r \in ValidRows, NEW t \in Nat, LastSlot(r, t) # NoTime
  PROVE  LastSlot(r, t) \in 0..t /\ DayOf(t) * DayLength <= LastSlot(r, t)
<1> DEFINE day == DayOf(t) * DayLength
<1>1. day \in Nat /\ day <= t
  <2>1. t \div DayLength \in Nat   BY DayLengthAssumption
  <2>2. (t \div DayLength) * DayLength \in Nat   BY <2>1, DayLengthAssumption
  <2> QED BY <2>2, Multiples, DayLengthAssumption DEF DayOf
<1>2. /\ r.at \in Nat /\ r.first \in Nat /\ r.last \in Nat /\ r.mode \in {"at", "every"}
      /\ r.mode = "every" => r.every \in Nat \ {0}
      BY DayLengthAssumption DEF ValidRows, ValidRow, Row, Minutes
<1>3. CASE r.mode = "every"
  <2> DEFINE first == day + r.first
             slot  == first + ((t - first) \div r.every) * r.every
  <2>1. LastSlot(r, t) = LastSlotEvery(r, t)   BY <1>3 DEF LastSlot
  <2>2. LastSlot(r, t) = slot /\ t >= first
        BY <1>1, <1>2, <2>1 DEF LastSlotEvery, AtTime
  <2>3. /\ ((t - first) \div r.every) * r.every \in Int
        /\ ((t - first) \div r.every) * r.every <= t - first
    <3>1. t - first \in Int /\ r.every \in Nat \ {0}   BY <1>1, <1>2, <1>3
    <3> HIDE DEF first
    <3> QED BY <3>1, Multiples
  <2>4. 0 <= ((t - first) \div r.every) * r.every
    <3>1. 0 \div r.every = 0   BY <1>2, <1>3
    <3>2. 0 <= t - first /\ t - first \in Int   BY <1>1, <1>2, <2>2
    <3>3. (0 \div r.every) * r.every <= ((t - first) \div r.every) * r.every
          BY <1>2, <1>3, <3>2, MultiplesKeepOrder
    <3> QED BY <1>2, <1>3, <3>1, <3>3
  <2> HIDE DEF day
  <2> QED BY <1>1, <1>2, <2>2, <2>3, <2>4 DEF day
<1>4. CASE r.mode # "every"
      BY <1>1, <1>2, <1>4 DEF LastSlot, AtTime
<1> QED BY <1>3, <1>4

\* As time goes on the time a row gives never goes back.
LEMMA SlotsKeepOrder ==
  ASSUME NEW r \in ValidRows, NEW t \in Nat, NEW u \in Nat, t <= u,
         LastSlot(r, t) # NoTime, LastSlot(r, u) # NoTime
  PROVE  LastSlot(r, t) <= LastSlot(r, u)
<1>1. /\ LastSlot(r, t) \in 0..t /\ LastSlot(r, u) \in 0..u
      /\ DayOf(u) * DayLength <= LastSlot(r, u)
      BY SlotOfDay
<1>2. /\ DayOf(t) <= DayOf(u)
      /\ DayOf(t) < DayOf(u) => t < DayOf(u) * DayLength
      /\ DayOf(t) \in Int /\ DayOf(u) \in Int /\ DayOf(u) * DayLength \in Int
      BY MultiplesKeepOrder, Multiples, DayLengthAssumption DEF DayOf
<1>3. CASE DayOf(t) < DayOf(u)   BY <1>1, <1>2, <1>3
<1>4. CASE DayOf(t) = DayOf(u)
  <2> DEFINE first == DayOf(t) * DayLength + r.first
  <2>1. /\ r.at \in Nat /\ r.first \in Nat /\ r.mode \in {"at", "every"}
        /\ r.mode = "every" => r.every \in Nat \ {0}
        BY DayLengthAssumption DEF ValidRows, ValidRow, Row, Minutes
  <2>2. first \in Int   BY <1>2, <1>4, <2>1
  <2>3. CASE r.mode = "every"
    <3>1. /\ LastSlot(r, t) = first + ((t - first) \div r.every) * r.every
          /\ LastSlot(r, u) = first + ((u - first) \div r.every) * r.every
          BY <1>4, <2>3 DEF LastSlot, LastSlotEvery, AtTime
    <3>2. ((t - first) \div r.every) * r.every <= ((u - first) \div r.every) * r.every
          BY <2>1, <2>2, <2>3, MultiplesKeepOrder
    <3>3. /\ ((t - first) \div r.every) * r.every \in Int
          /\ ((u - first) \div r.every) * r.every \in Int
          BY <2>1, <2>2, <2>3, Multiples
    <3> HIDE DEF first
    <3> QED BY <2>2, <3>1, <3>2, <3>3
  <2>4. CASE r.mode # "every"   BY <1>1, <1>4, <2>4 DEF LastSlot, AtTime
  <2> QED BY <2>3, <2>4
<1> QED BY <1>2, <1>3, <1>4

\* What a play changes in a row is not what its times are made of.
LEMMA SameTimesSameSlots ==
  ASSUME NEW r \in Row, NEW q \in Row, SameTimes(r, q), NEW t
  PROVE  LastSlot(r, t) = LastSlot(q, t)
BY DEF SameTimes, TimesOf, LastSlot, LastSlotEvery

(****************************************************************************)
(* The shape of the state.  Only a group that prepares holds requests that  *)
(* are not in the queue of MPD, and the row it read is that of the first.   *)
(****************************************************************************)
Tables == [Anns -> ValidRows \cup {Gone}]
Read == [ann : Anns, cycle : Nat, source : DOMAIN FileCount, same : BOOLEAN]

Typed ==
  /\ time \in 0..Horizon
  /\ table \in Tables
  /\ checker \in [at : {"idle", "listed"}, list : Tables]
  /\ taken \in [Anns -> {NoTime} \cup (0..Horizon)]
  /\ waiting \in Seq(Request) /\ list \in Seq(Request)
  /\ ready \in Seq(Request) /\ queued \in Seq(Request)
  /\ pc \notin {"prepare", "mark"} => list = <<>> /\ ready = <<>>
  /\ pc = "mark" => list # <<>> /\ got \in Read /\ got.ann = Head(list).ann
  /\ asked \in SUBSET Times

\* What a check asks for: requests for different announcements, each one due by the table it read.
\* A test play asks without a time.
Fresh(new) ==
  /\ new \in Seq(Request)
  /\ \A i, j \in DOMAIN new : i # j => new[i].ann # new[j].ann
  /\ \A i \in DOMAIN new :
       new[i].due # Test =>
         /\ checker.at = "listed" /\ checker.list[new[i].ann] # Gone
         /\ new[i].due = AnnouncementDue(checker.list[new[i].ann], time)
         /\ New(new[i])

LEMMA CheckIsFresh ==
  ASSUME Typed, CheckAsk
  PROVE  \E new : Fresh(new) /\ Requested(new)
<1> DEFINE due == Due(checker.list)
<1>1. PICK order \in InOrder(due) :
        Requested([i \in DOMAIN order |-> Wanted(checker.list, order[i])])
      BY DEF CheckAsk
<1> DEFINE new == [i \in DOMAIN order |-> Wanted(checker.list, order[i])]
<1>2. IsFiniteSet(due) /\ due \subseteq Nat /\ due \subseteq Anns
      BY AnnsAssumption, FS_Subset DEF Due
<1>3. Cardinality(due) \in Nat   BY <1>2, FS_CardinalityType
<1> HIDE DEF due
<1>4. /\ DOMAIN order = 1..Cardinality(due) /\ \A i \in DOMAIN order : order[i] \in due
      /\ \A i, j \in DOMAIN order : i # j => order[i] # order[j]
  <2>1. order \in [1..Cardinality(due) -> due]   BY DEF InOrder
  <2>2. \A i, j \in DOMAIN order : i < j => order[i] < order[j]   BY DEF InOrder
  <2>3. DOMAIN order = 1..Cardinality(due) /\ \A i \in DOMAIN order : order[i] \in due   BY <2>1
  <2>4. \A i, j \in DOMAIN order : i # j => i < j \/ j < i   BY <1>3, <2>3
  <2>5. \A i, j \in DOMAIN order : order[i] < order[j] => order[i] # order[j]
    <3>1. \A m \in Nat, n \in Nat : m < n => m # n   OBVIOUS
    <3>2. \A i \in DOMAIN order : order[i] \in Nat   BY <1>2, <2>3
    <3> QED BY <3>1, <3>2
  <2> QED BY <2>2, <2>3, <2>4, <2>5
<1>5. \A a \in due : /\ Wanted(checker.list, a) \in Request /\ New(Wanted(checker.list, a))
                     /\ checker.list[a] # Gone
  <2> SUFFICES ASSUME NEW a \in due
               PROVE  /\ Wanted(checker.list, a) \in Request /\ New(Wanted(checker.list, a))
                      /\ checker.list[a] # Gone
      OBVIOUS
  <2>1. /\ a \in Anns /\ checker.list[a] # Gone /\ AnnouncementDue(checker.list[a], time) # NoTime
        /\ New(Wanted(checker.list, a))
        BY DEF due, Due
  <2>2. checker.list[a] \in ValidRows   BY <2>1 DEF Typed, Tables
  <2>3. AnnouncementDue(checker.list[a], time) \in 0..Horizon
    <3>1. AnnouncementDue(checker.list[a], time) = LastSlot(checker.list[a], time)
          BY <2>1 DEF AnnouncementDue
    <3>2. time \in Nat /\ time <= Horizon   BY HorizonAssumption DEF Typed
    <3>3. LastSlot(checker.list[a], time) \in 0..time   BY <2>1, <2>2, <3>1, <3>2, SlotOfDay
    <3> QED BY <3>1, <3>2, <3>3, HorizonAssumption
  <2>4. checker.list[a].cycle \in Nat   BY <2>2 DEF ValidRows, Row
  <2> QED BY <2>1, <2>3, <2>4 DEF Wanted, Request
<1>6. new \in Seq(Request)   BY <1>3, <1>4, <1>5
<1>7. \A i \in DOMAIN new : /\ new[i] = Wanted(checker.list, order[i]) /\ new[i].ann = order[i]
                            /\ order[i] \in due /\ i \in DOMAIN order
      BY <1>4 DEF Wanted
<1> HIDE DEF new
<1>8. \A i \in DOMAIN new : /\ checker.list[new[i].ann] # Gone
                            /\ new[i].due = AnnouncementDue(checker.list[new[i].ann], time)
                            /\ New(new[i])
      BY <1>5, <1>7 DEF Wanted
<1>9. \A i, j \in DOMAIN new : i # j => new[i].ann # new[j].ann   BY <1>4, <1>7
<1>10. Fresh(new)   BY <1>6, <1>8, <1>9 DEF Fresh, CheckAsk
<1> QED BY <1>1, <1>10 DEF new

LEMMA TestIsFresh ==
  ASSUME Typed, NEW a \in Anns, TestPlay(a)
  PROVE  \E new : Fresh(new) /\ Requested(new) /\ Slots(new) = {}
<1> DEFINE d == [ann |-> a, due |-> Test, cycle |-> table[a].cycle]
<1>1. d \in Request
  <2>1. table[a] \in ValidRows   BY DEF TestPlay, Existing, Typed, Tables
  <2> QED BY <2>1 DEF Request, ValidRows, Row
<1>2. Fresh(<<d>>)   BY <1>1 DEF Fresh
<1>3. Slots(<<d>>) = {}   BY DEF Slots, Items
<1> QED BY <1>2, <1>3 DEF TestPlay

\* What addAnnouncements does to announceTaken and to the waiting list.
LEMMA AskedFor ==
  ASSUME Typed, NEW new, Fresh(new), Requested(new)
  PROVE  /\ waiting' = waiting \o new /\ waiting' \in Seq(Request)
         /\ asked' = asked \cup Slots(new) /\ Slots(new) \in SUBSET Times
         /\ taken' \in [Anns -> {NoTime} \cup (0..Horizon)]
         /\ \A a \in Anns, s \in 0..Horizon : <<a, s>> \in Slots(new) => taken'[a] = s
         /\ \A a \in Anns : (\A s \in 0..Horizon : <<a, s>> \notin Slots(new)) => taken'[a] = taken[a]
<1>1. new \in Seq(Request) /\ waiting \in Seq(Request)   BY DEF Fresh, Typed
<1>2. \A d \in Request : d.ann \in Anns /\ (d.due # Test => d.due \in 0..Horizon)   BY DEF Request
<1>3. \A s \in Slots(new) : \E i \in DOMAIN new :
         s = <<new[i].ann, new[i].due>> /\ new[i].due # Test /\ new[i] \in Request
      BY <1>1 DEF Slots, Items
<1>4. Slots(new) \in SUBSET Times   BY <1>2, <1>3 DEF Times
<1>5. \A s, u \in Slots(new) : s[1] = u[1] => s = u   BY <1>3 DEF Fresh
<1>6. \A s \in Slots(new) : s[1] \in Anns /\ s[2] \in 0..Horizon /\ s = <<s[1], s[2]>>
      BY <1>4 DEF Times
<1>7. ASSUME NEW a \in Anns, NEW s \in Slots(new), s[1] = a
      PROVE  taken'[a] = s[2]
  <2>1. (CHOOSE u \in Slots(new) : u[1] = a) = s   BY <1>5, <1>7
  <2> QED BY <1>7, <2>1 DEF Requested
<1>8. ASSUME NEW a \in Anns, \A s \in Slots(new) : s[1] # a
      PROVE  taken'[a] = taken[a]
      BY <1>8 DEF Requested
<1>9. taken' \in [Anns -> {NoTime} \cup (0..Horizon)]
  <2>1. taken' = [a \in Anns |-> taken'[a]]   BY DEF Requested
  <2>2. \A a \in Anns : taken'[a] \in {NoTime} \cup (0..Horizon)
        BY <1>6, <1>7, <1>8 DEF Typed
  <2> QED BY <2>1, <2>2
<1> QED BY <1>1, <1>4, <1>6, <1>7, <1>8, <1>9 DEF Requested

\* InOrder numbers the members of a set of numbers from one on.
LEMMA InOrderIsSeq ==
  ASSUME NEW S \in SUBSET Nat, IsFiniteSet(S), NEW f \in InOrder(S)
  PROVE  /\ f \in Seq(S) /\ DOMAIN f = 1..Cardinality(S) /\ Cardinality(S) \in Nat
         /\ \A i, j \in DOMAIN f : i < j => f[i] < f[j]
<1>1. Cardinality(S) \in Nat   BY FS_CardinalityType
<1>2. f \in [1..Cardinality(S) -> S] /\ \A i, j \in DOMAIN f : i < j => f[i] < f[j]   BY DEF InOrder
<1> QED BY <1>1, <1>2

\* Those of a list whose InsertNext succeeded, in the order of the list.
LEMMA KeptOfReady ==
  ASSUME NEW s \in Seq(Request), NEW lost \in SUBSET DOMAIN s,
         NEW kept \in InOrder(DOMAIN s \ lost)
  PROVE  /\ kept \in Seq(DOMAIN s \ lost) /\ \A i, j \in DOMAIN kept : i < j => kept[i] < kept[j]
         /\ AtPlaces(s, kept) \in Seq(Request)
<1>1. IsFiniteSet(DOMAIN s \ lost) /\ DOMAIN s \ lost \in SUBSET Nat
  <2>1. IsFiniteSet(1..Len(s)) /\ DOMAIN s = 1..Len(s) /\ Len(s) \in Nat
        BY FS_Interval
  <2> QED BY <2>1, FS_Subset
<1>2. /\ kept \in Seq(DOMAIN s \ lost) /\ \A i, j \in DOMAIN kept : i < j => kept[i] < kept[j]
      /\ DOMAIN kept = 1..Cardinality(DOMAIN s \ lost) /\ Cardinality(DOMAIN s \ lost) \in Nat
      BY <1>1, InOrderIsSeq
<1> DEFINE n == Cardinality(DOMAIN s \ lost)
           t == [i \in DOMAIN kept |-> s[kept[i]]]
<1>3. \A i \in DOMAIN kept : s[kept[i]] \in Request
  <2>1. \A i \in DOMAIN kept : kept[i] \in DOMAIN s   BY <1>2
  <2>2. \A k \in DOMAIN s : s[k] \in Request   OBVIOUS
  <2> QED BY <2>1, <2>2
<1>4. n \in Nat /\ t \in [1..n -> Request]   BY <1>2, <1>3
<1> HIDE DEF n, t
<1>5. t \in Seq(Request)   BY <1>4
<1> QED BY <1>2, <1>5 DEF t, AtPlaces

LEMMA InitTyped == Init => Typed
<1> SUFFICES ASSUME Init PROVE Typed   OBVIOUS
<1>1. table \in Tables
      BY TableAssumption DEF Init, Tables, ValidRows
<1>2. checker \in [at : {"idle", "listed"}, list : Tables]
      BY DEF Init, Idle, Tables
<1>3. time \in 0..Horizon   BY HorizonAssumption DEF Init
<1> QED BY <1>1, <1>2, <1>3 DEF Init, Typed

\* Asking does not touch what the group holds; a request starts the group when there is none.
LEMMA AskTyped ==
  ASSUME Typed, HandOff, NEW new, Fresh(new), Requested(new),
         UNCHANGED <<time, table, joining, list, got, ready, queued>>,
         checker' \in {checker, Idle}
  PROVE  Typed'
<1>1. /\ waiting' \in Seq(Request) /\ asked' \in SUBSET Times
      /\ taken' \in [Anns -> {NoTime} \cup (0..Horizon)]
      BY AskedFor DEF Typed
<1>2. checker' \in [at : {"idle", "listed"}, list : Tables]
      BY DEF Typed, Idle, Tables
<1>3. pc' = pc \/ (pc = "idle" /\ pc' = "take")   BY DEF Requested, HandOff
<1> QED BY <1>1, <1>2, <1>3 DEF Typed

\* People change rows into rows.
LEMMA EditTyped ==
  ASSUME Typed, NEW a \in Anns, NEW r \in Rows, Update(a, r) \/ Create(r)
  PROVE  Typed'
<1>1. r \in ValidRows   BY RowsAssumption DEF ValidRows, ValidRow
<1>2. \A x \in ValidRows, c \in Nat, p \in {NoTime} \cup Nat :
         [x EXCEPT !.cycle = c, !.played = p] \in ValidRows
      BY DEF ValidRows, ValidRow, Row
<1>3. \A x \in ValidRows : x.cycle \in Nat /\ x.played \in {NoTime} \cup Nat
      BY DEF ValidRows, Row
<1>4. ASSUME table' \in Tables, got' \in {got, [got EXCEPT !.same = FALSE]},
             UNCHANGED <<time, checked, checker, requests, pc, joining, list, ready, queued, asked>>
      PROVE  Typed'
  <2>1. got \in Read => got' \in Read /\ got'.ann = got.ann   BY <1>4 DEF Read
  <2> QED BY <1>4, <2>1 DEF Typed, requests
<1>6. CASE Update(a, r)
  <2> DEFINE c == IF r.source = table[a].source THEN table[a].cycle ELSE 0
             q == [r EXCEPT !.played = table[a].played, !.cycle = c]
  <2>1. table[a] \in ValidRows   BY <1>6 DEF Update, Existing, Typed, Tables
  <2>2. c \in Nat /\ table[a].played \in {NoTime} \cup Nat   BY <1>3, <2>1
  <2>3. q = [r EXCEPT !.cycle = c, !.played = table[a].played]   BY <1>1 DEF ValidRows, Row
  <2>4. q \in ValidRows   BY <1>1, <1>2, <2>2, <2>3
  <2>5. table' = [table EXCEPT ![a] = q]   BY <1>6 DEF Update, Edited
  <2> HIDE DEF c, q
  <2>6. table' \in Tables   BY <2>4, <2>5 DEF Typed, Tables
  <2> QED BY <1>4, <1>6, <2>6 DEF Update, Edited, Replaced
<1>7. CASE Create(r)
  <2> DEFINE b == Max({0} \cup Existing) + 1
             q == [r EXCEPT !.cycle = 0, !.played = NoTime]
  <2>1. b \in Anns /\ q \in ValidRows /\ table' = [table EXCEPT ![b] = q]
        BY <1>1, <1>2, <1>7 DEF Create, Edited
  <2> HIDE DEF b, q
  <2>2. table' \in Tables   BY <2>1 DEF Typed, Tables
  <2> QED BY <1>4, <1>7, <2>2 DEF Create, Edited, Replaced
<1> QED BY <1>6, <1>7

\* The row after a play.
LEMMA MarkedRow ==
  ASSUME Typed, pc = "mark", NEW r \in ValidRows, NEW d \in Request
  PROVE  /\ NextCycle(got) \in Nat
         /\ MarkAnnouncement(r, d.due, NextCycle(got)) \in ValidRows
         /\ SameTimes(MarkAnnouncement(r, d.due, NextCycle(got)), r)
         /\ MarkAnnouncement(r, d.due, NextCycle(got)).cycle = NextCycle(got)
         /\ MarkAnnouncement(r, d.due, NextCycle(got)).played =
              IF d.due = Test THEN r.played ELSE d.due
<1> DEFINE next == NextCycle(got)
<1>1. next \in Nat
  <2>1. got.cycle \in Nat /\ FileCount[got.source] \in Nat \ {0}
        BY FilesAssumption DEF Typed, Read
  <2> QED BY <2>1 DEF NextCycle
<1>2. d.due \in {NoTime} \cup Nat   BY HorizonAssumption DEF Request, Test
<1> HIDE DEF next
<1> DEFINE q == MarkAnnouncement(r, d.due, next)
<1>3. q \in Row /\ q.cycle = next /\ q.played = IF d.due = Test THEN r.played ELSE d.due
  <2>1. CASE d.due = Test
        BY <1>1, <2>1 DEF MarkAnnouncement, SetAnnouncementCycle, ValidRows, Row
  <2>2. CASE d.due # Test
        BY <1>1, <1>2, <2>2 DEF MarkAnnouncement, MarkAnnouncementPlayed, ValidRows, Row
  <2> QED BY <2>1, <2>2
<1>4. /\ q.enabled = r.enabled /\ q.days = r.days /\ q.mode = r.mode /\ q.at = r.at
      /\ q.first = r.first /\ q.last = r.last /\ q.every = r.every
  <2>1. CASE d.due = Test
        BY <2>1 DEF MarkAnnouncement, SetAnnouncementCycle, ValidRows, Row
  <2>2. CASE d.due # Test
        BY <2>2 DEF MarkAnnouncement, MarkAnnouncementPlayed, ValidRows, Row
  <2> QED BY <2>1, <2>2
<1> HIDE DEF q
<1>5. r \in Row /\ (r.mode = "every" => r.every >= 1 /\ r.last > r.first)
      BY DEF ValidRows, ValidRow
<1>6. q \in ValidRows   BY <1>3, <1>4, <1>5 DEF ValidRows, ValidRow
<1>7. SameTimes(q, r)    BY <1>4 DEF SameTimes, TimesOf
<1> QED BY <1>1, <1>3, <1>6, <1>7 DEF next, q

\* One step of the group takes the first request away, marks it, or moves what is ready on.
LEMMA GroupTyped == ASSUME Typed, Group \/ Failures PROVE Typed'
<1>1. /\ list # <<>> => Head(list) \in Request /\ Tail(list) \in Seq(Request)
      /\ queued # <<>> => Head(queued) \in Request /\ Tail(queued) \in Seq(Request)
      BY HeadTailProperties DEF Typed
<1>2. ASSUME NEW d \in Request, Forget(d) PROVE taken' \in [Anns -> {NoTime} \cup (0..Horizon)]
      BY <1>2 DEF Forget, Typed
<1>3. CASE GroupTake   BY <1>3 DEF GroupTake, Typed
<1>4. CASE GroupJoin   BY <1>4 DEF GroupJoin, Typed
<1>5. CASE GroupGet
  <2>1. pc = "prepare" /\ list # <<>> /\ Head(list) \in Request   BY <1>1, <1>5 DEF GroupGet
  <2>2. CASE table[Head(list).ann] = Gone
        BY <1>1, <1>5, <2>1, <2>2 DEF GroupGet, Typed, requests
  <2>3. CASE table[Head(list).ann] # Gone
    <3>1. table[Head(list).ann] \in ValidRows   BY <2>1, <2>3 DEF Typed, Tables, Request
    <3>2. got' \in Read /\ got'.ann = Head(list).ann
      <4> DEFINE row == table[Head(list).ann]
      <4>1. got' = [ann |-> Head(list).ann, cycle |-> row.cycle, source |-> row.source, same |-> TRUE]
            BY <1>5, <2>3 DEF GroupGet
      <4>2. row.cycle \in Nat /\ row.source \in DOMAIN FileCount   BY <3>1 DEF ValidRows, Row
      <4>3. Head(list).ann \in Anns   BY <2>1 DEF Request
      <4> HIDE DEF row
      <4> QED BY <4>1, <4>2, <4>3 DEF Read
    <3> QED BY <1>5, <2>1, <2>3, <3>2 DEF GroupGet, Typed, requests
  <2> QED BY <2>2, <2>3
<1>6. CASE GroupMark
  <2>1. pc = "mark" /\ list # <<>> /\ Head(list) \in Request   BY <1>1, <1>6 DEF GroupMark, Typed
  <2>2. table' \in Tables
    <3> DEFINE d == Head(list)
    <3>1. CASE table[d.ann] = Gone   BY <1>6, <3>1 DEF GroupMark, Typed
    <3>2. CASE table[d.ann] # Gone
      <4>1. table[d.ann] \in ValidRows   BY <2>1, <3>2 DEF Typed, Tables, Request
      <4>2. MarkAnnouncement(table[d.ann], d.due, NextCycle(got)) \in ValidRows
            BY <2>1, <4>1, MarkedRow
      <4>3. table' = [table EXCEPT ![d.ann] = MarkAnnouncement(table[d.ann], d.due, NextCycle(got))]
            BY <1>6, <3>2 DEF GroupMark
      <4> QED BY <4>2, <4>3 DEF Typed, Tables
    <3> QED BY <3>1, <3>2
  <2>3. ready' \in Seq(Request)   BY <1>6, <2>1, AppendProperties DEF GroupMark, Typed
  <2> QED BY <1>1, <1>6, <2>1, <2>2, <2>3 DEF GroupMark, Typed, requests
<1>7. CASE GroupQueue
  <2>1. PICK lost \in SUBSET DOMAIN ready :
          /\ taken' = [a \in Anns |->
               IF \E i \in lost : ready[i].ann = a /\ ready[i].due = taken[a]
               THEN NoTime ELSE taken[a]]
          /\ \E kept \in InOrder(DOMAIN ready \ lost) :
               queued' = queued \o AtPlaces(ready, kept)
        BY <1>7 DEF GroupQueue
  <2>2. queued' \in Seq(Request)
    <3>1. PICK kept \in InOrder(DOMAIN ready \ lost) :
            queued' = queued \o AtPlaces(ready, kept)
          BY <2>1
    <3>2. ready \in Seq(Request) /\ queued \in Seq(Request)   BY DEF Typed
    <3>3. AtPlaces(ready, kept) \in Seq(Request)   BY <3>2, KeptOfReady
    <3> QED BY <3>1, <3>2, <3>3, ConcatProperties
  <2>3. taken' \in [Anns -> {NoTime} \cup (0..Horizon)]   BY <2>1 DEF Typed
  <2> QED BY <1>7, <2>2, <2>3 DEF GroupQueue, Typed
<1>8. CASE GroupNothingReady   BY <1>8 DEF GroupNothingReady, Typed, requests
<1>9. CASE GroupHears          BY <1>1, <1>9 DEF GroupHears, Typed, requests
<1>10. CASE GroupEnds          BY <1>10 DEF GroupEnds, Typed, requests
<1>11. CASE CheckFails         BY <1>11 DEF CheckFails, Typed, requests, group
<1>12. CASE PrepareFails
  <2>1. taken' \in [Anns -> {NoTime} \cup (0..Horizon)]   BY <1>1, <1>2, <1>12 DEF PrepareFails
  <2> QED BY <1>1, <1>12, <2>1 DEF PrepareFails, Typed
<1>13. CASE GroupSkips         BY <1>1, <1>13 DEF GroupSkips, Typed, requests
<1>14. CASE GroupCut
  <2>1. taken' \in [Anns -> {NoTime} \cup (0..Horizon)]   BY <1>14 DEF GroupCut, Typed
  <2> QED BY <1>14, <2>1 DEF GroupCut, Typed
<1> QED BY <1>3, <1>4, <1>5, <1>6, <1>7, <1>8, <1>9, <1>10, <1>11, <1>12, <1>13, <1>14
        DEF Group, Failures

LEMMA NextTyped == ASSUME Typed, HandOff, [Next]_vars PROVE Typed'
<1>1. CASE CheckList
      BY <1>1 DEF CheckList, Typed, requests, group
<1>2. CASE CheckAsk
  <2>1. PICK new : Fresh(new) /\ Requested(new)   BY <1>2, CheckIsFresh
  <2> QED BY <1>2, <2>1, AskTyped DEF CheckAsk
<1>3. ASSUME NEW a \in Anns, TestPlay(a) PROVE Typed'
  <2>1. PICK new : Fresh(new) /\ Requested(new)   BY <1>3, TestIsFresh
  <2> QED BY <1>3, <2>1, AskTyped DEF TestPlay
<1>4. ASSUME NEW a \in Anns, NEW r \in Rows, Update(a, r) \/ Create(r) PROVE Typed'
      BY <1>4, EditTyped
<1>5. ASSUME NEW a \in Anns, Delete(a) PROVE Typed'
  <2>1. table' \in Tables   BY <1>5 DEF Delete, Edited, Typed, Tables
  <2>2. got \in Read => got' \in Read /\ got'.ann = got.ann
        BY <1>5 DEF Delete, Replaced, Read
  <2> QED BY <1>5, <2>1, <2>2 DEF Delete, Edited, Typed, requests
<1>6. ASSUME NEW r \in Rows, Create(r) PROVE Typed'
  <2>1. PICK a \in Anns : TRUE   BY <1>6 DEF Create
  <2> QED BY <1>4, <1>6, <2>1
<1>7. CASE People   BY <1>3, <1>4, <1>5, <1>6, <1>7 DEF People
<1>8. CASE Group \/ Failures   BY <1>8, GroupTyped
<1>9. CASE Minute   BY <1>9, HorizonAssumption DEF Minute, Typed, requests, group
<1>10. CASE Kill    BY <1>10 DEF Kill, Typed, Idle, Tables
<1>11. CASE UNCHANGED vars   BY <1>11 DEF vars, Typed, requests, group
<1> QED BY <1>1, <1>2, <1>7, <1>8, <1>9, <1>10, <1>11 DEF Next, Check

LEMMA AlwaysTyped == Spec => [](Typed /\ HandOff)
<1>1. Init => Typed /\ HandOff   BY InitTyped, InitHandOff
<1>2. Typed /\ HandOff /\ [Next]_vars => (Typed /\ HandOff)'   BY NextTyped, NextHandOff
<1> QED BY <1>1, <1>2, PTL DEF Spec

(****************************************************************************)
(* Cycles.                                                                  *)
(****************************************************************************)
\* The row that the group read is the row in the table, so long as no person replaced it.
GotRow ==
  pc = "mark" /\ got.same /\ table[got.ann] # Gone =>
    table[got.ann].cycle = got.cycle /\ table[got.ann].source = got.source

LEMMA EditGotRow ==
  ASSUME Typed, GotRow, NEW a \in Anns, NEW r,
         (Update(a, r) /\ r \in Rows) \/ Delete(a) \/ Create(r)
  PROVE  GotRow'
<1> SUFFICES ASSUME pc' = "mark", got'.same, table'[got'.ann] # Gone
             PROVE  table'[got'.ann].cycle = got'.cycle /\ table'[got'.ann].source = got'.source
    BY DEF GotRow
<1>1. pc = "mark"   BY DEF Update, Delete, Create, Edited
<1>2. got \in Read   BY <1>1 DEF Typed
<1>3. ASSUME NEW b \in Anns, NEW row, table' = [table EXCEPT ![b] = row], Replaced(b)
      PROVE  table'[got'.ann].cycle = got'.cycle /\ table'[got'.ann].source = got'.source
  <2>1. got.ann # b /\ got' = got   BY <1>2, <1>3 DEF Replaced, Read
  <2>2. table'[got.ann] = table[got.ann]   BY <1>2, <1>3, <2>1 DEF Typed, Tables, Read
  <2> QED BY <1>1, <2>1, <2>2 DEF GotRow
<1>4. CASE Delete(a)   BY <1>3, <1>4 DEF Delete, Edited
<1>5. CASE Create(r)   BY <1>3, <1>5 DEF Create, Edited
<1>6. CASE Update(a, r) /\ r \in Rows
  <2> DEFINE c == IF r.source = table[a].source THEN table[a].cycle ELSE 0
             q == [r EXCEPT !.played = table[a].played, !.cycle = c]
  <2>1. table' = [table EXCEPT ![a] = q]   BY <1>6 DEF Update, Edited
  <2>2. CASE r.source # table[a].source   BY <1>3, <1>6, <2>1, <2>2 DEF Update
  <2>3. CASE r.source = table[a].source
    <3>1. got' = got   BY <1>6, <2>3 DEF Update
    <3>2. CASE got.ann = a
      <4>1. table[a] # Gone /\ table[a].cycle = got.cycle /\ table[a].source = got.source
            BY <1>1, <1>6, <3>1, <3>2 DEF GotRow, Update, Existing
      <4>2. r \in Row   BY <1>6, RowsAssumption DEF ValidRow
      <4>3. q.cycle = c /\ q.source = r.source   BY <4>2 DEF Row
      <4>4. table'[a] = q   BY <2>1 DEF Typed, Tables
      <4> HIDE DEF q
      <4> QED BY <2>3, <3>1, <3>2, <4>1, <4>3, <4>4
    <3>3. CASE got.ann # a
      <4>1. table'[got.ann] = table[got.ann]   BY <1>2, <2>1, <3>3 DEF Typed, Tables, Read
      <4> QED BY <1>1, <3>1, <4>1 DEF GotRow
    <3> QED BY <3>2, <3>3
  <2> QED BY <2>2, <2>3
<1> QED BY <1>4, <1>5, <1>6

LEMMA NextGotRow == ASSUME Typed, HandOff, GotRow, [Next]_vars PROVE GotRow'
<1>1. ASSUME UNCHANGED <<pc, got, table>> PROVE GotRow'   BY <1>1 DEF GotRow
<1>2. ASSUME pc' # "mark" PROVE GotRow'   BY <1>2 DEF GotRow
<1>3. ASSUME NEW new, Requested(new), UNCHANGED <<got, table>> PROVE GotRow'
  <2>1. pc' = pc \/ pc' = "take"   BY <1>3 DEF Requested
  <2> QED BY <1>1, <1>2, <1>3, <2>1
<1>4. CASE Check
  <2>1. CASE CheckList   BY <1>1, <2>1 DEF CheckList, group
  <2>2. CASE CheckAsk    BY <1>3, <2>2 DEF CheckAsk
  <2> QED BY <1>4, <2>1, <2>2 DEF Check
<1>5. CASE People
  <2>1. ASSUME NEW a \in Anns, TestPlay(a) PROVE GotRow'   BY <1>3, <2>1 DEF TestPlay
  <2>2. ASSUME NEW a \in Anns, Delete(a) PROVE GotRow'   BY <2>2, EditGotRow
  <2>3. ASSUME NEW a \in Anns, NEW r \in Rows, Update(a, r) PROVE GotRow'   BY <2>3, EditGotRow
  <2>4. ASSUME NEW r \in Rows, Create(r) PROVE GotRow'
    <3>1. PICK a \in Anns : TRUE   BY <2>4 DEF Create
    <3> QED BY <2>4, <3>1, EditGotRow
  <2> QED BY <1>5, <2>1, <2>2, <2>3, <2>4 DEF People
<1>6. CASE Group
  <2>1. CASE GroupGet
    <3>1. pc = "prepare" /\ list # <<>> /\ list \in Seq(Request)   BY <2>1 DEF GroupGet, Typed
    <3>2. CASE table[Head(list).ann] = Gone   BY <1>2, <2>1, <3>1, <3>2 DEF GroupGet
    <3>3. CASE table[Head(list).ann] # Gone
          BY <2>1, <3>3 DEF GroupGet, GotRow
    <3> QED BY <3>2, <3>3
  <2>2. CASE GroupTake           BY <1>2, <2>2 DEF GroupTake
  <2>3. CASE GroupJoin           BY <1>2, <2>3 DEF GroupJoin
  <2>4. CASE GroupMark           BY <1>2, <2>4 DEF GroupMark
  <2>5. CASE GroupQueue          BY <1>2, <2>5 DEF GroupQueue
  <2>6. CASE GroupNothingReady   BY <1>2, <2>6 DEF GroupNothingReady
  <2>7. CASE GroupHears          BY <1>1, <2>7 DEF GroupHears
  <2>8. CASE GroupEnds           BY <1>2, <2>8 DEF GroupEnds
  <2> QED BY <1>6, <2>1, <2>2, <2>3, <2>4, <2>5, <2>6, <2>7, <2>8 DEF Group
<1>7. CASE Failures
  <2>1. CASE CheckFails     BY <1>1, <2>1 DEF CheckFails, group
  <2>2. CASE PrepareFails   BY <1>2, <2>2 DEF PrepareFails
  <2>3. CASE GroupSkips     BY <1>1, <2>3 DEF GroupSkips
  <2>4. CASE GroupCut       BY <1>2, <2>4 DEF GroupCut
  <2> QED BY <1>7, <2>1, <2>2, <2>3, <2>4 DEF Failures
<1>8. CASE Minute           BY <1>1, <1>8 DEF Minute, group
<1>9. CASE Kill             BY <1>2, <1>9 DEF Kill
<1>10. CASE UNCHANGED vars  BY <1>1, <1>10 DEF vars, group
<1> QED BY <1>4, <1>5, <1>6, <1>7, <1>8, <1>9, <1>10 DEF Next

\* announcementFile takes the position of the row modulo the number of files twice.
LEMMA NextPosition ==
  ASSUME NEW n \in Nat \ {0}, NEW c \in Nat
  PROVE  ((c % n) + 1) % n = (c + 1) % n
<1> DEFINE q == c \div n
           r == c % n
<1>1. q \in Int /\ r \in 0..(n - 1) /\ c = n * q + r   OBVIOUS
<1> HIDE DEF q, r
<1>2. \A x \in Int, i \in Int, k \in 0..(n - 1) : x = n * i + k => x % n = k   OBVIOUS
<1>3. CASE r + 1 < n
  <2>1. c + 1 = n * q + (r + 1) /\ r + 1 \in 0..(n - 1)   BY <1>1, <1>3
  <2>2. r + 1 = n * 0 + (r + 1)   BY <1>1
  <2>3. (c + 1) % n = r + 1   BY <1>1, <1>2, <2>1
  <2>4. (r + 1) % n = r + 1   BY <1>1, <1>2, <2>1, <2>2
  <2> QED BY <2>3, <2>4 DEF r
<1>4. CASE r + 1 = n
  <2>1. n * (q + 1) = n * q + n   BY <1>1
  <2>2. c + 1 = n * (q + 1) + 0 /\ 0 \in 0..(n - 1)   BY <1>1, <1>4, <2>1
  <2>3. r + 1 = n * 1 + 0   BY <1>1, <1>4
  <2>4. (c + 1) % n = 0   BY <1>1, <1>2, <2>2
  <2>5. (r + 1) % n = 0   BY <1>1, <1>2, <2>2, <2>3
  <2> QED BY <2>4, <2>5 DEF r
<1> QED BY <1>1, <1>3, <1>4

\* Only the mark makes the list of what is ready longer.
LEMMA OnlyTheMark ==
  ASSUME Typed, Next, pc = "mark", Len(ready') > Len(ready)
  PROVE  GroupMark
<1>1. Len(ready) \in Nat   BY DEF Typed
<1>2. ready' # ready /\ ready' # <<>>   BY <1>1
<1>3. ~Check
      BY <1>2 DEF Check, CheckList, CheckAsk, group
<1>4. ~People
      BY <1>2 DEF People, TestPlay, Delete, Update, Create, Edited
<1>5. ~Failures
      BY <1>2 DEF Failures, CheckFails, PrepareFails, GroupSkips, GroupCut, group
<1>6. ~Minute /\ ~Kill   BY <1>2 DEF Minute, Kill, group
<1> QED BY <1>3, <1>4, <1>5, <1>6
        DEF Next, Group, GroupTake, GroupJoin, GroupGet, GroupQueue, GroupNothingReady, GroupHears, GroupEnds

\* A play of a cycle takes the file after the one before, for any number of files and of requests that
\* wait together (announce.go:213-215).
THEOREM CyclesMoveOn == Spec => CycleMovesOn
<1> DEFINE Moves ==
      \A a \in Anns :
        (/\ pc = "mark" /\ Len(ready') > Len(ready)
         /\ Head(list).ann = a /\ a \in Existing /\ got.same)
        => table'[a].cycle = (table[a].cycle + 1) % FileCount[table[a].source]
<1>1. Init => GotRow   BY DEF Init, GotRow
<1>2. Typed /\ HandOff /\ GotRow /\ [Next]_vars => GotRow'   BY NextGotRow
<1>3. Typed /\ GotRow /\ [Next]_vars => [Moves]_vars
  <2> SUFFICES ASSUME Typed, GotRow, Next, NEW a \in Anns, pc = "mark", Len(ready') > Len(ready),
                      Head(list).ann = a, a \in Existing, got.same
               PROVE  table'[a].cycle = (table[a].cycle + 1) % FileCount[table[a].source]
      OBVIOUS
  <2>1. GroupMark   BY OnlyTheMark
  <2>2. /\ table[a] # Gone /\ table[a] \in ValidRows /\ got.ann = a /\ got \in Read
        /\ Head(list) \in Request
        BY <2>1, HeadTailProperties DEF Existing, Typed, Tables
  <2>3. table[a].cycle = got.cycle /\ table[a].source = got.source   BY <2>2 DEF GotRow
  <2>4. table'[a] = MarkAnnouncement(table[a], Head(list).due, NextCycle(got))
        BY <2>1, <2>2 DEF GroupMark, Typed, Tables
  <2>5. table'[a].cycle = NextCycle(got)   BY <2>2, <2>4, MarkedRow
  <2>6. got.cycle \in Nat /\ FileCount[got.source] \in Nat \ {0}   BY <2>2, FilesAssumption DEF Read
  <2> QED BY <2>3, <2>5, <2>6, NextPosition DEF NextCycle
<1> QED BY <1>1, <1>2, <1>3, AlwaysTyped, PTL DEF Spec, CycleMovesOn

(****************************************************************************)
(* No time twice.  The requests of an announcement go through the waiting   *)
(* list, the list of the group, what is ready and the queue in the order    *)
(* of their times.  T is the set of announcements that are left out.        *)
(****************************************************************************)
Rivals(T, d, e) == d.ann = e.ann /\ d.ann \notin T /\ d.due # Test /\ e.due # Test
Ascending(T, s) == \A i, j \in DOMAIN s : i < j /\ Rivals(T, s[i], s[j]) => s[i].due < s[j].due
Ahead(T, s, t) == \A i \in DOMAIN s, j \in DOMAIN t : Rivals(T, s[i], t[j]) => s[i].due < t[j].due

InLine(T, q, r, l, w) ==
  /\ Ascending(T, q) /\ Ascending(T, r) /\ Ascending(T, l) /\ Ascending(T, w)
  /\ Ahead(T, q, r) /\ Ahead(T, q, l) /\ Ahead(T, q, w)
  /\ Ahead(T, r, l) /\ Ahead(T, r, w) /\ Ahead(T, l, w)

Untouched == Anns \ touched

\* The times of an announcement are those of the table at the start, also in the hands of the check.
SameRows ==
  \A a \in Untouched :
    /\ table[a] # Gone /\ SameTimes(table[a], FirstTable[a])
    /\ (checker.at = "listed" =>
          checker.list[a] # Gone /\ SameTimes(checker.list[a], FirstTable[a]))

\* A time that was asked for had come.
AskedHadCome ==
  \A a \in Untouched, s \in 0..Horizon :
    <<a, s>> \in asked => \E t \in 0..time : LastSlot(FirstTable[a], t) = s

\* announceTaken still knows the time, or a newer one was asked for since.
Known(a, s) == taken[a] = s \/ \E u \in 0..Horizon : u > s /\ <<a, u>> \in asked

PendingKnown ==
  \A a \in Untouched, s \in 0..Horizon :
    <<a, s>> \in PendingSlots => <<a, s>> \in asked /\ Known(a, s)

\* The play is written down before it happens.
ReadyMarked ==
  \A a \in Untouched, s \in 0..Horizon :
    <<a, s>> \in Slots(ready) \cup Slots(queued) => table[a].played >= s

Prepared == heard \cup Slots(ready) \cup Slots(queued)

\* What keeps a time that was heard from being asked for again: announceTaken, a newer time, or the
\* mark in the row, also in the row that the check holds.
HeardSettled ==
  \A a \in Untouched, s \in 0..Horizon :
    <<a, s>> \in heard =>
      /\ <<a, s>> \in asked /\ table[a].played >= s
      /\ Known(a, s) \/ (checker.at = "listed" => checker.list[a].played >= s)
      /\ \A u \in 0..Horizon : <<a, u>> \in PendingSlots => s < u

Settled == SameRows /\ AskedHadCome /\ PendingKnown /\ ReadyMarked /\ HeardSettled

Sound == InLine(touched, queued, ready, list, waiting) /\ Settled

LEMMA ConcatParts ==
  ASSUME NEW s \in Seq(Request), NEW t \in Seq(Request)
  PROVE  /\ s \o t \in Seq(Request)
         /\ \A i \in DOMAIN s : i \in DOMAIN (s \o t) /\ (s \o t)[i] = s[i]
         /\ \A j \in DOMAIN t : Len(s) + j \in DOMAIN (s \o t) /\ (s \o t)[Len(s) + j] = t[j]
         /\ \A k \in DOMAIN (s \o t) : k \in DOMAIN s \/ \E j \in DOMAIN t : k = Len(s) + j
<1>1. /\ Len(s) \in Nat /\ Len(t) \in Nat /\ DOMAIN s = 1..Len(s) /\ DOMAIN t = 1..Len(t)
      /\ s \o t \in Seq(Request) /\ Len(s \o t) = Len(s) + Len(t)
      /\ DOMAIN (s \o t) = 1..(Len(s) + Len(t))
      BY ConcatProperties
<1>2. \A i \in 1..(Len(s) + Len(t)) : (s \o t)[i] = IF i <= Len(s) THEN s[i] ELSE t[i - Len(s)]
      BY ConcatProperties
<1>3. ASSUME NEW j \in DOMAIN t
      PROVE  Len(s) + j \in DOMAIN (s \o t) /\ (s \o t)[Len(s) + j] = t[j]
  <2>1. Len(s) + j \in 1..(Len(s) + Len(t)) /\ ~(Len(s) + j <= Len(s)) /\ (Len(s) + j) - Len(s) = j
        BY <1>1
  <2> QED BY <1>1, <1>2, <2>1
<1>4. ASSUME NEW k \in DOMAIN (s \o t)
      PROVE  k \in DOMAIN s \/ \E j \in DOMAIN t : k = Len(s) + j
  <2>1. CASE k <= Len(s)   BY <1>1, <2>1
  <2>2. CASE ~(k <= Len(s))
    <3>1. k - Len(s) \in DOMAIN t /\ k = Len(s) + (k - Len(s))   BY <1>1, <2>2
    <3> QED BY <3>1
  <2> QED BY <2>1, <2>2
<1> QED BY <1>1, <1>2, <1>3, <1>4

\* Two lists one after the other.
LEMMA ConcatLine ==
  ASSUME NEW T, NEW s \in Seq(Request), NEW t \in Seq(Request),
         Ascending(T, s), Ascending(T, t), Ahead(T, s, t)
  PROVE  Ascending(T, s \o t)
<1> SUFFICES ASSUME NEW i \in DOMAIN (s \o t), NEW k \in DOMAIN (s \o t), i < k,
                    Rivals(T, (s \o t)[i], (s \o t)[k])
             PROVE  (s \o t)[i].due < (s \o t)[k].due
    BY DEF Ascending
<1>1. Len(s) \in Nat /\ DOMAIN s = 1..Len(s) /\ DOMAIN t = 1..Len(t) /\ Len(t) \in Nat   OBVIOUS
<1>2. CASE i \in DOMAIN s /\ k \in DOMAIN s   BY <1>2, ConcatParts DEF Ascending
<1>3. CASE i \in DOMAIN s /\ \E j \in DOMAIN t : k = Len(s) + j   BY <1>3, ConcatParts DEF Ahead
<1>4. CASE (\E j \in DOMAIN t : i = Len(s) + j) /\ k \in DOMAIN s   BY <1>1, <1>4
<1>5. ASSUME NEW m \in DOMAIN t, NEW j \in DOMAIN t, i = Len(s) + m, k = Len(s) + j
      PROVE  (s \o t)[i].due < (s \o t)[k].due
  <2>1. m < j   BY <1>1, <1>5
  <2> QED BY <1>5, <2>1, ConcatParts DEF Ascending
<1> QED BY <1>2, <1>3, <1>4, <1>5, ConcatParts

LEMMA ConcatAhead ==
  ASSUME NEW T, NEW s \in Seq(Request), NEW t \in Seq(Request), NEW u
  PROVE  /\ Ahead(T, s, u) /\ Ahead(T, t, u) => Ahead(T, s \o t, u)
         /\ Ahead(T, u, s) /\ Ahead(T, u, t) => Ahead(T, u, s \o t)
BY ConcatParts DEF Ahead

LEMMA ConcatSlots ==
  ASSUME NEW s \in Seq(Request), NEW t \in Seq(Request)
  PROVE  Slots(s \o t) = Slots(s) \cup Slots(t)
<1>1. Items(s \o t) = Items(s) \cup Items(t)
  <2>1. \A d : d \in Items(s \o t) <=> d \in Items(s) \/ d \in Items(t)
    <3> TAKE d
    <3>1. d \in Items(s \o t) => d \in Items(s) \/ d \in Items(t)   BY ConcatParts DEF Items
    <3>2. d \in Items(s) => d \in Items(s \o t)   BY ConcatParts DEF Items
    <3>3. ASSUME NEW j \in DOMAIN t PROVE t[j] \in Items(s \o t)
      <4>1. Len(s) + j \in DOMAIN (s \o t) /\ (s \o t)[Len(s) + j] = t[j]   BY ConcatParts
      <4> QED BY <4>1 DEF Items
    <3>4. d \in Items(t) => d \in Items(s \o t)   BY <3>3 DEF Items
    <3> QED BY <3>1, <3>2, <3>4
  <2> QED BY <2>1
<1> QED BY <1>1 DEF Slots

LEMMA NoSlots == Slots(<<>>) = {} /\ \A T, s : Ascending(T, <<>>) /\ Ahead(T, <<>>, s) /\ Ahead(T, s, <<>>)
BY DEF Slots, Items, Ascending, Ahead

\* Some of a list, in the order of the list.
LEMMA PlacesLine ==
  ASSUME NEW T, NEW s \in Seq(Request), NEW kept \in Seq(DOMAIN s),
         \A i, j \in DOMAIN kept : i < j => kept[i] < kept[j], NEW u
  PROVE  /\ Ascending(T, s) => Ascending(T, AtPlaces(s, kept))
         /\ Ahead(T, s, u) => Ahead(T, AtPlaces(s, kept), u)
         /\ Ahead(T, u, s) => Ahead(T, u, AtPlaces(s, kept))
         /\ Slots(AtPlaces(s, kept)) \subseteq Slots(s)
         /\ \A x \in Slots(AtPlaces(s, kept)) : \E i \in DOMAIN kept :
              x = <<s[kept[i]].ann, s[kept[i]].due>> /\ s[kept[i]].due # Test
<1>1. /\ DOMAIN AtPlaces(s, kept) = DOMAIN kept
      /\ \A i \in DOMAIN kept : kept[i] \in DOMAIN s /\ AtPlaces(s, kept)[i] = s[kept[i]]
      BY DEF AtPlaces
<1>2. Ascending(T, s) => Ascending(T, AtPlaces(s, kept))   BY <1>1 DEF Ascending
<1>3. Ahead(T, s, u) => Ahead(T, AtPlaces(s, kept), u)   BY <1>1 DEF Ahead
<1>4. Ahead(T, u, s) => Ahead(T, u, AtPlaces(s, kept))   BY <1>1 DEF Ahead
<1>5. Items(AtPlaces(s, kept)) = {s[kept[i]] : i \in DOMAIN kept}   BY <1>1 DEF Items
<1>6. Slots(AtPlaces(s, kept)) \subseteq Slots(s)   BY <1>1, <1>5 DEF Slots, Items
<1>7. \A x \in Slots(AtPlaces(s, kept)) : \E i \in DOMAIN kept :
         x = <<s[kept[i]].ann, s[kept[i]].due>> /\ s[kept[i]].due # Test
      BY <1>5 DEF Slots
<1> QED BY <1>2, <1>3, <1>4, <1>6, <1>7

\* The first of a list and those after it.
LEMMA HeadAndTail ==
  ASSUME NEW s \in Seq(Request), s # <<>>
  PROVE  /\ Head(s) \in Request /\ <<Head(s)>> \in Seq(Request) /\ Tail(s) \in Seq(Request)
         /\ s = <<Head(s)>> \o Tail(s)
         /\ Slots(s) = Slots(<<Head(s)>>) \cup Slots(Tail(s))
<1>1. Head(s) \in Request /\ <<Head(s)>> \in Seq(Request) /\ Tail(s) \in Seq(Request)
      BY HeadTailProperties
<1>2. s = <<Head(s)>> \o Tail(s)
  <2>1. Len(<<Head(s)>>) = 1 /\ <<Head(s)>>[1] = Head(s) /\ Head(s) = s[1]   OBVIOUS
  <2>2. /\ Len(Tail(s)) = Len(s) - 1 /\ Len(s) \in Nat /\ Len(s) >= 1
        /\ \A i \in 1..Len(Tail(s)) : Tail(s)[i] = s[i + 1]
        BY HeadTailProperties, EmptySeq
  <2>3. /\ <<Head(s)>> \o Tail(s) \in Seq(Request)
        /\ Len(<<Head(s)>> \o Tail(s)) = Len(s)
        /\ \A i \in 1..Len(s) : (<<Head(s)>> \o Tail(s))[i] = s[i]
    <3>1. /\ <<Head(s)>> \o Tail(s) \in Seq(Request)
          /\ Len(<<Head(s)>> \o Tail(s)) = 1 + (Len(s) - 1)
          /\ \A i \in 1..(1 + (Len(s) - 1)) :
               (<<Head(s)>> \o Tail(s))[i] = IF i <= 1 THEN <<Head(s)>>[i] ELSE Tail(s)[i - 1]
          BY <1>1, <2>1, <2>2, ConcatProperties
    <3> QED BY <2>1, <2>2, <3>1
  <2> QED BY <2>3, SeqEqual
<1>3. Slots(<<Head(s)>> \o Tail(s)) = Slots(<<Head(s)>>) \cup Slots(Tail(s))   BY <1>1, ConcatSlots
<1> QED BY <1>1, <1>2, <1>3

LEMMA ConcatFrom ==
  ASSUME NEW T, NEW s \in Seq(Request), NEW t \in Seq(Request), NEW u
  PROVE  /\ Ascending(T, s \o t) => Ascending(T, s) /\ Ascending(T, t) /\ Ahead(T, s, t)
         /\ Ahead(T, s \o t, u) => Ahead(T, s, u) /\ Ahead(T, t, u)
         /\ Ahead(T, u, s \o t) => Ahead(T, u, s) /\ Ahead(T, u, t)
<1> DEFINE w == s \o t
           n == Len(s)
<1>1. n \in Nat /\ DOMAIN s = 1..n /\ DOMAIN t = 1..Len(t) /\ Len(t) \in Nat   OBVIOUS
<1>2. /\ \A i \in DOMAIN s : i \in DOMAIN w /\ w[i] = s[i]
      /\ \A j \in DOMAIN t : n + j \in DOMAIN w /\ w[n + j] = t[j]
      BY ConcatParts
<1> HIDE DEF w, n
<1>3. Ascending(T, w) => Ascending(T, s)   BY <1>2 DEF Ascending
<1>4. ASSUME Ascending(T, w) PROVE Ascending(T, t)
  <2> SUFFICES ASSUME NEW i \in DOMAIN t, NEW j \in DOMAIN t, i < j, Rivals(T, t[i], t[j])
               PROVE  t[i].due < t[j].due
      BY DEF Ascending
  <2>1. n + i < n + j   BY <1>1
  <2>2. n + i \in DOMAIN w /\ n + j \in DOMAIN w /\ w[n + i] = t[i] /\ w[n + j] = t[j]   BY <1>2
  <2>3. Rivals(T, w[n + i], w[n + j]) => w[n + i].due < w[n + j].due   BY <1>4, <2>1, <2>2 DEF Ascending
  <2> QED BY <2>2, <2>3
<1>5. ASSUME Ascending(T, w) PROVE Ahead(T, s, t)
  <2> SUFFICES ASSUME NEW i \in DOMAIN s, NEW j \in DOMAIN t, Rivals(T, s[i], t[j])
               PROVE  s[i].due < t[j].due
      BY DEF Ahead
  <2>1. i < n + j   BY <1>1
  <2>2. i \in DOMAIN w /\ n + j \in DOMAIN w /\ w[i] = s[i] /\ w[n + j] = t[j]   BY <1>2
  <2>3. Rivals(T, w[i], w[n + j]) => w[i].due < w[n + j].due   BY <1>5, <2>1, <2>2 DEF Ascending
  <2> QED BY <2>2, <2>3
<1>6. ASSUME Ahead(T, w, u) PROVE Ahead(T, s, u) /\ Ahead(T, t, u)
  <2>1. Ahead(T, s, u)   BY <1>2, <1>6 DEF Ahead
  <2>2. ASSUME NEW i \in DOMAIN t, NEW j \in DOMAIN u, Rivals(T, t[i], u[j])
        PROVE  t[i].due < u[j].due
    <3>1. n + i \in DOMAIN w /\ w[n + i] = t[i]   BY <1>2
    <3>2. Rivals(T, w[n + i], u[j]) => w[n + i].due < u[j].due   BY <1>6, <3>1 DEF Ahead
    <3> QED BY <2>2, <3>1, <3>2
  <2> QED BY <2>1, <2>2 DEF Ahead
<1>7. ASSUME Ahead(T, u, w) PROVE Ahead(T, u, s) /\ Ahead(T, u, t)
  <2>1. Ahead(T, u, s)   BY <1>2, <1>7 DEF Ahead
  <2>2. ASSUME NEW i \in DOMAIN t, NEW j \in DOMAIN u, Rivals(T, u[j], t[i])
        PROVE  u[j].due < t[i].due
    <3>1. n + i \in DOMAIN w /\ w[n + i] = t[i]   BY <1>2
    <3>2. Rivals(T, u[j], w[n + i]) => u[j].due < w[n + i].due   BY <1>7, <3>1 DEF Ahead
    <3> QED BY <2>2, <3>1, <3>2
  <2> QED BY <2>1, <2>2 DEF Ahead
<1> QED BY <1>3, <1>4, <1>5, <1>6, <1>7 DEF w

LEMMA SlotOf ==
  ASSUME NEW d, NEW a, NEW s
  PROVE  <<a, s>> \in Slots(<<d>>) <=> d.ann = a /\ d.due = s /\ s # Test
BY DEF Slots, Items

LEMMA SlotIn ==
  ASSUME NEW s \in Seq(Request), NEW x
  PROVE  x \in Slots(s) <=> \E i \in DOMAIN s : x = <<s[i].ann, s[i].due>> /\ s[i].due # Test
BY DEF Slots, Items

LEMMA SlotLess ==
  ASSUME NEW T, NEW s \in Seq(Request), NEW t \in Seq(Request), Ahead(T, s, t),
         NEW a, a \notin T, NEW x, NEW y, <<a, x>> \in Slots(s), <<a, y>> \in Slots(t)
  PROVE  x < y
<1>1. PICK i \in DOMAIN s : <<a, x>> = <<s[i].ann, s[i].due>> /\ s[i].due # Test   BY SlotIn
<1>2. PICK j \in DOMAIN t : <<a, y>> = <<t[j].ann, t[j].due>> /\ t[j].due # Test   BY SlotIn
<1>3. Rivals(T, s[i], t[j])   BY <1>1, <1>2 DEF Rivals
<1> QED BY <1>1, <1>2, <1>3 DEF Ahead

\* What leaves more announcements out asks for less.
LEMMA MoreLeftOut ==
  ASSUME NEW T, NEW U, T \subseteq U, NEW s, NEW t
  PROVE  /\ Ascending(T, s) => Ascending(U, s)
         /\ Ahead(T, s, t) => Ahead(U, s, t)
BY DEF Ascending, Ahead, Rivals

\* The lists of the group, one step each.
LEMMA HeadLine ==
  ASSUME NEW T, NEW s \in Seq(Request), s # <<>>, NEW u
  PROVE  /\ Ascending(T, s) => /\ Ascending(T, Tail(s)) /\ Ascending(T, <<Head(s)>>)
                               /\ Ahead(T, <<Head(s)>>, Tail(s))
         /\ Ahead(T, s, u) => Ahead(T, <<Head(s)>>, u) /\ Ahead(T, Tail(s), u)
         /\ Ahead(T, u, s) => Ahead(T, u, <<Head(s)>>) /\ Ahead(T, u, Tail(s))
<1> DEFINE h == <<Head(s)>>
           t == Tail(s)
<1>1. h \in Seq(Request) /\ t \in Seq(Request) /\ s = h \o t   BY HeadAndTail
<1> HIDE DEF h, t
<1>2. /\ Ascending(T, h \o t) => Ascending(T, h) /\ Ascending(T, t) /\ Ahead(T, h, t)
      /\ Ahead(T, h \o t, u) => Ahead(T, h, u) /\ Ahead(T, t, u)
      /\ Ahead(T, u, h \o t) => Ahead(T, u, h) /\ Ahead(T, u, t)
      BY <1>1, ConcatFrom
<1> QED BY <1>1, <1>2 DEF h, t

LEMMA LineTaken ==
  ASSUME NEW T, NEW q \in Seq(Request), NEW r \in Seq(Request), NEW w \in Seq(Request),
         InLine(T, q, r, <<>>, w)
  PROVE  InLine(T, q, r, w, <<>>)
BY NoSlots DEF InLine

LEMMA LineWithoutHead ==
  ASSUME NEW T, NEW q \in Seq(Request), NEW r \in Seq(Request), NEW l \in Seq(Request),
         NEW w \in Seq(Request), InLine(T, q, r, l, w)
  PROVE  /\ l # <<>> => InLine(T, q, r, Tail(l), w)
         /\ q # <<>> => InLine(T, Tail(q), r, l, w)
BY HeadLine DEF InLine

LEMMA LineMarked ==
  ASSUME NEW T, NEW q \in Seq(Request), NEW r \in Seq(Request), NEW l \in Seq(Request),
         NEW w \in Seq(Request), InLine(T, q, r, l, w), l # <<>>
  PROVE  InLine(T, q, r \o <<Head(l)>>, Tail(l), w)
<1>1. <<Head(l)>> \in Seq(Request) /\ Tail(l) \in Seq(Request)   BY HeadAndTail
<1>2. /\ Ascending(T, Tail(l)) /\ Ascending(T, <<Head(l)>>) /\ Ahead(T, <<Head(l)>>, Tail(l))
      /\ Ahead(T, <<Head(l)>>, w) /\ Ahead(T, Tail(l), w)
      /\ Ahead(T, q, <<Head(l)>>) /\ Ahead(T, q, Tail(l))
      /\ Ahead(T, r, <<Head(l)>>) /\ Ahead(T, r, Tail(l))
      BY HeadLine DEF InLine
<1>3. Ascending(T, r \o <<Head(l)>>)   BY <1>1, <1>2, ConcatLine DEF InLine
<1>4. Ahead(T, q, r) /\ Ahead(T, r, w) /\ Ahead(T, q, w) /\ Ascending(T, q) /\ Ascending(T, w)
      BY DEF InLine
<1>5. Ahead(T, q, r \o <<Head(l)>>)         BY <1>1, <1>2, <1>4, ConcatAhead
<1>6. Ahead(T, r \o <<Head(l)>>, Tail(l))   BY <1>1, <1>2, ConcatAhead
<1>7. Ahead(T, r \o <<Head(l)>>, w)         BY <1>1, <1>2, <1>4, ConcatAhead
<1> QED BY <1>2, <1>3, <1>4, <1>5, <1>6, <1>7 DEF InLine

LEMMA LineQueued ==
  ASSUME NEW T, NEW q \in Seq(Request), NEW r \in Seq(Request), NEW p \in Seq(Request),
         NEW w \in Seq(Request), InLine(T, q, r, <<>>, w),
         Ascending(T, p), Ahead(T, q, p), Ahead(T, p, w)
  PROVE  InLine(T, q \o p, <<>>, <<>>, w)
BY ConcatLine, ConcatAhead, NoSlots DEF InLine

LEMMA LineAsked ==
  ASSUME NEW T, NEW q \in Seq(Request), NEW r \in Seq(Request), NEW l \in Seq(Request),
         NEW w \in Seq(Request), NEW new \in Seq(Request), InLine(T, q, r, l, w),
         Ascending(T, new), Ahead(T, q, new), Ahead(T, r, new), Ahead(T, l, new), Ahead(T, w, new)
  PROVE  InLine(T, q, r, l, w \o new)
BY ConcatLine, ConcatAhead DEF InLine

\* The first of a list stands nowhere else.
LEMMA HeadOnce ==
  ASSUME NEW T, NEW q \in Seq(Request), NEW r \in Seq(Request), NEW l \in Seq(Request),
         NEW w \in Seq(Request), InLine(T, q, r, l, w), NEW a, a \notin T, NEW x \in Int
  PROVE  /\ l # <<>> /\ <<a, x>> \in Slots(<<Head(l)>>) =>
              <<a, x>> \notin Slots(q) \cup Slots(r) \cup Slots(Tail(l)) \cup Slots(w)
         /\ q # <<>> /\ <<a, x>> \in Slots(<<Head(q)>>) =>
              \A y \in Int :
                <<a, y>> \in Slots(Tail(q)) \cup Slots(r) \cup Slots(l) \cup Slots(w) => x < y
<1>1. ASSUME l # <<>>, <<a, x>> \in Slots(<<Head(l)>>)
      PROVE  <<a, x>> \notin Slots(q) \cup Slots(r) \cup Slots(Tail(l)) \cup Slots(w)
  <2>1. <<Head(l)>> \in Seq(Request) /\ Tail(l) \in Seq(Request)   BY <1>1, HeadAndTail
  <2>2. /\ Ahead(T, <<Head(l)>>, Tail(l)) /\ Ahead(T, <<Head(l)>>, w)
        /\ Ahead(T, q, <<Head(l)>>) /\ Ahead(T, r, <<Head(l)>>)
        BY <1>1, HeadLine DEF InLine
  <2>3. ~(x < x)   OBVIOUS
  <2>4. <<a, x>> \notin Slots(q)         BY <1>1, <2>1, <2>2, <2>3, SlotLess
  <2>5. <<a, x>> \notin Slots(r)         BY <1>1, <2>1, <2>2, <2>3, SlotLess
  <2>6. <<a, x>> \notin Slots(Tail(l))   BY <1>1, <2>1, <2>2, <2>3, SlotLess
  <2>7. <<a, x>> \notin Slots(w)         BY <1>1, <2>1, <2>2, <2>3, SlotLess
  <2> QED BY <2>4, <2>5, <2>6, <2>7
<1>2. ASSUME q # <<>>, <<a, x>> \in Slots(<<Head(q)>>), NEW y \in Int,
             <<a, y>> \in Slots(Tail(q)) \cup Slots(r) \cup Slots(l) \cup Slots(w)
      PROVE  x < y
  <2>1. <<Head(q)>> \in Seq(Request) /\ Tail(q) \in Seq(Request)   BY <1>2, HeadAndTail
  <2>2. /\ Ahead(T, <<Head(q)>>, Tail(q)) /\ Ahead(T, <<Head(q)>>, r)
        /\ Ahead(T, <<Head(q)>>, l) /\ Ahead(T, <<Head(q)>>, w)
        BY <1>2, HeadLine DEF InLine
  <2>3. CASE <<a, y>> \in Slots(Tail(q))   BY <1>2, <2>1, <2>2, <2>3, SlotLess
  <2>4. CASE <<a, y>> \in Slots(r)         BY <1>2, <2>1, <2>2, <2>4, SlotLess
  <2>5. CASE <<a, y>> \in Slots(l)         BY <1>2, <2>1, <2>2, <2>5, SlotLess
  <2>6. CASE <<a, y>> \in Slots(w)         BY <1>2, <2>1, <2>2, <2>6, SlotLess
  <2> QED BY <1>2, <2>3, <2>4, <2>5, <2>6
<1> QED BY <1>1, <1>2

\* A step that asks for nothing: what is pending was pending, announceTaken is reset only for what is
\* not pending any more, no row loses its mark, and what is heard was first in the queue.
LEMMA StepSettled ==
  ASSUME Typed, Typed', Settled, time <= time', asked' = asked, touched \subseteq touched',
         \A a \in Untouched' :
           /\ table'[a] # Gone /\ SameTimes(table'[a], table[a])
           /\ \A s \in 0..Horizon :
                <<a, s>> \in Prepared /\ table[a].played >= s => table'[a].played >= s,
         checker' \in {checker, Idle, [at |-> "listed", list |-> table]},
         \A a \in Untouched', s \in 0..Horizon :
           <<a, s>> \in PendingSlots' =>
             <<a, s>> \in PendingSlots /\ (taken[a] = s => taken'[a] = s),
         \A a \in Untouched', s \in 0..Horizon :
           <<a, s>> \in (Slots(ready) \cup Slots(queued))' =>
             <<a, s>> \in Slots(ready) \cup Slots(queued) \/ table'[a].played >= s,
         \A a \in Untouched', s \in 0..Horizon :
           <<a, s>> \in heard' =>
             /\ \/ <<a, s>> \in heard
                \/ /\ <<a, s>> \in Slots(queued)
                   /\ \A u \in 0..Horizon : <<a, u>> \in PendingSlots' => s < u
             /\ (taken[a] = s => taken'[a] = s \/ checker'.at = "idle")
  PROVE  Settled'
<1>1. Untouched' \subseteq Untouched   BY DEF Untouched
<1>2. time \in 0..Horizon /\ time' \in 0..Horizon /\ Horizon \in Nat   BY HorizonAssumption DEF Typed
<1>5. SameRows'
  <2> SUFFICES ASSUME NEW a \in Untouched'
               PROVE  /\ table'[a] # Gone /\ SameTimes(table'[a], FirstTable[a])
                      /\ checker'.at = "listed" =>
                           checker'.list[a] # Gone /\ SameTimes(checker'.list[a], FirstTable[a])
      BY DEF SameRows, Untouched
  <2>1. /\ table[a] # Gone /\ SameTimes(table[a], FirstTable[a])
        /\ checker.at = "listed" =>
             checker.list[a] # Gone /\ SameTimes(checker.list[a], FirstTable[a])
        BY <1>1 DEF Settled, SameRows
  <2>2. table'[a] # Gone /\ SameTimes(table'[a], FirstTable[a])   BY <2>1 DEF SameTimes
  <2> QED BY <2>1, <2>2 DEF Idle
<1>6. AskedHadCome'
  <2> SUFFICES ASSUME NEW a \in Untouched', NEW s \in 0..Horizon, <<a, s>> \in asked
               PROVE  \E t \in 0..time' : LastSlot(FirstTable[a], t) = s
      BY DEF AskedHadCome, Untouched
  <2>1. PICK t \in 0..time : LastSlot(FirstTable[a], t) = s   BY <1>1 DEF Settled, AskedHadCome
  <2>2. t \in 0..time'   BY <1>2
  <2> QED BY <2>1, <2>2
<1>7. \A a \in Untouched', s \in 0..Horizon :
         <<a, s>> \in PendingSlots => <<a, s>> \in asked /\ Known(a, s)
      BY <1>1 DEF Settled, PendingKnown
<1>8. PendingKnown'
  <2> SUFFICES ASSUME NEW a \in Untouched', NEW s \in 0..Horizon, <<a, s>> \in PendingSlots'
               PROVE  <<a, s>> \in asked' /\ Known(a, s)'
      BY DEF PendingKnown, Untouched
  <2> QED BY <1>7 DEF Known
<1>9. \A a \in Untouched', s \in 0..Horizon :
         <<a, s>> \in Slots(ready) \cup Slots(queued) => table[a].played >= s
      BY <1>1 DEF Settled, ReadyMarked
<1>10. ASSUME NEW a \in Untouched', NEW s \in 0..Horizon, table[a].played >= s,
               <<a, s>> \in heard \cup Slots(ready) \cup Slots(queued)
       PROVE  table'[a].played >= s
       BY <1>10 DEF Prepared
<1>11. ReadyMarked'
  <2> SUFFICES ASSUME NEW a \in Untouched', NEW s \in 0..Horizon,
                      <<a, s>> \in (Slots(ready) \cup Slots(queued))'
               PROVE  table'[a].played >= s
      BY DEF ReadyMarked, Untouched
  <2> QED BY <1>9, <1>10
<1>12. HeardSettled'
  <2> SUFFICES ASSUME NEW a \in Untouched', NEW s \in 0..Horizon, <<a, s>> \in heard'
               PROVE  /\ <<a, s>> \in asked' /\ table'[a].played >= s
                      /\ Known(a, s)' \/ (checker'.at = "listed" => checker'.list[a].played >= s)
                      /\ \A u \in 0..Horizon : <<a, u>> \in PendingSlots' => s < u
      BY DEF HeardSettled, Untouched
  <2>1. a \in Untouched   BY <1>1
  <2>2. CASE <<a, s>> \in heard
    <3>1. /\ <<a, s>> \in asked /\ table[a].played >= s
          /\ Known(a, s) \/ (checker.at = "listed" => checker.list[a].played >= s)
          /\ \A u \in 0..Horizon : <<a, u>> \in PendingSlots => s < u
          BY <2>1, <2>2 DEF Settled, HeardSettled
    <3>2. CASE Known(a, s)
          BY <1>10, <3>1, <3>2 DEF Known
    <3>3. CASE checker.at = "listed" => checker.list[a].played >= s
          BY <1>10, <3>1, <3>3 DEF Idle
    <3> QED BY <3>1, <3>2, <3>3
  <2>3. CASE <<a, s>> \notin heard
    <3>1. <<a, s>> \in Slots(queued) /\ <<a, s>> \in PendingSlots   BY <2>3 DEF PendingSlots
    <3>2. table[a].played >= s /\ <<a, s>> \in asked /\ Known(a, s)   BY <1>7, <1>9, <3>1
    <3> QED BY <1>10, <2>3, <3>2 DEF Known
  <2> QED BY <2>2, <2>3
<1> QED BY <1>5, <1>6, <1>8, <1>11, <1>12 DEF Settled

\* What a check asks for is newer than whatever was asked for before.
LEMMA AskIsNewer ==
  ASSUME Typed, Settled, NEW new, Fresh(new),
         NEW a \in Untouched, NEW d \in 0..Horizon, <<a, d>> \in Slots(new)
  PROVE  /\ LastSlot(FirstTable[a], time) = d
         /\ \A s \in 0..Horizon : Known(a, s) => s < d
         /\ checker.at = "listed" /\ checker.list[a].played < d
<1>1. PICK i \in DOMAIN new : <<a, d>> = <<new[i].ann, new[i].due>> /\ new[i].due # Test
      BY SlotIn DEF Fresh
<1>2. /\ checker.at = "listed" /\ checker.list[a] # Gone
      /\ d = AnnouncementDue(checker.list[a], time) /\ New(new[i])
      BY <1>1 DEF Fresh
<1>3. a \in Anns /\ time \in Nat /\ checker.list[a] \in Row /\ FirstTable[a] \in ValidRows
      BY <1>2, HorizonAssumption, TableAssumption DEF Typed, Tables, ValidRows, Untouched
<1>4. d # NoTime   BY HorizonAssumption DEF NoTime
<1>5. d = LastSlot(checker.list[a], time) /\ checker.list[a].played < d
      BY <1>2, <1>4 DEF AnnouncementDue
<1>6. LastSlot(FirstTable[a], time) = d
  <2>1. SameTimes(checker.list[a], FirstTable[a])   BY <1>2 DEF Settled, SameRows
  <2> QED BY <1>3, <1>5, <2>1, SameTimesSameSlots DEF ValidRows
<1>7. ASSUME NEW u \in 0..Horizon, <<a, u>> \in asked PROVE u <= d
  <2>1. PICK t \in 0..time : LastSlot(FirstTable[a], t) = u   BY <1>7 DEF Settled, AskedHadCome
  <2>2. t \in Nat /\ t <= time /\ u # NoTime   BY <1>3, HorizonAssumption DEF NoTime
  <2> QED BY <1>3, <1>4, <1>6, <2>1, <2>2, SlotsKeepOrder
<1>8. ASSUME NEW s \in 0..Horizon, Known(a, s) PROVE s < d
  <2>1. CASE taken[a] = s   BY <1>1, <1>2, <2>1 DEF New
  <2>2. CASE taken[a] # s
    <3>1. PICK u \in 0..Horizon : u > s /\ <<a, u>> \in asked   BY <1>8, <2>2 DEF Known
    <3>2. u <= d /\ u \in Int /\ s \in Int /\ d \in Int   BY <1>7, <3>1, HorizonAssumption
    <3> QED BY <3>1, <3>2
  <2> QED BY <2>1, <2>2
<1> QED BY <1>2, <1>5, <1>6, <1>8

LEMMA AskSound ==
  ASSUME Typed, Sound, NEW new, Fresh(new), Requested(new),
         UNCHANGED <<time, table, list, ready, queued, heard, touched>>,
         checker' \in {checker, Idle}
  PROVE  /\ Sound'
         /\ PendingSlots' = PendingSlots \cup Slots(new)
         /\ \A a \in Untouched, s \in 0..Horizon : <<a, s>> \in Slots(new) => <<a, s>> \notin heard
<1>1. /\ waiting \in Seq(Request) /\ list \in Seq(Request) /\ ready \in Seq(Request)
      /\ queued \in Seq(Request) /\ new \in Seq(Request) /\ Settled
      BY DEF Typed, Fresh, Sound
<1>2. /\ waiting' = waiting \o new /\ asked' = asked \cup Slots(new) /\ Slots(new) \in SUBSET Times
      /\ \A a \in Anns, s \in 0..Horizon : <<a, s>> \in Slots(new) => taken'[a] = s
      /\ \A a \in Anns : (\A s \in 0..Horizon : <<a, s>> \notin Slots(new)) => taken'[a] = taken[a]
      BY AskedFor
<1>3. PendingSlots' = PendingSlots \cup Slots(new)
      BY <1>1, <1>2, ConcatSlots DEF PendingSlots
<1>4. \A a \in Untouched, d \in 0..Horizon : <<a, d>> \in Slots(new) =>
         /\ LastSlot(FirstTable[a], time) = d
         /\ \A s \in 0..Horizon : Known(a, s) => s < d
         /\ checker.at = "listed" /\ checker.list[a].played < d
      BY <1>1, AskIsNewer
<1>5. \A a \in Untouched, s \in 0..Horizon, d \in 0..Horizon :
         <<a, s>> \in PendingSlots /\ <<a, d>> \in Slots(new) => s < d
      BY <1>1, <1>4 DEF Settled, PendingKnown
<1>6. ASSUME NEW x \in Seq(Request), Slots(x) \subseteq PendingSlots
      PROVE  Ahead(touched, x, new)
  <2> SUFFICES ASSUME NEW i \in DOMAIN x, NEW j \in DOMAIN new, Rivals(touched, x[i], new[j])
               PROVE  x[i].due < new[j].due
      BY DEF Ahead
  <2>1. /\ x[i] \in Request /\ new[j] \in Request   BY <1>1
  <2>2. /\ x[i].ann \in Untouched /\ x[i].due \in 0..Horizon /\ new[j].due \in 0..Horizon
        BY <2>1 DEF Rivals, Untouched, Request
  <2>3. <<x[i].ann, x[i].due>> \in Slots(x)
    <3>1. x[i].due # Test   BY DEF Rivals
    <3> QED BY <3>1, SlotIn
  <2>4. <<x[i].ann, new[j].due>> \in Slots(new)
    <3>1. new[j].due # Test /\ new[j].ann = x[i].ann   BY DEF Rivals
    <3> QED BY <1>1, <3>1, SlotIn
  <2> QED BY <1>5, <1>6, <2>2, <2>3, <2>4
<1>7. InLine(touched, queued, ready, list, waiting)'
  <2>1. Ascending(touched, new)   BY DEF Ascending, Rivals, Fresh
  <2>2. /\ Ahead(touched, queued, new) /\ Ahead(touched, ready, new)
        /\ Ahead(touched, list, new) /\ Ahead(touched, waiting, new)
        BY <1>1, <1>6 DEF PendingSlots
  <2>3. InLine(touched, queued, ready, list, waiting \o new)
        BY <1>1, <2>1, <2>2, LineAsked DEF Sound
  <2> QED BY <1>2, <2>3
<1>8. SameRows'   BY <1>1 DEF Settled, SameRows, Untouched, Idle
<1>9. AskedHadCome'
  <2> SUFFICES ASSUME NEW a \in Untouched, NEW s \in 0..Horizon, <<a, s>> \in asked'
               PROVE  \E t \in 0..time : LastSlot(FirstTable[a], t) = s
      BY DEF AskedHadCome, Untouched
  <2>1. CASE <<a, s>> \in asked   BY <1>1, <2>1 DEF Settled, AskedHadCome
  <2>2. CASE <<a, s>> \in Slots(new)
    <3>1. time \in 0..time   BY HorizonAssumption DEF Typed
    <3> QED BY <1>4, <2>2, <3>1
  <2> QED BY <1>2, <2>1, <2>2
<1>10. ASSUME NEW a \in Untouched, NEW s \in 0..Horizon, Known(a, s) PROVE Known(a, s)'
  <2>1. a \in Anns   BY DEF Untouched
  <2>2. CASE \E d \in 0..Horizon : <<a, d>> \in Slots(new)
    <3>1. PICK d \in 0..Horizon : <<a, d>> \in Slots(new)   BY <2>2
    <3>2. s < d /\ <<a, d>> \in asked'   BY <1>2, <1>4, <1>10, <3>1
    <3>3. d > s   BY <3>2, HorizonAssumption
    <3> QED BY <3>2, <3>3 DEF Known
  <2>3. CASE ~\E d \in 0..Horizon : <<a, d>> \in Slots(new)
        BY <1>2, <1>10, <2>1, <2>3 DEF Known
  <2> QED BY <2>2, <2>3
<1>11. PendingKnown'
  <2> SUFFICES ASSUME NEW a \in Untouched, NEW s \in 0..Horizon, <<a, s>> \in PendingSlots'
               PROVE  <<a, s>> \in asked' /\ Known(a, s)'
      BY DEF PendingKnown, Untouched
  <2>1. CASE <<a, s>> \in PendingSlots   BY <1>1, <1>2, <1>10, <2>1 DEF Settled, PendingKnown
  <2>2. CASE <<a, s>> \in Slots(new)     BY <1>2, <2>2 DEF Known, Untouched
  <2> QED BY <1>3, <2>1, <2>2
<1>12. ReadyMarked'   BY <1>1 DEF Settled, ReadyMarked, Untouched
<1>13. \A a \in Untouched, h \in 0..Horizon, d \in 0..Horizon :
          <<a, h>> \in heard /\ <<a, d>> \in Slots(new) => h < d
  <2> SUFFICES ASSUME NEW a \in Untouched, NEW h \in 0..Horizon, NEW d \in 0..Horizon,
                      <<a, h>> \in heard, <<a, d>> \in Slots(new)
               PROVE  h < d
      OBVIOUS
  <2>1. CASE Known(a, h)   BY <1>4, <2>1
  <2>2. CASE ~Known(a, h)
    <3>1. checker.at = "listed" /\ checker.list[a].played < d   BY <1>4
    <3>2. checker.list[a].played >= h   BY <1>1, <2>2, <3>1 DEF Settled, HeardSettled
    <3>3. checker.list[a].played \in Int
      <4>1. checker.list[a] \in ValidRows
            BY <1>1, <3>1 DEF Settled, SameRows, Typed, Tables, Untouched
      <4> QED BY <4>1 DEF ValidRows, Row, NoTime
    <3> QED BY <3>1, <3>2, <3>3
  <2> QED BY <2>1, <2>2
<1>14. HeardSettled'
  <2> SUFFICES ASSUME NEW a \in Untouched, NEW s \in 0..Horizon, <<a, s>> \in heard
               PROVE  /\ <<a, s>> \in asked' /\ table[a].played >= s
                      /\ Known(a, s)' \/ (checker'.at = "listed" => checker'.list[a].played >= s)
                      /\ \A u \in 0..Horizon : <<a, u>> \in PendingSlots' => s < u
      BY DEF HeardSettled, Untouched
  <2>1. /\ <<a, s>> \in asked /\ table[a].played >= s
        /\ Known(a, s) \/ (checker.at = "listed" => checker.list[a].played >= s)
        /\ \A u \in 0..Horizon : <<a, u>> \in PendingSlots => s < u
        BY <1>1 DEF Settled, HeardSettled
  <2>2. Known(a, s)' \/ (checker'.at = "listed" => checker'.list[a].played >= s)
        BY <1>10, <2>1 DEF Idle
  <2> QED BY <1>2, <1>3, <1>13, <2>1, <2>2
<1>15. \A s \in 0..Horizon : ~(s < s)   BY HorizonAssumption
<1> QED BY <1>3, <1>7, <1>8, <1>9, <1>11, <1>12, <1>13, <1>14, <1>15 DEF Sound, Settled

LEMMA PendingTimes == ASSUME Typed PROVE PendingSlots \subseteq Times
<1>1. ASSUME NEW s \in Seq(Request) PROVE Slots(s) \subseteq Times
  <2>1. \A i \in DOMAIN s : s[i] \in Request   OBVIOUS
  <2>2. \A d \in Request : d.ann \in Anns /\ (d.due # Test => d.due \in 0..Horizon)   BY DEF Request
  <2> QED BY <2>1, <2>2 DEF Slots, Items, Times
<1> QED BY <1>1 DEF Typed, PendingSlots

\* A step that hears nothing and asks for nothing gives up what it drops.
LEMMA GivesUp ==
  ASSUME PendingSlots' \subseteq PendingSlots, touched \subseteq touched', heard' = heard
  PROVE  [Promise!Next]_Promise!vars
BY DEF Promise!Next, Promise!GiveUp

\* The lists stay; rows and the table in the hands of the check may change.
LEMMA QuietSound ==
  ASSUME Typed, Typed', Sound, time <= time', touched \subseteq touched',
         UNCHANGED <<taken, waiting, list, ready, queued, asked, heard>>,
         \A a \in Untouched' :
           /\ table'[a] # Gone /\ SameTimes(table'[a], table[a])
           /\ \A s \in 0..Horizon :
                <<a, s>> \in Prepared /\ table[a].played >= s => table'[a].played >= s,
         checker' \in {checker, Idle, [at |-> "listed", list |-> table]}
  PROVE  Sound' /\ [Promise!Next]_Promise!vars
<1>1. PendingSlots' = PendingSlots   BY DEF PendingSlots
<1>2. Settled /\ InLine(touched, queued, ready, list, waiting)   BY DEF Sound
<1>3. InLine(touched', queued, ready, list, waiting)   BY <1>2, MoreLeftOut DEF InLine
<1>4. \A a \in Untouched', s \in 0..Horizon :
         <<a, s>> \in (Slots(ready) \cup Slots(queued))' =>
           <<a, s>> \in Slots(ready) \cup Slots(queued) \/ table'[a].played >= s
      OBVIOUS
<1>5. Settled'   BY <1>1, <1>2, <1>4, StepSettled
<1> QED BY <1>1, <1>3, <1>5, GivesUp DEF Sound

LEMMA RowsStay ==
  ASSUME Sound, NEW a \in Untouched
  PROVE  table[a] # Gone /\ SameTimes(table[a], table[a])
BY DEF Sound, Settled, SameRows, SameTimes

\* The check that reads the table, a minute, and a step of the group between two lists.
LEMMA IdleSound ==
  ASSUME Typed, Typed', Sound, time <= time',
         UNCHANGED <<table, taken, waiting, list, ready, queued, asked, heard, touched>>,
         checker' \in {checker, Idle, [at |-> "listed", list |-> table]}
  PROVE  Sound' /\ [Promise!Next]_Promise!vars
<1>1. \A a \in Untouched' : table'[a] # Gone /\ SameTimes(table'[a], table[a])
      BY RowsStay DEF Untouched
<1> QED BY <1>1, QuietSound

LEMMA EditSound ==
  ASSUME Typed, Typed', Sound,
         (\E a \in Anns, r \in Rows : Update(a, r)) \/ (\E a \in Anns : Delete(a)) \/ (\E r \in Rows : Create(r))
  PROVE  Sound' /\ [Promise!Next]_Promise!vars
<1>1. time <= time' /\ UNCHANGED <<checker, taken, waiting, list, ready, queued, asked, heard>>
  <2>1. time' = time /\ UNCHANGED <<checker, taken, waiting, list, ready, queued, asked, heard>>
        BY DEF Update, Delete, Create, Edited, requests
  <2> QED BY <2>1, HorizonAssumption DEF Typed
<1>2. ASSUME NEW b, NEW row, table' = [table EXCEPT ![b] = row],
             b \in touched' \/
               (b \in Anns /\ table[b] # Gone /\ SameTimes(row, table[b]) /\ row.played = table[b].played),
             touched \subseteq touched'
      PROVE  Sound' /\ [Promise!Next]_Promise!vars
  <2>1. ASSUME NEW a \in Untouched'
        PROVE  /\ table'[a] # Gone /\ SameTimes(table'[a], table[a])
               /\ table'[a].played = table[a].played
    <3>1. a \in Untouched /\ a \in Anns   BY <1>2 DEF Untouched
    <3>2. table[a] # Gone /\ SameTimes(table[a], table[a])
          BY <3>1, RowsStay
    <3>3. CASE a = b
      <4>1. table'[a] = row   BY <1>2, <3>1, <3>3 DEF Typed, Tables
      <4>2. b \notin touched'   BY <3>3 DEF Untouched
      <4>3. row # Gone
        <5>1. row.every = table[b].every   BY <1>2, <4>2 DEF SameTimes, TimesOf
        <5>2. table'[a] \in ValidRows \cup {Gone}   BY <3>1 DEF Typed, Tables
        <5>3. /\ row.played = table[b].played /\ SameTimes(row, table[b]) /\ table[b] # Gone
              BY <1>2, <4>2
        <5>4. table[b].mode \in {"at", "every"}
              BY <1>2, <4>2, <5>3 DEF Typed, Tables, ValidRows, Row
        <5>5. row.mode \in {"at", "every"}   BY <5>3, <5>4 DEF SameTimes, TimesOf
        <5> QED BY <5>5 DEF Gone
      <4> QED BY <1>2, <3>2, <3>3, <4>1, <4>2, <4>3
    <3>4. CASE a # b
      <4>1. table'[a] = table[a]   BY <1>2, <3>1, <3>4 DEF Typed, Tables
      <4> QED BY <3>2, <4>1
    <3> QED BY <3>3, <3>4
  <2> QED BY <1>1, <1>2, <2>1, QuietSound
<1>3. ASSUME NEW a \in Anns, Delete(a) PROVE Sound' /\ [Promise!Next]_Promise!vars
      BY <1>2, <1>3 DEF Delete, Edited
<1>4. ASSUME NEW r \in Rows, Create(r) PROVE Sound' /\ [Promise!Next]_Promise!vars
      BY <1>2, <1>4 DEF Create, Edited
<1>5. ASSUME NEW a \in Anns, NEW r \in Rows, Update(a, r)
      PROVE  Sound' /\ [Promise!Next]_Promise!vars
  <2> DEFINE c == IF r.source = table[a].source THEN table[a].cycle ELSE 0
             q == [r EXCEPT !.played = table[a].played, !.cycle = c]
  <2>1. table' = [table EXCEPT ![a] = q] /\ table[a] # Gone   BY <1>5 DEF Update, Edited, Existing
  <2>2. r \in Row   BY RowsAssumption DEF ValidRow
  <2>3. q.played = table[a].played /\ SameTimes(q, r)   BY <2>2 DEF Row, SameTimes, TimesOf
  <2>4. touched \subseteq touched' /\ (a \notin touched' => SameTimes(r, table[a]))
        BY <1>5 DEF Update
  <2>5. a \notin touched' => SameTimes(q, table[a])   BY <2>3, <2>4 DEF SameTimes
  <2> HIDE DEF q
  <2> QED BY <1>2, <2>1, <2>3, <2>4, <2>5
<1> QED BY <1>3, <1>4, <1>5

\* The steps of the group that move requests from one list to the next or drop them.
LEMMA MoveSound ==
  ASSUME Typed, Typed', Sound, UNCHANGED <<time, checker, asked, heard, touched>>,
         InLine(touched, queued', ready', list', waiting'),
         PendingSlots' \subseteq PendingSlots,
         \A a \in Untouched :
           /\ table'[a] # Gone /\ SameTimes(table'[a], table[a])
           /\ \A s \in 0..Horizon :
                <<a, s>> \in Prepared /\ table[a].played >= s => table'[a].played >= s,
         \A a \in Untouched, s \in 0..Horizon :
           taken[a] = s /\ taken'[a] # s => <<a, s>> \in PendingSlots \ PendingSlots',
         \A a \in Untouched, s \in 0..Horizon :
           <<a, s>> \in (Slots(ready) \cup Slots(queued))' =>
             <<a, s>> \in Slots(ready) \cup Slots(queued) \/ table'[a].played >= s
  PROVE  Sound' /\ [Promise!Next]_Promise!vars
<1>1. Settled   BY DEF Sound
<1>2. Untouched' = Untouched   BY DEF Untouched
<1>3. \A a \in Untouched, s \in 0..Horizon :
         <<a, s>> \in PendingSlots' =>
           <<a, s>> \in PendingSlots /\ (taken[a] = s => taken'[a] = s)
      OBVIOUS
<1>4. ASSUME NEW a \in Untouched, NEW s \in 0..Horizon, <<a, s>> \in heard, taken[a] = s
      PROVE  taken'[a] = s
  <2>1. <<a, s>> \notin PendingSlots
    <3>1. <<a, s>> \in PendingSlots => s < s   BY <1>1, <1>4 DEF Settled, HeardSettled
    <3> QED BY <3>1, HorizonAssumption
  <2> QED BY <1>4, <2>1
<1>5. time <= time'   BY HorizonAssumption DEF Typed
<1>6. Settled'   BY <1>1, <1>2, <1>3, <1>4, <1>5, StepSettled
<1> QED BY <1>6, GivesUp DEF Sound

LEMMA TakeSound ==
  ASSUME Typed, Typed', Sound, GroupTake \/ GroupJoin
  PROVE  Sound' /\ [Promise!Next]_Promise!vars
<1>1. /\ list = <<>> /\ list' = waiting /\ waiting' = <<>>
      /\ UNCHANGED <<time, table, checker, taken, ready, queued, asked, heard, touched>>
      BY DEF GroupTake, GroupJoin, Typed
<1>2. InLine(touched, queued', ready', list', waiting')
  <2>1. InLine(touched, queued, ready, <<>>, waiting)   BY <1>1 DEF Sound
  <2>2. InLine(touched, queued, ready, waiting, <<>>)   BY <2>1, LineTaken DEF Typed
  <2> QED BY <1>1, <2>2
<1>3. PendingSlots' = PendingSlots   BY <1>1, NoSlots DEF PendingSlots
<1> QED BY <1>1, <1>2, <1>3, RowsStay, MoveSound

\* The first of the list is dropped: its row is gone, or it cannot be prepared.
LEMMA DropSound ==
  ASSUME Typed, Typed', Sound, list # <<>>, list' = Tail(list),
         UNCHANGED <<time, checker, table, waiting, ready, queued, asked, heard, touched>>,
         taken' = taken \/ Forget(Head(list))
  PROVE  Sound' /\ [Promise!Next]_Promise!vars
<1>1. /\ list \in Seq(Request) /\ ready \in Seq(Request) /\ queued \in Seq(Request)
      /\ waiting \in Seq(Request) /\ InLine(touched, queued, ready, list, waiting)
      BY DEF Typed, Sound
<1>2. Slots(list) = Slots(<<Head(list)>>) \cup Slots(Tail(list))   BY <1>1, HeadAndTail
<1>3. InLine(touched, queued', ready', list', waiting')   BY <1>1, LineWithoutHead
<1>4. PendingSlots' \subseteq PendingSlots   BY <1>2 DEF PendingSlots
<1>5. ASSUME NEW a \in Untouched, NEW s \in 0..Horizon, taken[a] = s, taken'[a] # s
      PROVE  <<a, s>> \in PendingSlots \ PendingSlots'
  <2>1. Head(list).ann = a /\ Head(list).due = s /\ s # Test
        BY <1>5 DEF Forget, Typed, Untouched
  <2>2. <<a, s>> \in Slots(<<Head(list)>>)   BY <2>1, SlotOf
  <2>3. a \notin touched /\ s \in Int   BY DEF Untouched
  <2>4. <<a, s>> \notin Slots(queued) \cup Slots(ready) \cup Slots(Tail(list)) \cup Slots(waiting)
        BY <1>1, <2>2, <2>3, HeadOnce
  <2> QED BY <1>2, <2>2, <2>4 DEF PendingSlots
<1> QED BY <1>3, <1>4, <1>5, RowsStay, MoveSound

LEMMA MarkSound ==
  ASSUME Typed, Typed', Sound, GroupMark
  PROVE  Sound' /\ [Promise!Next]_Promise!vars
<1> DEFINE d == Head(list)
<1>1. /\ list \in Seq(Request) /\ ready \in Seq(Request) /\ queued \in Seq(Request)
      /\ waiting \in Seq(Request) /\ InLine(touched, queued, ready, list, waiting)
      /\ pc = "mark" /\ list # <<>>
      BY DEF Typed, Sound, GroupMark
<1>2. /\ d \in Request /\ <<d>> \in Seq(Request) /\ Tail(list) \in Seq(Request)
      /\ Slots(list) = Slots(<<d>>) \cup Slots(Tail(list))
      BY <1>1, HeadAndTail
<1>3. /\ ready' = ready \o <<d>> /\ list' = Tail(list)
      /\ UNCHANGED <<time, checker, taken, waiting, queued, asked, heard, touched>>
  <2>1. Append(ready, d) = ready \o <<d>>   BY <1>1, <1>2
  <2> QED BY <2>1 DEF GroupMark, requests
<1>4. InLine(touched, queued', ready', list', waiting')   BY <1>1, <1>3, LineMarked
<1>5. Slots(ready') = Slots(ready) \cup Slots(<<d>>)   BY <1>1, <1>2, <1>3, ConcatSlots
<1>6. PendingSlots' = PendingSlots   BY <1>2, <1>3, <1>5 DEF PendingSlots
<1>7. ASSUME NEW a \in Untouched
      PROVE  /\ table'[a] # Gone /\ SameTimes(table'[a], table[a])
             /\ \A s \in 0..Horizon :
                  <<a, s>> \in Prepared /\ table[a].played >= s => table'[a].played >= s
             /\ \A s \in 0..Horizon : <<a, s>> \in Slots(<<d>>) => table'[a].played >= s
  <2>1. table[a] # Gone /\ SameTimes(table[a], table[a])
        BY RowsStay
  <2>2. table[a] \in ValidRows /\ a \in Anns /\ a \notin touched
        BY <2>1 DEF Typed, Tables, Untouched
  <2>3. CASE d.ann # a
    <3>1. table'[a] = table[a]   BY <2>2, <2>3 DEF GroupMark, Typed, Tables
    <3>2. \A s \in 0..Horizon : <<a, s>> \notin Slots(<<d>>)   BY <2>3, SlotOf
    <3> QED BY <2>1, <3>1, <3>2
  <2>4. CASE d.ann = a
    <3> DEFINE q == MarkAnnouncement(table[a], d.due, NextCycle(got))
    <3>1. table'[a] = q   BY <2>1, <2>2, <2>4 DEF GroupMark, Typed, Tables
    <3>2. /\ q \in ValidRows /\ SameTimes(q, table[a])
          /\ q.played = IF d.due = Test THEN table[a].played ELSE d.due
          BY <1>1, <1>2, <2>2, MarkedRow
    <3> HIDE DEF q
    <3>3. q # Gone   BY <3>2 DEF ValidRows, Row, Gone
    <3>4. table[a].played \in Int   BY <2>2 DEF ValidRows, Row, NoTime
    <3>5. \A s \in 0..Horizon : <<a, s>> \in Slots(<<d>>) => s = d.due /\ d.due # Test   BY SlotOf
    <3>6. CASE d.due = Test   BY <2>1, <3>1, <3>2, <3>3, <3>5, <3>6
    <3>7. CASE d.due # Test
      <4>1. d.due \in 0..Horizon /\ d.due \in Int   BY <1>2, <3>7 DEF Request
      <4>2. <<a, d.due>> \in Slots(<<d>>)   BY <2>4, <3>7, SlotOf
      <4>3. ASSUME NEW s \in 0..Horizon, <<a, s>> \in Prepared PROVE s < d.due
        <5>1. CASE <<a, s>> \in heard
          <6>1. <<a, d.due>> \in PendingSlots   BY <1>2, <4>2 DEF PendingSlots
          <6> QED BY <4>1, <5>1, <6>1 DEF Sound, Settled, HeardSettled
        <5>2. CASE <<a, s>> \in Slots(ready) \cup Slots(queued)
          <6>1. Ahead(touched, ready, <<d>>) /\ Ahead(touched, queued, <<d>>)
                BY <1>1, HeadLine DEF InLine
          <6> QED BY <1>1, <1>2, <2>2, <4>2, <5>2, <6>1, SlotLess
        <5> QED BY <4>3, <5>1, <5>2 DEF Prepared
      <4>4. \A s \in 0..Horizon : <<a, s>> \in Prepared => d.due >= s
            BY <4>1, <4>3, HorizonAssumption
      <4>5. d.due >= d.due   BY <4>1
      <4> QED BY <3>1, <3>2, <3>3, <3>5, <3>7, <4>4, <4>5
    <3> QED BY <3>6, <3>7
  <2> QED BY <2>3, <2>4
<1> QED BY <1>3, <1>4, <1>5, <1>6, <1>7, MoveSound

\* A failed InsertNext forgets its request, which stands nowhere else.
LEMMA QueueSound ==
  ASSUME Typed, Typed', Sound, GroupQueue
  PROVE  Sound' /\ [Promise!Next]_Promise!vars
<1>1. /\ ready \in Seq(Request) /\ queued \in Seq(Request) /\ waiting \in Seq(Request)
      /\ InLine(touched, queued, ready, <<>>, waiting) /\ list = <<>>
      BY DEF Typed, Sound, GroupQueue
<1>2. PICK lost \in SUBSET DOMAIN ready :
        /\ taken' = [a \in Anns |->
             IF \E i \in lost : ready[i].ann = a /\ ready[i].due = taken[a] THEN NoTime ELSE taken[a]]
        /\ \E kept \in InOrder(DOMAIN ready \ lost) : queued' = queued \o AtPlaces(ready, kept)
      BY DEF GroupQueue
<1>3. PICK kept \in InOrder(DOMAIN ready \ lost) : queued' = queued \o AtPlaces(ready, kept)
      BY <1>2
<1> DEFINE p == AtPlaces(ready, kept)
<1>4. /\ kept \in Seq(DOMAIN ready \ lost) /\ \A i, j \in DOMAIN kept : i < j => kept[i] < kept[j]
      /\ p \in Seq(Request)
      BY <1>1, KeptOfReady
<1>5. kept \in Seq(DOMAIN ready) /\ \A i \in DOMAIN kept : kept[i] \in DOMAIN ready \ lost
      BY <1>4
<1>6. /\ Ascending(touched, p) /\ Ahead(touched, queued, p) /\ Ahead(touched, p, waiting)
      /\ Slots(p) \subseteq Slots(ready)
      /\ \A x \in Slots(p) : \E i \in DOMAIN kept :
           x = <<ready[kept[i]].ann, ready[kept[i]].due>> /\ ready[kept[i]].due # Test
  <2>1. /\ Ascending(touched, ready) /\ Ahead(touched, queued, ready)
        /\ Ahead(touched, ready, waiting)
        BY <1>1 DEF InLine
  <2> QED BY <1>1, <1>4, <1>5, <2>1, PlacesLine
<1> HIDE DEF p
<1>7. InLine(touched, queued', ready', list', waiting')
  <2>1. InLine(touched, queued \o p, <<>>, <<>>, waiting)   BY <1>1, <1>4, <1>6, LineQueued
  <2> QED BY <1>3, <2>1 DEF GroupQueue, p
<1>8. Slots(queued') = Slots(queued) \cup Slots(p)   BY <1>1, <1>3, <1>4, ConcatSlots DEF p
<1>9. /\ Slots(ready') = {} /\ Slots(list) = {} /\ Slots(list') = {}
      /\ UNCHANGED <<time, table, checker, waiting, asked, heard, touched>>
      BY <1>1, NoSlots DEF GroupQueue
<1>10. PendingSlots' \subseteq PendingSlots   BY <1>6, <1>8, <1>9 DEF PendingSlots
<1>11. ASSUME NEW a \in Untouched, NEW s \in 0..Horizon, taken[a] = s, taken'[a] # s
       PROVE  <<a, s>> \in PendingSlots \ PendingSlots'
  <2>1. a \in Anns /\ a \notin touched /\ s # Test /\ ~(s < s)
        BY HorizonAssumption DEF Untouched, Test, NoTime
  <2>2. PICK i \in lost : ready[i].ann = a /\ ready[i].due = s   BY <1>2, <1>11, <2>1
  <2>3. i \in DOMAIN ready   OBVIOUS
  <2>4. <<a, s>> \in Slots(ready)   BY <1>1, <2>1, <2>2, <2>3, SlotIn
  <2>5. <<a, s>> \notin Slots(queued) /\ <<a, s>> \notin Slots(waiting)
    <3>1. Ahead(touched, queued, ready) /\ Ahead(touched, ready, waiting)   BY <1>1 DEF InLine
    <3> QED BY <1>1, <2>1, <2>4, <3>1, SlotLess
  <2>6. <<a, s>> \notin Slots(p)
    <3> SUFFICES ASSUME <<a, s>> \in Slots(p) PROVE FALSE   OBVIOUS
    <3>1. PICK m \in DOMAIN kept : <<a, s>> = <<ready[kept[m]].ann, ready[kept[m]].due>>   BY <1>6
    <3>2. kept[m] \in DOMAIN ready /\ kept[m] # i   BY <1>5
    <3>3. i < kept[m] \/ kept[m] < i
      <4>1. DOMAIN ready = 1..Len(ready) /\ Len(ready) \in Nat   BY <1>1
      <4> QED BY <2>3, <3>2, <4>1
    <3>4. Rivals(touched, ready[i], ready[kept[m]]) /\ Rivals(touched, ready[kept[m]], ready[i])
          BY <2>1, <2>2, <3>1 DEF Rivals
    <3> QED BY <1>1, <2>1, <2>2, <2>3, <3>1, <3>2, <3>3, <3>4 DEF InLine, Ascending
  <2> QED BY <1>8, <1>9, <2>4, <2>5, <2>6 DEF PendingSlots
<1>12. \A a \in Untouched, s \in 0..Horizon :
          <<a, s>> \in (Slots(ready) \cup Slots(queued))' => <<a, s>> \in Slots(ready) \cup Slots(queued)
       BY <1>6, <1>8, <1>9
<1> QED BY <1>7, <1>9, <1>10, <1>11, <1>12, RowsStay, MoveSound

\* MPD skips a file it cannot read.
LEMMA SkipSound ==
  ASSUME Typed, Typed', Sound, queued # <<>>, queued' = Tail(queued),
         UNCHANGED <<time, checker, table, taken, list, waiting, ready, asked, heard, touched>>
  PROVE  Sound' /\ [Promise!Next]_Promise!vars
<1>1. InLine(touched, queued', ready', list', waiting')   BY LineWithoutHead DEF Typed, Sound
<1>2. Slots(queued) = Slots(<<Head(queued)>>) \cup Slots(Tail(queued))   BY HeadAndTail DEF Typed
<1>3. PendingSlots' \subseteq PendingSlots   BY <1>2 DEF PendingSlots
<1> QED BY <1>1, <1>2, <1>3, RowsStay, MoveSound

LEMMA CutSound ==
  ASSUME Typed, Typed', Sound, GroupCut
  PROVE  Sound' /\ [Promise!Next]_Promise!vars
<1>1. /\ queued' = <<>> /\ list = <<>> /\ ready = <<>>
      /\ UNCHANGED <<time, checker, table, list, waiting, ready, asked, heard, touched>>
      BY DEF GroupCut, Typed
<1>2. InLine(touched, queued', ready', list', waiting')   BY <1>1, NoSlots DEF Sound, InLine
<1>3. PendingSlots' \subseteq PendingSlots   BY <1>1, NoSlots DEF PendingSlots
<1>4. ASSUME NEW a \in Untouched, NEW s \in 0..Horizon, taken[a] = s, taken'[a] # s
      PROVE  <<a, s>> \in PendingSlots \ PendingSlots'
  <2>1. a \in Anns /\ a \notin touched /\ s # Test /\ ~(s < s)
        BY HorizonAssumption DEF Untouched, Test, NoTime
  <2>2. \E d \in Items(queued) : d.ann = a /\ d.due = s   BY <1>4, <2>1 DEF GroupCut
  <2>3. <<a, s>> \in Slots(queued)   BY <2>1, <2>2 DEF Slots
  <2>4. <<a, s>> \notin Slots(waiting)
    <3>1. Ahead(touched, queued, waiting)   BY DEF Sound, InLine
    <3> QED BY <2>1, <2>3, <3>1, SlotLess DEF Typed
  <2> QED BY <1>1, <2>3, <2>4, NoSlots DEF PendingSlots
<1> QED BY <1>1, <1>2, <1>3, <1>4, NoSlots, RowsStay, MoveSound

LEMMA KillSound ==
  ASSUME Typed, Typed', Sound, Kill
  PROVE  Sound' /\ [Promise!Next]_Promise!vars
<1>1. /\ waiting' = <<>> /\ list' = <<>> /\ ready' = <<>> /\ queued' = <<>> /\ checker' = Idle
      /\ UNCHANGED <<time, table, asked, heard, touched>>
      BY DEF Kill
<1>2. InLine(touched', queued', ready', list', waiting')   BY <1>1, NoSlots DEF InLine
<1>3. PendingSlots' = {} /\ (Slots(ready) \cup Slots(queued))' = {}   BY <1>1, NoSlots DEF PendingSlots
<1>4. Untouched' = Untouched /\ time <= time' /\ checker'.at = "idle"
      BY <1>1, HorizonAssumption DEF Untouched, Typed, Idle
<1>5. Settled /\ \A a \in Untouched' : table'[a] # Gone /\ SameTimes(table'[a], table[a])
      BY <1>1, <1>4, RowsStay DEF Sound
<1>6. Settled'   BY <1>1, <1>3, <1>4, <1>5, StepSettled
<1> QED BY <1>1, <1>2, <1>3, <1>6, GivesUp DEF Sound

\* MPD plays the first of the queue, which stands nowhere else and is older than the rest.
LEMMA HearSound ==
  ASSUME Typed, Typed', Sound, GroupHears
  PROVE  Sound' /\ [Promise!Next]_Promise!vars
<1> DEFINE h == Slots(<<Head(queued)>>)
<1>1. /\ queued # <<>> /\ queued' = Tail(queued)
      /\ heard' = heard \cup {s \in h : s[1] \notin touched}
      /\ UNCHANGED <<time, checker, table, taken, list, waiting, ready, asked, touched>>
      BY DEF GroupHears, requests
<1>2. /\ list \in Seq(Request) /\ ready \in Seq(Request) /\ queued \in Seq(Request)
      /\ waiting \in Seq(Request) /\ InLine(touched, queued, ready, list, waiting) /\ Settled
      BY DEF Typed, Sound
<1>3. InLine(touched', queued', ready', list', waiting')   BY <1>1, <1>2, LineWithoutHead
<1>4. /\ <<Head(queued)>> \in Seq(Request) /\ Tail(queued) \in Seq(Request)
      /\ Slots(queued) = h \cup Slots(Tail(queued))
      BY <1>1, <1>2, HeadAndTail
<1>5. PendingSlots' \subseteq PendingSlots /\ PendingSlots = PendingSlots' \cup h
      BY <1>1, <1>4 DEF PendingSlots
<1>6. \A a \in Untouched, s \in 0..Horizon : <<a, s>> \in h =>
         \A u \in 0..Horizon : <<a, u>> \in PendingSlots' => s < u
  <2> SUFFICES ASSUME NEW a \in Untouched, NEW s \in 0..Horizon, NEW u \in 0..Horizon,
                      <<a, s>> \in h, <<a, u>> \in PendingSlots'
               PROVE  s < u
      OBVIOUS
  <2>1. <<a, u>> \in Slots(Tail(queued)) \cup Slots(ready) \cup Slots(list) \cup Slots(waiting)
        BY <1>1 DEF PendingSlots
  <2>2. s \in Int /\ u \in Int /\ a \notin touched   BY HorizonAssumption DEF Untouched
  <2> QED BY <1>1, <1>2, <2>1, <2>2, HeadOnce
<1>7. Untouched' = Untouched /\ time <= time'   BY <1>1, HorizonAssumption DEF Untouched, Typed
<1>8. \A a \in Untouched' : table'[a] # Gone /\ SameTimes(table'[a], table[a])
      BY <1>1, <1>7, RowsStay
<1>9. \A a \in Untouched', s \in 0..Horizon :
         <<a, s>> \in heard' =>
           \/ <<a, s>> \in heard
           \/ <<a, s>> \in Slots(queued) /\ \A u \in 0..Horizon : <<a, u>> \in PendingSlots' => s < u
      BY <1>1, <1>4, <1>6, <1>7
<1>10. Settled'
  <2>1. \A a \in Untouched', s \in 0..Horizon :
           <<a, s>> \in (Slots(ready) \cup Slots(queued))' => <<a, s>> \in Slots(ready) \cup Slots(queued)
        BY <1>1, <1>4
  <2>2. checker' \in {checker, Idle, [at |-> "listed", list |-> table]} /\ asked' = asked
        /\ touched \subseteq touched'
        BY <1>1
  <2>3. \A a \in Untouched', s \in 0..Horizon :
           <<a, s>> \in PendingSlots' => <<a, s>> \in PendingSlots /\ (taken[a] = s => taken'[a] = s)
        BY <1>1, <1>5
  <2>4. \A a \in Untouched', s \in 0..Horizon : taken[a] = s => taken'[a] = s   BY <1>1
  <2> QED BY <1>1, <1>2, <1>7, <1>8, <1>9, <2>1, <2>2, <2>3, <2>4, StepSettled
<1>11. [Promise!Next]_Promise!vars
  <2>1. CASE \A s \in h : s[1] \in touched
    <3>1. heard' = heard   BY <1>1, <2>1
    <3> QED BY <1>1, <1>5, <3>1, GivesUp
  <2>2. CASE \E s \in h : s[1] \notin touched
    <3>1. PICK x \in h : x[1] \notin touched   BY <2>2
    <3>2. h = {x}
      <4>1. \A y \in h : y = <<Head(queued).ann, Head(queued).due>>   BY DEF Slots, Items
      <4> QED BY <4>1
    <3>3. x \in PendingSlots /\ x \in Times   BY <1>4, PendingTimes DEF PendingSlots
    <3>4. PICK a \in Anns, s \in 0..Horizon : x = <<a, s>>   BY <3>3 DEF Times
    <3>5. a \in Untouched /\ ~(s < s)   BY <3>1, <3>4, HorizonAssumption DEF Untouched
    <3>6. x \notin PendingSlots'   BY <1>6, <3>4, <3>5
    <3>7. x \notin heard   BY <1>2, <3>3, <3>4, <3>5 DEF Settled, HeardSettled
    <3>8. heard' = heard \cup {x}   BY <1>1, <3>1, <3>2
    <3>9. PendingSlots' = PendingSlots \ {x}   BY <1>5, <3>2, <3>6
    <3> QED BY <1>1, <3>1, <3>3, <3>7, <3>8, <3>9 DEF Promise!Next, Promise!Hear
  <2> QED BY <2>1, <2>2
<1> QED BY <1>3, <1>10, <1>11 DEF Sound

LEMMA InitSound == Init => Sound /\ Promise!Init
<1> SUFFICES ASSUME Init PROVE Sound /\ Promise!Init   OBVIOUS
<1>1. waiting = <<>> /\ list = <<>> /\ ready = <<>> /\ queued = <<>> /\ heard = {} /\ asked = {}
      BY DEF Init
<1>2. PendingSlots = {} /\ Slots(ready) \cup Slots(queued) = {}   BY <1>1, NoSlots DEF PendingSlots
<1>3. InLine(touched, queued, ready, list, waiting)   BY <1>1, NoSlots DEF InLine
<1>4. SameRows
  <2>1. table = FirstTable /\ checker.at = "idle"   BY DEF Init, Idle
  <2>2. \A a \in Anns : FirstTable[a] # Gone
    <3>1. \A a \in Anns : FirstTable[a] \in Row   BY TableAssumption
    <3> QED BY <3>1 DEF Row, Gone
  <2> QED BY <2>1, <2>2 DEF SameRows, SameTimes, Untouched
<1>5. Settled
      BY <1>1, <1>2, <1>4 DEF Settled, AskedHadCome, PendingKnown, ReadyMarked, HeardSettled
<1> QED BY <1>1, <1>2, <1>3, <1>5 DEF Sound, Promise!Init

LEMMA AskPromised ==
  ASSUME Typed, Typed', Sound, NEW new, Fresh(new), Requested(new),
         UNCHANGED <<time, table, list, ready, queued, heard, touched>>,
         checker' \in {checker, Idle}
  PROVE  Sound' /\ [Promise!Next]_Promise!vars
<1>1. /\ Sound' /\ PendingSlots' = PendingSlots \cup Slots(new)
      /\ \A a \in Untouched, s \in 0..Horizon : <<a, s>> \in Slots(new) => <<a, s>> \notin heard
      BY AskSound
<1>2. PendingSlots' \subseteq Times   BY <1>1, PendingTimes, AskedFor
<1>3. \A x \in Slots(new) : x[1] \notin touched => x \notin heard
  <2> SUFFICES ASSUME NEW x \in Slots(new), x[1] \notin touched PROVE x \notin heard   OBVIOUS
  <2>1. x \in Times   BY AskedFor
  <2>2. PICK a \in Anns, s \in 0..Horizon : x = <<a, s>>   BY <2>1 DEF Times
  <2> QED BY <1>1, <2>2 DEF Untouched
<1>4. Promise!Ask   BY <1>1, <1>2, <1>3 DEF Promise!Ask
<1> QED BY <1>1, <1>4 DEF Promise!Next

LEMMA NextSound ==
  ASSUME Typed, Typed', Sound, [Next]_vars
  PROVE  Sound' /\ [Promise!Next]_Promise!vars
<1> DEFINE Goal == Sound' /\ [Promise!Next]_Promise!vars
<1>1. time <= time   BY HorizonAssumption DEF Typed
<1>2. ASSUME UNCHANGED <<table, taken, waiting, list, ready, queued, asked, heard, touched>>,
             time' \in {time, time + 1},
             checker' \in {checker, [at |-> "listed", list |-> table]}
      PROVE  Goal
  <2>1. time <= time'   BY <1>2, HorizonAssumption DEF Typed
  <2> QED BY <1>2, <2>1, IdleSound
<1>3. CASE Check
  <2>1. CASE CheckList   BY <1>2, <2>1 DEF CheckList, requests, group
  <2>2. CASE CheckAsk
    <3>1. PICK new : Fresh(new) /\ Requested(new)   BY <2>2, CheckIsFresh
    <3> QED BY <2>2, <3>1, AskPromised DEF CheckAsk
  <2> QED BY <1>3, <2>1, <2>2 DEF Check
<1>4. ASSUME NEW a \in Anns, TestPlay(a) PROVE Goal
  <2>1. PICK new : Fresh(new) /\ Requested(new)   BY <1>4, TestIsFresh
  <2> QED BY <1>4, <2>1, AskPromised DEF TestPlay
<1>5. CASE People   BY <1>4, <1>5, EditSound DEF People
<1>6. CASE Group
  <2>1. CASE GroupTake \/ GroupJoin   BY <2>1, TakeSound
  <2>2. CASE GroupGet
    <3>1. CASE table[Head(list).ann] = Gone
      <4>1. /\ list # <<>> /\ list' = Tail(list)
            /\ UNCHANGED <<time, checker, table, taken, waiting, ready, queued, asked, heard, touched>>
            BY <2>2, <3>1 DEF GroupGet, requests
      <4> QED BY <4>1, DropSound
    <3>2. CASE table[Head(list).ann] # Gone   BY <1>2, <2>2, <3>2 DEF GroupGet, requests
    <3> QED BY <3>1, <3>2
  <2>3. CASE GroupMark           BY <2>3, MarkSound
  <2>4. CASE GroupQueue          BY <2>4, QueueSound
  <2>5. CASE GroupNothingReady   BY <1>2, <2>5 DEF GroupNothingReady, requests
  <2>6. CASE GroupHears          BY <2>6, HearSound
  <2>7. CASE GroupEnds           BY <1>2, <2>7 DEF GroupEnds, requests
  <2> QED BY <1>6, <2>1, <2>2, <2>3, <2>4, <2>5, <2>6, <2>7 DEF Group
<1>7. CASE Failures
  <2>1. CASE CheckFails   BY <1>2, <2>1 DEF CheckFails, requests, group
  <2>2. CASE PrepareFails
    <3>1. /\ list # <<>> /\ list' = Tail(list) /\ Forget(Head(list))
          /\ UNCHANGED <<time, checker, table, waiting, ready, queued, asked, heard, touched>>
          BY <2>2 DEF PrepareFails
    <3> QED BY <3>1, DropSound
  <2>3. CASE GroupSkips
    <3>1. /\ queued # <<>> /\ queued' = Tail(queued)
          /\ UNCHANGED <<time, checker, table, taken, list, waiting, ready, asked, heard, touched>>
          BY <2>3 DEF GroupSkips, requests
    <3> QED BY <3>1, SkipSound
  <2>4. CASE GroupCut   BY <2>4, CutSound
  <2> QED BY <1>7, <2>1, <2>2, <2>3, <2>4 DEF Failures
<1>8. CASE Minute   BY <1>2, <1>8 DEF Minute, requests, group
<1>9. CASE Kill     BY <1>9, KillSound
<1>10. CASE UNCHANGED vars   BY <1>2, <1>10 DEF vars, requests, group
<1> QED BY <1>3, <1>5, <1>6, <1>7, <1>8, <1>9, <1>10 DEF Next

\* The implementation: through joins, failures, stale tables, edits and kills a time of an announcement
\* whose times no person changed is in the hands of the group at most once, and once it was heard it is
\* never asked for again (addAnnouncements, markAnnouncement, forgetAnnouncement).
THEOREM NoTimeTwice == Spec => KeepsPromise
<1>1. Init => Sound /\ Promise!Init   BY InitSound
<1>2. Typed /\ Typed' /\ Sound /\ [Next]_vars => Sound' /\ [Promise!Next]_Promise!vars   BY NextSound
<1> QED BY <1>1, <1>2, AlwaysTyped, PTL DEF Spec, KeepsPromise, Promise!Spec

(****************************************************************************)
(* What the times are: an announcement plays at one minute of its days, or  *)
(* at a multiple of its interval, and LastSlot and SlotOnDay find these     *)
(* times by division.                                                       *)
(****************************************************************************)
LEMMA LeastTime ==
  ASSUME NEW S \in SUBSET Nat, S # {}
  PROVE  Min(S) \in S /\ \A y \in S : Min(S) <= y
<1> DEFINE R == StrictSubsetOrdering(Nat)
           B == {0..x : x \in S}
<1>1. B \subseteq FiniteSubsetsOf(Nat) /\ B # {}
  <2>1. \A x \in S : 0..x \in FiniteSubsetsOf(Nat)   BY FS_Interval DEF FiniteSubsetsOf
  <2> QED BY <2>1
<1>2. IsWellFoundedOn(R, FiniteSubsetsOf(Nat))   BY FS_StrictSubsetOrderingWellFounded
<1> HIDE DEF R, B
<1>3. PICK b \in B : \A c \in B : ~(<<c, b>> \in R)   BY <1>1, <1>2, WFMin
<1>4. PICK x \in S : b = 0..x   BY <1>3 DEF B
<1>5. ASSUME NEW y \in S, ~(x <= y) PROVE FALSE
  <2>1. 0..y \in B   BY DEF B
  <2>2. 0..y \subseteq 0..x /\ x \in 0..x /\ x \notin 0..y /\ 0..x \subseteq Nat   BY <1>5
  <2>3. <<0..y, 0..x>> \in R   BY <2>2 DEF R, StrictSubsetOrdering
  <2> QED BY <1>3, <1>4, <2>1, <2>3
<1>6. \A y \in S : x <= y   BY <1>5
<1> QED BY <1>6 DEF Min

LEMMA Quotient ==
  ASSUME NEW n \in Nat \ {0}, NEW q \in Int, NEW x \in Int, q * n <= x, x < q * n + n
  PROVE  x \div n = q /\ x % n = x - q * n
<1>1. q * n \in Int /\ n * q = q * n   OBVIOUS
<1>2. x = n * q + (x - q * n) /\ x - q * n \in 0..(n - 1)   BY <1>1
<1>3. \A k \in 0..(n - 1) : x = n * q + k => x \div n = q /\ x % n = k   OBVIOUS
<1> QED BY <1>2, <1>3

\* A minute of a day, and back.
LEMMA MinuteOfDay ==
  ASSUME NEW d \in Int, NEW m \in Minutes
  PROVE  AtTime(d, m) \in Int /\ DayOf(AtTime(d, m)) = d /\ AtTime(d, m) % DayLength = m
<1>1. d * DayLength \in Int /\ m \in Int /\ 0 <= m /\ m < DayLength /\ DayLength \in Nat \ {0}
      BY DayLengthAssumption DEF Minutes
<1>2. (d * DayLength + m) \div DayLength = d /\ (d * DayLength + m) % DayLength = m
      BY <1>1, Quotient
<1> QED BY <1>1, <1>2 DEF AtTime, DayOf

LEMMA DayAndMinute ==
  ASSUME NEW t \in Int
  PROVE  /\ DayOf(t) \in Int /\ t % DayLength \in Minutes /\ t = AtTime(DayOf(t), t % DayLength)
         /\ DayOf(t) * DayLength \in Int
         /\ DayOf(t) * DayLength <= t /\ t < DayOf(t) * DayLength + DayLength
         /\ t \in Nat => DayOf(t) \in Nat
<1>1. DayLength \in Nat \ {0}   BY DayLengthAssumption
<1>2. /\ t \div DayLength \in Int /\ t % DayLength \in 0..(DayLength - 1)
      /\ t = DayLength * (t \div DayLength) + (t % DayLength)
      /\ t \in Nat => t \div DayLength \in Nat
      BY <1>1
<1>3. DayLength * (t \div DayLength) = (t \div DayLength) * DayLength   BY <1>1, <1>2
<1> QED BY <1>1, <1>2, <1>3, Multiples DEF DayOf, AtTime, Minutes

IsSlot(r, s) == r.enabled /\ PlaysOn(r, DayOf(s)) /\ (s % DayLength) \in MinutesOf(r)

LEMMA SlotsAre == \A r, from, to : SlotsBetween(r, from, to) = {s \in from..to : IsSlot(r, s)}
BY DEF SlotsBetween, IsSlot

LEMMA RowFields ==
  ASSUME NEW r \in ValidRows
  PROVE  /\ r.at \in Minutes /\ r.first \in Minutes /\ r.last \in Minutes
         /\ r.mode \in {"at", "every"} /\ r.enabled \in BOOLEAN
         /\ r.mode = "every" => r.every \in Nat \ {0} /\ r.last > r.first
         /\ Minutes \in SUBSET Nat /\ r.played \in {NoTime} \cup Nat
BY DayLengthAssumption DEF ValidRows, ValidRow, Row, Minutes

\* A time of an interval is its start and a number of steps, and not after its end.
LEMMA SlotOfInterval ==
  ASSUME NEW r \in ValidRows, r.mode = "every", NEW s \in Int
  PROVE  /\ s % DayLength \in MinutesOf(r) =>
              \E k \in Nat : /\ k * r.every \in Nat
                             /\ s = AtTime(DayOf(s), r.first) + k * r.every
                             /\ s <= AtTime(DayOf(s), r.last)
         /\ \A k \in Nat, d \in Int :
              (s = AtTime(d, r.first) + k * r.every /\ s <= AtTime(d, r.last)) =>
                DayOf(s) = d /\ s % DayLength \in MinutesOf(r)
<1>1. /\ r.first \in Minutes /\ r.last \in Minutes /\ r.every \in Nat \ {0} /\ Minutes \in SUBSET Nat
      /\ r.first \in Nat /\ r.last \in Nat /\ r.last < DayLength /\ DayLength \in Nat
      BY RowFields, DayLengthAssumption DEF Minutes
<1>2. \A k \in Nat : k * r.every \in Nat /\ k <= k * r.every
  <2> SUFFICES ASSUME NEW k \in Nat PROVE k * r.every \in Nat /\ k <= k * r.every   OBVIOUS
  <2>1. r.every - 1 \in Nat   BY <1>1
  <2>2. k * (r.every - 1) \in Nat   BY <2>1
  <2>3. k * r.every = k * (r.every - 1) + k   BY <1>1
  <2> QED BY <2>2, <2>3
<1>3. ASSUME s % DayLength \in MinutesOf(r)
      PROVE  \E k \in Nat : /\ k * r.every \in Nat
                            /\ s = AtTime(DayOf(s), r.first) + k * r.every
                            /\ s <= AtTime(DayOf(s), r.last)
  <2>1. PICK k \in 0..DayLength : s % DayLength = r.first + k * r.every   BY <1>3 DEF MinutesOf
  <2>2. s % DayLength <= r.last   BY <1>1, <1>3 DEF MinutesOf
  <2>3. /\ s = DayOf(s) * DayLength + (s % DayLength) /\ DayOf(s) * DayLength \in Int
        /\ s % DayLength \in Minutes
        BY DayAndMinute DEF AtTime
  <2>4. k \in Nat /\ k * r.every \in Nat   BY <1>1, <1>2
  <2> DEFINE day   == DayOf(s) * DayLength
             steps == k * r.every
             m     == s % DayLength
  <2>5. /\ AtTime(DayOf(s), r.first) = day + r.first /\ AtTime(DayOf(s), r.last) = day + r.last
        BY DEF AtTime
  <2>6. s = day + m /\ m = r.first + steps /\ m <= r.last   BY <2>1, <2>2, <2>3
  <2>7. m \in Int /\ r.first \in Int /\ r.last \in Int /\ day \in Int /\ steps \in Nat
    <3>1. day \in Int   BY <2>3
    <3>2. steps \in Nat   BY <2>4
    <3>3. m \in Int
      <4>1. m \in Minutes   BY <2>3
      <4> HIDE DEF m
      <4> QED BY <1>1, <4>1
    <3> HIDE DEF day, steps, m
    <3> QED BY <1>1, <3>1, <3>2, <3>3
  <2> HIDE DEF day, steps, m
  <2>8. s = AtTime(DayOf(s), r.first) + steps /\ s <= AtTime(DayOf(s), r.last)   BY <2>5, <2>6, <2>7
  <2> QED BY <2>4, <2>8 DEF steps
<1>4. ASSUME NEW k \in Nat, NEW d \in Int,
             s = AtTime(d, r.first) + k * r.every, s <= AtTime(d, r.last)
      PROVE  DayOf(s) = d /\ s % DayLength \in MinutesOf(r)
  <2> DEFINE day   == d * DayLength
             steps == k * r.every
             m     == r.first + steps
  <2>1. steps \in Nat /\ k <= steps   BY <1>2
  <2>2. day \in Int   BY <1>1
  <2>3. s = day + r.first + steps /\ s <= day + r.last   BY <1>4 DEF AtTime
  <2> HIDE DEF day, steps
  <2>4. m \in Minutes /\ m \in r.first..r.last /\ k \in 0..DayLength
        BY <1>1, <2>1, <2>2, <2>3 DEF Minutes
  <2>5. DayOf(s) = d /\ s % DayLength = m
    <3>1. AtTime(d, m) = day + m   BY DEF AtTime, day
    <3>2. s = day + m   BY <1>1, <2>1, <2>2, <2>3
    <3> HIDE DEF m
    <3>3. s = AtTime(d, m)   BY <3>1, <3>2
    <3> QED BY <2>4, <3>3, MinuteOfDay
  <2>6. m \in MinutesOf(r)   BY <2>4, RowFields DEF MinutesOf, steps
  <2> QED BY <2>5, <2>6
<1> QED BY <1>3, <1>4

LEMMA TimeOfDay ==
  ASSUME NEW r \in ValidRows, r.mode = "at", NEW s \in Int
  PROVE  /\ s % DayLength \in MinutesOf(r) => s = AtTime(DayOf(s), r.at)
         /\ \A d \in Int : s = AtTime(d, r.at) => DayOf(s) = d /\ s % DayLength \in MinutesOf(r)
<1>1. r.at \in Minutes /\ MinutesOf(r) = {r.at}   BY RowFields DEF MinutesOf
<1> QED BY <1>1, DayAndMinute, MinuteOfDay

\* LastSlot finds a time of the row that has not given way to the next one.
LEMMA LastSlotFinds ==
  ASSUME NEW r \in ValidRows, NEW t \in Nat, NEW s \in 0..t
  PROVE  LastSlot(r, t) = s <=>
           /\ s % DayLength \in MinutesOf(r) /\ DayOf(t) = DayOf(s)
           /\ r.mode = "every" => t - s < r.every
<1> DEFINE day   == DayOf(t)
           first == AtTime(day, r.first)
           last  == AtTime(day, r.last)
           steps == (t - first) \div r.every
<1>1. /\ day \in Int /\ day * DayLength \in Int /\ t < day * DayLength + DayLength
      /\ s \in Int /\ t \in Int /\ s <= t /\ 0 <= s /\ s # NoTime
  <2>1. t \in Int /\ s \in Int /\ s <= t /\ 0 <= s /\ s # NoTime   BY DEF NoTime
  <2> QED BY <2>1, DayAndMinute
<1>2. r.mode \in {"at", "every"}   BY RowFields
<1>3. LastSlot(r, t) = s => DayOf(t) = DayOf(s)
  <2> SUFFICES ASSUME LastSlot(r, t) = s PROVE DayOf(s) = day   OBVIOUS
  <2>1. day * DayLength <= s   BY <1>1, SlotOfDay
  <2>2. s < day * DayLength + DayLength
    <3> DEFINE start == day * DayLength
    <3>1. start \in Int /\ t < start + DayLength /\ DayLength \in Int   BY <1>1, DayLengthAssumption
    <3> HIDE DEF start, day
    <3>2. s < start + DayLength   BY <1>1, <3>1
    <3> QED BY <3>2 DEF start
  <2> HIDE DEF day
  <2> QED BY <1>1, <2>1, <2>2, Quotient, DayLengthAssumption DEF DayOf
<1>4. CASE r.mode = "at"
  <2>1. s % DayLength \in MinutesOf(r) /\ DayOf(t) = DayOf(s) <=> s = AtTime(day, r.at)
        BY <1>1, <1>4, TimeOfDay
  <2>2. LastSlot(r, t) = s <=> s = AtTime(day, r.at)
        BY <1>1, <1>4 DEF LastSlot
  <2> QED BY <1>4, <2>1, <2>2
<1>5. CASE r.mode = "every"
  <2>1. /\ first \in Int /\ last \in Int /\ last > first /\ r.every \in Nat \ {0}
    <3>1. r.first \in Int /\ r.last \in Int /\ r.last > r.first /\ r.every \in Nat \ {0}
          BY <1>5, RowFields
    <3> QED BY <1>1, <3>1 DEF AtTime
  <2> HIDE DEF day
  <2>2. LastSlot(r, t) = s <=> t >= first /\ s = first + steps * r.every /\ s <= last
        BY <1>1, <1>5, <2>1 DEF LastSlot, LastSlotEvery, day
  <2> HIDE DEF first, last
  <2>3. /\ t - first \in Int /\ steps \in Int /\ steps * r.every \in Int
        /\ steps * r.every <= t - first /\ t - first < steps * r.every + r.every
        BY <1>1, <2>1, Multiples
  <2>4. ASSUME s % DayLength \in MinutesOf(r), DayOf(t) = DayOf(s), t - s < r.every
        PROVE  LastSlot(r, t) = s
    <3>1. PICK k \in Nat : k * r.every \in Nat /\ s = first + k * r.every /\ s <= last
          BY <1>1, <1>5, <2>4, SlotOfInterval DEF first, last, day
    <3> DEFINE p == k * r.every
    <3>2. p \in Nat /\ s = first + p /\ s <= last   BY <3>1
    <3> HIDE DEF p
    <3>3. p <= t - first /\ t - first < p + r.every /\ t >= first
          BY <1>1, <2>1, <2>4, <3>2
    <3>4. steps = k
      <4>1. k * r.every <= t - first /\ t - first < k * r.every + r.every   BY <3>3 DEF p
      <4>2. k \in Int /\ t - first \in Int /\ r.every \in Nat \ {0}   BY <2>1, <2>3
      <4>3. (t - first) \div r.every = k   BY ONLY <4>1, <4>2, Quotient
      <4> QED BY <4>3
    <3> QED BY <2>2, <3>2, <3>3, <3>4 DEF p
  <2>5. ASSUME LastSlot(r, t) = s
        PROVE  s % DayLength \in MinutesOf(r) /\ t - s < r.every
    <3> DEFINE p == steps * r.every
    <3>1. t >= first /\ s = first + p /\ s <= last /\ p \in Int /\ t - first < p + r.every
          BY <2>2, <2>3, <2>5
    <3>2. steps \in Nat
      <4>1. 0 <= t - first   BY <1>1, <2>1, <3>1
      <4>2. 0 \div r.every <= steps   BY <2>1, <2>3, <4>1, MultiplesKeepOrder
      <4>3. 0 \div r.every = 0   BY <2>1
      <4> QED BY <2>3, <4>2, <4>3
    <3>3. t - s < r.every
      <4> HIDE DEF p
      <4> QED BY <1>1, <2>1, <3>1
    <3>4. s % DayLength \in MinutesOf(r)
      <4> HIDE DEF steps
      <4> QED BY <1>1, <1>5, <3>1, <3>2, SlotOfInterval DEF first, last
    <3> QED BY <3>3, <3>4
  <2> QED BY <1>3, <1>5, <2>4, <2>5
<1> QED BY <1>2, <1>4, <1>5

\* What is due is the time that lasts and has not played; there is one at most.
LEMMA DueIsOpen ==
  ASSUME NEW r \in ValidRows, time \in Nat
  PROVE  /\ \A s \in Open(r) : AnnouncementDue(r, time) = s
         /\ AnnouncementDue(r, time) # NoTime => AnnouncementDue(r, time) \in Open(r)
         /\ Open(r) \in SUBSET (0..time)
<1>1. Open(r) = {s \in 0..time : IsSlot(r, s) /\ Lasts(r, s, time) /\ r.played < s}
      BY SlotsAre DEF Open
<1>2. ASSUME NEW s \in Open(r) PROVE AnnouncementDue(r, time) = s
  <2>1. s \in 0..time /\ IsSlot(r, s) /\ Lasts(r, s, time) /\ r.played < s   BY <1>1
  <2>2. LastSlot(r, time) = s   BY <2>1, LastSlotFinds DEF IsSlot, Lasts
  <2>3. s # NoTime   BY <2>1 DEF NoTime
  <2> QED BY <2>1, <2>2, <2>3 DEF AnnouncementDue, IsSlot, Lasts
<1>3. ASSUME AnnouncementDue(r, time) # NoTime PROVE AnnouncementDue(r, time) \in Open(r)
  <2> DEFINE s == LastSlot(r, time)
  <2>1. /\ AnnouncementDue(r, time) = s /\ s # NoTime /\ r.enabled /\ PlaysOn(r, DayOf(time))
        /\ time - s <= Grace /\ r.played < s
        BY <1>3 DEF AnnouncementDue
  <2>2. s \in 0..time   BY <2>1, SlotOfDay
  <2> HIDE DEF s
  <2>3. /\ s % DayLength \in MinutesOf(r) /\ DayOf(time) = DayOf(s)
        /\ r.mode = "every" => time - s < r.every
        BY <2>2, LastSlotFinds DEF s
  <2> QED BY <1>1, <2>1, <2>2, <2>3 DEF IsSlot, Lasts
<1> QED BY <1>1, <1>2, <1>3

LEMMA StepsKeepOrder ==
  ASSUME NEW n \in Nat \ {0}, NEW i \in Int, NEW j \in Int, i <= j
  PROVE  i * n \in Int /\ j * n \in Int /\ i * n <= j * n
<1>1. j - i \in Nat /\ (j - i) * n \in Nat   OBVIOUS
<1>2. j * n = i * n + (j - i) * n   OBVIOUS
<1>3. i * n \in Int /\ j * n \in Int   OBVIOUS
<1> QED BY <1>1, <1>2, <1>3

\* The first step of an interval after a time.
LEMMA NextStep ==
  ASSUME NEW n \in Nat \ {0}, NEW first \in Int, NEW t \in Int
  PROVE  LET next == IF first > t THEN first ELSE first + ((t - first) \div n + 1) * n
         IN  /\ next \in Int /\ next > t
             /\ \E k \in Nat : next = first + k * n
             /\ \A k \in Nat : k * n \in Nat /\ (first + k * n > t => next <= first + k * n)
<1> DEFINE next == IF first > t THEN first ELSE first + ((t - first) \div n + 1) * n
           q == (t - first) \div n
<1>1. \A k \in Nat : k * n \in Nat   OBVIOUS
<1>2. CASE first > t
  <2>1. next = first + 0 * n   BY <1>2
  <2> QED BY <1>1, <1>2, <2>1
<1>3. CASE ~(first > t)
  <2>1. t - first \in Int /\ 0 <= t - first   BY <1>3
  <2>2. q \in Int /\ q * n \in Int /\ q * n <= t - first /\ t - first < q * n + n
        BY <2>1, Multiples
  <2>3. q \in Nat
    <3>1. 0 \div n <= q /\ 0 \div n = 0   BY <2>1, MultiplesKeepOrder
    <3> QED BY <2>2, <3>1
  <2>4. next = first + (q + 1) * n   BY <1>3
  <2> HIDE DEF q, next
  <2>5. (q + 1) * n = q * n + n   BY <2>3
  <2>6. \A k \in Nat : first + k * n > t => next <= first + k * n
    <3> SUFFICES ASSUME NEW k \in Nat, first + k * n > t PROVE next <= first + k * n   OBVIOUS
    <3>1. ~(k <= q)
      <4> SUFFICES ASSUME k <= q PROVE FALSE   OBVIOUS
      <4>1. k * n <= q * n /\ k * n \in Int   BY <2>3, StepsKeepOrder
      <4> QED BY <2>2, <4>1
    <3>2. q + 1 \in Int /\ k \in Int /\ q + 1 <= k   BY <2>3, <3>1
    <3>3. (q + 1) * n <= k * n /\ k * n \in Int /\ (q + 1) * n \in Int   BY <3>2, StepsKeepOrder
    <3> QED BY <2>4, <3>3
  <2>7. next \in Int /\ next > t   BY <2>2, <2>4, <2>5
  <2>8. q + 1 \in Nat   BY <2>3
  <2> QED BY <1>1, <2>4, <2>6, <2>7, <2>8 DEF next
<1> QED BY <1>2, <1>3

\* SlotOnDay is the first time of the row that day after t.
LEMMA SlotOnDayFinds ==
  ASSUME NEW r \in ValidRows, NEW d \in Int, NEW t \in Nat, r.enabled
  PROVE  LET x == SlotOnDay(r, d, t)
         IN  /\ x # NoTime => x \in Nat /\ x > t /\ DayOf(x) = d /\ IsSlot(r, x)
             /\ \A s \in Int : s > t /\ DayOf(s) = d /\ IsSlot(r, s) => x # NoTime /\ x <= s
<1> DEFINE x     == SlotOnDay(r, d, t)
           first == AtTime(d, r.first)
           last  == AtTime(d, r.last)
           next  == IF first > t THEN first ELSE first + ((t - first) \div r.every + 1) * r.every
<1>1. r.mode \in {"at", "every"}   BY RowFields
<1>2. d * DayLength \in Int   BY DayLengthAssumption
<1>3. CASE r.mode = "at"
  <2> DEFINE at == AtTime(d, r.at)
  <2>1. r.at \in Int   BY RowFields
  <2>2. at \in Int   BY <1>2, <2>1 DEF AtTime
  <2>3. x = IF ~PlaysOn(r, d) \/ at <= t THEN NoTime ELSE at   BY <1>3 DEF SlotOnDay
  <2>4. DayOf(at) = d /\ at % DayLength \in MinutesOf(r)   BY <1>3, <2>2, TimeOfDay
  <2>5. \A s \in Int : DayOf(s) = d /\ IsSlot(r, s) => s = at /\ PlaysOn(r, d)
        BY <1>3, TimeOfDay DEF IsSlot
  <2> HIDE DEF x, at
  <2>6. at > t => at \in Nat /\ at # NoTime   BY <2>2 DEF NoTime
  <2>7. x # NoTime => x \in Nat /\ x > t /\ DayOf(x) = d /\ IsSlot(r, x)
        BY <2>2, <2>3, <2>4, <2>6 DEF IsSlot
  <2>8. ASSUME NEW s \in Int, s > t, DayOf(s) = d, IsSlot(r, s) PROVE x # NoTime /\ x <= s
        BY <2>2, <2>3, <2>5, <2>6, <2>8
  <2> QED BY <2>7, <2>8 DEF x
<1>4. CASE r.mode = "every"
  <2>1. r.first \in Int /\ r.last \in Int /\ r.every \in Nat \ {0}   BY <1>4, RowFields
  <2>2. first \in Int /\ last \in Int   BY <1>2, <2>1 DEF AtTime
  <2>3. x = IF ~PlaysOn(r, d) \/ next <= t \/ next > last THEN NoTime ELSE next
        BY <1>4 DEF SlotOnDay
  <2> HIDE DEF first, last
  <2>4. /\ next \in Int /\ next > t
        /\ \E k \in Nat : next = first + k * r.every
        /\ \A k \in Nat : /\ k * r.every \in Nat
                          /\ first + k * r.every > t => next <= first + k * r.every
    <3>1. t \in Int   OBVIOUS
    <3> QED BY ONLY <2>1, <2>2, <3>1, NextStep
  <2> HIDE DEF x, next
  <2>5. next \in Nat /\ next # NoTime   BY <2>4 DEF NoTime
  <2>6. next <= last => DayOf(next) = d /\ next % DayLength \in MinutesOf(r)
        BY <1>4, <2>4, SlotOfInterval DEF first, last
  <2>7. x # NoTime => x \in Nat /\ x > t /\ DayOf(x) = d /\ IsSlot(r, x)
    <3> SUFFICES ASSUME x # NoTime PROVE x \in Nat /\ x > t /\ DayOf(x) = d /\ IsSlot(r, x)   OBVIOUS
    <3>1. x = next /\ PlaysOn(r, d) /\ ~(next > last)   BY <2>3
    <3>2. next <= last   BY <2>2, <2>4, <3>1
    <3> QED BY <2>4, <2>5, <2>6, <3>1, <3>2 DEF IsSlot
  <2>8. ASSUME NEW s \in Int, s > t, DayOf(s) = d, IsSlot(r, s) PROVE x # NoTime /\ x <= s
    <3>1. PICK k \in Nat : s = first + k * r.every /\ s <= last
          BY <1>4, <2>8, SlotOfInterval DEF IsSlot, first, last
    <3>2. next <= s   BY <2>4, <2>8, <3>1
    <3>3. PlaysOn(r, d)   BY <2>8 DEF IsSlot
    <3>4. ~(next <= t) /\ ~(next > last)   BY <2>2, <2>4, <3>1, <3>2
    <3> QED BY <2>3, <2>5, <3>2, <3>3, <3>4
  <2> QED BY <2>7, <2>8 DEF x
<1> QED BY <1>1, <1>3, <1>4

\* The day of a time that comes in the next eight days.
LEMMA ComingDays ==
  ASSUME NEW t \in Nat, NEW s \in Int, s > t
  PROVE  s <= (DayOf(t) + 8) * DayLength - 1 <=> DayOf(s) \in DayOf(t)..(DayOf(t) + 7)
<1> DEFINE d == DayOf(t)
           e == DayOf(s)
           n == DayLength
<1>1. n \in Nat \ {0}   BY DayLengthAssumption
<1>2. d \in Nat /\ e \in Int /\ e * n \in Int /\ e * n <= s /\ s < e * n + n
      BY DayAndMinute
<1>3. d <= e   BY <1>1, MultiplesKeepOrder DEF DayOf
<1> HIDE DEF d, e, n
<1>4. (d + 8) * n \in Int   BY <1>1, <1>2
<1>5. ASSUME e <= d + 7 PROVE s <= (d + 8) * n - 1
  <2>1. e + 1 <= d + 8 /\ e + 1 \in Int /\ d + 8 \in Int   BY <1>2, <1>5
  <2>2. (e + 1) * n <= (d + 8) * n /\ (e + 1) * n \in Int   BY <1>1, <2>1, StepsKeepOrder
  <2>3. (e + 1) * n = e * n + n   BY <1>1, <1>2
  <2> QED BY <1>2, <1>4, <2>2, <2>3
<1>6. ASSUME s <= (d + 8) * n - 1 PROVE e <= d + 7
  <2> SUFFICES ASSUME ~(e <= d + 7) PROVE FALSE   OBVIOUS
  <2>1. d + 8 <= e /\ d + 8 \in Int   BY <1>2
  <2>2. (d + 8) * n <= e * n   BY <1>1, <1>2, <2>1, StepsKeepOrder
  <2> QED BY <1>2, <1>4, <1>6, <2>2
<1>7. s <= (d + 8) * n - 1 <=> e <= d + 7   BY <1>5, <1>6
<1>8. e \in d..(d + 7) <=> e <= d + 7   BY <1>2, <1>3
<1> QED BY <1>7, <1>8 DEF d, e, n

LEMMA ComingAre ==
  ASSUME NEW r, time \in Nat
  PROVE  /\ Coming(r) \in SUBSET Nat
         /\ \A s \in Int : s \in Coming(r) <=>
              s > time /\ IsSlot(r, s) /\ DayOf(s) \in DayOf(time)..(DayOf(time) + 7)
<1> DEFINE end == (DayOf(time) + 8) * DayLength - 1
<1>1. Coming(r) = {s \in (time + 1)..end : IsSlot(r, s)}   BY SlotsAre DEF Coming
<1>2. DayOf(time) \in Int /\ DayLength \in Nat   BY DayAndMinute, DayLengthAssumption
<1>3. end \in Int   BY <1>2
<1>4. \A s \in Int : s > time => (s <= end <=> DayOf(s) \in DayOf(time)..(DayOf(time) + 7))
      BY ComingDays
<1> HIDE DEF end
<1>5. \A s \in Int : s \in (time + 1)..end <=> s > time /\ s <= end   BY <1>3
<1>6. (time + 1)..end \in SUBSET Nat   BY <1>3
<1> QED BY <1>1, <1>4, <1>5, <1>6

\* nextSlot looks at one day after the other; the first of them that has a time after now has the next.
LEMMA NextIsFirst ==
  ASSUME NEW r \in ValidRows, time \in Nat
  PROVE  /\ Coming(r) = {} => NextSlot(r, time) = NoTime
         /\ Coming(r) # {} => /\ NextSlot(r, time) \in Coming(r)
                              /\ \A s \in Coming(r) : NextSlot(r, time) <= s
<1> DEFINE today == DayOf(time)
           days  == {d \in today..(today + 7) : SlotOnDay(r, d, time) # NoTime}
<1>1. /\ Coming(r) \in SUBSET Nat
      /\ \A s \in Int : s \in Coming(r) <=>
           s > time /\ IsSlot(r, s) /\ DayOf(s) \in today..(today + 7)
      BY ComingAre
<1>2. NextSlot(r, time) = IF ~r.enabled \/ days = {} THEN NoTime ELSE SlotOnDay(r, Min(days), time)
      BY DEF NextSlot
<1>3. CASE ~r.enabled
  <2>1. Coming(r) = {}   BY <1>1, <1>3 DEF IsSlot
  <2> QED BY <1>2, <1>3, <2>1
<1>4. CASE r.enabled
  <2>1. today \in Nat   BY DayAndMinute
  <2> HIDE DEF today
  <2>2. \A s \in Coming(r) : /\ DayOf(s) \in days
                             /\ SlotOnDay(r, DayOf(s), time) <= s
    <3> SUFFICES ASSUME NEW s \in Coming(r)
                 PROVE  DayOf(s) \in days /\ SlotOnDay(r, DayOf(s), time) <= s
        OBVIOUS
    <3>1. s \in Int /\ s > time /\ IsSlot(r, s) /\ DayOf(s) \in today..(today + 7)   BY <1>1
    <3>2. DayOf(s) \in Int   BY <3>1, DayAndMinute
    <3> QED BY <1>4, <3>1, <3>2, SlotOnDayFinds
  <2>3. CASE days = {}   BY <1>2, <2>2, <2>3
  <2>4. CASE days # {}
    <3> DEFINE m == Min(days)
               x == SlotOnDay(r, m, time)
    <3>1. days \in SUBSET Nat   BY <2>1
    <3>2. m \in days /\ \A d \in days : m <= d   BY <2>4, <3>1, LeastTime
    <3>3. NextSlot(r, time) = x   BY <1>2, <1>4, <2>4
    <3>4. m \in today..(today + 7) /\ m \in Int /\ x # NoTime   BY <2>1, <3>2
    <3> HIDE DEF days, m
    <3>5. x \in Nat /\ x > time /\ DayOf(x) = m /\ IsSlot(r, x)   BY <1>4, <3>4, SlotOnDayFinds
    <3>6. x \in Coming(r)   BY <1>1, <3>4, <3>5
    <3>7. ASSUME NEW s \in Coming(r) PROVE x <= s
      <4>1. DayOf(s) \in days /\ SlotOnDay(r, DayOf(s), time) <= s   BY <2>2
      <4>2. s \in Nat   BY <1>1
      <4>3. m <= DayOf(s) /\ DayOf(s) \in Int   BY <3>2, <4>1, <4>2, DayAndMinute
      <4>4. CASE m = DayOf(s)   BY <4>1, <4>4
      <4>5. CASE m < DayOf(s)
        <5> SUFFICES ASSUME ~(x <= s) PROVE FALSE   OBVIOUS
        <5>1. s <= x   BY <3>5, <4>2
        <5>2. DayOf(s) <= DayOf(x)
          <6>1. DayLength \in Nat \ {0} /\ s \in Int /\ x \in Int   BY <3>5, <4>2, DayLengthAssumption
          <6> QED BY <5>1, <6>1, MultiplesKeepOrder DEF DayOf
        <5> QED BY <3>4, <3>5, <4>3, <4>5, <5>2
      <4> QED BY <3>4, <4>3, <4>4, <4>5
    <3> QED BY <3>3, <3>6, <3>7
  <2> QED BY <2>3, <2>4
<1> QED BY <1>3, <1>4

LEMMA OnlyMin ==
  ASSUME NEW S \in SUBSET Nat, NEW x \in S, \A y \in S : x <= y
  PROVE  Min(S) = x
<1>1. Min(S) \in S /\ \A y \in S : Min(S) <= y   BY LeastTime
<1>2. Min(S) <= x /\ x <= Min(S) /\ Min(S) \in Nat /\ x \in Nat   BY <1>1
<1> QED BY <1>2

\* What one row will play next, now or later.
LEMMA NextOfRow ==
  ASSUME NEW r \in ValidRows, time \in Nat
  PROVE  LET all == Open(r) \cup Coming(r)
         IN  /\ all \in SUBSET Nat
             /\ all = {} => NextTime(r, time) = NoTime
             /\ all # {} => NextTime(r, time) \in all /\ \A s \in all : NextTime(r, time) <= s
<1> DEFINE due  == AnnouncementDue(r, time)
           next == NextSlot(r, time)
           all  == Open(r) \cup Coming(r)
<1>1. /\ Open(r) \in SUBSET (0..time) /\ \A s \in Open(r) : due = s
      /\ due # NoTime => due \in Open(r)
      BY DueIsOpen
<1>2. /\ Coming(r) = {} => next = NoTime
      /\ Coming(r) # {} => next \in Coming(r) /\ \A s \in Coming(r) : next <= s
      BY NextIsFirst
<1>3. Coming(r) \in SUBSET Nat /\ \A s \in Coming(r) : s > time   BY ComingAre
<1>4. NextTime(r, time) = IF due # NoTime THEN due ELSE next   BY DEF NextTime
<1> HIDE DEF due, next
<1>5. all \in SUBSET Nat   BY <1>1, <1>3
<1>6. CASE due # NoTime
  <2>1. due \in Open(r) /\ due \in 0..time   BY <1>1, <1>6
  <2>2. \A s \in Open(r) : s = due   BY <1>1
  <2>3. \A s \in Coming(r) : due <= s
    <3> SUFFICES ASSUME NEW s \in Coming(r) PROVE due <= s   OBVIOUS
    <3>1. s \in Nat /\ s > time   BY <1>3
    <3> QED BY <2>1, <3>1
  <2>4. due <= due   BY <2>1
  <2> QED BY <1>4, <1>5, <1>6, <2>1, <2>2, <2>3, <2>4
<1>7. CASE due = NoTime
  <2>1. Open(r) = {}
    <3> SUFFICES ASSUME NEW s \in Open(r) PROVE FALSE   OBVIOUS
    <3>1. s \in 0..time /\ s = NoTime   BY <1>1, <1>7
    <3> QED BY <3>1 DEF NoTime
  <2> QED BY <1>2, <1>4, <1>5, <1>7, <2>1
<1> QED BY <1>6, <1>7

Upcoming(r) == Open(r) \cup Coming(r)

LEMMA TypedAgrees == ASSUME Typed PROVE TimesAgree
<1> DEFINE rows    == {table[a] : a \in Existing}
           all     == UNION {Upcoming(r) : r \in rows}
           next    == NextAnnouncements(rows, time)
           times   == {NextTime(r, time) : r \in rows} \ {NoTime}
<1>1. time \in Nat /\ NoTime \notin Nat   BY HorizonAssumption DEF Typed, NoTime
<1>2. rows \in SUBSET ValidRows   BY DEF Typed, Tables, Existing
<1>3. ASSUME NEW r \in rows
      PROVE  /\ AnnouncementDue(r, time) = IF Open(r) = {} THEN NoTime ELSE Max(Open(r))
             /\ NextSlot(r, time) = IF Coming(r) = {} THEN NoTime ELSE Min(Coming(r))
  <2>1. r \in ValidRows   BY <1>2
  <2>2. /\ \A s \in Open(r) : AnnouncementDue(r, time) = s
        /\ AnnouncementDue(r, time) # NoTime => AnnouncementDue(r, time) \in Open(r)
        /\ Open(r) \in SUBSET (0..time)
        BY <1>1, <2>1, DueIsOpen
  <2>3. ASSUME NEW s \in Open(r) PROVE Max(Open(r)) = s
    <3>1. Open(r) = {s} /\ s \in Nat   BY <1>1, <2>2, <2>3
    <3> QED BY <3>1 DEF Max
  <2>4. /\ Coming(r) = {} => NextSlot(r, time) = NoTime
        /\ Coming(r) # {} => /\ NextSlot(r, time) \in Coming(r)
                             /\ \A s \in Coming(r) : NextSlot(r, time) <= s
        BY <1>1, <2>1, NextIsFirst
  <2>5. Coming(r) # {} => Min(Coming(r)) = NextSlot(r, time)   BY <1>1, <2>4, ComingAre, OnlyMin
  <2> QED BY <2>2, <2>3, <2>4, <2>5
<1>4. \A r \in rows : /\ Upcoming(r) \in SUBSET Nat
                      /\ Upcoming(r) = {} => NextTime(r, time) = NoTime
                      /\ Upcoming(r) # {} => /\ NextTime(r, time) \in Upcoming(r)
                                         /\ \A s \in Upcoming(r) : NextTime(r, time) <= s
      BY <1>1, <1>2, NextOfRow DEF Upcoming
<1>5. /\ next.at = IF times = {} THEN NoTime ELSE Min(times)
      /\ next.group = IF times = {} THEN {} ELSE {r \in rows : NextTime(r, time) = Min(times)}
      BY DEF NextAnnouncements
<1> HIDE DEF rows, next
<1>6. all \in SUBSET Nat /\ times \in SUBSET all   BY <1>1, <1>4
<1>7. \A r \in rows : \A s \in Upcoming(r) : NextTime(r, time) \in times /\ NextTime(r, time) <= s
      BY <1>1, <1>4
<1>8. CASE all = {}
  <2>1. times = {}   BY <1>6, <1>8
  <2>2. \A r \in rows : NoTime \notin Upcoming(r)   BY <1>8
  <2> QED BY <1>3, <1>5, <1>8, <2>1, <2>2 DEF TimesAgree, Upcoming, rows, next
<1>9. CASE all # {}
  <2>1. times # {} /\ times \in SUBSET Nat   BY <1>6, <1>7, <1>9
  <2> DEFINE m == Min(times)
  <2>2. m \in times /\ \A y \in times : m <= y   BY <2>1, LeastTime
  <2> HIDE DEF m, times
  <2>3. m \in all /\ m \in Nat /\ all \in SUBSET Nat   BY <1>6, <2>1, <2>2
  <2>4. ASSUME NEW r \in rows, NEW s \in Upcoming(r) PROVE m <= s
    <3>1. NextTime(r, time) \in times /\ NextTime(r, time) <= s   BY <1>7
    <3>2. m <= NextTime(r, time) /\ NextTime(r, time) \in Nat /\ s \in Nat   BY <1>4, <2>1, <2>2, <3>1
    <3> QED BY <2>3, <3>1, <3>2
  <2>5. \A s \in all : m <= s   BY <2>4
  <2> HIDE DEF all
  <2>6. Min(all) = m   BY <2>3, <2>5, OnlyMin
  <2>7. \A r \in rows : NextTime(r, time) = m <=> m \in Upcoming(r)
    <3> SUFFICES ASSUME NEW r \in rows PROVE NextTime(r, time) = m <=> m \in Upcoming(r)   OBVIOUS
    <3>1. ASSUME m \in Upcoming(r) PROVE NextTime(r, time) = m
      <4>1. /\ NextTime(r, time) \in Upcoming(r) /\ NextTime(r, time) <= m
            /\ NextTime(r, time) \in Nat
            BY <1>4, <3>1
      <4>2. m <= NextTime(r, time)   BY <2>4, <4>1
      <4> QED BY <2>3, <4>1, <4>2
    <3>2. ASSUME NextTime(r, time) = m PROVE m \in Upcoming(r)
      <4>1. NextTime(r, time) # NoTime   BY <1>1, <2>3, <3>2
      <4> QED BY <1>4, <3>2, <4>1
    <3> QED BY <3>1, <3>2
  <2>8. next.at = m /\ next.group = {r \in rows : m \in Upcoming(r)}   BY <1>5, <2>1, <2>7 DEF m
  <2> QED BY <1>3, <1>9, <2>6, <2>8 DEF TimesAgree, Upcoming, rows, next, all
<1> QED BY <1>8, <1>9

\* What the check and the page compute by division is what the times of the announcements say, for days
\* of any length, any grace and any table (AnnouncementDue, nextSlot, NextAnnouncements).
THEOREM TimesAreRight == Spec => []TimesAgree
BY AlwaysTyped, TypedAgrees, PTL

(****************************************************************************)
(* No time is stepped over.  As long as a time of the first table lasts,    *)
(* either it has been asked for or every check since it came has failed:    *)
(* one that did not fail finds the time, and what else could keep it from   *)
(* asking, announceTaken or the mark in the row, is a time that was asked   *)
(* for before.                                                              *)
(****************************************************************************)
TakenAsked == \A a \in Untouched : taken[a] = NoTime \/ <<a, taken[a]>> \in asked

PlayedAsked ==
  \A a \in Untouched :
    /\ table[a].played = FirstTable[a].played \/ <<a, table[a].played>> \in asked
    /\ checker.at = "listed" =>
         \/ checker.list[a].played = FirstTable[a].played
         \/ <<a, checker.list[a].played>> \in asked

Caught ==
  \A a \in Untouched :
    \A s \in SlotsBetween(FirstTable[a], FirstTable[a].played + 1, time) :
      (\E t \in s..time : Lasts(FirstTable[a], s, t) /\ (t < time \/ checked) /\ faults <= t - s)
        => <<a, s>> \in asked

Heeded == faults \in Nat /\ TakenAsked /\ PlayedAsked /\ Caught

\* InOrder leaves nobody out.
LEMMA InOrderIsAll ==
  ASSUME NEW S \in SUBSET Nat, IsFiniteSet(S), NEW f \in InOrder(S), NEW x \in S
  PROVE  \E i \in DOMAIN f : f[i] = x
<1> DEFINE n == Cardinality(S)
<1>1. /\ f \in [1..n -> S] /\ n \in Nat
      /\ \A i, j \in 1..n : i < j => f[i] < f[j]
      BY InOrderIsSeq DEF InOrder
<1> HIDE DEF n
<1>2. \A i, j \in 1..n : f[i] = f[j] => i = j
  <2> SUFFICES ASSUME NEW i \in 1..n, NEW j \in 1..n, f[i] = f[j], i # j PROVE FALSE   OBVIOUS
  <2>1. i < j \/ j < i   BY <1>1
  <2>2. f[i] \in Nat /\ f[j] \in Nat   BY <1>1
  <2>3. f[i] < f[j] \/ f[j] < f[i]   BY <1>1, <2>1
  <2> QED BY <2>2, <2>3
<1>3. f \in Injection(1..n, S)   BY <1>1, <1>2 DEF Injection, IsInjective
<1>4. Cardinality(1..n) = n   BY <1>1, FS_Interval
<1>5. f \in Surjection(1..n, S)   BY <1>3, <1>4, FS_Injection DEF n
<1> QED BY <1>1, <1>5 DEF Surjection

LEMMA CheckAsksAll ==
  ASSUME Typed, CheckAsk, NEW a \in Due(checker.list)
  PROVE  <<a, AnnouncementDue(checker.list[a], time)>> \in asked'
<1> DEFINE due == Due(checker.list)
           want(b) == Wanted(checker.list, b)
<1>1. PICK order \in InOrder(due) : Requested([i \in DOMAIN order |-> want(order[i])])   BY DEF CheckAsk
<1> DEFINE new == [i \in DOMAIN order |-> want(order[i])]
<1>2. due \in SUBSET Nat /\ IsFiniteSet(due)   BY AnnsAssumption, FS_Subset DEF Due
<1>3. PICK i \in DOMAIN order : order[i] = a   BY <1>2, InOrderIsAll
<1>4. new[i] = want(a) /\ i \in DOMAIN new   BY <1>3
<1>5. want(a).ann = a /\ want(a).due = AnnouncementDue(checker.list[a], time) /\ want(a).due # Test
      BY DEF Wanted, Due, Test
<1>6. asked' = asked \cup Slots(new)   BY <1>1 DEF Requested
<1> HIDE DEF new, want
<1>7. <<new[i].ann, new[i].due>> \in Slots(new)   BY <1>4, <1>5 DEF Slots, Items
<1> QED BY <1>4, <1>5, <1>6, <1>7

LEMMA SameTimesSame ==
  ASSUME NEW r \in Row, NEW q \in Row, SameTimes(r, q), NEW s, NEW t
  PROVE  /\ IsSlot(r, s) <=> IsSlot(q, s)
         /\ Lasts(r, s, t) <=> Lasts(q, s, t)
         /\ LastSlot(r, t) = LastSlot(q, t)
<1>1. /\ r.enabled = q.enabled /\ r.days = q.days /\ r.mode = q.mode /\ r.at = q.at
      /\ r.first = q.first /\ r.last = q.last /\ r.every = q.every
      BY DEF SameTimes, TimesOf
<1>2. MinutesOf(r) = MinutesOf(q)   BY <1>1 DEF MinutesOf
<1> QED BY <1>1, <1>2, SameTimesSameSlots DEF IsSlot, PlaysOn, Lasts

\* Steps that neither let time go on nor end a check.
LEMMA QuietHeeded ==
  ASSUME Typed, Heeded, UNCHANGED <<time, checked>>, faults' \in Nat, faults <= faults',
         asked \subseteq asked', touched \subseteq touched',
         checker' \in {checker, Idle, [at |-> "listed", list |-> table]},
         \A a \in Untouched' : taken'[a] \in {taken[a], NoTime} \/ <<a, taken'[a]>> \in asked',
         \A a \in Untouched' :
           table'[a].played = table[a].played \/ <<a, table'[a].played>> \in asked'
  PROVE  Heeded'
<1>1. Untouched' \subseteq Untouched   BY DEF Untouched
<1>2. TakenAsked'
  <2> SUFFICES ASSUME NEW a \in Untouched' PROVE taken'[a] = NoTime \/ <<a, taken'[a]>> \in asked'
      BY DEF TakenAsked, Untouched
  <2> QED BY <1>1 DEF Heeded, TakenAsked
<1>3. PlayedAsked'
  <2> SUFFICES ASSUME NEW a \in Untouched'
               PROVE  /\ \/ table'[a].played = FirstTable[a].played
                         \/ <<a, table'[a].played>> \in asked'
                      /\ checker'.at = "listed" =>
                           \/ checker'.list[a].played = FirstTable[a].played
                           \/ <<a, checker'.list[a].played>> \in asked'
      BY DEF PlayedAsked, Untouched
  <2>1. /\ table[a].played = FirstTable[a].played \/ <<a, table[a].played>> \in asked
        /\ checker.at = "listed" =>
             \/ checker.list[a].played = FirstTable[a].played
             \/ <<a, checker.list[a].played>> \in asked
        BY <1>1 DEF Heeded, PlayedAsked
  <2> QED BY <2>1 DEF Idle
<1>4. Caught'
  <2> SUFFICES ASSUME NEW a \in Untouched',
                      NEW s \in SlotsBetween(FirstTable[a], FirstTable[a].played + 1, time),
                      NEW t \in s..time,
                      Lasts(FirstTable[a], s, t), t < time \/ checked, faults' <= t - s
               PROVE  <<a, s>> \in asked'
      BY DEF Caught, Untouched, Lasts
  <2>1. a \in Untouched   BY <1>1
  <2>2. faults <= t - s
    <3>1. s \in Int /\ t \in Int
      <4>1. time \in Int /\ FirstTable[a].played + 1 \in Int
        <5>1. a \in Anns   BY DEF Untouched
        <5>2. FirstTable[a].played \in Int   BY <5>1, TableAssumption DEF Row, NoTime
        <5> QED BY <5>2, HorizonAssumption DEF Typed
      <4> QED BY <4>1 DEF SlotsBetween
    <3> QED BY <3>1 DEF Heeded
  <2> QED BY <2>1, <2>2 DEF Heeded, Caught
<1> QED BY <1>2, <1>3, <1>4 DEF Heeded

LEMMA TableTyped ==
  ASSUME Typed, NEW a \in Untouched
  PROVE  /\ a \in Anns /\ FirstTable[a] \in ValidRows /\ FirstTable[a].played \in {NoTime} \cup Nat
         /\ time \in Nat
         /\ \A s : s \in SlotsBetween(FirstTable[a], FirstTable[a].played + 1, time) =>
              s \in 0..time /\ IsSlot(FirstTable[a], s) /\ FirstTable[a].played < s
<1>1. a \in Anns   BY DEF Untouched
<1>2. FirstTable[a] \in ValidRows   BY <1>1, TableAssumption DEF ValidRows
<1>3. FirstTable[a].played \in {NoTime} \cup Nat   BY <1>2, RowFields
<1>4. time \in Nat   BY HorizonAssumption DEF Typed
<1>5. \A s : s \in SlotsBetween(FirstTable[a], FirstTable[a].played + 1, time) =>
         s \in (FirstTable[a].played + 1)..time /\ IsSlot(FirstTable[a], s)
      BY SlotsAre
<1>6. \A s \in (FirstTable[a].played + 1)..time : s \in 0..time /\ FirstTable[a].played < s
      BY <1>3, <1>4 DEF NoTime
<1> QED BY <1>1, <1>2, <1>3, <1>4, <1>5, <1>6

\* A check that does not fail finds a time that lasts.
LEMMA CheckCatches ==
  ASSUME Typed, Settled, Heeded, CheckAsk, NEW a \in Untouched,
         NEW s \in SlotsBetween(FirstTable[a], FirstTable[a].played + 1, time),
         Lasts(FirstTable[a], s, time)
  PROVE  <<a, s>> \in asked'
<1> DEFINE first == FirstTable[a]
           row   == checker.list[a]
<1>1. /\ a \in Anns /\ first \in ValidRows /\ first.played \in {NoTime} \cup Nat /\ time \in Nat
      /\ s \in 0..time /\ IsSlot(first, s) /\ first.played < s
      BY TableTyped
<1>2. checker.at = "listed" /\ row # Gone /\ SameTimes(row, first) /\ row \in ValidRows
      BY <1>1 DEF CheckAsk, Settled, SameRows, Typed, Tables
<1>3. IsSlot(row, s) /\ Lasts(row, s, time) /\ LastSlot(row, time) = LastSlot(first, time)
      BY <1>1, <1>2, SameTimesSame DEF ValidRows
<1>4. LastSlot(row, time) = s /\ s # NoTime   BY <1>1, <1>2, <1>3, LastSlotFinds DEF IsSlot, Lasts, NoTime
<1>5. asked \subseteq asked'   BY DEF CheckAsk, Requested
<1>6. ASSUME NEW u, <<a, u>> \in asked, u >= s PROVE <<a, s>> \in asked'
  <2>1. u \in 0..Horizon   BY <1>6 DEF Typed, Times
  <2>2. PICK t \in 0..time : LastSlot(first, t) = u   BY <1>6, <2>1 DEF Settled, AskedHadCome
  <2>3. t \in Nat /\ t <= time /\ u # NoTime /\ u \in Nat   BY <1>1, <2>1, HorizonAssumption DEF NoTime
  <2>4. u <= s   BY <1>1, <1>3, <1>4, <2>2, <2>3, SlotsKeepOrder
  <2>5. u = s   BY <1>1, <1>6, <2>3, <2>4
  <2> QED BY <1>5, <1>6, <2>5
<1>7. CASE ~(row.played < s)
  <2>1. row.played \in Int   BY <1>2, RowFields DEF NoTime
  <2>2. row.played >= s /\ row.played # first.played   BY <1>1, <1>7, <2>1
  <2>3. <<a, row.played>> \in asked   BY <1>2, <2>2 DEF Heeded, PlayedAsked
  <2> QED BY <1>6, <2>2, <2>3
<1>8. CASE row.played < s
  <2>1. AnnouncementDue(row, time) = s
        BY <1>3, <1>4, <1>8 DEF AnnouncementDue, IsSlot, Lasts
  <2>2. CASE taken[a] < s
    <3>1. Wanted(checker.list, a).ann = a /\ Wanted(checker.list, a).due = s   BY <2>1 DEF Wanted
    <3>2. a \in Due(checker.list)   BY <1>1, <1>2, <1>4, <2>1, <2>2, <3>1 DEF Due, New
    <3> QED BY <2>1, <3>2, CheckAsksAll
  <2>3. CASE ~(taken[a] < s)
    <3>1. taken[a] \in {NoTime} \cup (0..Horizon)   BY <1>1 DEF Typed
    <3>2. taken[a] # NoTime /\ taken[a] >= s   BY <1>1, <2>3, <3>1, HorizonAssumption DEF NoTime
    <3> QED BY <1>6, <3>2 DEF Heeded, TakenAsked
  <2> QED BY <2>2, <2>3
<1> QED BY <1>7, <1>8

LEMMA AskHeeded ==
  ASSUME Typed, Heeded, NEW new, Fresh(new), Requested(new), UNCHANGED <<table, touched, faults>>,
         checker' \in {checker, Idle}
  PROVE  TakenAsked' /\ PlayedAsked'
<1>1. /\ asked' = asked \cup Slots(new)
      /\ taken' \in [Anns -> {NoTime} \cup (0..Horizon)]
      /\ \A a \in Anns, s \in 0..Horizon : <<a, s>> \in Slots(new) => taken'[a] = s
      /\ \A a \in Anns : (\A s \in 0..Horizon : <<a, s>> \notin Slots(new)) => taken'[a] = taken[a]
      BY AskedFor
<1>2. ASSUME NEW a \in Untouched' PROVE taken'[a] = NoTime \/ <<a, taken'[a]>> \in asked'
  <2>1. a \in Untouched /\ a \in Anns   BY DEF Untouched
  <2>2. CASE \E s \in 0..Horizon : <<a, s>> \in Slots(new)   BY <1>1, <2>1, <2>2
  <2>3. CASE \A s \in 0..Horizon : <<a, s>> \notin Slots(new)
    <3>1. taken'[a] = taken[a]   BY <1>1, <2>1, <2>3
    <3> QED BY <1>1, <2>1, <3>1 DEF Heeded, TakenAsked
  <2> QED BY <2>2, <2>3
<1>3. TakenAsked'   BY <1>2 DEF TakenAsked
<1>4. PlayedAsked'
  <2> SUFFICES ASSUME NEW a \in Untouched
               PROVE  /\ table[a].played = FirstTable[a].played \/ <<a, table[a].played>> \in asked'
                      /\ checker'.at = "listed" =>
                           \/ checker'.list[a].played = FirstTable[a].played
                           \/ <<a, checker'.list[a].played>> \in asked'
      BY DEF PlayedAsked, Untouched
  <2>1. /\ table[a].played = FirstTable[a].played \/ <<a, table[a].played>> \in asked
        /\ checker.at = "listed" =>
             \/ checker.list[a].played = FirstTable[a].played
             \/ <<a, checker.list[a].played>> \in asked
        BY DEF Heeded, PlayedAsked
  <2>2. asked \subseteq asked'   BY <1>1
  <2> QED BY <2>1, <2>2 DEF Idle
<1> QED BY <1>3, <1>4

\* The end of a check.
LEMMA CheckHeeded == ASSUME Typed, Settled, Heeded, CheckAsk PROVE Heeded'
<1>1. PICK new : Fresh(new) /\ Requested(new)   BY CheckIsFresh
<1>2. UNCHANGED <<time, table, touched, faults>> /\ checker' = Idle /\ checked' /\ asked \subseteq asked'
      BY DEF CheckAsk, bounds, Requested
<1>3. TakenAsked' /\ PlayedAsked'   BY <1>1, <1>2, AskHeeded
<1>4. Caught'
  <2> SUFFICES ASSUME NEW a \in Untouched,
                      NEW s \in SlotsBetween(FirstTable[a], FirstTable[a].played + 1, time),
                      NEW t \in s..time, Lasts(FirstTable[a], s, t), faults <= t - s
               PROVE  <<a, s>> \in asked'
      BY <1>2 DEF Caught, Untouched, Lasts
  <2>1. CASE t = time   BY <2>1, CheckCatches
  <2>2. CASE t # time
    <3>1. t < time
      <4>1. s \in Int /\ time \in Int
        <5>1. time \in Nat /\ s \in 0..time   BY TableTyped
        <5> QED BY <5>1
      <4> QED BY <2>2, <4>1
    <3> QED BY <1>2, <3>1 DEF Heeded, Caught
  <2> QED BY <2>1, <2>2
<1> QED BY <1>2, <1>3, <1>4 DEF Heeded

\* A check that fails costs a time one of its minutes.
LEMMA FailHeeded == ASSUME Typed, Heeded, CheckFails PROVE Heeded'
<1>1. /\ UNCHANGED <<time, table, checker, taken, asked, touched>> /\ checked' /\ faults' = faults + 1
      BY DEF CheckFails, Fault, requests
<1>2. TakenAsked' /\ PlayedAsked' /\ faults' \in Nat
      BY <1>1 DEF Heeded, TakenAsked, PlayedAsked, Untouched
<1>3. Caught'
  <2> SUFFICES ASSUME NEW a \in Untouched,
                      NEW s \in SlotsBetween(FirstTable[a], FirstTable[a].played + 1, time),
                      NEW t \in s..time, Lasts(FirstTable[a], s, t), faults + 1 <= t - s
               PROVE  <<a, s>> \in asked
      BY <1>1 DEF Caught, Untouched, Lasts
  <2>1. s \in 0..time /\ time \in Nat /\ faults \in Nat   BY TableTyped DEF Heeded
  <2>2. t - 1 \in s..time /\ t - 1 < time /\ faults <= (t - 1) - s /\ t \in Nat   BY <2>1
  <2>3. Lasts(FirstTable[a], s, t - 1)
    <3>1. DayOf(t) = DayOf(s) /\ t - s <= Grace
          /\ (FirstTable[a].mode = "every" => t - s < FirstTable[a].every)
          BY DEF Lasts
    <3>2. DayOf(s) <= DayOf(t - 1) /\ DayOf(t - 1) <= DayOf(t)
      <4>1. s \in Int /\ t - 1 \in Int /\ t \in Int /\ s <= t - 1 /\ t - 1 <= t   BY <2>1, <2>2
      <4> QED BY <4>1, DayLengthAssumption, MultiplesKeepOrder DEF DayOf
    <3>3. DayOf(s) \in Int /\ DayOf(t - 1) \in Int   BY <2>1, <2>2, DayAndMinute
    <3>4. DayOf(t - 1) = DayOf(s)   BY <3>1, <3>2, <3>3
    <3>5. (t - 1) - s <= Grace   BY <2>1, <2>2, <3>1, GraceAssumption
    <3>6. FirstTable[a].mode = "every" => (t - 1) - s < FirstTable[a].every
      <4>1. FirstTable[a].mode = "every" => FirstTable[a].every \in Nat   BY TableTyped, RowFields
      <4> QED BY <2>1, <2>2, <3>1, <4>1
    <3> QED BY <3>4, <3>5, <3>6 DEF Lasts
  <2> QED BY <2>2, <2>3 DEF Heeded, Caught
<1> QED BY <1>2, <1>3 DEF Heeded

\* When the minute ends, a check of it has been made.
LEMMA MinuteHeeded == ASSUME Typed, Heeded, Minute PROVE Heeded'
<1>1. /\ UNCHANGED <<table, checker, taken, asked, touched, faults>>
      /\ checked /\ time' = time + 1 /\ ~checked' /\ time \in Nat
      BY HorizonAssumption DEF Minute, requests, bounds, Typed
<1>2. TakenAsked' /\ PlayedAsked' /\ faults' \in Nat
      BY <1>1 DEF Heeded, TakenAsked, PlayedAsked, Untouched
<1>3. Caught'
  <2> SUFFICES ASSUME NEW a \in Untouched,
                      NEW s \in SlotsBetween(FirstTable[a], FirstTable[a].played + 1, time + 1),
                      NEW t \in s..(time + 1), Lasts(FirstTable[a], s, t), t < time + 1, faults <= t - s
               PROVE  <<a, s>> \in asked
      BY <1>1 DEF Caught, Untouched, Lasts
  <2>1. /\ IsSlot(FirstTable[a], s) /\ s \in (FirstTable[a].played + 1)..(time + 1)   BY SlotsAre
  <2>2. FirstTable[a].played \in Int   BY TableTyped DEF NoTime
  <2>3. s \in (FirstTable[a].played + 1)..time /\ t \in s..time   BY <1>1, <2>1, <2>2
  <2>4. s \in SlotsBetween(FirstTable[a], FirstTable[a].played + 1, time)   BY <2>1, <2>3, SlotsAre
  <2> QED BY <1>1, <2>3, <2>4 DEF Heeded, Caught
<1> QED BY <1>2, <1>3 DEF Heeded

\* A play is marked with the time that was asked for.
LEMMA MarkHeeded == ASSUME Typed, Sound, Heeded, GroupMark PROVE Heeded'
<1> DEFINE d == Head(list)
<1>1. /\ UNCHANGED <<time, checked, checker, taken, asked, touched, faults>>
      /\ pc = "mark" /\ list # <<>> /\ list \in Seq(Request)
      BY DEF GroupMark, requests, bounds, Typed
<1>2. d \in Request /\ Slots(list) = Slots(<<d>>) \cup Slots(Tail(list))   BY <1>1, HeadAndTail
<1>3. ASSUME NEW a \in Untouched'
      PROVE  table'[a].played = table[a].played \/ <<a, table'[a].played>> \in asked'
  <2>1. a \in Untouched /\ a \in Anns   BY <1>1 DEF Untouched
  <2>2. table[a] # Gone /\ table[a] \in ValidRows   BY <2>1, RowsStay DEF Typed, Tables
  <2>3. CASE d.ann # a
    <3>1. table'[a] = table[a]   BY <2>1, <2>3 DEF GroupMark, Typed, Tables
    <3> QED BY <3>1
  <2>4. CASE d.ann = a
    <3>1. table'[a] = MarkAnnouncement(table[a], d.due, NextCycle(got))
          BY <2>1, <2>2, <2>4 DEF GroupMark, Typed, Tables
    <3>2. table'[a].played = IF d.due = Test THEN table[a].played ELSE d.due
          BY <1>1, <1>2, <2>2, <3>1, MarkedRow
    <3>3. ASSUME d.due # Test PROVE <<a, d.due>> \in asked
      <4>1. <<a, d.due>> \in PendingSlots   BY <1>2, <2>4, <3>3, SlotOf DEF PendingSlots
      <4>2. d.due \in 0..Horizon   BY <1>2, <3>3 DEF Request
      <4> QED BY <2>1, <4>1, <4>2 DEF Sound, Settled, PendingKnown
    <3> QED BY <1>1, <3>2, <3>3
  <2> QED BY <2>3, <2>4
<1>4. faults' \in Nat /\ faults <= faults'   BY <1>1 DEF Heeded
<1> QED BY <1>1, <1>3, <1>4, QuietHeeded

\* What people do with a row leaves its mark alone, or the row is another one.
LEMMA EditHeeded ==
  ASSUME Typed, Sound, Heeded,
         (\E a \in Anns, r \in Rows : Update(a, r)) \/ (\E a \in Anns : Delete(a)) \/ (\E r \in Rows : Create(r))
  PROVE  Heeded'
<1>1. UNCHANGED <<time, checked, checker, taken, asked, faults>>
      BY DEF Update, Delete, Create, Edited, requests
<1>2. ASSUME NEW b, NEW row, table' = [table EXCEPT ![b] = row], touched \subseteq touched',
             b \in touched' \/ row.played = table[b].played
      PROVE  Heeded'
  <2>1. ASSUME NEW a \in Untouched' PROVE table'[a].played = table[a].played
    <3>1. a \in Anns /\ a \notin touched'   BY DEF Untouched
    <3>2. table'[a] = IF a = b THEN row ELSE table[a]   BY <1>2, <3>1 DEF Typed, Tables
    <3> QED BY <1>2, <3>1, <3>2
  <2>2. faults' \in Nat /\ faults <= faults'   BY <1>1 DEF Heeded
  <2> QED BY <1>1, <1>2, <2>1, <2>2, QuietHeeded
<1>3. ASSUME NEW a \in Anns, Delete(a) PROVE Heeded'    BY <1>2, <1>3 DEF Delete, Edited
<1>4. ASSUME NEW r \in Rows, Create(r) PROVE Heeded'    BY <1>2, <1>4 DEF Create, Edited
<1>5. ASSUME NEW a \in Anns, NEW r \in Rows, Update(a, r) PROVE Heeded'
  <2> DEFINE c == IF r.source = table[a].source THEN table[a].cycle ELSE 0
             q == [r EXCEPT !.played = table[a].played, !.cycle = c]
  <2>1. table' = [table EXCEPT ![a] = q]   BY <1>5 DEF Update, Edited
  <2>2. q.played = table[a].played
    <3>1. r \in Row   BY RowsAssumption DEF ValidRow
    <3> QED BY <3>1 DEF Row
  <2>3. touched \subseteq touched'   BY <1>5 DEF Update
  <2> HIDE DEF q
  <2> QED BY <1>2, <2>1, <2>2, <2>3
<1> QED BY <1>3, <1>4, <1>5

LEMMA NextHeeded == ASSUME Typed, Sound, Heeded, [Next]_vars PROVE Heeded'
<1>1. ASSUME UNCHANGED <<time, checked, table, asked, touched>>,
             faults' \in Nat /\ faults <= faults',
             checker' \in {checker, Idle, [at |-> "listed", list |-> table]},
             \A a \in Anns : taken'[a] \in {taken[a], NoTime}
      PROVE  Heeded'
      BY <1>1, QuietHeeded DEF Untouched
<1>2. faults \in Nat /\ faults <= faults /\ taken \in [Anns -> {NoTime} \cup (0..Horizon)]
      BY DEF Heeded, Typed
<1>3. CASE Check
  <2>1. CASE CheckList   BY <1>1, <1>2, <2>1 DEF CheckList, requests, bounds
  <2>2. CASE CheckAsk    BY <2>2, CheckHeeded DEF Sound
  <2> QED BY <1>3, <2>1, <2>2 DEF Check
<1>4. ASSUME NEW a \in Anns, TestPlay(a) PROVE Heeded'
  <2>1. PICK new : Fresh(new) /\ Requested(new) /\ Slots(new) = {}   BY <1>4, TestIsFresh
  <2>2. asked' = asked /\ \A b \in Anns : taken'[b] = taken[b]   BY <2>1, AskedFor
  <2>3. UNCHANGED <<time, checked, table, checker, touched, faults>>   BY <1>4 DEF TestPlay
  <2> QED BY <1>1, <1>2, <2>2, <2>3
<1>5. CASE People   BY <1>4, <1>5, EditHeeded DEF People
<1>6. CASE Group
  <2>1. ASSUME UNCHANGED <<time, checked, table, checker, taken, asked, touched, faults>>
        PROVE  Heeded'
        BY <1>1, <1>2, <2>1
  <2>2. CASE GroupTake           BY <2>1, <2>2 DEF GroupTake, bounds
  <2>3. CASE GroupJoin           BY <2>1, <2>3 DEF GroupJoin, bounds
  <2>4. CASE GroupGet            BY <2>1, <2>4 DEF GroupGet, requests, bounds
  <2>5. CASE GroupMark           BY <2>5, MarkHeeded
  <2>6. CASE GroupQueue
    <3>1. PICK lost \in SUBSET DOMAIN ready :
            /\ Fault(Cardinality(lost))
            /\ taken' = [a \in Anns |->
                 IF \E i \in lost : ready[i].ann = a /\ ready[i].due = taken[a]
                 THEN NoTime ELSE taken[a]]
          BY <2>6 DEF GroupQueue
    <3>2. Cardinality(lost) \in Nat
      <4>1. DOMAIN ready = 1..Len(ready) /\ Len(ready) \in Nat   BY DEF Typed
      <4>2. IsFiniteSet(DOMAIN ready)   BY <4>1, FS_Interval
      <4> QED BY <4>2, FS_Subset, FS_CardinalityType
    <3>3. faults' \in Nat /\ faults <= faults'   BY <1>2, <3>1, <3>2 DEF Fault
    <3>4. \A a \in Anns : taken'[a] \in {taken[a], NoTime}   BY <3>1
    <3> QED BY <1>1, <2>6, <3>3, <3>4 DEF GroupQueue
  <2>7. CASE GroupNothingReady   BY <2>1, <2>7 DEF GroupNothingReady, requests, bounds
  <2>8. CASE GroupHears          BY <2>1, <2>8 DEF GroupHears, requests, bounds
  <2>9. CASE GroupEnds           BY <2>1, <2>9 DEF GroupEnds, requests, bounds
  <2> QED BY <1>6, <2>2, <2>3, <2>4, <2>5, <2>6, <2>7, <2>8, <2>9 DEF Group
<1>7. CASE Failures
  <2>1. ASSUME UNCHANGED <<time, checked, table, checker, asked, touched>>, Fault(1),
               \A a \in Anns : taken'[a] \in {taken[a], NoTime}
        PROVE  Heeded'
    <3>1. faults' \in Nat /\ faults <= faults'   BY <1>2, <2>1 DEF Fault
    <3> QED BY <1>1, <2>1, <3>1
  <2>2. CASE CheckFails    BY <2>2, FailHeeded
  <2>3. CASE PrepareFails
    <3>1. \A a \in Anns : taken'[a] \in {taken[a], NoTime}
          BY <1>2, <2>3 DEF PrepareFails, Forget
    <3> QED BY <2>1, <2>3, <3>1 DEF PrepareFails
  <2>4. CASE GroupSkips    BY <2>1, <2>4 DEF GroupSkips, requests
  <2>5. CASE GroupCut
    <3>1. \A a \in Anns : taken'[a] \in {taken[a], NoTime}   BY <2>5 DEF GroupCut
    <3> QED BY <2>1, <2>5, <3>1 DEF GroupCut
  <2> QED BY <1>7, <2>2, <2>3, <2>4, <2>5 DEF Failures
<1>8. CASE Minute   BY <1>8, MinuteHeeded
<1>9. CASE Kill     BY <1>1, <1>2, <1>9 DEF Kill
<1>10. CASE UNCHANGED vars   BY <1>1, <1>2, <1>10 DEF vars, requests, bounds
<1> QED BY <1>3, <1>5, <1>6, <1>7, <1>8, <1>9, <1>10 DEF Next

LEMMA InitHeeded == Init => Heeded
<1> SUFFICES ASSUME Init PROVE Heeded   OBVIOUS
<1>1. TakenAsked /\ PlayedAsked /\ faults \in Nat
      BY DEF Init, TakenAsked, PlayedAsked, Untouched, Idle
<1>2. Caught
  <2> SUFFICES ASSUME NEW a \in Untouched,
                      NEW s \in SlotsBetween(FirstTable[a], FirstTable[a].played + 1, time),
                      NEW t \in s..time, t < time \/ checked
               PROVE  FALSE
      BY DEF Caught
  <2>1. time = 0 /\ ~checked   BY DEF Init
  <2>2. s \in 0..0   BY <1>1, <2>1, InitTyped, TableTyped
  <2> QED BY <2>1, <2>2
<1> QED BY <1>1, <1>2 DEF Heeded

LEMMA HeededCatches == ASSUME Typed, Settled, Heeded PROVE NoSlotSteppedOver
<1> SUFFICES ASSUME NEW a \in Existing \ touched,
                    NEW s \in SlotsBetween(table[a], FirstTable[a].played + 1, time - 1),
                    NEW t \in s..(time - 1), Lasts(table[a], s, t), faults <= t - s
             PROVE  <<a, s>> \in asked
    BY DEF NoSlotSteppedOver
<1>1. a \in Untouched   BY DEF Untouched, Existing
<1>2. /\ FirstTable[a] \in ValidRows /\ FirstTable[a].played \in {NoTime} \cup Nat /\ time \in Nat
      /\ a \in Anns
      BY <1>1, TableTyped
<1>3. SameTimes(table[a], FirstTable[a]) /\ table[a] \in ValidRows
      BY <1>1, <1>2 DEF Settled, SameRows, Typed, Tables
<1>4. s \in (FirstTable[a].played + 1)..(time - 1) /\ IsSlot(table[a], s)   BY SlotsAre
<1>5. IsSlot(FirstTable[a], s) /\ Lasts(FirstTable[a], s, t)
      BY <1>2, <1>3, <1>4, SameTimesSame DEF ValidRows
<1>6. s \in (FirstTable[a].played + 1)..time /\ t \in s..time /\ t < time   BY <1>2, <1>4 DEF NoTime
<1>7. s \in SlotsBetween(FirstTable[a], FirstTable[a].played + 1, time)   BY <1>5, <1>6, SlotsAre
<1> QED BY <1>1, <1>5, <1>6, <1>7 DEF Heeded, Caught

\* A check cannot step over a play time (announce.go:24): a time that lasts longer than the checks that
\* failed is asked for, whatever people do with other announcements and however old the table is that a
\* check holds.
THEOREM NoneSteppedOver == Spec => []NoSlotSteppedOver
<1>1. Init => Sound /\ Heeded   BY InitSound, InitHeeded
<1>2. Typed /\ Typed' /\ Sound /\ Heeded /\ [Next]_vars => Sound' /\ Heeded'   BY NextSound, NextHeeded
<1>3. Typed /\ Sound /\ Heeded => NoSlotSteppedOver   BY HeededCatches DEF Sound
<1> QED BY <1>1, <1>2, <1>3, AlwaysTyped, PTL DEF Spec
=============================================================================
