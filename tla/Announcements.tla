---------------------------- MODULE Announcements ----------------------------
(****************************************************************************)
(* From the play times of the announcements to what is heard: the check     *)
(* every twenty seconds, test plays, the waiting list, and the one group    *)
(* goroutine that prepares, queues and waits (app/announce.go).             *)
(*                                                                          *)
(* Goroutines: the checker (runAnnouncements), a person who tests, edits    *)
(* or removes an announcement, and the group (playAnnouncementGroups).      *)
(* announceMu makes each of Ask, Take and Forget one step.  What MPD does   *)
(* with the queue is Break's subject: here an entry of the queue is heard,  *)
(* skipped by MPD, or cut off.                                              *)
(****************************************************************************)
EXTENDS PlayTimes, Sequences

CONSTANTS
  Anns,        \* ids of rows of the table announcements
  FirstTable,  \* [Anns -> row], the table at the start
  Rows,        \* what a person may make of a row
  FileCount,   \* [source -> number of files]; 1 for a single file
  Horizon,     \* bound: the last minute of a behaviour
  MaxFaults,   \* bound: failures of the database, the library or MPD
  MaxTests,    \* bound: test plays
  MaxEdits,    \* bound: rows created, changed or removed
  MaxKills,    \* bound: kills of jukem
  MaxEvents    \* bound: all of these together

Minutes == 0..(DayLength - 1)
Row == [enabled : BOOLEAN, days : SUBSET (0..6), mode : {"at", "every"}, at : Minutes,
        first : Minutes, last : Minutes, every : Nat, source : DOMAIN FileCount,
        cycle : Nat, played : {NoTime} \cup Nat]

ValidRow(r) == r \in Row /\ (r.mode = "every" => r.every >= 1 /\ r.last > r.first)

ASSUME AnnsAssumption == Anns \subseteq Nat /\ IsFiniteSet(Anns)
ASSUME FilesAssumption == \A source \in DOMAIN FileCount : FileCount[source] \in Nat \ {0}
ASSUME RowsAssumption == \A r \in Rows : ValidRow(r)
ASSUME TableAssumption == FirstTable \in [Anns -> Row] /\ \A a \in Anns : ValidRow(FirstTable[a])
ASSUME HorizonAssumption == Horizon \in Nat

VARIABLES
  time,     \* the minute
  checked,  \* a check has been made in this minute
  table,    \* [Anns -> row or Gone]
  checker,  \* [at, list]: the check under way and the table it read
  taken,    \* announceTaken: the newest time asked for
  waiting,  \* announceWaiting
  running,  \* announceRunning
  groups,   \* how many group goroutines there are
  pc,       \* where the group is
  joining,  \* the list under preparation joins a group that plays
  list,     \* requests the group has still to prepare
  got,      \* the row it read for the first of them; same is history: no
            \* person has given that row another source since
  ready,    \* prepared and not yet in the queue
  queued,   \* in the queue of MPD and not yet played
  asked, heard,        \* history: the scheduled times asked for, and heard
  touched,             \* history: announcements whose times a person changed
  faults, tests, edits, kills

requests == <<taken, waiting, running, groups>>
group == <<pc, joining, list, got, ready, queued>>
bounds == <<faults, tests, edits, kills>>
vars == <<time, checked, table, checker, requests, group, asked, heard, touched, bounds>>

Gone == [mode |-> "gone"]
Test == NoTime
Times == Anns \X (0..Horizon)
Request == [ann : Anns, due : {Test} \cup (0..Horizon), cycle : Nat]
Nothing == [ann |-> 0, cycle |-> 0, source |-> "", same |-> FALSE]
Existing == {a \in Anns : table[a] # Gone}

Items(s) == {s[i] : i \in DOMAIN s}
Slots(s) == {<<d.ann, d.due>> : d \in {e \in Items(s) : e.due # Test}}

(* The numbers of a set from the smallest to the largest.                   *)
InOrder(S) == {f \in [1..Cardinality(S) -> S] : \A i, j \in DOMAIN f : i < j => f[i] < f[j]}
AtPlaces(s, places) == [i \in DOMAIN places |-> s[places[i]]]

Idle == [at |-> "idle", list |-> [a \in Anns |-> Gone]]

Init ==
  /\ time = 0 /\ checked = FALSE
  /\ table = FirstTable
  /\ checker = Idle
  /\ taken = [a \in Anns |-> NoTime] /\ waiting = <<>> /\ running = FALSE /\ groups = 0
  /\ pc = "idle" /\ joining = FALSE /\ list = <<>> /\ got = Nothing
  /\ ready = <<>> /\ queued = <<>>
  /\ asked = {} /\ heard = {} /\ touched = {}
  /\ faults = 0 /\ tests = 0 /\ edits = 0 /\ kills = 0

Room == MaxEvents - faults - tests - edits - kills

Fault(n) == n <= Room /\ faults + n <= MaxFaults /\ faults' = faults + n

(***************************************************************************)
(* Asking.                                                                 *)
(***************************************************************************)
(* A scheduled time that was asked for already is not asked for again. *)
NewMutant(d) == d.due = Test \/ taken[d.ann] <= d.due
New(d) == d.due = Test \/ taken[d.ann] < d.due

(* addAnnouncements, and the goroutine that requestAnnouncements starts.    *)
(* new holds the requests that are new, at most one time per announcement.  *)
Requested(new) ==
  /\ taken' = [a \in Anns |->
        IF \E s \in Slots(new) : s[1] = a THEN (CHOOSE s \in Slots(new) : s[1] = a)[2]
        ELSE taken[a]]
  /\ waiting' = waiting \o new
  /\ asked' = asked \cup Slots(new)
  /\ IF running \/ waiting' = <<>>
     THEN UNCHANGED <<running, groups, pc>>
     ELSE running' = TRUE /\ groups' = groups + 1 /\ pc' = "take"

Forget(d) ==
  taken' = IF d.due # Test /\ taken[d.ann] = d.due
           THEN [taken EXCEPT ![d.ann] = NoTime] ELSE taken

CheckList ==
  /\ checker.at = "idle"
  /\ checker' = [at |-> "listed", list |-> table]
  /\ UNCHANGED <<time, checked, table, requests, group, asked, heard, touched, bounds>>

(* MPD does not run, the clock is not trusted, or the table cannot be read. *)
CheckFails ==
  /\ checker.at = "idle" /\ ~checked
  /\ Fault(1)
  /\ checked' = TRUE
  /\ UNCHANGED <<time, table, checker, requests, group, asked, heard, touched, tests, edits, kills>>

Wanted(rows, a) == [ann |-> a, due |-> AnnouncementDue(rows[a], time), cycle |-> rows[a].cycle]

(* The announcements that are due now and were not asked for.               *)
Due(rows) ==
  {a \in Anns : rows[a] # Gone /\ AnnouncementDue(rows[a], time) # NoTime /\ New(Wanted(rows, a))}

CheckAsk ==
  /\ checker.at = "listed"
  /\ \E order \in InOrder(Due(checker.list)) :
       Requested([i \in DOMAIN order |-> Wanted(checker.list, order[i])])
  /\ checker' = Idle
  /\ checked' = TRUE
  /\ UNCHANGED <<time, table, joining, list, got, ready, queued, heard, touched, bounds>>

TestPlay(a) ==
  /\ Room > 0 /\ tests < MaxTests /\ tests' = tests + 1
  /\ a \in Existing
  /\ Requested(<<[ann |-> a, due |-> Test, cycle |-> table[a].cycle]>>)
  /\ UNCHANGED <<time, checked, table, checker, joining, list, got, ready, queued,
                 heard, touched, faults, edits, kills>>

(***************************************************************************)
(* The handlers that change the table.                                     *)
(***************************************************************************)
Edited(row) ==
  /\ Room > 0 /\ edits < MaxEdits /\ edits' = edits + 1
  /\ table' = row
  /\ UNCHANGED <<time, checked, checker, requests, pc, joining, list, ready, queued,
                 asked, heard, faults, tests, kills>>

(* The row of a has another source now, or is another announcement's.       *)
Replaced(a) == got' = IF got.ann = a THEN [got EXCEPT !.same = FALSE] ELSE got

(* SQLite gives a new row the id after the largest one there is. *)
Create(r) ==
  LET a == Max({0} \cup Existing) + 1
  IN  /\ a \in Anns
      /\ touched' = touched \cup {a}
      /\ Replaced(a)
      /\ Edited([table EXCEPT ![a] = [r EXCEPT !.cycle = 0, !.played = NoTime]])

TimesOf(r) == <<r.enabled, r.days, r.mode, r.at, r.first, r.last, r.every>>
SameTimes(r, q) == TimesOf(r) = TimesOf(q)

Update(a, r) ==
  /\ a \in Existing /\ (r.source # table[a].source \/ ~SameTimes(r, table[a]))
  /\ touched' = IF SameTimes(r, table[a]) THEN touched ELSE touched \cup {a}
  /\ IF r.source = table[a].source THEN UNCHANGED got ELSE Replaced(a)
  /\ Edited([table EXCEPT ![a] =
       [r EXCEPT !.played = table[a].played,
                 !.cycle = IF r.source = table[a].source THEN table[a].cycle ELSE 0]])

Delete(a) ==
  /\ a \in Existing
  /\ touched' = touched \cup {a}
  /\ Replaced(a)
  /\ Edited([table EXCEPT ![a] = Gone])

(***************************************************************************)
(* The group.                                                              *)
(***************************************************************************)
GroupTakeMutant ==   \* announceRunning is reset whatever the list holds
  /\ pc = "take"
  /\ list' = waiting /\ waiting' = <<>> /\ running' = FALSE
  /\ IF waiting = <<>> THEN pc' = "idle" /\ groups' = groups - 1
     ELSE pc' = "prepare" /\ UNCHANGED groups
  /\ UNCHANGED <<time, checked, table, checker, taken, joining, got, ready, queued,
                 asked, heard, touched, bounds>>

(* takeAnnouncements(true): the group ends when nothing waits. *)
GroupTake ==
  /\ pc = "take"
  /\ list' = waiting /\ waiting' = <<>>
  /\ IF waiting = <<>>
     THEN pc' = "idle" /\ running' = FALSE /\ groups' = groups - 1
     ELSE pc' = "prepare" /\ UNCHANGED <<running, groups>>
  /\ UNCHANGED <<time, checked, table, checker, taken, joining, got, ready, queued,
                 asked, heard, touched, bounds>>

(* takeAnnouncements(false): requests join the group that plays. *)
GroupJoin ==
  /\ pc = "wait" /\ waiting # <<>>
  /\ list' = waiting /\ waiting' = <<>>
  /\ pc' = "prepare" /\ joining' = TRUE
  /\ UNCHANGED <<time, checked, table, checker, taken, running, groups, got, ready, queued,
                 asked, heard, touched, bounds>>

GroupGetMutant ==   \* the row of the request is used, without a new read
  /\ pc = "prepare" /\ list # <<>>
  /\ table[Head(list).ann] # Gone
  /\ got' = [ann |-> Head(list).ann, cycle |-> Head(list).cycle,
             source |-> table[Head(list).ann].source, same |-> TRUE]
  /\ pc' = "mark"
  /\ UNCHANGED <<time, checked, table, checker, requests, joining, list, ready, queued,
                 asked, heard, touched, bounds>>

GroupGet ==
  /\ pc = "prepare" /\ list # <<>>
  /\ LET row == table[Head(list).ann] IN
       IF row = Gone
       THEN list' = Tail(list) /\ UNCHANGED <<pc, got>>
       ELSE /\ got' = [ann |-> Head(list).ann, cycle |-> row.cycle, source |-> row.source,
                       same |-> TRUE]
            /\ pc' = "mark"
            /\ UNCHANGED list
  /\ UNCHANGED <<time, checked, table, checker, requests, joining, ready, queued,
                 asked, heard, touched, bounds>>

(* The row cannot be read, there is no file to play, or the mark cannot be *)
(* written.                                                                 *)
PrepareFails ==
  /\ pc \in {"prepare", "mark"} /\ list # <<>>
  /\ Fault(1)
  /\ Forget(Head(list))
  /\ list' = Tail(list) /\ pc' = "prepare" /\ got' = Nothing
  /\ UNCHANGED <<time, checked, table, checker, waiting, running, groups, joining, ready,
                 queued, asked, heard, touched, tests, edits, kills>>

(* announcementFile: the position in the folder after this one. *)
NextCycle(g) == ((g.cycle % FileCount[g.source]) + 1) % FileCount[g.source]

(* The row after a play at its time, and after a test play. *)
MarkAnnouncementPlayed(row, due, next) == [row EXCEPT !.played = due, !.cycle = next]

SetAnnouncementCycle(row, next) == [row EXCEPT !.cycle = next]

(* markAnnouncement: a test play keeps the time of the schedule. *)
MarkAnnouncement(row, due, next) ==
  IF due = Test THEN SetAnnouncementCycle(row, next) ELSE MarkAnnouncementPlayed(row, due, next)

GroupMark ==
  /\ pc = "mark"
  /\ LET d == Head(list) IN
       /\ table' = IF table[d.ann] = Gone THEN table
                   ELSE [table EXCEPT ![d.ann] = MarkAnnouncement(@, d.due, NextCycle(got))]
       /\ ready' = Append(ready, d)
       /\ list' = Tail(list) /\ pc' = "prepare" /\ got' = Nothing
  /\ UNCHANGED <<time, checked, checker, requests, joining, queued, asked, heard, touched, bounds>>

(* Suspend, Status, and every InsertNext; those in lost fail. *)
GroupQueue ==
  /\ pc = "prepare" /\ list = <<>> /\ ready # <<>>
  /\ \E lost \in SUBSET DOMAIN ready :
       /\ Fault(Cardinality(lost))
       /\ taken' = [a \in Anns |->
             IF \E i \in lost : ready[i].ann = a /\ ready[i].due = taken[a]
             THEN NoTime ELSE taken[a]]
       /\ \E kept \in InOrder(DOMAIN ready \ lost) :
            queued' = queued \o AtPlaces(ready, kept)
       /\ pc' = IF joining \/ lost # DOMAIN ready THEN "wait" ELSE "take"
  /\ ready' = <<>>
  /\ UNCHANGED <<time, checked, table, checker, waiting, running, groups, joining, list, got,
                 asked, heard, touched, tests, edits, kills>>

GroupNothingReady ==
  /\ pc = "prepare" /\ list = <<>> /\ ready = <<>>
  /\ pc' = IF joining THEN "wait" ELSE "take"
  /\ UNCHANGED <<time, checked, table, checker, requests, joining, list, got, ready, queued,
                 asked, heard, touched, bounds>>

(* MPD starts the next entry of the group, which takes it off queued. *)
GroupHears ==
  /\ pc = "wait" /\ queued # <<>>
  /\ heard' = heard \cup {s \in Slots(<<Head(queued)>>) : s[1] \notin touched}
  /\ queued' = Tail(queued)
  /\ UNCHANGED <<time, checked, table, checker, requests, pc, joining, list, got, ready,
                 asked, touched, bounds>>

(* MPD skips a file it cannot read. *)
GroupSkips ==
  /\ pc = "wait" /\ queued # <<>>
  /\ Fault(1)
  /\ queued' = Tail(queued)
  /\ UNCHANGED <<time, checked, table, checker, requests, pc, joining, list, got, ready,
                 asked, heard, touched, tests, edits, kills>>

(* The last one has been heard, and the music comes back (Break). *)
GroupEnds ==
  /\ pc = "wait" /\ queued = <<>>
  /\ pc' = "take" /\ joining' = FALSE
  /\ UNCHANGED <<time, checked, table, checker, requests, list, got, ready, queued,
                 asked, heard, touched, bounds>>

(* A person stops the playback, it plays too long, or Status fails: what    *)
(* remains is taken out of the queue.  PlayID may fail too: then every      *)
(* member of the group hears of it.                                         *)
GroupCut ==
  /\ pc = "wait" /\ queued # <<>>
  /\ Fault(1)
  /\ \E told \in BOOLEAN :
       taken' = [a \in Anns |->
          IF told /\ ~joining /\ \E d \in Items(queued) : d.ann = a /\ d.due = taken[a]
          THEN NoTime ELSE taken[a]]
  /\ queued' = <<>>
  /\ pc' = "take" /\ joining' = FALSE
  /\ UNCHANGED <<time, checked, table, checker, waiting, running, groups, list, got, ready,
                 asked, heard, touched, tests, edits, kills>>

(***************************************************************************)
(* Time and kills.  The ticker is shorter than a minute, so no minute       *)
(* passes without a check.                                                  *)
(***************************************************************************)
Minute ==
  /\ checked /\ time < Horizon
  /\ time' = time + 1 /\ checked' = FALSE
  /\ UNCHANGED <<table, checker, requests, group, asked, heard, touched, bounds>>

(* jukem is killed and starts again: the table stays, the rest is new. *)
Kill ==
  /\ Room > 0 /\ kills < MaxKills /\ kills' = kills + 1
  /\ checker' = Idle
  /\ taken' = [a \in Anns |-> NoTime] /\ waiting' = <<>> /\ running' = FALSE /\ groups' = 0
  /\ pc' = "idle" /\ joining' = FALSE /\ list' = <<>> /\ got' = Nothing
  /\ ready' = <<>> /\ queued' = <<>>
  /\ UNCHANGED <<time, checked, table, asked, heard, touched, faults, tests, edits>>

Check == CheckList \/ CheckAsk

People ==
  \/ \E a \in Anns : TestPlay(a) \/ Delete(a)
  \/ \E a \in Anns, r \in Rows : Update(a, r)
  \/ \E r \in Rows : Create(r)

Group ==
  \/ GroupTake \/ GroupJoin \/ GroupGet \/ GroupMark \/ GroupQueue
  \/ GroupNothingReady \/ GroupHears \/ GroupEnds

Failures == CheckFails \/ PrepareFails \/ GroupSkips \/ GroupCut

Next == Check \/ People \/ Group \/ Failures \/ Minute \/ Kill

(* The group goes on with what it has. *)
Fairness == WF_vars(Group)

Spec == Init /\ [][Next]_vars /\ Fairness

(***************************************************************************)
(* Properties.                                                             *)
(***************************************************************************)
(* Every variable keeps its shape. *)
TypeOK ==
  /\ time \in 0..Horizon /\ checked \in BOOLEAN /\ running \in BOOLEAN /\ joining \in BOOLEAN
  /\ \A a \in Existing : ValidRow(table[a]) /\ table[a].cycle \in Nat
  /\ checker.at \in {"idle", "listed"}
  /\ taken \in [Anns -> {NoTime} \cup (0..Horizon)]
  /\ \A s \in {waiting, list, ready, queued} : Items(s) \subseteq Request
  /\ pc \in {"idle", "take", "prepare", "mark", "wait"}
  /\ pc = "mark" => list # <<>>
  /\ asked \subseteq Times /\ heard \subseteq asked

(* announceMu hands the waiting list over without a gap: there is one group *)
(* exactly while announceRunning is set, and a request that waits always    *)
(* has a group that will take it (addAnnouncements, takeAnnouncements).     *)
HandOff ==
  /\ groups = (IF running THEN 1 ELSE 0)
  /\ (pc = "idle") = ~running
  /\ waiting # <<>> => running

(* How long a time of an announcement may play: to the end of its day, for   *)
(* the grace, and in an interval until the next multiple, also when that is  *)
(* past the end of the interval.                                            *)
Lasts(row, s, t) ==
  /\ DayOf(t) = DayOf(s) /\ t - s <= Grace
  /\ row.mode = "every" => t - s < row.every

(* A check cannot step over a play time (announce.go:24): every minute that *)
(* a time lasts has a check, so it is asked for unless each of these checks *)
(* failed.  A row of the first table may say that a time still to come has  *)
(* been played.                                                             *)
NoSlotSteppedOver ==
  \A a \in Existing \ touched :
    \A s \in SlotsBetween(table[a], FirstTable[a].played + 1, time - 1) :
      (\E t \in s..(time - 1) : Lasts(table[a], s, t) /\ faults <= t - s)
        => <<a, s>> \in asked

(* What the check and the page of the next announcements compute is what    *)
(* the times of the announcements say: due is the time that lasts and has   *)
(* not played, next is the first one after now in the coming week, and the  *)
(* page shows the first of all these and everyone who plays then            *)
(* (scheduler.AnnouncementDue, nextSlot, NextAnnouncements).                *)
Open(row) ==
  {s \in SlotsBetween(row, 0, time) : Lasts(row, s, time) /\ row.played < s}
Coming(row) == SlotsBetween(row, time + 1, (DayOf(time) + 8) * DayLength - 1)

TimesAgree ==
  LET rows == {table[a] : a \in Existing}
      all == UNION {Open(row) \cup Coming(row) : row \in rows}
      next == NextAnnouncements(rows, time)
  IN  /\ \A row \in rows :
           /\ AnnouncementDue(row, time) = IF Open(row) = {} THEN NoTime ELSE Max(Open(row))
           /\ NextSlot(row, time) = IF Coming(row) = {} THEN NoTime ELSE Min(Coming(row))
      /\ next.at = IF all = {} THEN NoTime ELSE Min(all)
      /\ next.group = {row \in rows : next.at \in Open(row) \cup Coming(row)}

(* Through the waiting list, the joins, failures that let a time be asked   *)
(* for again, stale tables in the hands of the check, and kills: a time is  *)
(* in the hands of the group at most once, and once it was heard it is      *)
(* never asked for again.  An announcement whose times a person changed is   *)
(* left out from then on: forgetAnnouncement drops the newest time whatever *)
(* the one before was, and a person who moves the times back can have the   *)
(* older one asked for again before it is marked.                           *)
PendingSlots == Slots(waiting) \cup Slots(list) \cup Slots(ready) \cup Slots(queued)

Promise == INSTANCE PlayPromise
  WITH pending <- {s \in PendingSlots : s[1] \notin touched}

KeepsPromise == Promise!Spec

(* A play of a cycle takes the file after the one before, also when test    *)
(* plays and scheduled plays of one announcement wait together: no file is  *)
(* played twice and none is left out (announce.go:213-215).  A person who   *)
(* changes the source between the two steps is the exception, also one who  *)
(* changes it back: the row has lost its cycle then.                        *)
CycleMovesOn ==
  [][\A a \in Anns :
       (/\ pc = "mark" /\ Len(ready') > Len(ready)
        /\ Head(list).ann = a /\ a \in Existing /\ got.same)
       => table'[a].cycle = (table[a].cycle + 1) % FileCount[table[a].source]]_vars

=============================================================================
