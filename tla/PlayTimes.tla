------------------------------ MODULE PlayTimes ------------------------------
(****************************************************************************)
(* The play times of an announcement: scheduler/announcements.go.  Pure.    *)
(*                                                                          *)
(* A time is a number of minutes since the midnight that starts a Monday,   *)
(* on the local wall clock (IntervalTimes has the changes to and from       *)
(* daylight saving).  A row of the table announcements is a record          *)
(*   [enabled, days, mode, at, first, last, every, source, cycle, played]   *)
(* where days is the set of weekdays, at is used by the mode "at" and       *)
(* first, last and every by the mode "every".                               *)
(****************************************************************************)
EXTENDS Integers, FiniteSets, FiniteSetsExt

CONSTANTS
  DayLength,   \* minutes of a day; 1440 in the code, a few in the instances
  Grace        \* how late an announcement may still play

ASSUME DayLengthAssumption == DayLength \in Nat \ {0}
ASSUME GraceAssumption == Grace \in Nat

NoTime == -1

DayOf(t) == t \div DayLength
PlaysOn(a, day) == (day % 7) \in a.days
AtTime(day, minute) == day * DayLength + minute

(* The newest play time of the day of t that is not after t. *)
LastSlotEvery(a, t) ==
  LET first == AtTime(DayOf(t), a.first)
      last == AtTime(DayOf(t), a.last)
      slot == first + ((t - first) \div a.every) * a.every
  IN  IF last > first /\ t >= first /\ slot <= last THEN slot ELSE NoTime

LastSlot(a, t) ==
  IF a.mode = "every" THEN LastSlotEvery(a, t)
  ELSE IF t >= AtTime(DayOf(t), a.at) THEN AtTime(DayOf(t), a.at) ELSE NoTime

AnnouncementDueMutant(a, t) ==   \* no grace
  LET slot == LastSlot(a, t)
  IN  IF a.enabled /\ PlaysOn(a, DayOf(t)) /\ slot = t /\ a.played < slot
      THEN slot ELSE NoTime

(* The time for which the announcement is due at t, or NoTime. *)
AnnouncementDue(a, t) ==
  LET slot == LastSlot(a, t)
  IN  IF /\ a.enabled
         /\ PlaysOn(a, DayOf(t))
         /\ slot # NoTime
         /\ t - slot <= Grace
         /\ a.played < slot
      THEN slot ELSE NoTime

SlotOnDayMutant(a, day, t) ==   \* the last time of the day is left out
  LET first == AtTime(day, a.first)
      next == IF first > t THEN first
              ELSE first + ((t - first) \div a.every + 1) * a.every
      slot == IF a.mode = "at" THEN AtTime(day, a.at) ELSE next
  IN  IF ~PlaysOn(a, day) \/ slot <= t THEN NoTime
      ELSE IF a.mode = "every" /\ slot >= AtTime(day, a.last) THEN NoTime
      ELSE slot

(* The first play time of one day that is after t. *)
SlotOnDay(a, day, t) ==
  LET first == AtTime(day, a.first)
      next == IF first > t THEN first
              ELSE first + ((t - first) \div a.every + 1) * a.every
      slot == IF a.mode = "at" THEN AtTime(day, a.at) ELSE next
  IN  IF ~PlaysOn(a, day) \/ slot <= t THEN NoTime
      ELSE IF a.mode = "every" /\ slot > AtTime(day, a.last) THEN NoTime
      ELSE slot

(* The first play time after t, looking at today and the seven days after. *)
NextSlot(a, t) ==
  LET days == {d \in DayOf(t)..DayOf(t) + 7 : SlotOnDay(a, d, t) # NoTime}
  IN  IF ~a.enabled \/ days = {} THEN NoTime ELSE SlotOnDay(a, Min(days), t)

NextTime(a, t) ==
  IF AnnouncementDue(a, t) # NoTime THEN AnnouncementDue(a, t) ELSE NextSlot(a, t)

(* The next time at which something plays, and who plays then. *)
NextAnnouncements(rows, t) ==
  LET times == {NextTime(a, t) : a \in rows} \ {NoTime}
  IN  IF times = {} THEN [at |-> NoTime, group |-> {}]
      ELSE [at |-> Min(times),
            group |-> {a \in rows : NextTime(a, t) = Min(times)}]

(***************************************************************************)
(* The same, said without arithmetic: the times an announcement has.       *)
(***************************************************************************)
MinutesOf(a) ==
  IF a.mode = "at" THEN {a.at}
  ELSE {m \in a.first..a.last : \E k \in 0..DayLength : m = a.first + k * a.every}

SlotsBetween(a, from, to) ==
  {t \in from..to : /\ a.enabled
                    /\ PlaysOn(a, DayOf(t))
                    /\ (t % DayLength) \in MinutesOf(a)}
=============================================================================
