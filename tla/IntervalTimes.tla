---------------------------- MODULE IntervalTimes ----------------------------
(****************************************************************************)
(* The windows of the schedule: scheduler/intervals.go.  Pure.              *)
(*                                                                          *)
(* An instant is an integer.  A zone [before, after, change] shows          *)
(* t + before on its wall clock until the instant change and t + after      *)
(* from then on: one change to or from daylight saving, or none.  A wall    *)
(* clock reading is day * DayLength + minute.                               *)
(*                                                                          *)
(* A rule is [enabled, days, start, end, source], an exception              *)
(* [kind, start, end, source].  Names, keys and options do not decide when  *)
(* something plays and are left out.                                        *)
(****************************************************************************)
EXTENDS Integers, FiniteSets, FiniteSetsExt

CONSTANTS
  DayLength,     \* minutes of a day; 1440 in the code, a few in the instances
  WeekDays,      \* days of a week; 7 in the code
  Probe,         \* how far localTime looks for the other offset: 30 hours
  NoRule, NoException

ASSUME DayLengthAssumption == DayLength \in Nat \ {0}
ASSUME WeekDaysAssumption == WeekDays \in Nat \ {0}
ASSUME ProbeAssumption == Probe \in Nat /\ Probe > DayLength

----------------------------------------------------------------------------
(* Package time.                                                           *)
Offset(zone, t) == IF t < zone.change THEN zone.before ELSE zone.after
Wall(zone, t) == t + Offset(zone, t)
DayOf(zone, t) == Wall(zone, t) \div DayLength

(* time.Date: the offset at the reading taken as UTC is tried first.       *)
Date(zone, wall) == wall - Offset(zone, wall - Offset(zone, wall))

----------------------------------------------------------------------------
DayAt(zone, day) == Date(zone, day * DayLength)
NextDay(zone, midnight) == DayAt(zone, DayOf(zone, midnight) + 1)

LocalTimeMutant(zone, midnight, minute) ==   \* the offset of the midnight only
  DayOf(zone, midnight) * DayLength + minute - Offset(zone, midnight)

(* The instant of a time of the day that holds midnight: the first one     *)
(* that shows it, or the end of the gap that skips it.                     *)
LocalTime(zone, midnight, minute) ==
  LET want == DayOf(zone, midnight) * DayLength + minute
      candidates == {want - Offset(zone, want + p) : p \in {-Probe, 0, Probe}}
      exact == {c \in candidates : Wall(zone, c) = want}
      reached == {c \in candidates : Wall(zone, c) >= want}
      short == candidates \ reached
      low == IF short = {} THEN Min(candidates) ELSE Max(short)
      high == IF reached = {} THEN Max(candidates) ELSE Min(reached)
  IN  IF exact # {} THEN Min(exact)
      ELSE IF low >= high THEN high
      ELSE Min({t \in (low + 1)..high : Wall(zone, t) >= want} \cup {high})

(* A window that starts on the day of midnight; none when it is empty.     *)
Windows(zone, midnight, from, to) ==
  LET last == IF to > from THEN midnight ELSE NextDay(zone, midnight)
      start == LocalTime(zone, midnight, from)
      end == LocalTime(zone, last, to)
  IN  IF end > start THEN {[start |-> start, end |-> end]} ELSE {}

RunsOn(rule, day) == rule # NoRule /\ rule.enabled /\ (day % WeekDays) \in rule.days

Interval(window, rule, source) ==
  [start |-> window.start, end |-> window.end, rule |-> rule, source |-> source]

OfRules(rules, zone, midnight) ==
  UNION {{Interval(w, id, rules[id].source) :
            w \in Windows(zone, midnight, rules[id].start, rules[id].end)} :
         id \in {i \in DOMAIN rules : RunsOn(rules[i], DayOf(zone, midnight))}}

(* What an exception makes of the intervals that start on its day.         *)
ApplyException(exception, ofRules, zone, midnight) ==
  CASE exception.kind = "silent" -> {}
    [] exception.kind = "hours" ->
         {Interval(w, 0, exception.source) :
            w \in Windows(zone, midnight, exception.start, exception.end)}
    [] exception.kind = "source" -> {[iv EXCEPT !.source = exception.source] : iv \in ofRules}

Exception(exceptions, day) == IF day \in DOMAIN exceptions THEN exceptions[day] ELSE NoException

(* The exception of the next day cuts what reaches into it.                *)
Clip(ivs, exceptions, zone, midnight) ==
  LET next == NextDay(zone, midnight)
  IN  IF Exception(exceptions, DayOf(zone, next)) = NoException THEN ivs
      ELSE {[iv EXCEPT !.end = IF iv.end > next THEN next ELSE iv.end] : iv \in ivs}

OnDay(rules, exceptions, zone, midnight) ==
  LET ofRules == OfRules(rules, zone, midnight)
      exception == Exception(exceptions, DayOf(zone, midnight))
  IN  Clip(IF exception = NoException THEN ofRules
           ELSE ApplyException(exception, ofRules, zone, midnight),
           exceptions, zone, midnight)

(* The midnights the loop of Expand visits, each found from the one before *)
(* it, and whether that loop ends.                                         *)
Days(zone, from, to) == {DayAt(zone, d) : d \in (DayOf(zone, from) - 1)..(DayOf(zone, to) + 1)}
LoopMovesOn(zone, from, to) == \A m \in Days(zone, from, to) : NextDay(zone, m) > m

(* The set of the intervals that touch from..to - 1; the code sorts them.  *)
Expand(rules, exceptions, zone, from, to) ==
  {iv \in UNION {OnDay(rules, exceptions, zone, m) : m \in Days(zone, from, to)} :
     iv.end > from /\ iv.start < to /\ iv.end > iv.start}

(* The pairs of rules that overlap in the week that starts today.          *)
Conflicts(rules, zone, now) ==
  LET today == DayOf(zone, now)
      ivs == Expand(rules, <<>>, zone, DayAt(zone, today), DayAt(zone, today + WeekDays + 1))
  IN  {p \in SUBSET DOMAIN rules :
         Cardinality(p) = 2 /\ \E a, b \in ivs : {a.rule, b.rule} = p /\ a.start <= b.start /\ b.start < a.end}

(* The interval that contains t: the first in the order of the starts.     *)
Current(ivs, t) ==
  LET containing == {iv \in ivs : iv.start <= t /\ t < iv.end}
  IN  {iv \in containing : \A other \in containing : iv.start <= other.start}

(* The first start or end after t, or a day later when there is none.      *)
NextBoundary(ivs, t) ==
  Min({b \in {iv.start : iv \in ivs} \cup {iv.end : iv \in ivs} : b > t} \cup {t + DayLength})

----------------------------------------------------------------------------
(* The same, said of every instant by itself.                              *)

(* Whether the wall clock has shown the reading by the instant t.          *)
Shown(zone, reading, t) == \E u \in (t - 2 * DayLength)..t : Wall(zone, u) >= reading

Inside(zone, day, from, to, t) ==
  /\ Shown(zone, day * DayLength + from, t)
  /\ ~Shown(zone, (IF to > from THEN day ELSE day + 1) * DayLength + to, t)

(* Who is meant to play at t: what the rules of the day that started it    *)
(* say, changed by the exception of that day, until a day with an          *)
(* exception of its own begins.                                            *)
DueOn(rules, exceptions, zone, day, t) ==
  LET exception == Exception(exceptions, day)
      running == {id \in DOMAIN rules : /\ RunsOn(rules[id], day)
                                        /\ Inside(zone, day, rules[id].start, rules[id].end, t)}
  IN  IF exception = NoException THEN {rules[id].source : id \in running}
      ELSE IF exception.kind = "source" /\ running # {} THEN {exception.source}
      ELSE IF exception.kind = "hours" /\ Inside(zone, day, exception.start, exception.end, t)
           THEN {exception.source}
      ELSE {}

Due(rules, exceptions, zone, t) ==
  LET today == DayOf(zone, t)
  IN  DueOn(rules, exceptions, zone, today, t)
      \cup IF Exception(exceptions, today) # NoException THEN {}
           ELSE DueOn(rules, exceptions, zone, today - 1, t)

(* The day begins at this instant as dayAt has it, and not a second time.   *)
BeginsAt(zone, day, t) == DayAt(zone, day) <= t <=> day * DayLength <= Wall(zone, t)

(* Two rules overlap when their weekly wall clock hours do.                *)
Hours(rule) ==
  UNION {{(d * DayLength + m) % (WeekDays * DayLength) :
            m \in rule.start..((IF rule.end > rule.start THEN rule.end ELSE rule.end + DayLength) - 1)} :
         d \in rule.days}

Overlap(a, b) == a.enabled /\ b.enabled /\ Hours(a) \cap Hours(b) # {}
=============================================================================
