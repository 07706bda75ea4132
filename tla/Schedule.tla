------------------------------ MODULE Schedule ------------------------------
(****************************************************************************)
(* The tables the schedule is made of and the requests that change them:    *)
(* api/handlers_schedule.go, store/schedules.go and the deletion of a       *)
(* playlist.  A request validates, checks and stores in steps of its own,   *)
(* and other requests come between them.  The Invalidate that follows       *)
(* touches none of these tables: IntervalCache has it and what it may miss. *)
(*                                                                          *)
(* A source is a model value; those of Lists are playlists.                 *)
(****************************************************************************)
EXTENDS IntervalTimes

CONSTANTS
  Requests,      \* the requests that may run at once
  RuleIds,       \* 1..n: the ids of the table schedules
  Dates,         \* the days that may have an exception
  Lists,         \* the sources that are playlists
  Rules,         \* the rules people save
  Exceptions,    \* the exceptions people save
  Zones,         \* the zones of the settings
  Starts,        \* where the clock may be at the start
  MaxChanges,    \* bound: requests in a behaviour
  MaxTicks       \* bound: how far the clock goes

VARIABLES
  zone,          \* the time zone of the settings
  now, ticks,
  rules,         \* the table schedules
  lastId,        \* the last id that table gave (AUTOINCREMENT)
  exceptions,    \* the table schedule_exceptions
  playlists,     \* the playlists that exist
  request,       \* what each request is doing
  changes,       \* requests so far
  blind          \* history: a row was stored that its checks did not see
                 \* beside the rows and the weeks it joins

tables == <<rules, lastId, exceptions, playlists, zone>>
clock == <<now, ticks>>
vars == <<zone, now, ticks, rules, lastId, exceptions, playlists, request, changes, blind>>

Idle == [pc |-> "idle"]
NewId == 0          \* the id of a rule that has none yet

(* What the requests validate (store/schedules.go), and what a zone is: it  *)
(* is never further from UTC than localTime probes, and changes by less    *)
(* than a day.                                                             *)
TimesOfDay == 0..(DayLength - 1)
ValidRule(r) ==
  /\ r.enabled \in BOOLEAN /\ r.days \subseteq 0..(WeekDays - 1)
  /\ r.start \in TimesOfDay /\ r.end \in TimesOfDay
ValidException(e) ==
  /\ e.kind \in {"silent", "hours", "source"}
  /\ e.kind = "hours" => e.start \in TimesOfDay /\ e.end \in TimesOfDay
ValidZone(z) ==
  /\ z.before \in -Probe..Probe /\ z.after \in -Probe..Probe /\ z.change \in Int
  /\ z.after - z.before < DayLength /\ z.before - z.after < DayLength

ASSUME RuleIdsAssumption == RuleIds \subseteq Nat \ {NewId}
ASSUME StartsAssumption == Starts \subseteq Int
ASSUME RulesAssumption == NoRule \notin Rules /\ \A r \in Rules : ValidRule(r)
ASSUME ExceptionsAssumption == NoException \notin Exceptions /\ \A e \in Exceptions : ValidException(e)
ASSUME ZonesAssumption == \A z \in Zones : ValidZone(z)

ExceptionTable == {[d \in ds |-> e[d]] : ds \in SUBSET Dates, e \in [Dates -> Exceptions]}

TypeOK ==
  /\ zone \in Zones
  /\ rules \in [RuleIds -> Rules \cup {NoRule}]
  /\ exceptions \in ExceptionTable
  /\ playlists \subseteq Lists
  /\ \A q \in Requests : request[q].pc \in {"idle", "check", "store", "put"}
  /\ blind \in BOOLEAN

Init ==
  /\ zone \in Zones
  /\ now \in Starts
  /\ ticks = 0
  /\ rules \in {[id \in RuleIds |-> IF id = 1 THEN r ELSE NoRule] : r \in Rules \cup {NoRule}}
  /\ lastId = 1
  /\ exceptions \in ExceptionTable
  /\ playlists = Lists
  /\ request = [q \in Requests |-> Idle]
  /\ changes = 0
  /\ blind = FALSE

----------------------------------------------------------------------------
Known(source) == source \in Lists => source \in playlists

Starts1(q, next) ==
  /\ request[q].pc = "idle"
  /\ changes < MaxChanges
  /\ changes' = changes + 1
  /\ request' = [request EXCEPT ![q] = next]

(* saveRule: the source is validated first.                                *)
Save(q, id, rule) ==
  /\ Known(rule.source)
  /\ Starts1(q, [pc |-> "check", id |-> id, rule |-> rule])
  /\ UNCHANGED <<tables, clock, blind>>

With(id, rule) == [i \in RuleIds \cup {id} |-> IF i = id THEN rule ELSE rules[i]]

Refused(id, rule) ==
  rule.enabled /\ \E p \in Conflicts(With(id, rule), zone, now) : id \in p

(* The change of the zone skips hours of the week that starts today.       *)
SkipsHours ==
  /\ zone.after > zone.before
  /\ LET today == DayOf(zone, now)
     IN  zone.change \in DayAt(zone, today)..DayAt(zone, today + WeekDays + 1)

(* A rule was saved since these were seen; one that went is no matter.     *)
Unseen(seen) == \E id \in RuleIds : rules[id] \notin {NoRule, seen[id]}

CheckMutant(q) ==   \* a change of a stored rule is not checked
  /\ request[q].pc = "check"
  /\ LET r == request[q]
     IN  request' = [request EXCEPT ![q] =
           IF r.id = NewId /\ Refused(r.id, r.rule) THEN Idle
           ELSE [pc |-> "store", id |-> r.id, rule |-> r.rule, seen |-> rules, skips |-> SkipsHours]]
  /\ UNCHANGED <<tables, clock, changes, blind>>

(* checkConflicts: with the rules and the clock of this moment.            *)
Check(q) ==
  /\ request[q].pc = "check"
  /\ LET r == request[q]
     IN  request' = [request EXCEPT ![q] =
           IF Refused(r.id, r.rule) THEN Idle
           ELSE [pc |-> "store", id |-> r.id, rule |-> r.rule, seen |-> rules, skips |-> SkipsHours]]
  /\ UNCHANGED <<tables, clock, changes, blind>>

Store(q) ==
  LET r == request[q]
      place == IF r.id = NewId THEN lastId + 1 ELSE r.id
  IN  /\ r.pc = "store"
      /\ place \in RuleIds
      /\ request' = [request EXCEPT ![q] = Idle]
      /\ IF r.id # NewId /\ rules[place] = NoRule
         THEN UNCHANGED <<rules, lastId, blind>>     \* 404
         ELSE /\ rules' = [rules EXCEPT ![place] = r.rule]
              /\ lastId' = IF r.id = NewId THEN place ELSE lastId
              /\ blind' = (blind \/ Unseen(r.seen) \/ r.skips)
      /\ UNCHANGED <<exceptions, playlists, zone, clock, changes>>

(* putException: the source is validated, then the row is stored.          *)
Put(q, date, exception) ==
  /\ exception.kind # "silent" => Known(exception.source)
  /\ Starts1(q, [pc |-> "put", date |-> date, exception |-> exception])
  /\ UNCHANGED <<tables, clock, blind>>

StoreException(q) ==
  LET r == request[q]
  IN  /\ r.pc = "put"
      /\ exceptions' = [d \in DOMAIN exceptions \cup {r.date} |->
                          IF d = r.date THEN r.exception ELSE exceptions[d]]
      /\ request' = [request EXCEPT ![q] = Idle]
      /\ UNCHANGED <<rules, lastId, playlists, zone, clock, changes, blind>>

DeleteSchedule(q, id) ==
  /\ rules[id] # NoRule
  /\ Starts1(q, Idle)
  /\ rules' = [rules EXCEPT ![id] = NoRule]
  /\ UNCHANGED <<lastId, exceptions, playlists, zone, clock, blind>>

DeleteException(q, date) ==
  /\ date \in DOMAIN exceptions
  /\ Starts1(q, Idle)
  /\ exceptions' = [d \in DOMAIN exceptions \ {date} |-> exceptions[d]]
  /\ UNCHANGED <<rules, lastId, playlists, zone, clock, blind>>

(* UpdateSettings and the clock's PUT with another zone.                   *)
SetZone(q, other) ==
  /\ other # zone
  /\ Starts1(q, Idle)
  /\ zone' = other
  /\ UNCHANGED <<rules, lastId, exceptions, playlists, clock, blind>>

(* DeletePlaylist removes the rules and the exceptions that use it, in one *)
(* transaction, and its handler returns.                                   *)
DeletePlaylist(q, list) ==
  /\ list \in playlists
  /\ Starts1(q, Idle)
  /\ playlists' = playlists \ {list}
  /\ rules' = [id \in RuleIds |->
       IF rules[id] # NoRule /\ rules[id].source = list THEN NoRule ELSE rules[id]]
  /\ LET kept == {d \in DOMAIN exceptions : exceptions[d].source # list}
     IN  exceptions' = [d \in kept |-> exceptions[d]]
  /\ UNCHANGED <<lastId, zone, clock, blind>>

Tick ==
  /\ ticks < MaxTicks
  /\ ticks' = ticks + 1
  /\ now' = now + 1
  /\ UNCHANGED <<tables, request, changes, blind>>

Next ==
  \/ Tick
  \/ \E q \in Requests :
       \/ \E id \in {i \in RuleIds : rules[i] # NoRule} \cup {NewId}, r \in Rules : Save(q, id, r)
       \/ Check(q) \/ Store(q) \/ StoreException(q)
       \/ \E d \in Dates, e \in Exceptions : Put(q, d, e)
       \/ \E id \in RuleIds : DeleteSchedule(q, id)
       \/ \E d \in Dates : DeleteException(q, d)
       \/ \E z \in Zones : SetZone(q, z)
       \/ \E l \in Lists : DeletePlaylist(q, l)

Spec == Init /\ [][Next]_vars

----------------------------------------------------------------------------
Sources(ivs, t) == {iv.source : iv \in {i \in ivs : i.start <= t /\ t < i.end}}
Ahead == now..(now + DayLength + 2)
Ivs == Expand(rules, exceptions, zone, now, now + DayLength + 3)

ExpandAgrees == \A t \in Ahead : Sources(Ivs, t) = Due(rules, exceptions, zone, t)

BoundaryIsNext ==
  \A t \in now..(Min({NextBoundary(Ivs, now), now + DayLength + 2}) - 1) :
    /\ Sources(Current(Ivs, t), t) = Sources(Current(Ivs, now), now)
    /\ Due(rules, exceptions, zone, t) = Due(rules, exceptions, zone, now)

(* At every instant ahead the expanded intervals play exactly the sources  *)
(* that the rules and exceptions, read off the wall clock, mean to play:   *)
(* across the change of the zone, over midnight and around the day of an   *)
(* exception (Expand, applyException and localTime of intervals.go).  And  *)
(* until the next boundary, from which the end of an override is computed, *)
(* nothing changes in what plays.                                          *)
PlaysAsMeant == ExpandAgrees /\ BoundaryIsNext

(* Two enabled rules never want to play at the same hour of the week, so   *)
(* long as none was stored when another had been saved since its check, or *)
(* was checked in a week that skips hours (checkConflicts refuses it).     *)
RulesApart ==
  \/ blind
  \/ \A i, j \in {id \in RuleIds : rules[id] # NoRule} : i # j => ~Overlap(rules[i], rules[j])

(* The loop of Expand over the midnights goes on to the next day.          *)
DayAtIsMidnight ==
  \A d \in (DayOf(zone, now) - 1)..(DayOf(zone, now) + WeekDays + 2) :
    DayOf(zone, DayAt(zone, d)) = d
=============================================================================
