---------------------------- MODULE IntervalCache ----------------------------
(***************************************************************************)
(* The cache of the rolling window of intervals: current and Invalidate of *)
(* internal/scheduler/scheduler.go, called by the tick and by every API    *)
(* request that asks for the owner, while other requests change what the   *)
(* window is made of.  s.mu covers the look at the cache and the store     *)
(* into it, but not the reading of the database in between.                *)
(***************************************************************************)
EXTENDS Naturals, Sequences, FiniteSets

CONSTANTS
    Readers,    \* goroutines that take a snapshot: the loop and API requests
    Writers,    \* requests that change an input and then invalidate
    Inputs,     \* what a window is made of, in the order it is read
    Sourced,    \* the positions of those that point at playlists
    Hour,                   \* life of the cache
    NoIntervals,            \* the window of a scheduler that has read none yet
    MaxLag,                 \* bound: how long a snapshot may take
    MaxTime, MaxWrites, MaxFaults, MaxJumps     \* bounds

ASSUME CacheConstantsOK ==
    /\ Len(Inputs) \in Nat \ {0} /\ Sourced \subseteq 1..Len(Inputs)
    /\ Hour \in Nat \ {0}
    /\ MaxLag \in Nat /\ MaxTime \in Nat \ {0} /\ MaxWrites \in Nat /\ MaxFaults \in Nat /\ MaxJumps \in Nat

VARIABLES
    time,       \* Clock.Now()
    db,         \* the version of every input
    cache,      \* s.ivs and s.ivsAt; at = 0 when the cache is stale
    reader,     \* a snapshot: [pc, now, read, win, floor, told, had]
    writer,     \* [pc]: whether the change is made and not yet invalidated
    dropped,    \* history: the versions of the inputs at the last Invalidate
    raced,      \* history: a reader was between its look and its store at the last Invalidate
    past,       \* history: past[t] is the versions when the clock left t
    writes, faults, jumps

cacheVars == <<time, db, cache, reader, writer, dropped, raced, past, writes, faults, jumps>>
bounds == <<writes, faults, jumps>>

Tables == 1..Len(Inputs)
Times  == 1..MaxTime
First  == [t \in Tables |-> 0]
Versions == 0..MaxWrites
CachedWindows == [Tables -> Versions]   \* a window is known by the versions it was made of

\* s.ivs is nil until the first read, and a window that was read never is.
ASSUME NoIntervalsIsNoWindow == NoIntervals \notin CachedWindows

IdleReader == [pc |-> "idle", now |-> 1, read |-> <<>>, win |-> NoIntervals, floor |-> First,
               told |-> FALSE, had |-> FALSE]

CacheInit ==
    /\ time = 1 /\ db = First
    /\ cache = [win |-> NoIntervals, at |-> 0]
    /\ reader = [r \in Readers |-> IdleReader]
    /\ writer = [w \in Writers |-> "idle"]
    /\ dropped = First /\ raced = FALSE /\ past = <<>>
    /\ writes = 0 /\ faults = 0 /\ jumps = 0

(***************************************************************************)
(* A snapshot: the time, a look at the cache, and the window when it is    *)
(* stale.  floor, told and had are history: what was dropped when it       *)
(* began, whether nobody was reading then, and whether a window was cached.*)
(***************************************************************************)
Begin(r) ==
    /\ reader[r].pc = "idle"
    /\ reader' = [reader EXCEPT ![r] = [pc |-> "look", now |-> time, read |-> <<>>, win |-> NoIntervals, floor |-> dropped,
                                        told |-> ~raced, had |-> cache.win # NoIntervals]]
    /\ UNCHANGED <<time, db, cache, writer, dropped, raced, past, bounds>>

\* now.Sub(ivsAt) < time.Hour, which holds as well when the time is before ivsAt.
Usable(t) == cache.at # 0 /\ t < cache.at + Hour

Answer(r, win) == reader' = [reader EXCEPT ![r].pc = "done", ![r].win = win]

Look(r) ==
    /\ reader[r].pc = "look"
    /\ IF Usable(reader[r].now)
       THEN Answer(r, cache.win)
       ELSE reader' = [reader EXCEPT ![r].pc = "expand"]
    /\ UNCHANGED <<time, db, cache, writer, dropped, raced, past, bounds>>

\* Intervals reads the zone, the rules and the exceptions one after the other.
ReadInput(r) ==
    /\ reader[r].pc = "expand" /\ Len(reader[r].read) < Len(Inputs)
    /\ reader' = [reader EXCEPT ![r].read = Append(@, db[Len(@) + 1])]
    /\ UNCHANGED <<time, db, cache, writer, dropped, raced, past, bounds>>

\* A read that fails: the last good window is better than an empty one.
ReadFails(r) ==
    /\ reader[r].pc = "expand" /\ faults < MaxFaults
    /\ faults' = faults + 1
    /\ Answer(r, cache.win)
    /\ UNCHANGED <<time, db, cache, writer, dropped, raced, past, writes, jumps>>

\* Mutation: the cache is as old as the moment it is stored.
StoreWindowMutant(r) ==
    /\ reader[r].pc = "expand" /\ Len(reader[r].read) = Len(Inputs)
    /\ cache' = [win |-> reader[r].read, at |-> time] /\ Answer(r, reader[r].read)
    /\ UNCHANGED <<time, db, writer, dropped, raced, past, bounds>>

\* The window is stored with the time of the snapshot, whatever happened since.
StoreWindow(r) ==
    /\ reader[r].pc = "expand" /\ Len(reader[r].read) = Len(Inputs)
    /\ cache' = [win |-> reader[r].read, at |-> reader[r].now] /\ Answer(r, reader[r].read)
    /\ UNCHANGED <<time, db, writer, dropped, raced, past, bounds>>

Finish(r) ==
    /\ reader[r].pc = "done"
    /\ reader' = [reader EXCEPT ![r] = IdleReader]
    /\ UNCHANGED <<time, db, cache, writer, dropped, raced, past, bounds>>

(***************************************************************************)
(* Changes.  The handlers write first and invalidate afterwards, but the   *)
(* one that deletes a playlist, which takes the rules and the exceptions   *)
(* of the playlist with it in one transaction, never invalidates.          *)
(***************************************************************************)
Change(w, t) ==
    /\ writer[w] = "idle" /\ writes < MaxWrites
    /\ writes' = writes + 1
    /\ db' = [db EXCEPT ![t] = @ + 1]
    /\ writer' = [writer EXCEPT ![w] = "changed"]
    /\ UNCHANGED <<time, cache, reader, dropped, raced, past, faults, jumps>>

DeletesPlaylist(ts) ==
    /\ ts # {} /\ writes < MaxWrites
    /\ writes' = writes + 1
    /\ db' = [t \in Tables |-> IF t \in ts THEN db[t] + 1 ELSE db[t]]
    /\ UNCHANGED <<time, cache, reader, writer, dropped, raced, past, faults, jumps>>

Reading(r) == reader[r].pc = "expand"
Drops == dropped' = db /\ raced' = \E r \in Readers : Reading(r)

\* Mutation: Invalidate clears the intervals instead of their time.
InvalidateMutant(w) ==
    /\ writer[w] = "changed"
    /\ cache' = [win |-> NoIntervals, at |-> 0]
    /\ Drops
    /\ writer' = [writer EXCEPT ![w] = "idle"]
    /\ UNCHANGED <<time, db, reader, past, bounds>>

\* Mutation: Invalidate tells the clients and the loop, and leaves the cache.
InvalidateNothingMutant(w) ==
    /\ writer[w] = "changed"
    /\ Drops
    /\ writer' = [writer EXCEPT ![w] = "idle"]
    /\ UNCHANGED <<time, db, cache, reader, past, bounds>>

Invalidate(w) ==
    /\ writer[w] = "changed"
    /\ cache' = [cache EXCEPT !.at = 0]
    /\ Drops
    /\ writer' = [writer EXCEPT ![w] = "idle"]
    /\ UNCHANGED <<time, db, reader, past, bounds>>

(***************************************************************************)
(* The clock.  It moves back when a manual offset is dropped after the     *)
(* kernel has synchronised, and when the system clock is corrected.        *)
(***************************************************************************)
Passes ==
    /\ time < MaxTime /\ time' = time + 1
    /\ \A r \in Readers : reader[r].pc # "idle" => time < reader[r].now + MaxLag
    /\ past' = IF Len(past) < time THEN Append(past, db) ELSE past
    /\ UNCHANGED <<db, cache, reader, writer, dropped, raced, bounds>>

JumpsBack(t) ==
    /\ jumps < MaxJumps /\ t < time
    /\ time' = t /\ jumps' = jumps + 1
    /\ UNCHANGED <<db, cache, reader, writer, dropped, raced, past, writes, faults>>

Reader(r) == Begin(r) \/ Look(r) \/ ReadInput(r) \/ ReadFails(r) \/ StoreWindow(r) \/ Finish(r)
CacheNext ==
    \/ \E r \in Readers : Reader(r)
    \/ \E w \in Writers : Invalidate(w) \/ \E t \in Tables : Change(w, t)
    \/ \E ts \in SUBSET Sourced : DeletesPlaylist(ts)
    \/ Passes \/ \E t \in Times : JumpsBack(t)

CacheSpec == CacheInit /\ [][CacheNext]_cacheVars

-----------------------------------------------------------------------------
WindowOrNone == CachedWindows \cup {NoIntervals}

Snapshots == [pc : {"idle", "look", "expand", "done"}, now : Times, read : Seq(Versions), win : WindowOrNone,
              floor : CachedWindows, told : BOOLEAN, had : BOOLEAN]

\* The shape of every variable; a stored time comes with a window, and no input has had more changes
\* than were made.
CacheTypeOK ==
    /\ time \in Times /\ db \in CachedWindows /\ dropped \in CachedWindows /\ raced \in BOOLEAN
    /\ \A t \in Tables : db[t] <= writes
    /\ cache \in [win : WindowOrNone, at : 0..MaxTime] /\ (cache.at # 0 => cache.win \in CachedWindows)
    /\ reader \in [Readers -> Snapshots]
    /\ \A r \in Readers : Len(reader[r].read) <= Len(Inputs)
    /\ writer \in [Writers -> {"idle", "changed"}]
    /\ past \in Seq(CachedWindows) /\ Len(past) < MaxTime
    /\ writes \in 0..MaxWrites /\ faults \in 0..MaxFaults /\ jumps \in 0..MaxJumps

Done(r) == reader[r].pc = "done"

\* Whatever happens between a change, its Invalidate and the snapshots that run meanwhile, and when a
\* playlist is deleted and nobody invalidates, no decision rests on a schedule that was replaced an hour
\* before it (current, Invalidate, DeletePlaylist): the window was read after the time it is stored with.
AtMostAnHourOld ==
    \A r \in Readers : Done(r) /\ reader[r].now > Hour /\ faults = 0 /\ jumps = 0 =>
        \A t \in Tables : reader[r].win[t] >= past[reader[r].now - Hour][t]

\* Invalidate drops the cache "after a rule, exception, playlist or zone change": a snapshot that begins
\* after it, and after others were dropped, invalidated and read again, never decides by what the tables
\* were before, unless a snapshot was being read at that very Invalidate, which may store what it read
\* before the change, or the database fails (current, Invalidate).
ToldIsSeen ==
    \A r \in Readers : Done(r) /\ reader[r].told /\ faults = 0 =>
        \A t \in Tables : reader[r].win[t] >= reader[r].floor[t]

\* "The last good window is better than an empty one, which would stop the music": a snapshot that
\* begins with a window there gets one, however the changes, the invalidations and the failing reads
\* of others fall (current, Invalidate).
KeepsLastGood == \A r \in Readers : Done(r) /\ reader[r].had => reader[r].win # NoIntervals

=============================================================================
