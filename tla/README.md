# A TLA+ verification of jukem

jukem turns a small Linux machine into a jukebox for a shop, a gym or a bar: it supervises MPD,
plays what a weekly schedule says, and lets people act over an HTTP API. This directory models the
concurrent parts of the Go program, checks them with TLC on small instances, and proves the most
important invariants with TLAPS for instances of any size.

All paths below are relative to the repository.

## 1. The system

| Component | Source | State | Operations | Hard behaviour |
|---|---|---|---|---|
| Reconciler | `internal/scheduler/scheduler.go` | `loaded`, `fade`, `suspended`, `failures`, `retryAfter` | `Tick`, `Suspend`, fades, `loadAndPlay` | A tick, up to several fade goroutines and API requests work on one MPD; most of a tick runs without `s.mu` |
| Overrides | `internal/app/schedule.go`, `internal/api/handlers_schedule.go` | the row of the `overrides` table, the scheduler switch | play, pause, stop, Play Now, `/override`, `/scheduler` | read, decide and store without a lock around the three |
| Cached schedule | `Scheduler.current`, `Invalidate` | `ivs`, `ivsAt` | read, refresh, drop | the refresh reads the database unlocked; the database fails; the clock jumps |
| Expansion of rules | `internal/scheduler/intervals.go` | none | `Expand`, `applyException`, `Conflicts`, `Current`, `NextBoundary` | exceptions, windows over midnight, daylight saving |
| Announcements | `internal/scheduler/announcements.go`, `internal/app/announce.go`, `internal/player/announce.go` | the waiting list, `announceTaken`, the table `announcements` | check, test play, take, prepare, queue, wait, restore | one goroutine for a group that others join while it plays; an announcement breaks into music that people, MPD and shuffle change meanwhile; kills between the mark and the play |
| Clock | `internal/scheduler/clock.go` | manual offset | `Now`, `Status`, `SetManual` | a machine without a battery-backed clock |
| MPD pool | `internal/mpdctl/pool.go` | places, idle connections | `Do`, `EnableOnly`, `Watch` | a wedged MPD, callers that give up, connections of a former MPD |
| MPD supervisor | `internal/mpdctl/supervisor.go`, `recover_linux.go`, `conf.go` | child process, `restartCh`, `mpd.conf` | `Start`, `Reconfigure`, `Restart`, `Stop` | crashes at any point; jukem is killed and MPD lives on; a stop at any point of a start |
| Watchdog | `internal/app/watchdog.go` | `stallState` | `checkStall`, `checkDisk`, `checkDevice`, the nightly job | a hung output device under an MPD that answers; a restart comes back paused; problems that come and go in the middle of a round |
| Settings and output | `internal/app/ops.go`, `internal/app/app.go` | the settings row | `UpdateSettings`, `SelectOutput`, `applyOutput`, `watchMPD` | config file and settings are two writes; several writers |
| Player | `internal/player/player.go` | `generation`, `intent`, shuffle order | `Load`, transport, `Finished` | a load is many MPD commands |
| Store | `internal/store` | SQLite | one method per query, migrations | snapshots before a migration |
| Alerts, event hub | `internal/watchdog`, `internal/events` | open alerts; subscribers | raise, clear; publish | two goroutines raise one alert; a slow subscriber |
| Audio | `internal/audio` | snapshot of the devices, saved identity, mixer | rescan, select, set | a rescan that commits a list that is old by then |
| Uploads | `internal/library/files.go`, `storage.go` | `inflight`, `pending`, `scanning`, the cached free figure | upload, scan, update event, reset | several uploads and one disk; scans of others; lost events; restarts of MPD |
| Playlists and references | `internal/library/playlists.go`, `fileops.go`, `internal/store/refs.go` | a row and a file per playlist, the bans, the sources | create, rename, set, append, delete; move and delete of paths | each is several writes to files and tables, beside other requests |
| Changes of the schedule | `internal/api/handlers_schedule.go`, `internal/store/schedules.go` | rules, exceptions, the zone | save, delete, set the zone | check and store are two steps; a source may go meanwhile |
| Update, config, cmd | `internal/update`, `internal/config`, `cmd/jukem` | little | | |
| API | `internal/api` | sessions, limiter of logins | handlers | each handler is a goroutine |
| Browser interface | `web/app` | | | |

How they interact. API handlers call methods of `App`, which call `Scheduler`, `Player`, the
supervisor and the store. A person's transport action takes `Scheduler.Suspend`, acts on the
player, stores an override and releases the hold. The reconciler compares what the schedule and
the override want with what MPD does, every five seconds and after each change, and acts through
the player. The player talks to MPD over the pool. The supervisor tells `App.onMPDEvent` of each
start, which selects the output again. The watchdog asks the player for the status and the
supervisor for a restart.

What makes each part correct is stated by the properties in section 4, and the hazards of the code,
each with its line and with the properties that catch it, are in `PROJECT.json`.

## 2. The modules

| Module | Models | Proofs |
|---|---|---|
| `Reconciler` (instances in `MCReconciler`) | `Tick`, fades, `Suspend`, overrides, Play Now, the switch, the player as the loop sees it | `ReconcilerProofs` |
| `IntervalCache` (`MCIntervalCache`) | `current`, `Intervals`, `Invalidate`, the handlers that change the schedule and invalidate, and the deletion of a playlist, which does not | `ScheduleProofs` |
| `IntervalTimes` | `intervals.go` as operators: `LocalTime`, `Windows`, `Expand`, `ApplyException`, `Conflicts`, `Current`, `NextBoundary` | `ScheduleProofs` |
| `Schedule` (`MCSchedule`), extends `IntervalTimes` | the requests that change rules, exceptions, the zone and playlists, with their checks | `ScheduleProofs` |
| `PlayTimes` | `announcements.go` as operators: `AnnouncementDue`, `NextSlot`, `NextAnnouncements` | by `AnnouncementsProofs` |
| `PlayPromise` | the abstract specification: a play time is asked for, heard or given up, and never heard twice | by `AnnouncementsProofs`: it is implemented |
| `Announcements` (`MCAnnouncements`), extends `PlayTimes`, implements `PlayPromise` | the check, test plays, edits, the waiting list and the group goroutine | `AnnouncementsProofs` |
| `Break` (`MCBreak`) | one break in MPD's queue: insert, hold, play, wait, join, restore | `BreakProofs` |
| `Uploads` (`MCUploads`) | uploads, space reservation, pending folders, scans and events | `UploadsProofs` |
| `References` (`MCReferences`) | playlists, bans and sources under moves, deletes, renames and appends | `ReferencesProofs` |
| `Pool` | `Do`, `get`, `put`, the ping, both timeouts, `EnableOnly`, `applyOutput` | `PoolProofs` |
| `Supervisor` | the loop and its MPD, `writeConf`, `Reconfigure`, `Stop`, `recoverOrphan`, `UpdateSettings` | `SupervisorProofs` |
| `Watchdog` | a round of the watchdog, the alerts, the playlist check of the night, rescans of the devices, with MPD, its supervisor, a person and the scheduler around them | none |

### Reconciler

A step ends where the code waits, calls MPD or the store, or lets go of a lock; a region that only
touches `s.mu` is one step. `tickMu` is held exactly while the loop is not `"idle"`, so it has no
variable. `run[g]` is the program counter of the loop and of each fade goroutine; the pcs
`resolve`, `load`, `loaded` and `start_in` are `loadAndPlay`, which both may execute. `person[p]`
is an HTTP request under way: `cancel`, `wait` and `handshake` are `Suspend`, `act` is the player
command, `forget`, `hold` and `store` are `playNowOverride` and `holdForPerson`, and `release` is
the function that `Suspend` returned. A slot for a fade is free when its goroutine has ended and
nothing refers to it.

Time is the number of the slot of a schedule that covers a day. jukem starts in any slot, with the
program that `New` loads from the store: none, or that of a window which has begun, whose queue MPD
then still has, paused, because nobody has replaced it since. MPD is at its full level and there is no
override; a start with the override or the selection of a person, and a kill in the middle of a fade,
after which MPD keeps the volume of that moment, are left out. Volume has two values: 1 is the
level the music is meant to have, 0 any level that a fade passes through. The music of a program
repeats, a Play Now plays once. `failures` stops at 4, because only "at least 3" and the reset
matter. What may fail (a load, a play, an output, MPD, the device, the clock) is bounded by
`MaxFaults`.

Left out: the cancelling of a fade when `Run` ends, the wording of the status, and the volume of a
person (a change during a fade-in is overwritten by its end, `scheduler.go:570`).

### IntervalCache

A reader takes the time, looks at the cache under `s.mu`, reads the inputs one by one without it,
and stores the window with the time it began with. A window is known by the versions of the inputs
it was made from. A writer changes the tables first and calls `Invalidate` after. The deletion of a
playlist takes its rules and its exceptions in one transaction, so it changes any of the inputs that are
`Sourced` in one step, and nobody invalidates. The rest is history for the properties: `past` has the
versions at each tick, `dropped` those at the last `Invalidate` and `raced` whether a snapshot was between
its look and its store then; `floor`, `told` and `had` are what a snapshot began with: the versions
dropped by then, whether nobody was reading when they were, and whether a window was cached.

### Pool

A caller of `Do` waits for a place, then for the answer of the goroutine it started; either wait
may time out. The goroutine keeps place and connection until MPD answers or goes away. A
connection belongs to one MPD process (`of`; 0 when MPD has closed it); it is pinged before use once
it has rested for `pingAfter`. `Rest` assumes that taking a connection is quicker than `pingAfter`
unless MPD is wedged. `applyOutput` runs once per start, one call at a time, with a second try.

### Supervisor

`content`, `file` and `tmp` are the files that `mpd.conf` and `mpd.conf.tmp` name; a rename moves a
name. A writer is one `UpdateSettings`, from the temporary file to the saved settings. `restart` is
the channel of one place. `Kill` ends jukem between any two steps and leaves its MPD as a stray;
`Boot` finds it by the pid file or the command line, writes the config from the stored settings and
starts over. Left out: how long a backoff lasts, the alert after five failures, and a stray that
survives the kill.

### Watchdog

Time is counted in checks of half a minute; whether a span of exactly as many checks as a limit is
longer than the limit is open, since a ticker is not exact. In half a minute a track that plays
moves, and the supervisor ends an MPD it was asked to end. After `checkStall` a round goes through
`checkDisk`, `checkDevice` and the alert of an unstable MPD, each a step of its own. `open` is the
set of kinds with an active row: the partial unique index makes a repeat update the row. The device
manager lists the devices in one step and commits the snapshot in another, with the identity that
is saved by then. The nightly job is the action `Nightly`; its rescan and its trims touch nothing
here. Left out: the delivery to the webhook, and the hour of the nightly job.

### IntervalTimes and Schedule

An instant is an integer; a zone has one change or none, and `Date` resolves a reading as Go's
`time.Date` does, from the offset at the reading taken as UTC, so that `localTime`, which repairs
what that gets wrong in gaps and overlaps, has work to do. `Schedule` has a request take the steps
validate, check and store, with those of another between them. The `Invalidate` that follows touches
none of the tables: what the scheduler then works with, and what it may miss, is the matter of
`IntervalCache`, where the unlocked read and the store of the window are steps of their own. `Due`, `Overlap`, `Shown` and `Inside` are the reference
definitions: they read off the wall clock what should play at an instant, without any window.
`BeginsAt` says that a day begins where `dayAt` has it. `blind` records that a rule was stored when another had been saved since its
check, or was checked in a week that skips hours: the check sees nothing there. A rule or playlist that
is deleted, or a zone that is set, between check and store is no excuse.

### PlayTimes, Announcements and PlayPromise

Times are minutes from a Monday's midnight. `SlotsBetween` and `MinutesOf` are the reference
definitions of the play times. In `Announcements` the checker lists the table and asks for what is
due in two steps; the group takes the waiting list, reads the row and the file, marks the play in
the table, queues, and waits; a request that comes while it waits joins. `Kill` loses everything
but the table. The refinement maps the waiting list and what the group holds to `pending`; an
announcement whose times a person changed is left out of it from then on. `got.same` is history: whether
the row that the group has read is still the one in the table.

### Break

`mpd` is a queue of entries with the current one, its state, its level and whether it is at the
point where the music stopped. `queued` is the list of the group and `after` the entry that the next
one goes behind (`afterID`), the current one at first and the one just inserted from then on. The
group's commands are steps of their own; between them an entry ends, people press buttons, remove
entries, play something next or load a selection, shuffle runs, and MPD is restarted. `before` is
the status the restore works from.

### Uploads

A folder is a sequence of names. `Stat` may return a figure that is as old as the cache allows;
`stale` records that an upload was admitted with one, or with no size. MPD runs the scans it is
asked for in order, and its events wait in a channel of their own; the events that are not read in
time are one. `lost` are the folders whose scan MPD refused or lost while nobody waited for it.
Left out: the folders that a move or a delete leaves to be scanned.

### References

A reference is a path with what lay there when it was written: a history value that no action
reads and that the properties compare with what lies there now. A request is a sequence of writes to
one file or one table; `excused`, `stray` and `alone` name what an overlapping change of files, a stale
name, a failed write or a kill kept back. Left out: moves across file systems, folders deeper than
two names, the order of a playlist. The statements of one transaction are one step.

## 3. Fairness

The reconciler's loop has a ticker of five seconds, so `TickStart` and the steps of a tick are
weakly fair; goroutines and handlers run on, so are their steps, each goroutine on its own. A retry
time passes and the supervisor brings MPD back, so `RetryElapses` and `ComesBack` are fair, and so
is `NoteSong`, because `watchMPD` hears of every song. Time owes nothing: a slot lasts as long as it
likes, the last one for ever, so `Converges` is asked of every window and every gap in which time may come
to rest, and not only of the end of the day. People ask for nothing unless they want to.
In `Pool`, timers fire and goroutines run, and MPD is started again when it has ended; nobody
promises that a wedged MPD answers again. In `Supervisor` the loop, a running `UpdateSettings` and a
start of MPD go on; faults, kills and stops owe nothing. In `Watchdog` the tickers, a playing track,
the supervisor, the scheduler and rescans go on. In `Announcements` the group goes on with what it
has; the check does not have to come. In `Break` the group runs, its longest hold ends
(`waitForAnnouncements` counts it, so a paused announcement does not last), and a shuffle under way
ends; that an announcement ends by itself is not assumed. In `Uploads` a request, the timer of
`maybeScan`, the timeout of a scan and MPD's scans and events go on, and MPD is started again. `Schedule`
and `References` have no fairness: their properties are about safety.

## 4. The runs

Eleven runs must pass:

| Run | Instance | Shows |
|---|---|---|
| `Reconciler_day` | gap, two windows of one source, a window of another, gap, started in any of them and at rest in any; one request to `/override` or `/scheduler`, one fault | `OneFade`, `MusicNotLeftQuiet`, `BackToBackKeepsPlaying`, `Converges` |
| `Reconciler_people` | two people stop or press Play Now around the end of a window | `LoopIsHeld`, `FadesAreReal`, `OverrideHolds`, `SuspendReturns` |
| `IntervalCache_window` | two readers, two changes by a writer or deletions of a playlist, one failing read, one jump of the clock | `KeepsLastGood`, `AtMostAnHourOld`, `ToldIsSeen` |
| `Pool` | one place, a caller and `applyOutput`, one wedge, two restarts of MPD, refused commands | `ConnectionsBounded`, `OutputSelected`, `EveryCallerReturns`, `PlacesComeBack` |
| `Supervisor_life` | one writer with two changes, two crashes, two kills, a stop | `OneMPD`, `StopEndsMPD`, `ConfReachesMPD`, `SavedMatchesConf`, `RunsLastConf`, `StopReturns` |
| `Watchdog_stall` | one hang, one wedge, two of: buttons, switches, dismissals, plugs, changes of the disk and the files | `ProblemsAreReported`, `MusicComesBack` |
| `Announcements` | two announcements, days of four minutes; two of: a failure, a test play, edits, a kill | `HandOff`, `NoSlotSteppedOver`, `TimesAgree`, `KeepsPromise`, `CycleMovesOn` |
| `Break` | two tracks, two files; one of: a person, a restart, a failure | `MusicComesBack`, `NoneLeftBehind`, `NoneStartsInRestore`, `BreakEnds` |
| `Schedule` | two requests, three rules, one exception, five zones with a change; two changes | `PlaysAsMeant`, `RulesApart` |
| `Uploads` | two uploads into a folder and one below it, room for both; one fault | `ReserveKept`, `StoredIsIndexed` |
| `References` | two requests at once, four in all, one fault; two folders, two files, playlists under three names | `ReferencesFollow`, `RowsHaveFiles`, `AppendsKept`, `InspectTells` |

One run in which TLC finds that the code does not do what the repository says of it:

| Run | Sentence | What happens |
|---|---|---|
| `Schedule_midnight` | `intervals.go:127` "dayAt returns midnight of the date, normalised, so d+1 on the last day of a month rolls over." | In a western zone that skips a midnight (Havana, Santiago, the Azores) `time.Date` of the missing 00:00 is 23:00 of the day before. `Expand` asks for the day after the one it got (`intervals.go:176`) and gets the same one again: the loop does not end. |

`TypeOK` is no property of a run: it documents the state of each module, and is proved where it
matters (section 5).

More disagreements were met while modelling; they have no run of their own.

- The loop. A tick that passed the suspended check before `Suspend` starts a fade that `Suspend`
  neither cancels nor waits for (`scheduler.go:120-130`, `642`), and a cancelled fade that is past
  `resolve` still starts a fade-in and overwrites the record of the newer one (`661-677`): with a held
  request `OneFade` and `BackToBackKeepsPlaying` do not hold. In the same way a Play Now may be
  taken for the window's program, since `Player.Generation()` is read after the load
  (`scheduler.go:564`). A fade-out that starts during a fade-in takes the half-faded level for the
  one to restore (`684`). `Tick` clears the override table for an expired override without looking
  whether a new one is there (`412`). `holdForPerson` stores its override after the switch has been
  turned off and has cleared them (`app/schedule.go:75`). A `Load` that fails after the clear
  leaves an empty queue under the generation of the program before (`player.go:490`). This is why
  `Reconciler_day` has no held request, no Play Now is in it, and no chain of windows is in
  `Reconciler_people`.
- The cache. "Invalidate drops the interval cache after a rule, exception, playlist or zone change"
  (`scheduler.go:137-138`), but a reader that read the tables before the change stores its window
  afterwards (`197`), and `delete-playlist` (`handlers_playlists.go:148-157`), which deletes rules and
  exceptions, does not call it. Both are steps of `IntervalCache`: `AtMostAnHourOld` shows that either
  lasts an hour at most, and `ToldIsSeen` that a change is seen at once when neither happens: it speaks
  of what was dropped while no snapshot was being read. A clock that jumps back makes the cached
  window fresh (`182`).
- MPD. "The process is alive but stuck; the watchdog restarts it." (`pool.go:17-18`), but `checkStall`
  returns when the status fails (`watchdog.go:53`). Two fresh connections of a former MPD use up
  both tries of `applyOutput` (`app.go:297`). "The new config is written before the setting is
  saved, so a failure leaves both as they were." (`ops.go:217-218`), but a save that fails leaves the
  new config (`224`). Two reconfigurations share one temporary file (`supervisor.go:159`). A
  person's pause right after a restart of the watchdog is undone (`watchdog.go:63`).
- Announcements. A time is due while "its time has passed by less than the grace"
  (`announcements.go:15-16`), but the last time of an interval of one or two minutes stops being due
  one step after it: the next multiple is past the end and `slot.After(end)` (`64`) refuses it. `Lasts`
  says so. One that fails after it was marked as played is not tried again, although the
  comment at `announce.go:90` says that the next check can. The grace ends at midnight.
  `forgetAnnouncement` drops the newest time only. An id that SQLite uses again
  (`0002_announcements.sql` has no `AUTOINCREMENT`) inherits `announceTaken`. A Play Now during an
  announcement gets the repeat of the music before it (`429`). With repeat on and no current entry
  MPD wraps to the first announcement. After a restart of MPD the restore removes by ids of another
  process. "The queue is the play order, so MPD plays them in that order." (`243`) and
  "Announcements asked for meanwhile go to the end of the group." (`365`): at a poll where MPD is on
  a music track, one that joins goes behind that track (`386`) and to the end of the list. When the
  first two of a group have ended between two polls, the group plays the second again, MPD comes
  back to the same track, and the next one that joins is put there, before one that joined earlier
  and is still to come. That one may be heard twice, and when the longest hold ends during the
  other, removing it starts the next, though "MPD plays the next one, which must not be an
  announcement" (`434`). It takes four announcements; hence `InOrder` in `NoneStartsInRestore`. A
  person who gives a cycle another source and then the first one again between the group's read of
  the row and its mark resets the position, and the mark overwrites that (`531-560`); `CycleMovesOn`
  speaks of plays whose row stayed the same.
- The schedule. Two saves at once can store rules that overlap, and `Conflicts` does not see that two
  rules meet in an hour which the coming week skips. Where the clocks go back over a midnight east of
  Greenwich (Amman until 2021), `dayAt` returns the second midnight, so the window of the evening
  before goes on for an hour into a day whose exception silences it (`intervals.go:128`, `163`).
- The library. A free figure may be older than an upload that has ended (`files.go:209`). A scan
  whose `Update` failed forgets its folder (`356-361`). A kill between the rename and the scan loses
  the pending folder. A playlist renamed during another request leaves an orphan `.m3u`; two renames
  of one playlist at once give its row the later name and its file the earlier one
  (`playlists.go:252-264`). `Rewrite` lists the playlists before it locks. `Lstat` and `os.Rename`
  of a move let a newcomer be overwritten. `Delete` "either completes or changes nothing"
  (`fileops.go:177`), but `RemoveAll` can fail midway. An announcement of a single file is not
  followed when the file moves.

Where such a behaviour would break a property, the instance leaves the request out or the
property names the excuse (`blind`, `raced`, `stale`, `lost`, `touched`, `excused`, `stray`,
`alone`, `got.same`, `InOrder`), so the properties hold of the rest and say nothing about these.

### Bounds

- `Fades`: how many fade goroutines exist at once; one that would be one too many starts when another has
  ended. Three in `Reconciler_day`, where nobody waits for one; with two people four are a bound,
  since cancelled goroutines that have not ended yet can pile up.
- `Sched`: the fewest slots that contain the change in question: a start, a change of source, a
  change without one, an end.
- `MaxRequests`, `MaxFaults`: one or two. A hazard of the loop takes one tick, one fade and one or
  two requests; a third only repeats a pair. Counters that a bound caps are not read by the model
  otherwise, except in properties that speak of behaviours without a failure so far.
- `Hour`, `MaxLag`, `MaxTime`, `MaxWrites` in `IntervalCache`: one step, one step, two times and two
  changes: enough for a window to be stored late, to go stale once and to be replaced, and for a change
  to meet another one or a deletion. The theorems are about any of them.
- `MaxProcesses`, `MaxWedges` in `Pool`: connections of three processes and a wedge.
- `MaxWrites`, `MaxFaults`, `MaxKills` in `Supervisor`: two each, so that a request can meet a full
  channel and a kill can follow a recovery.
- `RestartGap` 6 and `ResumeFor` 3 checks in `Watchdog`: the ten and two minutes of the code are 20
  and 4; only their order, and that a hang needs two checks, matter. `MaxDown` says that MPD starts
  within one check. One hang is enough: it may survive the restart. `MaxPresses` 2: a problem comes
  and goes, or comes and its alert is dismissed.
- `DayLength` 4, `Grace` 2, `Horizon` 4 in `Announcements`: a day and the midnight after it, with an
  announcement once a day and one every minute for two minutes, of which one plays from a folder of
  two files.
  `MaxEvents` 2 lets two of a failure, a test play, an edit and a kill meet.
- `MaxEvents` 1 in `Break`: one disturbance at any point of a break with one or two announcements.
  Larger groups, which no run can afford beside the disturbances, are what the theorems are for.
- `DayLength` 4, `WeekDays` 2 in `Schedule`: windows inside a day, over midnight and around the
  clock; the zones change at an hour in the day, at midnight and before it, and one skips the only
  hour in which two rules meet; two changes let two saves meet.
- `Space` 4, `Reserve` 1 in `Uploads`, with files of sizes 2 and 1: each fits, both fit, nothing more
  does. Two uploads, one fault.
- `MaxRequests` 4 in `References`: two requests set a playlist up, two meet. `Newcomer` is a file
  that arrives at a path that was left. The third name lets two requests
  rename one playlist at once; with two, one of them always finds its name taken.

Symmetry is used for the readers of `IntervalCache` and the requests of `Schedule` and `References`,
in runs without liveness; they do the same, and no property names one.

## 5. The proofs

Each theorem is about every value of the constants that the module's assumptions allow: any number of
people, callers, announcements, uploads, requests or playlists, and any bounds on them.

| Theorem | States | Argument |
|---|---|---|
| `ReconcilerProofs!TypeCorrect` | `Spec => []TypeOK` | part of the inductive invariant `IInv` |
| `LoopHeld`, `CountExact` | `LoopIsHeld`, `SuspendedCounts` | `IInv`, see below |
| `FadesReal` | `FadesAreReal` | `FadesInv`: a tick that waits, waits for a fade, and one that was told to end |
| `OneFadeAtATime` | `NoHolds => (Spec => []OneFade)` | `Alone`: the fade that works is the recorded one, or the one that the tick waits for |
| `LevelRestored` | `NoHolds => (Spec => []MusicNotLeftQuiet)` | `Level`: which program counters of which goroutine may leave the volume low |
| `BackToBack` | `NoHolds => (Spec => BackToBackKeepsPlaying)` | `Leaving`: a fade-out that goes on with another window takes down music that is not the music of that window |
| `OverridesHold` | `NoPosts => (Spec => OverrideHolds)` | `OverridesInv`: what the tick read of the override stays true until it removes it |
| `PoolProofs!PoolBounded` | `ConnectionsBounded` | `Bounded`: connections move between the idle list and the places; each place has at most one |
| `NoStartLost` | `OutputSelected` | `Served`: when no start is left to be served, an answer that is "ok" was given by the process that runs |
| `SupervisorProofs!OneMPDAtATime`, `StopEnds` | `OneMPD`, `StopEndsMPD` | `Owned`: which program counters of the loop own a child, and that strays exist only while jukem is killed |
| `SupervisorTypeCorrect` | `TypeOK` | with two files more than writers one is always free |
| `ConfReaches` | `OneWriter => (Spec => []ConfReachesMPD)` | `Placed`: the temporary file belongs to the one writer under way |
| `SettingsAgree` | `OneWriter /\ ~SaveFails => (Spec => []SavedMatchesConf)` | `Agreed`: where a change has got to says which file holds what |
| `ScheduleProofs!OverlapIsReported` | two rules that share an hour of the week are in `Conflicts`, unless the week ahead skips hours | see below |
| `ExpandIsDue` | `Sources(Expand(...), t) = Due(..., t)` at every instant `t` of the range | see below |
| `ScheduleTypeCorrect` | `TypeOK` | `TypeInv` and `TablesInv`: the step of each request, and the shape of each table |
| `RulesStayApart` | `RulesApart` | `ApartInv`: a rule that passed its check is apart from the rules the check saw (`Checked`), by `OverlapIsReported` |
| `SchedulePlaysAsMeant` | every zone begins its days once `=> (Spec => []PlaysAsMeant)` | `ExpandIsDue`, and the next boundary is the least of the starts and ends to come |
| `CacheTypeCorrect` | `CacheTypeOK` | by itself |
| `LastGoodStays` | `KeepsLastGood` | `Kept`: only the time is ever taken out of the cache, never the window |
| `ChangesAreSeen` | `ToldIsSeen` | `Seen`: nothing that is cached or half read is older than versions that were dropped while nobody read |
| `NeverStale` | `AtMostAnHourOld` | `Aged`: what a reader has read, what is cached and what is answered are each newer than the tables of a time |
| `AnnouncementsProofs!OneGroup` | `HandOff` | by itself, step by step |
| `CyclesMoveOn` | `CycleMovesOn` | `Typed`, and what the group does between the read of a row and its mark |
| `NoTimeTwice` | `Spec => KeepsPromise`, the refinement of `PlayPromise` | `Sound`: a time waits, is carried or is heard once in all, and in the order of the times of its announcement |
| `TimesAreRight` | `TimesAgree` | no invariant but the shape of the table: the newest multiple not after now, and the first one after it, by Euclid's division; the first day of the coming week that has one |
| `NoneSteppedOver` | `NoSlotSteppedOver` | `Heeded`, see below |
| `BreakProofs!NoneBehind` | `NoneLeftBehind` | `BreakInv`, see below |
| `MusicBack` | `Spec => MusicComesBack` | `BreakInv` |
| `NoneStarts` | `Spec => NoneStartsInRestore` | `BreakInv` |
| `UploadsProofs!SpaceKept` | `ReserveKept` | `SpaceInv`, see below |
| `ReferencesProofs!RowsMatchFiles` | `RowsHaveFiles` | `RowsInv`, see below |
| `InspectionIsComplete` | `Spec => InspectTells` | whatever `Rewritten` changes lies at or below a changed path, and so does what `Referencing` and `DirectoryReferences` name |
| `ReferencesAreFollowed` | `ReferencesFollow` | `FollowsInv`, see below |
| `NoAppendLost` | `Spec => AppendsKept` | `FollowsInv` |

The inductive invariants.

- `Reconciler`. `LoopIsHeld` is not inductive. A caller that waits in the handshake may go on when the
  loop is idle, and the loop may start when `suspended` is zero; so `IInv` adds that `suspended` is the
  number of callers between `Suspend` and release (`SuspendedCounts`), which in turn needs the
  finiteness of `Persons` and the kind of request in each program counter, parts of `TypeOK`.
- `Schedule`. The invariants are small; the work is in `intervals.go`. Everything rests on the instant
  from which the wall clock has shown a reading (`FirstShows`). `LocalTimeIs` shows that `localTime`
  returns it, from three probes and a search in the gap; it grows with the reading; and what the reference
  definitions ask of the instants before `t` is whether it is over (`ShownIs`). So the windows of a
  day run from one such instant to another (`HoursAre`), the intervals of a day play what is due of that
  day (`DayPlays`), on it and on the next (`DueTwoDays`), cut where an exception begins (`OnDayPlays`), and of
  the days that `Expand` visits only the day of `t` and the one before matter (`ExpandIsDue`). For
  `OverlapIsReported`, an hour that two rules share comes in the week that starts today (`HourComes`), the
  clock shows it, because nothing is skipped (`WholeWeekAhead`), so an interval of each rule contains
  that instant (`RunsAtHour`), and the one that starts first reaches into the other.
- `Announcements`. The refinement maps the waiting list, the list, the prepared and the queued ones to
  one collection. `Sound` says that these are in the order in which they were asked for, that what waits
  is in `announceTaken` or was a test play, that what is prepared is marked in the table, and that what
  was heard was marked, through joins, failed checks that use an old table, edits and kills. `Heeded`
  says that whatever waits, is carried or is marked has been asked for, and that a time which lasts and
  has not been asked for came up while every check since then failed; a check that works asks for it.
- `Break`. `BreakInv` has what MPD keeps true of its queue (`Sane`), that a file waits or has an entry,
  never both (`Fresh`), that every announcement in the queue is in the list the restore will work from
  (`Known`), what is left of the music at each step of the restore while nobody touched it (`Kept`), and
  that the first entry stays a track (`OnTop`). Sequences with an entry put in or taken out need most of
  the lemmas.
- `Uploads`. `inflight` is the sum of what the requests under way declared, and what is free covers the
  reserve and whatever part of those declarations is still to be written. The community module's sum is a
  fold, a recursive function on the subsets; the first lemmas of `UploadsProofs` show that it exists and
  that it follows a change of one summand. They use induction on sets in the form "a set of finite
  sets that is not empty has a smallest member", which takes no operator as a parameter.
- `References`. `mu` has one holder; only the holder is between a change of the row and the change of the
  file (`Midway`); and for every other name that no stale request has touched, row and file agree
  (`Matched`). `ReferencesFollow` is about states at rest, so `FollowsInv` says what holds on the way:
  every entry, ban and source names what it named, is excused, or has an update under way that moved or
  removed it and has not come to it yet (`Followed`; the program counters that are still to come are
  fewer for an entry than for a ban, and for a ban than for a source). That needs: nothing but a folder
  made on the way lies at two paths (`DiskOK`); what came to a path that an update under way has left is
  excused (`Vacated`), so an update rewrites no reference that was right; of two updates at once both
  are excused (`Overlapped`); and a change of a request is one move or only deletions (`Started`). TLC
  checked `FollowsInv` on the instance of the run before it was proved. `Reads` says that what an append
  has read is still what the file holds, which is what the mutex is for.

The assumptions. Those of the modules' constants are named there, and TLC evaluates them in every run.
They say that sets are finite, bounds are numbers, and that the values that stand for "none" are none of
the others: `NoIntervalsIsNoWindow`, `GoneIsNoReference`, `NoFileAssumption`, and that no track of the
program is the file of an announcement and no track is in the queue twice (`MusicAssumption`; ids tell
entries apart in the code, and files stand for them here). For `References` they also say that nothing
lies at two paths at the start, that a path has one or two names, and that a move keeps their number and
takes what is below the one path to paths of the instance (`PathAssumption`, `StartAssumption`): a path
below a moved folder has to be one the model speaks of. For `Schedule` they say what the API validates
(`RulesAssumption`, `ExceptionsAssumption`: days of the week and times of the day, by the patterns of
`store/schedules.go:27-46`) and what a zone is (`ZonesAssumption`: never further from UTC than the 30
hours `localTime` probes, and changed by less than a day, so not across the date line). Five hypotheses
are part of theorems, because the code does not keep the property without them, and the runs that check
the property satisfy them:

- `OneWriter` (`Supervisor_life` has one): two writers share the temporary file (`supervisor.go:159`).
- `~SaveFails` (`SaveFails = FALSE` in `Supervisor_life`): a save that fails leaves the new config.
- `NoHolds` (`Reconciler_day` has only requests to `/override` and `/scheduler`): a tick that has passed the
  suspended check may start a fade after `Suspend` has taken the record of the one before.
- `NoPosts` (`Reconciler_people` has none): `/override` stores without holding the loop, so it may come
  between the tick's read and its removal.
- `DaysBeginOnce` of every zone (`MCSchedule` evaluates it for its zones around their change): each day begins
  at the midnight that `dayAt` finds, and once. `MidnightsKept` proves it of every zone whose change
  neither skips nor repeats a midnight; section 4 tells what happens in the others, of which those that
  `Schedule_midnight` is about never get past `Expand`. The other theorems about the schedule do not need it.

What the attempts showed. Six proofs failed for a good reason and TLC then had the counterexample:
a cycle whose source is changed and changed back (`CycleMovesOn`); three names and two renames of
one playlist, which `References` did not excuse and an instance with two names could not show
(`RowsHaveFiles`; the run has three now); a listing of names that is old by the time the update runs
(`ReferencesFollow`); the last time of an interval with a short step, which is due for a shorter time
than the grace (`TimesAgree`, `NoSlotSteppedOver`: section 4; `MCAnnouncements` has such an interval
now); a zone that is changed between the check of a rule and its store (`RulesApart`: `blind` looks at
the week that the check saw now, and the run has a zone that skips the hour two rules share); and four
announcements, of which two end between polls (`NoneStartsInRestore`;
section 4 tells the story, which TLC found on an instance with three tracks and nothing else going
on). The last also showed that the model put several announcements that join while a track plays all
right behind that track, where the code puts each behind the one before; `after` corrects that.

Every safety property of a passing run is proved. Only TLC speaks about every liveness property
(`Converges`, `SuspendReturns`, `EveryCallerReturns`, `PlacesComeBack`, `RunsLastConf`, `StopReturns`,
`ProblemsAreReported`, the `MusicComesBack` of `Watchdog`, `BreakEnds`, `StoredIsIndexed`), because
`ENABLED` and fairness are beyond the prover.

No module declares a recursive operator, since nothing could be proved of it.

## 6. The plan

Next comes a safety property of `Watchdog`, the one module without one, with its invariant. Then the
settings row with all its writers (`UpdateSettings`, `SelectOutput`, `onDevices`, `applyPlayerSettings`),
the event hub, and the limiter of logins.

## 7. Not modelled

The browser interface, the packaging and the tools; HTTP parsing and the OpenAPI layer, sessions and
the limiter of logins; the parsing of aplay and sysfs and the mixer in `internal/audio`; permissions,
tags, the file walk, moves across file systems and browsing in `internal/library`; the Health page
and the webhook; the event hub; migrations; the update check; configuration from the environment;
the start of the program. They are I/O or formatting around the state above, run alone, or (the hub,
the limiter) hold one mutex around one map.
