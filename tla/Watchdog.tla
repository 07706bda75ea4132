------------------------------ MODULE Watchdog ------------------------------
(***************************************************************************)
(* internal/app/watchdog.go.  Every half minute a round looks whether the  *)
(* playing track has moved, restarts MPD when it has not, and raises an    *)
(* alert when a restart did not help; then it looks at the music disk, the *)
(* output device and how long MPD has run.  The nightly job looks at the   *)
(* playlists.  Around them act a person, the scheduler, which presses play *)
(* while the schedule is on, the device manager (audio/manager.go), and    *)
(* MPD, which comes back paused from every restart (mpdctl/conf.go).       *)
(*                                                                         *)
(* Time is counted in checks.  Whether a span of as many checks as a limit *)
(* is longer than the limit is open, because the ticker is not exact.      *)
(***************************************************************************)
EXTENDS Naturals

CONSTANTS
    RestartGap,         \* ten minutes, in checks
    ResumeFor,          \* two minutes, in checks
    MaxDown,            \* how many checks can find MPD down in a row
    MaxHangs, MaxWedges,
    MaxPresses          \* bounds; a press is anything a person does or the machine meets

ASSUME WatchdogConstantsOK ==
    /\ RestartGap \in Nat /\ ResumeFor \in 1..RestartGap /\ MaxDown \in Nat
    /\ MaxHangs \in Nat /\ MaxWedges \in Nat /\ MaxPresses \in Nat

VARIABLES
    mpd,        \* [pc, state, hung]: "up", "wedged" or "down"; play, pause or stop; without
                \* progress
    moved,      \* the song or its elapsed time is another than the last recorded one
    restarting, \* a request of the watchdog is in restartCh
    scheduled,  \* the scheduler is on; its schedule wants music all day
    wish,       \* what a person or the scheduler asked for last
    stall,      \* stallState: [stuck, age, resume]; age counts from restartedAt
    check,      \* the round under way: [pc, state, moved]
    open,       \* the kinds of the active alerts
    disk,       \* the music disk: "ok", "low" or "missing"
    device,     \* the output: [there, saved, seen, snap]; seen is what a rescan under way has listed
    missing,    \* a playlist has an entry whose file is gone
    down,       \* how many checks in a row have found MPD down
    hangs, wedges, presses      \* how much of each bound is used

vars == <<mpd, moved, restarting, scheduled, wish, stall, check, open, disk, device, missing, down,
          hangs, wedges, presses>>
used == <<hangs, wedges, presses>>
world == <<disk, device, missing>>

Never == RestartGap + 1
NoCheck == [pc |-> "idle", state |-> "none", moved |-> FALSE]

\* What Manager.Snapshot returns: an identity is saved, and a device that is there matches it.
Snaps == [saved : BOOLEAN, selected : BOOLEAN]
Connected == [there |-> TRUE, saved |-> TRUE, seen |-> "none", snap |-> [saved |-> TRUE, selected |-> TRUE]]

Init ==
    /\ mpd = [pc |-> "up", state |-> "play", hung |-> FALSE]
    /\ moved = TRUE
    /\ restarting = FALSE /\ scheduled \in BOOLEAN /\ wish = "play"
    /\ stall = [stuck |-> 0, age |-> Never, resume |-> FALSE]
    /\ check = NoCheck /\ open = {} /\ down = 0
    /\ disk = "ok" /\ device = Connected /\ missing = FALSE
    /\ hangs = 0 /\ wedges = 0 /\ presses = 0

(***************************************************************************)
(* Alerts: at most one row of a kind is active, which a repeat updates.    *)
(***************************************************************************)
RaiseAlert(kind) == open' = open \cup {kind}
ResolveAlert(kind) == open' = open \ {kind}
Raise(kind) == RaiseAlert(kind)
Clear(kind) == ResolveAlert(kind)

\* A person dismisses a row; one that has ended meanwhile is not found.
DismissAlert(kind) == kind \in open /\ open' = open \ {kind}

(***************************************************************************)
(* checkStall                                                              *)
(***************************************************************************)
Playing == mpd.pc = "up" /\ mpd.state = "play"

\* The ticker fires and Player.Status is asked.  In half a minute a track that plays has moved, and
\* the supervisor has ended MPD when it was asked to.
ReadStatus ==
    /\ check.pc = "idle" /\ (mpd.pc = "down" => down < MaxDown)
    /\ ~restarting /\ (Playing /\ ~mpd.hung => moved)
    /\ check' = [pc |-> "act", state |-> IF mpd.pc = "up" THEN mpd.state ELSE "error",
                 moved |-> moved]
    /\ moved' = (moved /\ ~Playing)
    /\ down' = IF mpd.pc = "down" THEN down + 1 ELSE 0
    /\ stall' = [stall EXCEPT !.age = IF @ < Never THEN @ + 1 ELSE @]
    /\ UNCHANGED <<mpd, restarting, scheduled, wish, open, used, world>>

\* Mutation: the limit is read in another unit.
OverMutant(n, late) == stall.age > 0

Over(n, late) == stall.age > n \/ (stall.age = n /\ late)

\* checkDisk comes next.
Done(s) ==
    /\ check' = [NoCheck EXCEPT !.pc = "disk"] /\ stall' = s
    /\ UNCHANGED <<moved, scheduled, wish, down, used, world>>

\* Status failed.
NoStatus ==
    /\ check.pc = "act" /\ check.state = "error"
    /\ Done([stall EXCEPT !.stuck = 0])
    /\ UNCHANGED <<mpd, restarting, open>>

\* Mutation: what a restart owes ends with the first answer of MPD.
ResumingMutant(late) == stall.resume /\ check.state # "play" /\ down > 0

\* Whether the check still owes a play after its own restart.
Resuming(late) == stall.resume /\ check.state # "play" /\ ~Over(ResumeFor, late)

\* The play of the resume, on the MPD of now.
Resume ==
    /\ check.pc = "act" /\ check.state = "pause"
    /\ \E late \in BOOLEAN : Resuming(late)
    /\ mpd' = IF mpd.pc = "up" THEN [mpd EXCEPT !.state = "play"] ELSE mpd
    /\ Done([stall EXCEPT !.resume = FALSE])
    /\ UNCHANGED <<restarting, open>>

NotPlaying ==
    /\ check.pc = "act" /\ check.state \in {"pause", "stop"}
    /\ \E late \in BOOLEAN :
          /\ ~(Resuming(late) /\ check.state = "pause")
          /\ Done([stall EXCEPT !.stuck = 0, !.resume = Resuming(late)])
    /\ Clear("playback_stalled")
    /\ UNCHANGED <<mpd, restarting>>

Advanced ==
    /\ check.pc = "act" /\ check.state = "play" /\ check.moved
    /\ Done([stall EXCEPT !.stuck = 0, !.resume = FALSE])
    /\ Clear("playback_stalled")
    /\ UNCHANGED <<mpd, restarting>>

\* The track has not moved since the last check: the second time in a row MPD is restarted, or the
\* alert raised when the last restart is not ten minutes old.
Stuck ==
    /\ check.pc = "act" /\ check.state = "play" /\ ~check.moved
    /\ IF stall.stuck = 0
       THEN Done([stall EXCEPT !.stuck = 1, !.resume = FALSE]) /\ UNCHANGED <<restarting, open>>
       ELSE \E late \in BOOLEAN :
            IF Over(RestartGap, late)
            THEN /\ Done([stuck |-> 0, age |-> 0, resume |-> TRUE])
                 /\ restarting' = TRUE /\ UNCHANGED open
            ELSE /\ Done([stall EXCEPT !.stuck = 2, !.resume = FALSE])
                 /\ Raise("playback_stalled") /\ UNCHANGED restarting
    /\ UNCHANGED mpd

(***************************************************************************)
(* The rest of a round, and the night                                      *)
(***************************************************************************)
Then(pc) ==
    /\ check' = [check EXCEPT !.pc = pc]
    /\ UNCHANGED <<mpd, moved, restarting, scheduled, wish, stall, down, used, world>>

\* A disk that is not there changes nothing.
CheckDisk ==
    /\ check.pc = "disk" /\ Then("device")
    /\ CASE disk = "missing" -> UNCHANGED open
         [] disk = "low" -> Raise("disk_full")
         [] disk = "ok" -> Clear("disk_full")

CheckDevice ==
    /\ check.pc = "device" /\ Then("mpd")
    /\ IF device.snap.saved /\ ~device.snap.selected
       THEN Raise("device_missing")
       ELSE Clear("device_missing")

\* How long MPD has run is open.
CheckMPD ==
    /\ check.pc = "mpd" /\ Then("idle")
    /\ \/ mpd.pc # "down" /\ Clear("mpd_unstable")
       \/ UNCHANGED open

CheckStep == NoStatus \/ Resume \/ NotPlaying \/ Advanced \/ Stuck \/ CheckDisk \/ CheckDevice \/ CheckMPD

CheckPlaylists == IF missing THEN Raise("playlist_missing_files") ELSE Clear("playlist_missing_files")

\* The nightly job; its rescan and its trims touch no active alert.
Nightly ==
    /\ CheckPlaylists
    /\ UNCHANGED <<mpd, moved, restarting, scheduled, wish, stall, check, down, used, world>>

(***************************************************************************)
(* The device manager                                                      *)
(***************************************************************************)
DeviceStep == UNCHANGED <<mpd, moved, restarting, scheduled, wish, stall, check, open, down, hangs, wedges,
                          disk, missing>>

\* Rescan lists the devices ...
List ==
    /\ device.seen = "none"
    /\ device' = [device EXCEPT !.seen = IF device.there THEN "device" ELSE "nothing"]
    /\ DeviceStep /\ UNCHANGED presses

\* ... and stores what it found, with the identity that is saved by then.
Commit ==
    /\ device.seen # "none"
    /\ device' = [device EXCEPT !.seen = "none",
                               !.snap = [saved |-> device.saved,
                                         selected |-> device.saved /\ device.seen = "device"]]
    /\ DeviceStep /\ UNCHANGED presses

\* The device is plugged in or out.
Plug ==
    /\ presses < MaxPresses /\ presses' = presses + 1
    /\ device' = [device EXCEPT !.there = ~@]
    /\ DeviceStep

\* A person chooses the device, or none.
SelectOutput ==
    /\ presses < MaxPresses /\ presses' = presses + 1
    /\ device' = [device EXCEPT !.saved = ~@]
    /\ DeviceStep

(***************************************************************************)
(* MPD and its supervisor                                                  *)
(***************************************************************************)
Advance ==
    /\ Playing /\ ~mpd.hung /\ ~moved
    /\ moved' = TRUE
    /\ UNCHANGED <<mpd, restarting, scheduled, wish, stall, check, open, down, world, used>>

\* A hung output device: MPD answers and the track does not move.
Hang ==
    /\ Playing /\ ~mpd.hung /\ hangs < MaxHangs
    /\ mpd' = [mpd EXCEPT !.hung = TRUE] /\ hangs' = hangs + 1
    /\ UNCHANGED <<moved, restarting, scheduled, wish, stall, check, open, down, world, wedges, presses>>

\* MPD stops answering its socket.
Wedge ==
    /\ mpd.pc = "up" /\ wedges < MaxWedges
    /\ mpd' = [mpd EXCEPT !.pc = "wedged"] /\ wedges' = wedges + 1
    /\ UNCHANGED <<moved, restarting, scheduled, wish, stall, check, open, down, world, hangs, presses>>

\* The supervisor ends MPD for a request.
EndMPD ==
    /\ restarting /\ mpd.pc # "down"
    /\ mpd' = [mpd EXCEPT !.pc = "down"] /\ restarting' = FALSE
    /\ UNCHANGED <<moved, scheduled, wish, stall, check, open, down, world, used>>

\* MPD restores its state, paused.  The restart may have freed the device.
StartMPD ==
    /\ mpd.pc = "down"
    /\ \E hung \in {FALSE, mpd.hung} :
          mpd' = [pc |-> "up", state |-> IF mpd.state = "stop" THEN "stop" ELSE "pause",
                  hung |-> hung]
    /\ moved' \in {moved, TRUE} /\ down' = 0
    /\ UNCHANGED <<restarting, scheduled, wish, stall, check, open, used, world>>

(***************************************************************************)
(* A person and the scheduler                                              *)
(***************************************************************************)
Press(state) ==
    /\ mpd.pc = "up" /\ mpd.state # state /\ presses < MaxPresses
    /\ mpd' = [mpd EXCEPT !.state = state] /\ wish' = state /\ presses' = presses + 1
    /\ UNCHANGED <<moved, restarting, scheduled, stall, check, open, down, world, hangs, wedges>>

\* The scheduler starts what should play; a person's pause or stop holds it back.
SchedulerPlays ==
    /\ scheduled /\ wish = "play" /\ mpd.pc = "up" /\ mpd.state # "play"
    /\ mpd' = [mpd EXCEPT !.state = "play"]
    /\ UNCHANGED <<moved, restarting, scheduled, wish, stall, check, open, down, world, used>>

\* A person turns the scheduler on or off.
Switch ==
    /\ presses < MaxPresses
    /\ scheduled' = ~scheduled /\ presses' = presses + 1
    /\ UNCHANGED <<mpd, moved, restarting, wish, stall, check, open, down, world, hangs, wedges>>

Dismiss ==
    /\ presses < MaxPresses /\ presses' = presses + 1
    /\ \E kind \in open : DismissAlert(kind)
    /\ UNCHANGED <<mpd, moved, restarting, scheduled, wish, stall, check, down, hangs, wedges, world>>

\* Files come and go outside jukem; MPD fails five times in five minutes.
DiskChanges ==
    /\ presses < MaxPresses /\ presses' = presses + 1
    /\ disk' \in {"ok", "low", "missing"} \ {disk}
    /\ UNCHANGED <<mpd, moved, restarting, scheduled, wish, stall, check, open, down, hangs, wedges, device, missing>>

FilesChange ==
    /\ presses < MaxPresses /\ presses' = presses + 1
    /\ missing' = ~missing
    /\ UNCHANGED <<mpd, moved, restarting, scheduled, wish, stall, check, open, down, hangs, wedges, device, disk>>

Unstable ==
    /\ mpd.pc = "down" /\ presses < MaxPresses /\ presses' = presses + 1
    /\ Raise("mpd_unstable")
    /\ UNCHANGED <<mpd, moved, restarting, scheduled, wish, stall, check, down, hangs, wedges, world>>

Next ==
    \/ ReadStatus \/ CheckStep
    \/ Advance \/ Hang \/ Wedge \/ EndMPD \/ StartMPD
    \/ (\E state \in {"play", "pause", "stop"} : Press(state)) \/ SchedulerPlays \/ Switch
    \/ Nightly \/ List \/ Commit
    \/ Plug \/ SelectOutput \/ Dismiss \/ DiskChanges \/ FilesChange \/ Unstable

Spec == Init /\ [][Next]_vars

\* The tickers, the track that plays, the supervisor and the scheduler go on.
FairSpec ==
    /\ Spec
    /\ WF_vars(ReadStatus) /\ WF_vars(CheckStep) /\ WF_vars(Advance)
    /\ WF_vars(Nightly) /\ WF_vars(List) /\ WF_vars(Commit)
    /\ WF_vars(EndMPD) /\ WF_vars(StartMPD) /\ WF_vars(SchedulerPlays)

(***************************************************************************)
(* Properties                                                              *)
(***************************************************************************)
States == {"play", "pause", "stop"}

\* Types; and while the check owes a play after its restart, no stall is counted.
TypeOK ==
    /\ mpd \in [pc : {"up", "wedged", "down"}, state : States, hung : BOOLEAN]
    /\ moved \in BOOLEAN /\ restarting \in BOOLEAN /\ scheduled \in BOOLEAN /\ wish \in States
    /\ stall \in [stuck : 0..2, age : 0..Never, resume : BOOLEAN]
    /\ open \subseteq {"playback_stalled", "disk_full", "device_missing", "mpd_unstable",
                      "playlist_missing_files"}
    /\ disk \in {"ok", "low", "missing"} /\ missing \in BOOLEAN
    /\ device \in [there : BOOLEAN, saved : BOOLEAN, seen : {"none", "device", "nothing"}, snap : Snaps]
    /\ check \in [pc : {"idle", "act", "disk", "device", "mpd"}, state : States \cup {"none", "error"},
                  moved : BOOLEAN]
    /\ down \in 0..MaxDown /\ hangs \in 0..MaxHangs /\ wedges \in 0..MaxWedges
    /\ presses \in 0..MaxPresses
    /\ stall.resume => stall.stuck = 0

\* runWatchdog: "Every problem becomes an alert, and clears when it is gone."  Whatever people
\* dismiss, however the disk, the device and the playlists change in the middle of a round or of a
\* rescan, and although every restart moves the track a little: what stays wrong is reported in the
\* end, and what is no longer wrong is not.  A device that hangs under music nobody stops is
\* reported again and again; between two reports a restart lets the track move.
ProblemsAreReported ==
    /\ <>[](mpd.hung /\ wish = "play" /\ mpd.pc # "wedged") => []<>("playback_stalled" \in open)
    /\ <>[](~mpd.hung /\ mpd.pc # "wedged") => <>[]("playback_stalled" \notin open)
    /\ <>[](disk = "low") => <>[]("disk_full" \in open)
    /\ <>[](disk = "ok") => <>[]("disk_full" \notin open)
    /\ <>[](device.saved /\ ~device.there) => <>[]("device_missing" \in open)
    /\ <>[](device.there \/ ~device.saved) => <>[]("device_missing" \notin open)
    /\ <>[]missing => <>[]("playlist_missing_files" \in open)
    /\ <>[]~missing => <>[]("playlist_missing_files" \notin open)

\* "The restart was for a stall while playing, so play again.  In manual mode nothing else does."
\* After the watchdog's restart the music is back, unless a person asked for something else.
MusicComesBack ==
    mpd.pc = "down" ~> Playing \/ wish # "play" \/ mpd.pc = "wedged"

=============================================================================
