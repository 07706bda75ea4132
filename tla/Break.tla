-------------------------------- MODULE Break --------------------------------
(****************************************************************************)
(* One break: the announcements of a group go into the queue of MPD, the    *)
(* music is held, and afterwards it goes on where it stopped                *)
(* (playAnnouncements, waitForAnnouncements and restoreAfterAnnouncement in *)
(* app/announce.go, Player.InsertNext).                                     *)
(*                                                                          *)
(* The group goroutine gives one command after the other.  In between, MPD  *)
(* comes to the end of an entry, and people press buttons, edit the queue,  *)
(* shuffle it or load another one: Suspend holds the loop for them too, and *)
(* does not exclude the group.  The requests that reach the group are those *)
(* of Announcements; here they are files that arrive at any time.           *)
(****************************************************************************)
EXTENDS Naturals, Sequences, FiniteSets, SequencesExt

CONSTANTS
  Files,        \* the files of the announcements
  Music,        \* the queue before: a sequence of files
  PlayNow,      \* the file that a person's Play Now loads
  MaxPeople,    \* bound: actions of people
  MaxRestarts,  \* bound: restarts of MPD
  MaxFaults,    \* bound: commands that fail
  MaxEvents     \* bound: all of these together

(* An entry of the queue is known by its file, as MPD knows it by an id.   *)
ASSUME FilesAssumption == IsFiniteSet(Files) /\ PlayNow \notin Files
ASSUME MusicAssumption ==
  /\ Music \in Seq(Range(Music)) /\ IsInjective(Music)
  /\ Range(Music) \cap Files = {}
ASSUME NoFileAssumption == "" \notin Files \cup Range(Music) \cup {PlayNow}

VARIABLES
  mpd,         \* [queue, at, state, repeat, level, point] of MPD
  process,     \* which MPD process it is: the ids of the queue are its own
  coming,      \* files that were not asked for yet
  waiting,     \* files that were, and that the group has not taken
  pc, ready, queued, after, started, seen, late,    \* the group
  before,      \* the status of the player before the break
  announcing,  \* App.announcing
  holds,       \* how many hold the loop
  shuffler,    \* where a person's SetShuffle is
  touched,     \* history: someone else acted, or something failed, since before
  people, restarts, faults

group == <<pc, ready, queued, after, started, seen, late, before>>
bounds == <<people, restarts, faults>>
vars == <<mpd, process, coming, waiting, group, announcing, holds, shuffler, touched, bounds>>

(***************************************************************************)
(* MPD.  at is the place of the current entry, 0 when there is none; point *)
(* says whether the current entry is at the point of the status before.    *)
(***************************************************************************)
Current(m) == IF m.at = 0 THEN {} ELSE {m.queue[m.at]}
PlaceOf(m, e) == IF e \in Range(m.queue) THEN CHOOSE i \in DOMAIN m.queue : m.queue[i] = e ELSE 0

(* Where MPD finds the id of an entry, 0 for nowhere.  Ids start again with *)
(* each process, so one of a former process may name any entry or none.     *)
PlacesOf(e) == IF e.process = process THEN {PlaceOf(mpd, e)} ELSE 0..Len(mpd.queue)

StartAt(m, i) == [m EXCEPT !.at = i, !.state = "play", !.point = FALSE]
Halt(m) == [m EXCEPT !.at = 0, !.state = "stop", !.point = FALSE]

(* The entry after the current one, 0 for none. *)
Successor(m) == IF m.at < Len(m.queue) THEN m.at + 1 ELSE IF m.repeat THEN 1 ELSE 0

EndOfEntry(m) == IF Successor(m) = 0 THEN Halt(m) ELSE StartAt(m, Successor(m))

AddAt(m, i, e) ==
  [m EXCEPT !.queue = InsertAt(@, i, e),
            !.at = IF m.at >= i THEN @ + 1 ELSE @]

(* When the current entry goes out while it plays, the one after it starts. *)
DeleteAt(m, i) ==
  LET gone == [m EXCEPT !.queue = RemoveAt(@, i), !.at = IF @ > i THEN @ - 1 ELSE @]
      next == IF Successor(m) > i THEN Successor(m) - 1 ELSE Successor(m)
  IN  CASE m.at # i -> gone
        [] m.at = i /\ (Successor(m) \in {0, i} \/ m.state = "stop") -> Halt(gone)
        [] OTHER -> IF m.state = "play" THEN StartAt(gone, next)
                    ELSE [Halt(gone) EXCEPT !.at = next]

Played(m) ==   \* the command play
  IF m.state = "pause" THEN [m EXCEPT !.state = "play"]
  ELSE IF m.state = "play" \/ m.queue = <<>> THEN m
  ELSE StartAt(m, IF m.at = 0 THEN 1 ELSE m.at)
Paused(m) == IF m.state = "play" THEN [m EXCEPT !.state = "pause"] ELSE m
Stopped(m) == [m EXCEPT !.state = "stop", !.point = FALSE]

Entry(f) == [file |-> f, process |-> process]
IsAnnouncement(e) == e.file \in Files
NoSong == [file |-> "", process |-> 0]
Unknown == [song |-> NoSong, state |-> "stop", repeat |-> FALSE]

Init ==
  /\ mpd \in {[queue |-> [k \in DOMAIN Music |-> [file |-> Music[k], process |-> 0]],
               at |-> i, state |-> s, repeat |-> r, level |-> "music", point |-> TRUE] :
                i \in 0..Len(Music), s \in {"play", "pause", "stop"}, r \in BOOLEAN}
  /\ mpd.at = 0 => mpd.state = "stop"
  /\ process = 0 /\ coming = Files /\ waiting = <<>>
  /\ pc = "idle" /\ ready = <<>> /\ queued = <<>> /\ after = NoSong /\ started = 0 /\ seen = 0 /\ late = FALSE
  /\ before = Unknown
  /\ announcing = FALSE /\ holds = 0 /\ shuffler = "idle" /\ touched = FALSE
  /\ people = 0 /\ restarts = 0 /\ faults = 0

(***************************************************************************)
(* The group.                                                              *)
(***************************************************************************)
Room == people + restarts + faults < MaxEvents

Fault ==
  /\ Room /\ faults < MaxFaults /\ faults' = faults + 1
  /\ touched' = TRUE
  /\ UNCHANGED <<people, restarts>>
Fine == UNCHANGED <<touched, bounds>>
Works == Fine \/ Fault
Worked == faults' = faults
Elsewhere == UNCHANGED <<process, coming, shuffler>>

GoTo(p) == pc' = p

(* Ends the break: the deferred calls of playAnnouncements. *)
Released ==
  /\ announcing' = FALSE /\ holds' = holds - 1
  /\ pc' = "idle" /\ ready' = <<>> /\ queued' = <<>> /\ after' = NoSong
  /\ started' = 0 /\ seen' = 0 /\ late' = FALSE /\ before' = Unknown

Begin ==
  /\ pc = "idle" /\ waiting # <<>>
  /\ ready' = waiting /\ waiting' = <<>>
  /\ holds' = holds + 1 /\ announcing' = TRUE
  /\ touched' = FALSE
  /\ GoTo("status")
  /\ UNCHANGED <<mpd, process, coming, queued, after, started, seen, late, before, shuffler, bounds>>

ReadBefore ==
  /\ pc = "status"
  /\ \/ /\ before' = [song |-> IF mpd.at = 0 THEN NoSong ELSE mpd.queue[mpd.at],
                       state |-> mpd.state, repeat |-> mpd.repeat]
        /\ mpd' = [mpd EXCEPT !.point = (mpd.at # 0)]
        /\ touched' = FALSE /\ UNCHANGED bounds
        /\ GoTo("insert")
        /\ UNCHANGED <<ready, queued, after, started, seen, late, announcing, holds>>
     \/ Fault /\ Released /\ UNCHANGED mpd
  /\ Elsewhere /\ UNCHANGED waiting

(* InsertNext: after the one before it, or after the current entry.        *)
InsertPlaces ==
  IF after = NoSong THEN {mpd.at + 1} ELSE {i + 1 : i \in PlacesOf(after) \ {0}}

InsertMutant ==   \* the restore gets the list of the start of the break
  /\ pc = "insert" /\ ready # <<>>
  /\ \E i \in InsertPlaces :
       /\ Fine
       /\ mpd' = AddAt(mpd, i, Entry(Head(ready))) /\ after' = Entry(Head(ready))
       /\ queued' = IF started = 0 THEN Append(queued, Entry(Head(ready))) ELSE queued
  /\ ready' = Tail(ready)
  /\ UNCHANGED <<pc, started, seen, late, before, waiting, announcing, holds>> /\ Elsewhere

Insert ==
  /\ pc = "insert" /\ ready # <<>>
  /\ \/ \E i \in InsertPlaces :
          /\ Fine
          /\ mpd' = AddAt(mpd, i, Entry(Head(ready))) /\ after' = Entry(Head(ready))
          /\ queued' = Append(queued, Entry(Head(ready)))
     \/ /\ (InsertPlaces = {} /\ Fine) \/ Fault
        /\ UNCHANGED <<mpd, queued, after>>
  /\ ready' = Tail(ready)
  /\ UNCHANGED <<pc, started, seen, late, before, waiting, announcing, holds>> /\ Elsewhere

Inserted ==
  /\ pc = "insert" /\ ready = <<>>
  /\ IF queued = <<>> THEN Released
     ELSE /\ GoTo(IF started = 0 THEN "unrepeat" ELSE "next")
          /\ after' = NoSong
          /\ UNCHANGED <<ready, queued, started, seen, late, before, announcing, holds>>
  /\ Fine /\ Elsewhere /\ UNCHANGED <<mpd, waiting>>

(* One command to MPD, which may fail; the code logs it and goes on. *)
Command(from, to, m) ==
  /\ pc = from /\ GoTo(to)
  /\ Works
  /\ mpd' = IF Worked THEN m ELSE mpd
  /\ UNCHANGED <<ready, queued, after, started, seen, late, before, waiting, announcing, holds>>
  /\ Elsewhere

RepeatOff == Command("unrepeat", "fade", IF before.repeat THEN [mpd EXCEPT !.repeat = FALSE] ELSE mpd)

(* holdMusicForAnnouncement: the fade takes seconds, and then the pause. *)
FadeOut == Command("fade", "pause", IF before.state = "play" THEN [mpd EXCEPT !.level = "zero"] ELSE mpd)
Pause == Command("pause", "level", IF before.state = "play" THEN Paused(mpd) ELSE mpd)
Level == Command("level", "first", [mpd EXCEPT !.level = "announcement"])

(* PlayID of an entry of the group; an entry that is gone is an error. *)
PlayEntryOf(e, next) ==
  \/ \E i \in PlacesOf(e) \ {0} : Fine /\ mpd' = StartAt(mpd, i) /\ next
  \/ /\ (0 \in PlacesOf(e) /\ Fine) \/ Fault
     /\ UNCHANGED <<mpd, started, late>> /\ GoTo("restore")

PlayFirst ==
  /\ pc = "first"
  /\ PlayEntryOf(queued[1], GoTo("wait") /\ started' = 1 /\ late' = FALSE)
  /\ UNCHANGED <<ready, queued, after, seen, before, waiting, announcing, holds>> /\ Elsewhere

(* Every 250 ms: Status.  Without a song, or stopped, the wait is over. *)
Poll ==
  /\ pc = "wait"
  /\ \/ /\ Fine
        /\ seen' \in LET own == {i \in DOMAIN queued : mpd.at \in PlacesOf(queued[i]) \ {0}}
                         stale == \E i \in DOMAIN queued : queued[i].process # process
                     IN  IF own = {} \/ stale THEN own \cup {0} ELSE own
        /\ GoTo(IF mpd.at = 0 \/ mpd.state = "stop" THEN "restore" ELSE "join")
     \/ Fault /\ GoTo("restore") /\ UNCHANGED seen
  /\ UNCHANGED <<mpd, ready, queued, after, started, late, before, waiting, announcing, holds>> /\ Elsewhere

(* The new ones go after the last of the group, or after a music track.    *)
Join ==
  /\ pc = "join"
  /\ ready' = waiting /\ waiting' = <<>>
  /\ after' = IF seen > 0 THEN Last(queued) ELSE NoSong
  /\ GoTo("insert")
  /\ Fine /\ Elsewhere
  /\ UNCHANGED <<mpd, queued, started, seen, late, before, announcing, holds>>

NextOneMutant ==   \* the longest hold is only for music
  /\ pc = "next"
  /\ IF seen = 0 /\ started = Len(queued)
     THEN GoTo("restore") /\ UNCHANGED <<mpd, started, late>>
     ELSE /\ GoTo("wait") /\ late' = FALSE /\ UNCHANGED mpd
          /\ started' = IF seen = 0 THEN started + 1 ELSE seen
  /\ Fine
  /\ UNCHANGED <<ready, queued, after, seen, before, waiting, announcing, holds>> /\ Elsewhere

(* The level of the next one, its start when MPD went to a music track, and *)
(* the longest hold.                                                        *)
NextOne ==
  /\ pc = "next"
  /\ CASE seen = 0 /\ started = Len(queued) ->
            GoTo("restore") /\ Fine /\ UNCHANGED <<mpd, started, late>>
       [] seen = 0 /\ started < Len(queued) ->
            PlayEntryOf(queued[started + 1],
                        GoTo("wait") /\ started' = started + 1 /\ late' = FALSE)
       [] seen > started ->
            GoTo("wait") /\ started' = seen /\ late' = FALSE /\ Fine
            /\ mpd' = [mpd EXCEPT !.level = "announcement"]
       [] OTHER ->
            GoTo(IF late THEN "restore" ELSE "wait") /\ Fine /\ UNCHANGED <<mpd, started, late>>
  /\ UNCHANGED <<ready, queued, after, seen, before, waiting, announcing, holds>> /\ Elsewhere

(***************************************************************************)
(* restoreAfterAnnouncement.                                               *)
(***************************************************************************)
RepeatOnMutant == Command("restore", "remove", mpd)
RepeatOn == Command("restore", "remove", IF before.repeat THEN [mpd EXCEPT !.repeat = TRUE] ELSE mpd)

RemoveOneMutant ==   \* the first one goes first
  /\ pc = "remove" /\ queued # <<>>
  /\ Works
  /\ \E i \in PlacesOf(Head(queued)) :
       mpd' = IF i # 0 /\ Worked THEN DeleteAt(mpd, i) ELSE mpd
  /\ queued' = Tail(queued)
  /\ UNCHANGED <<pc, ready, after, started, seen, late, before, waiting, announcing, holds>> /\ Elsewhere

(* The last one of the group goes first. *)
RemoveOne ==
  /\ pc = "remove" /\ queued # <<>>
  /\ Works
  /\ \E i \in PlacesOf(Last(queued)) :
       mpd' = IF i # 0 /\ Worked THEN DeleteAt(mpd, i) ELSE mpd
  /\ queued' = Front(queued)
  /\ UNCHANGED <<pc, ready, after, started, seen, late, before, waiting, announcing, holds>> /\ Elsewhere

(* Nothing played before, or it was stopped. *)
StopAgain ==
  /\ queued = <<>> /\ (before.song = NoSong \/ before.state = "stop")
  /\ Command("remove", "volume", Stopped(mpd))

(* The level before the track starts again: silent for music that was      *)
(* paused or fades in, else as it was.                                     *)
Quieten ==
  /\ queued = <<>> /\ before.song # NoSong /\ before.state # "stop"
  /\ \E quiet \in {"zero"} \cup (IF before.state = "play" THEN {"music"} ELSE {}) :
       Command("remove", "look", [mpd EXCEPT !.level = quiet])

(* toTrackAgain: Status, then Play or PlayID, then Seek. *)
Look ==
  /\ pc = "look"
  /\ Works
  /\ \E i \in PlacesOf(before.song) :
       seen' = IF Worked /\ i # 0 /\ i = mpd.at THEN 1 ELSE 0
  /\ GoTo("track")
  /\ UNCHANGED <<mpd, ready, queued, after, started, late, before, waiting, announcing, holds>> /\ Elsewhere

Track ==
  /\ pc = "track"
  /\ \/ Fine /\ seen = 1 /\ mpd' = Played(mpd) /\ GoTo("seek")
     \/ \E i \in PlacesOf(before.song) \ {0} :
          Fine /\ seen = 0 /\ mpd' = StartAt(mpd, i) /\ GoTo("seek")
     \/ /\ (Fine /\ seen = 0 /\ 0 \in PlacesOf(before.song)) \/ Fault
        /\ UNCHANGED mpd /\ GoTo("settle")
  /\ UNCHANGED <<ready, queued, after, started, seen, late, before, waiting, announcing, holds>> /\ Elsewhere

Seek == Command("seek", "settle", [mpd EXCEPT !.point = (mpd.at # 0)])

(* Music that was paused is paused again. *)
Settle == Command("settle", "volume", IF before.state = "pause" THEN Paused(mpd) ELSE mpd)

(* putVolumeBack, or the end of the fade-in. *)
Volume == Command("volume", "done", [mpd EXCEPT !.level = "music"])

Done ==
  /\ pc = "done"
  /\ Released
  /\ Fine /\ Elsewhere /\ UNCHANGED <<mpd, waiting>>

Group ==
  \/ Begin \/ ReadBefore \/ Insert \/ Inserted \/ RepeatOff \/ FadeOut \/ Pause \/ Level
  \/ PlayFirst \/ Poll \/ Join \/ NextOne \/ RepeatOn \/ RemoveOne \/ StopAgain \/ Quieten
  \/ Look \/ Track \/ Seek \/ Settle \/ Volume \/ Done

(***************************************************************************)
(* The others.                                                             *)
(***************************************************************************)
Others == UNCHANGED <<group, announcing>>

(* Which announcement is asked for first makes no difference here. *)
Ask ==
  /\ coming # {}
  /\ LET f == CHOOSE f \in coming : TRUE
     IN  coming' = coming \ {f} /\ waiting' = Append(waiting, f)
  /\ Others /\ UNCHANGED <<mpd, process, holds, shuffler, touched, bounds>>

(* The current entry comes to its end.  Music that goes on to another track *)
(* before the group paused it, or after the restore, counts as touched.     *)
EntryEnds ==
  /\ mpd.state = "play"
  /\ mpd' = EndOfEntry(mpd)
  /\ touched' = (touched \/ mpd.queue[mpd.at] \notin Range(queued))
  /\ Others /\ UNCHANGED <<process, coming, waiting, holds, shuffler, bounds>>

(* announceMax is over for the entry that plays. *)
TooLong ==
  /\ pc \in {"wait", "join", "insert", "next"} /\ started > 0 /\ ~late
  /\ late' = TRUE
  /\ UNCHANGED <<mpd, process, coming, waiting, pc, ready, queued, after, started, seen, before,
                 announcing, holds, shuffler, touched, bounds>>

(* A command of a person: transport, the queue, or a Play Now. *)
Person(m) ==
  /\ Room /\ people < MaxPeople /\ people' = people + 1
  /\ mpd' = m /\ m # mpd
  /\ touched' = TRUE
  /\ Others /\ UNCHANGED <<process, coming, waiting, holds, shuffler, restarts, faults>>

PersonPlays == Person(Played(mpd))
PersonPauses == Person(Paused(mpd))
PersonStops == Person(Stopped(mpd))
PersonSkips == mpd.state = "play" /\ Person(EndOfEntry(mpd))
PersonRemoves(i) == Person(DeleteAt(mpd, i))

(* PlayNext: after the current entry, or on top. *)
PersonPlaysNext ==
  /\ Entry(PlayNow) \notin Range(mpd.queue)
  /\ Person(AddAt(mpd, mpd.at + 1, Entry(PlayNow)))

(* Load: the queue is another one, and repeat is off for a Play Now. *)
PersonPlaysNow ==
  Person([mpd EXCEPT !.queue = <<Entry(PlayNow)>>, !.at = 1, !.state = "play",
                     !.repeat = FALSE, !.point = FALSE])

(* App.SetShuffle looks at announcing before and after Suspend. *)
ShuffleStarts ==
  /\ shuffler = "idle" /\ ~announcing /\ Room /\ people < MaxPeople
  /\ people' = people + 1
  /\ holds' = holds + 1 /\ shuffler' = "held"
  /\ UNCHANGED <<mpd, process, coming, waiting, group, announcing, touched, restarts, faults>>

ShuffleChecks ==
  /\ shuffler = "held"
  /\ IF announcing THEN shuffler' = "idle" /\ holds' = holds - 1
     ELSE shuffler' = "shuffling" /\ UNCHANGED holds
  /\ Others /\ UNCHANGED <<mpd, process, coming, waiting, touched, bounds>>

(* Player.SetShuffle: the entries after the current one change their order. *)
Reordered ==
  LET fixed == SubSeq(mpd.queue, 1, mpd.at)
      rest == SubSeq(mpd.queue, mpd.at + 1, Len(mpd.queue))
  IN  {[mpd EXCEPT !.queue = fixed \o q] : q \in SetToSeqs(Range(rest))}

Shuffle ==
  /\ shuffler = "shuffling"
  /\ mpd' \in Reordered
  /\ shuffler' = "idle" /\ holds' = holds - 1 /\ touched' = TRUE
  /\ Others /\ UNCHANGED <<process, coming, waiting, bounds>>

(* MPD is restarted: the queue comes back from its state file, with new ids *)
(* and paused.                                                              *)
Restart ==
  /\ Room /\ restarts < MaxRestarts /\ restarts' = restarts + 1
  /\ process' = process + 1
  /\ mpd' = [mpd EXCEPT !.queue = [i \in DOMAIN @ |-> [@[i] EXCEPT !.process = process + 1]],
                        !.state = IF @ = "play" THEN "pause" ELSE @]
  /\ touched' = TRUE
  /\ Others /\ UNCHANGED <<coming, waiting, holds, shuffler, people, faults>>

People ==
  \/ PersonPlays \/ PersonPauses \/ PersonStops \/ PersonSkips \/ PersonPlaysNext
  \/ PersonPlaysNow \/ ShuffleStarts
  \/ \E i \in 1..Len(mpd.queue) : PersonRemoves(i)

Next ==
  \/ Group \/ People \/ ShuffleChecks \/ Shuffle \/ EntryEnds \/ TooLong \/ Restart \/ Ask

(* The group is a goroutine; its timer fires; the other holder goes on. *)
Fairness == WF_vars(Group) /\ WF_vars(TooLong) /\ WF_vars(ShuffleChecks) /\ WF_vars(Shuffle)

Spec == Init /\ [][Next]_vars /\ Fairness

(***************************************************************************)
(* Properties.                                                             *)
(***************************************************************************)
TypeOK ==
  /\ mpd.at \in 0..Len(mpd.queue) /\ mpd.state \in {"play", "pause", "stop"}
  /\ mpd.level \in {"music", "zero", "announcement"}
  /\ mpd.at = 0 => mpd.state = "stop"
  /\ started <= Len(queued) \/ pc = "remove" \/ queued = <<>>
  /\ holds = (IF announcing THEN 1 ELSE 0) + (IF shuffler \in {"held", "shuffling"} THEN 1 ELSE 0)

(* The music goes on at the point where it stopped, paused if it was paused *)
(* and stopped if it was stopped, with its repeat and at its level, however *)
(* many announcements joined the group and wherever in the queue they were. *)
MusicComesBack ==
  [][pc = "done" /\ ~touched =>
       /\ mpd.state = before.state
       /\ mpd.state # "stop" => Current(mpd) = {before.song} /\ mpd.point
       /\ mpd.repeat = before.repeat
       /\ mpd.level = "music"]_vars

(* No announcement stays behind in the queue, whatever people do to the     *)
(* queue during the break (announce.go:422).  After a restart of MPD the    *)
(* ids that the restore removes are those of another process.               *)
NoneLeftBehind ==
  pc = "idle" /\ restarts = 0 /\ faults = 0 =>
    \A i \in DOMAIN mpd.queue : ~IsAnnouncement(mpd.queue[i])

(* The queue has a group in the order of its list.  The code does not      *)
(* always keep it: one that joins while MPD is on a track goes behind that  *)
(* track, before one that joined earlier if MPD has come back to the track. *)
InOrder == \A i, j \in DOMAIN queued : i < j => PlaceOf(mpd, queued[i]) < PlaceOf(mpd, queued[j])

(* While the restore takes a group out of the queue, none of it starts      *)
(* (announce.go:434), so long as it is in order in the queue.  Without a    *)
(* current entry before the break the first one is on top of the queue, and *)
(* MPD wraps to it when repeat is on.                                       *)
NoneStartsInRestore ==
  [][pc = "remove" /\ pc' = "remove" /\ Len(queued') < Len(queued) /\ before.song # NoSong
     /\ InOrder /\ ~touched' /\ restarts = 0 /\ faults = 0 =>
       \A e \in Current(mpd') \ Current(mpd) : ~IsAnnouncement(e)]_vars

(* The hold of the loop is given back and the music can come back, also     *)
(* when a person pauses the announcement and goes away.                     *)
BreakEnds == announcing ~> ~announcing

=============================================================================
