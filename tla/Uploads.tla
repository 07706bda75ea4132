------------------------------- MODULE Uploads -------------------------------
(****************************************************************************)
(* Uploads into the music folder and the scans that follow them:            *)
(* library/files.go, library/storage.go and the update events of            *)
(* app/ops.go.                                                              *)
(*                                                                          *)
(* A folder is a sequence of names; <<>> is the music root.  A file has one *)
(* folder, one size and versions, 0 when it is not there.  MPD (external)   *)
(* runs the scans it is asked for one after the other; a scan finds what    *)
(* was there when it started.                                               *)
(****************************************************************************)
EXTENDS Integers, FiniteSets, Functions, Sequences, SequencesExt

CONSTANTS
  Uploaders,      \* the requests that may upload at once
  Files,          \* the files people upload
  FolderOf,       \* the folder of a file
  SizeOf,         \* the size of a file
  Lengths,        \* the lengths a request may declare for a file
  Space,          \* the free space of the disk at the start
  Reserve,        \* the space uploads must leave
  MaxUploads,     \* bound: uploads in a behaviour
  MaxFaults       \* bound: restarts, lost events, other people's scans and folders

Unknown == -1     \* no Content-Length, or no figure in the cache

ASSUME UploadersAssumption == IsFiniteSet(Uploaders)
ASSUME SpaceAssumption == Space \in Nat /\ Reserve \in Nat /\ Reserve <= Space
ASSUME SizeAssumption == SizeOf \in [Files -> Nat \ {0}]
ASSUME LengthAssumption == \A f \in Files : Lengths[f] \subseteq {SizeOf[f], Unknown}

VARIABLES
  stored, indexed,      \* version of every file on disk and in MPD's database
  free,                 \* the free space of the disk
  figure,               \* statCache: the free space it remembers, or Unknown
  upload,               \* what each upload is doing
  active, inflight,     \* Files.active, Files.inflight
  pending,              \* Files.pending
  timer,                \* the timer of maybeScan is armed
  scanning, scanDir,    \* Files.scanning, Files.scanDir
  old,                  \* the scan waited for is older than scanTimeout
  sending,              \* Update commands about to be sent
  mpdUp, jobs,          \* MPD, and the scans it has to do, the first running
  walked,               \* what the running scan found
  event,                \* an update event not yet read
  note,                 \* watchMPD: the updating flag it is about to pass on
  uploads, faults,
  stale,                \* history: an upload was admitted without a size, or
                        \* with a figure of before other uploads ended
  lost                  \* history: folders of scans that MPD refused or lost
                        \* and that ResetScan did not put back

space == <<free, figure, active, inflight, stale>>
scan == <<pending, timer, scanning, scanDir, old, sending>>
mpd == <<mpdUp, jobs, walked, event, indexed>>
vars == <<stored, space, upload, scan, mpd, note, uploads, faults, lost>>

Idle == [pc |-> "idle"]
NoNote == "none"
Nothing == [f \in Files |-> 0]
Folders == UNION {{SubSeq(FolderOf[f], 1, n) : n \in 0..Len(FolderOf[f])} : f \in Files}
Under(f, folder) == IsPrefix(folder, FolderOf[f])

(* The declared sizes of the uploads that hold a reservation.              *)
Reserving == {u \in Uploaders : upload[u].pc \in {"body", "placed", "end"}}
Declared(u) == Max({upload[u].size, 0})

(* An upload that was refused keeps what it knew.                          *)
Steps == {"idle", "check", "body", "placed", "end", "forget"}
Uploading ==
  [pc : {"idle"}] \cup
  [pc : Steps, file : Files, size : Nat \cup {Unknown}, free : Nat, taken : Nat]

SpaceOK ==
  /\ free \in Nat /\ inflight \in Int /\ figure \in Nat \cup {Unknown}
  /\ stale \in BOOLEAN
  /\ upload \in [Uploaders -> Uploading]

TypeOK ==
  /\ SpaceOK
  /\ stored \in [Files -> 0..MaxUploads] /\ indexed \in [Files -> 0..MaxUploads]
  /\ pending \subseteq Folders /\ sending \subseteq Folders /\ scanDir \in Folders

Init ==
  /\ stored = Nothing /\ indexed = Nothing
  /\ free = Space /\ figure = Unknown
  /\ upload = [u \in Uploaders |-> Idle]
  /\ active = 0 /\ inflight = 0
  /\ pending = {} /\ timer = FALSE
  /\ scanning = FALSE /\ scanDir = <<>> /\ old = FALSE
  /\ sending = {}
  /\ mpdUp = TRUE /\ jobs = <<>> /\ walked = Nothing /\ event = FALSE
  /\ note = NoNote
  /\ uploads = 0 /\ faults = 0
  /\ stale = FALSE
  /\ lost = {}

At(u, pc) == upload[u].pc = pc
Goes(u, pc) == upload' = [upload EXCEPT ![u].pc = pc]

----------------------------------------------------------------------------
(* Uploads.                                                                *)

(* Stat: the figure remembered, or that of the disk when there is none or  *)
(* ten seconds have passed.                                                *)
Stat == {free} \cup ({figure} \ {Unknown})

(* The checks before the reservation.  A file that exists is skipped, or   *)
(* replaced.  size is Unknown for a chunked body.                          *)
Begin(u, f, size) ==
  /\ At(u, "idle") /\ uploads < MaxUploads
  /\ uploads' = uploads + 1
  /\ \E seen \in Stat :
       /\ figure' = seen
       /\ upload' = [upload EXCEPT ![u] =
            [pc |-> "check", file |-> f, size |-> size, free |-> seen, taken |-> 0]]
  /\ UNCHANGED <<stored, free, active, inflight, stale, scan, mpd, note, faults, lost>>

Fits(u) ==
  LET up == upload[u]
  IN  up.size > 0 /\ up.free > 0 => up.size <= up.free - Reserve - inflight

(* The figure is above what is free and what uploads in progress took.     *)
Taken == [u \in Uploaders |-> IF u \in Reserving THEN upload[u].taken ELSE 0]
Misled(u) ==
  upload[u].size = Unknown \/ upload[u].free > free + SumFunctionOnSet(Taken, Uploaders)

ReserveMutant(u) ==   \* the uploads in progress are not counted
  /\ At(u, "check")
  /\ IF upload[u].size > upload[u].free - Reserve
     THEN Goes(u, "idle") /\ UNCHANGED <<active, inflight, stale>>
     ELSE /\ Goes(u, "body")
          /\ active' = active + 1
          /\ inflight' = inflight + Declared(u)
          /\ stale' = (stale \/ Misled(u))
  /\ UNCHANGED <<stored, free, figure, scan, mpd, note, uploads, faults, lost>>

(* The space check and the reservation under one lock.                     *)
ReserveSpace(u) ==
  /\ At(u, "check")
  /\ IF Fits(u)
     THEN /\ Goes(u, "body")
          /\ active' = active + 1
          /\ inflight' = inflight + Declared(u)
          /\ stale' = (stale \/ Misled(u))
     ELSE Goes(u, "idle") /\ UNCHANGED <<active, inflight, stale>>
  /\ UNCHANGED <<stored, free, figure, scan, mpd, note, uploads, faults, lost>>

(* The body goes to a temporary file; it may break off, or fill the disk.  *)
BodyArrives(u) ==
  /\ At(u, "body") /\ upload[u].taken = 0
  /\ LET size == SizeOf[upload[u].file]
     IN  \/ /\ size <= free
            /\ free' = free - size
            /\ upload' = [upload EXCEPT ![u].taken = size]
         \/ Goes(u, "end") /\ UNCHANGED free
  /\ UNCHANGED <<stored, figure, active, inflight, stale, scan, mpd, note, uploads, faults, lost>>

(* The rename puts the whole file in place at once.                        *)
Place(u) ==
  LET f == upload[u].file
  IN  /\ At(u, "body") /\ upload[u].taken > 0
      /\ stored' = [stored EXCEPT ![f] = @ + 1]
      /\ free' = free + (IF stored[f] = 0 THEN 0 ELSE SizeOf[f])
      /\ Goes(u, "placed")
      /\ UNCHANGED <<figure, active, inflight, stale, scan, mpd, note, uploads, faults, lost>>

(* noteUploaded: the folder waits for a scan five seconds after the last.  *)
Note(folder) == pending' = pending \cup {folder} /\ timer' = TRUE

NoteUploaded(u) ==
  /\ At(u, "placed")
  /\ Note(FolderOf[upload[u].file])
  /\ Goes(u, "end")
  /\ UNCHANGED <<stored, space, scanning, scanDir, old, sending, mpd, note, uploads, faults, lost>>

Release(u) ==
  /\ At(u, "end")
  /\ active' = active - 1
  /\ inflight' = inflight - Declared(u)
  /\ Goes(u, "forget")
  /\ UNCHANGED <<stored, free, figure, stale, scan, mpd, note, uploads, faults, lost>>

(* ForgetStat, after the lock.                                             *)
Forget(u) ==
  /\ At(u, "forget")
  /\ figure' = Unknown
  /\ upload' = [upload EXCEPT ![u] = Idle]
  /\ UNCHANGED <<stored, free, active, inflight, stale, scan, mpd, note, uploads, faults, lost>>

----------------------------------------------------------------------------
(* Scans.                                                                  *)

CommonFolder(folders) ==
  CHOOSE c \in Folders :
    /\ \A fo \in folders : IsPrefix(c, fo)
    /\ \A d \in Folders : (\A fo \in folders : IsPrefix(d, fo)) => Len(d) <= Len(c)

(* maybeScan up to the end of its lock; waiting says whether a scan is     *)
(* waited for.                                                             *)
MaybeScan(waiting) ==
  IF active > 0 \/ waiting \/ pending = {}
  THEN /\ timer' = (pending # {})
       /\ scanning' = waiting
       /\ UNCHANGED <<pending, scanDir, sending, old>>
  ELSE /\ scanDir' = CommonFolder(pending)
       /\ sending' = sending \cup {scanDir'}
       /\ pending' = {}
       /\ scanning' = TRUE
       /\ old' = FALSE
       /\ timer' = FALSE

TimerFiresMutant ==   \* a timer that finds uploads active is not set again
  /\ timer
  /\ IF active > 0 THEN timer' = FALSE /\ UNCHANGED <<pending, scanning, scanDir, sending, old>>
     ELSE MaybeScan(scanning /\ ~old)
  /\ UNCHANGED <<stored, space, upload, mpd, note, uploads, faults, lost>>

TimerFires ==
  /\ timer
  /\ MaybeScan(scanning /\ ~old)
  /\ UNCHANGED <<stored, space, upload, mpd, note, uploads, faults, lost>>

(* Ten minutes pass.                                                       *)
ScanGrowsOld ==
  /\ scanning /\ ~old
  /\ old' = TRUE
  /\ UNCHANGED <<stored, space, upload, pending, timer, scanning, scanDir, sending, mpd, note, uploads, faults, lost>>

(* Player.Update: a refusal ends the wait, and the folders are forgotten.  *)
SendUpdate(folder) ==
  /\ folder \in sending
  /\ sending' = sending \ {folder}
  /\ IF mpdUp
     THEN /\ jobs' = Append(jobs, folder)
          /\ walked' = IF jobs = <<>> THEN stored ELSE walked
          /\ UNCHANGED <<scanning, lost>>
     ELSE /\ scanning' = FALSE
          /\ lost' = lost \cup {folder}
          /\ UNCHANGED <<jobs, walked>>
  /\ UNCHANGED <<stored, space, upload, pending, timer, scanDir, old, mpdUp, event, indexed, note, uploads, faults>>

(* MPD finishes the running scan and starts the next.                      *)
ScanEnds ==
  /\ jobs # <<>>
  /\ indexed' = [f \in Files |-> IF Under(f, Head(jobs)) THEN walked[f] ELSE indexed[f]]
  /\ jobs' = Tail(jobs)
  /\ walked' = IF Len(jobs) > 1 THEN stored ELSE Nothing
  /\ event' = TRUE
  /\ UNCHANGED <<stored, space, upload, scan, mpdUp, note, uploads, faults, lost>>

(* watchMPD: an update event; the flag is asked for when a scan is waited  *)
(* for, and an MPD that does not answer leaves the event without effect.   *)
EventArrives ==
  /\ event /\ note = NoNote
  /\ event' = FALSE
  /\ note' = IF ~scanning \/ ~mpdUp THEN NoNote
             ELSE IF jobs # <<>> THEN "updating" ELSE "over"
  /\ UNCHANGED <<stored, space, upload, scan, mpdUp, jobs, walked, indexed, uploads, faults, lost>>

NoteUpdate ==
  /\ note \in {"updating", "over"}
  /\ IF note = "updating" \/ ~scanning
     THEN note' = NoNote /\ UNCHANGED scanning
     ELSE note' = (IF pending = {} THEN NoNote ELSE "more") /\ scanning' = FALSE
  /\ UNCHANGED <<stored, space, upload, pending, timer, scanDir, old, sending, mpd, uploads, faults, lost>>

(* The lock is free in between: what waited may be on its way by now.      *)
ScanNextBatch ==
  /\ note = "more"
  /\ note' = NoNote
  /\ MaybeScan(scanning /\ ~old)
  /\ UNCHANGED <<stored, space, upload, mpd, uploads, faults, lost>>

----------------------------------------------------------------------------
(* Faults, and other people.                                               *)
Fault == faults < MaxFaults /\ faults' = faults + 1

(* NewFolder: MPD lists a folder only after a scan found it.               *)
NewFolder(folder) ==
  /\ Fault
  /\ Note(folder)
  /\ UNCHANGED <<stored, space, upload, scanning, scanDir, old, sending, mpd, note, uploads, lost>>

(* MPD goes away with the scans it had.  jukem forgets the one it waits    *)
(* for when MPD is back; the others are lost.                              *)
MpdStops ==
  /\ Fault /\ mpdUp
  /\ mpdUp' = FALSE
  /\ jobs' = <<>> /\ walked' = Nothing /\ event' = FALSE
  /\ lost' = lost \cup ToSet(jobs)
  /\ UNCHANGED <<stored, space, upload, scan, indexed, note, uploads>>

(* ResetScan, when MPD has started.                                        *)
MpdStarts ==
  /\ ~mpdUp
  /\ mpdUp' = TRUE
  /\ pending' = pending \cup IF scanning THEN {scanDir} ELSE {}
  /\ scanning' = FALSE
  /\ timer' = (timer \/ pending' # {})
  /\ lost' = IF scanning THEN lost \ {scanDir} ELSE lost
  /\ UNCHANGED <<stored, space, upload, scanDir, old, sending, jobs, walked, event, indexed, note, uploads, faults>>

LoseEvent ==
  /\ Fault /\ event
  /\ event' = FALSE
  /\ UNCHANGED <<stored, space, upload, scan, mpdUp, jobs, walked, indexed, note, uploads, lost>>

(* A rescan that someone asks for.                                         *)
Rescan ==
  /\ Fault /\ mpdUp
  /\ jobs' = Append(jobs, <<>>)
  /\ walked' = IF jobs = <<>> THEN stored ELSE walked
  /\ UNCHANGED <<stored, space, upload, scan, mpdUp, event, indexed, note, uploads, lost>>

Proceeds(u) ==
  \/ ReserveSpace(u) \/ BodyArrives(u) \/ Place(u) \/ NoteUploaded(u) \/ Release(u) \/ Forget(u)

Next ==
  \/ \E u \in Uploaders :
       \/ \E f \in Files : \E size \in Lengths[f] : Begin(u, f, size)
       \/ Proceeds(u)
  \/ TimerFires \/ ScanGrowsOld \/ \E fo \in Folders : SendUpdate(fo)
  \/ ScanEnds \/ EventArrives \/ NoteUpdate \/ ScanNextBatch
  \/ MpdStops \/ MpdStarts \/ LoseEvent \/ Rescan
  \/ \E fo \in Folders \ {<<>>} : NewFolder(fo)

(* Goroutines run, a body ends within its deadline, time passes, MPD ends  *)
(* its scans and is started again.                                         *)
Fairness ==
  /\ \A u \in Uploaders : WF_vars(Proceeds(u))
  /\ WF_vars(TimerFires) /\ WF_vars(ScanGrowsOld)
  /\ \A fo \in Folders : WF_vars(SendUpdate(fo))
  /\ WF_vars(ScanEnds) /\ WF_vars(EventArrives)
  /\ WF_vars(NoteUpdate) /\ WF_vars(ScanNextBatch) /\ WF_vars(MpdStarts)

Spec == Init /\ [][Next]_vars /\ Fairness

----------------------------------------------------------------------------
(* Uploads leave the reserve of the disk alone, unless one was admitted    *)
(* with a figure older than an upload that had ended, or without a size.   *)
ReserveKept == stale \/ free >= Reserve

(* A stored file is found by a scan in the end, whatever scans, events and *)
(* restarts of MPD come between, unless its scan is among those that MPD   *)
(* refused or lost while nobody waited for them.                           *)
StoredIsIndexed ==
  \A f \in Files, v \in 1..MaxUploads :
    stored[f] = v ~> (indexed[f] >= v \/ [](\E fo \in lost : Under(f, fo)))
=============================================================================
