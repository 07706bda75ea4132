----------------------------- MODULE Reconciler -----------------------------
(***************************************************************************)
(* The reconciler of internal/scheduler/scheduler.go, the fades it runs in *)
(* goroutines of their own, and the people whose actions hold it:          *)
(* internal/app/schedule.go, the Play Now of internal/app/ops.go and the   *)
(* /override and /scheduler handlers of internal/api.                      *)
(*                                                                         *)
(* A lock region that touches only s.mu is one step; a step ends wherever  *)
(* the code waits, calls MPD or the store, or lets go of a lock.  tickMu   *)
(* is held from TickStart until the loop is "idle" again, so the lock has  *)
(* no variable of its own.                                                 *)
(***************************************************************************)
EXTENDS Naturals, Sequences, FiniteSets

CONSTANTS
    Persons,        \* callers of the HTTP API
    Fades,          \* slots for fade goroutines; a slot is reused when nothing refers to it
    Loop,           \* the goroutine that runs Tick
    Sched,          \* the schedule: Sched[t] is the key of the window at slot t, or NoWindow
    SourceOf,       \* the source each window plays
    NoWindow, NoFade, NoOverride, NoProgram,
    Selection,      \* the queue of a Play Now
    Empty,          \* the queue when MPD has no tracks
    FadeIn, FadeOut,\* whether the settings ask for fades
    ProgramVolume,  \* whether the windows carry a volume of their own
    Requests,       \* what the people of this instance may ask for
    MaxRequests,    \* bound: requests in a behaviour
    MaxFaults       \* bound: failed plays, failed loads and outages in a behaviour

Slots   == 1..Len(Sched)
Keys    == {Sched[t] : t \in Slots} \ {NoWindow}
Sources == {SourceOf[k] : k \in Keys}

Modes   == {"until_next", "timed", "play_now"}
Intents == {"play", "pause", "stop"}
AllRequests == [op : {"transport", "play_now", "post", "delete", "on", "off"}, mode : Modes, intent : Intents]

ASSUME ConstantsOK ==
    /\ Loop \notin Fades /\ NoFade \notin Fades
    /\ Len(Sched) \in Nat \ {0} /\ DOMAIN SourceOf = Keys
    /\ NoProgram \notin Keys \cup {NoWindow}
    /\ IsFiniteSet(Persons)
    /\ {Selection, Empty} \cap Sources = {}
    /\ FadeIn \in BOOLEAN /\ FadeOut \in BOOLEAN /\ ProgramVolume \in BOOLEAN
    /\ Requests \subseteq AllRequests
    /\ MaxRequests \in Nat /\ MaxFaults \in Nat

VARIABLES
    now,        \* Clock.Now(), as a slot of the schedule
    enabled,    \* Settings().SchedulerEnabled
    avail,      \* "ok"; "away": no output device or no trusted clock; "down": no MPD
    mpd,        \* what MPD does: [state, vol, queue, song, err]
    gen,        \* Player.generation
    intent,     \* Player.intent: [kind, gen, final]
    override,   \* the row of the overrides table
    suspended,  \* Scheduler.suspended
    fade,       \* Scheduler.fade
    loaded,     \* Scheduler.loaded: [key, gen]
    failures,   \* Scheduler.failures; 4 stands for four or more
    retryWait,  \* now is before Scheduler.retryAfter
    run,        \* the loop and the fades: [pc, kind, key, next, vol, cancelled]
    view,       \* what the running tick read: owner, override, window, MPD status
    seenFade,   \* the fade the running tick read
    person,     \* what each caller is doing: [pc, req, fade, over]
    requests, faults  \* how much of the bounds is used

clockVars  == <<now, enabled, avail, requests, faults>>
playerVars == <<mpd, gen, intent>>
retryVars  == <<failures, retryWait>>
loopVars   == <<view, seenFade>>
vars == <<clockVars, playerVars, override, suspended, fade, loaded, retryVars, run, loopVars, person>>

(***************************************************************************)
(* Volume is 1 at the level the music is meant to have and 0 at any level  *)
(* a fade passes through below it.  song is where MPD stands in the queue: *)
(* "last" has no next track, and only a queue without repeat reaches it.   *)
(***************************************************************************)
Goroutines == Fades \cup {Loop}
IdleRun    == [pc |-> "idle", kind |-> "none", key |-> NoProgram, next |-> NoWindow,
               vol |-> 0, cancelled |-> FALSE]
Stopped    == [state |-> "stop", err |-> FALSE, queued |-> FALSE]
NoView     == [owner |-> "none", over |-> NoOverride, expired |-> FALSE, want |-> NoWindow, st |-> Stopped]
NoRequest  == [op |-> "none", mode |-> "none", intent |-> "none"]
Idler      == [pc |-> "idle", req |-> NoRequest, fade |-> NoFade, over |-> NoOverride]
Unloaded   == [key |-> NoProgram, gen |-> 0]

\* MPD as jukem finds it: a restart pauses what played, and the queue is that of the persisted program.
Restored(key) ==
    IF key = NoProgram
    THEN [state |-> "stop", vol |-> 1, queue |-> Empty, song |-> "none", err |-> FALSE]
    ELSE [state |-> "pause", vol |-> 1, queue |-> SourceOf[key], song |-> "more", err |-> FALSE]

\* New loads the persisted program: none, or that of a window that has begun.
Init ==
    /\ now \in Slots /\ enabled = TRUE /\ avail = "ok"
    /\ \E key \in {NoProgram} \cup ({Sched[t] : t \in 1..now} \ {NoWindow}) :
         loaded = [key |-> key, gen |-> 0] /\ mpd = Restored(key)
    /\ gen = 0 /\ intent = [kind |-> "none", gen |-> 0, final |-> FALSE]
    /\ override = NoOverride /\ suspended = 0
    /\ fade = NoFade
    /\ failures = 0 /\ retryWait = FALSE
    /\ run = [g \in Goroutines |-> IdleRun]
    /\ view = NoView /\ seenFade = NoFade
    /\ person = [p \in Persons |-> Idler]
    /\ requests = 0 /\ faults = 0

(***************************************************************************)
(* The schedule and the owner of playback.                                 *)
(***************************************************************************)
\* The first start or end of a window after t; past the last slot when there is none.
NextBoundary(t) ==
    LET later == {b \in (t + 1)..Len(Sched) : Sched[b] # Sched[b - 1]}
    IN  IF later = {} THEN Len(Sched) + 1 ELSE CHOOSE b \in later : \A c \in later : b <= c

OverrideEnd(o) ==
    LET next == NextBoundary(o.created)
    IN  IF o.mode = "timed" /\ o.ends < next THEN o.ends ELSE next

Active(o) == o # NoOverride /\ now < OverrideEnd(o)

Snapshot ==
    [owner   |-> IF avail = "down" THEN "UNAVAILABLE"
                 ELSE IF ~enabled THEN "MANUAL"
                 ELSE IF avail = "away" THEN "UNAVAILABLE"
                 ELSE IF Active(override) THEN "OVERRIDDEN" ELSE "SCHEDULED",
     over    |-> IF Active(override) THEN override ELSE NoOverride,
     expired |-> override # NoOverride /\ ~Active(override),
     want    |-> Sched[now],
     st      |-> Stopped]

Status == [state |-> mpd.state, err |-> mpd.err, queued |-> mpd.queue # Empty]

\* Player.Finished: MPD ran out of tracks after a play that nobody replaced.
Finished(st) ==
    /\ intent.kind = "play" /\ intent.gen = gen /\ intent.final
    /\ st.state = "stop" /\ st.queued /\ ~st.err

(***************************************************************************)
(* What a command of the player does to MPD and to the recorded intent.    *)
(***************************************************************************)
Record(kind) == intent' = [intent EXCEPT !.kind = kind, !.gen = gen]

MPDAfter(kind) ==
    CASE kind = "play"  -> IF mpd.queue = Empty THEN mpd
                           ELSE [mpd EXCEPT !.state = "play", !.err = FALSE,
                                            !.song = IF @ = "none" THEN "more" ELSE @]
      [] kind = "pause" -> [mpd EXCEPT !.state = IF @ = "play" THEN "pause" ELSE @]
      [] kind = "stop"  -> [mpd EXCEPT !.state = "stop"]

\* Player.Play, Pause and Stop when MPD answers.
Command(kind) == mpd' = MPDAfter(kind) /\ Record(kind) /\ UNCHANGED gen

SetVolume(v) == mpd' = IF avail = "down" THEN mpd ELSE [mpd EXCEPT !.vol = v]

\* Player.Load when MPD takes every command of it.
Load(queue, vol, song) ==
    /\ mpd' = [state |-> "play", vol |-> vol, queue |-> queue, song |-> song, err |-> FALSE]
    /\ gen' = gen + 1
    /\ intent' = [intent EXCEPT !.kind = "play", !.gen = gen + 1]

\* Player.Load when MPD refuses a file: the queue is cleared by then, and the generation is not counted up.
BrokenLoad ==
    /\ mpd' = [mpd EXCEPT !.state = "stop", !.queue = Empty, !.song = "none"]
    /\ UNCHANGED <<gen, intent>>

NoteFailures(n) ==
    /\ failures' = IF failures + n > 4 THEN 4 ELSE failures + n
    /\ retryWait' = (n > 0 \/ retryWait)

ResetFailures == failures' = 0 /\ retryWait' = FALSE

\* Play attempt of tryPlay: nothing before retryAfter; a reported MPD error and a refused play each count.
TryPlay(st) ==
    IF retryWait
    THEN UNCHANGED <<playerVars, retryVars>>
    ELSE /\ NoteFailures((IF st.err THEN 1 ELSE 0) + (IF avail = "down" THEN 1 ELSE 0))
         /\ IF avail = "down" THEN UNCHANGED playerVars ELSE Command("play")

(***************************************************************************)
(* Fades: startFade, cancelFade and the two kinds of goroutine.            *)
(***************************************************************************)
Free(f) == run[f].pc = "idle" /\ f # seenFade /\ \A p \in Persons : person[p].fade # f

\* Goroutine g goes on at pc; the loop lets go of tickMu and of what it read when it is done.
GoTo(g, pc) == run' = [run EXCEPT ![g].pc = pc] /\ UNCHANGED loopVars
Leave(g) ==
    /\ run' = [run EXCEPT ![g] = IF g = Loop THEN IdleRun ELSE [@ EXCEPT !.pc = "end"]]
    /\ IF g = Loop THEN view' = NoView /\ seenFade' = NoFade ELSE UNCHANGED loopVars

\* startFade by goroutine g, which is then done: the new fade replaces the one recorded before.
StartFade(g, kind, key, next, vol) ==
    /\ \E f \in Fades : Free(f)
    /\ LET f == CHOOSE c \in Fades : Free(c)
       IN  /\ fade' = f
           /\ run' = [run EXCEPT ![g] = IF g = Loop THEN IdleRun ELSE [@ EXCEPT !.pc = "end"],
                                 ![f] = [pc |-> kind, kind |-> kind, key |-> key, next |-> next,
                                         vol |-> vol, cancelled |-> FALSE]]
    /\ IF g = Loop THEN view' = NoView /\ seenFade' = NoFade ELSE UNCHANGED loopVars

\* The part of cancelFade under s.mu, and the cancel: only the recorded fade is cancelled.
Recorded(f) == f # NoFade /\ fade = f
\* Mutation: cancelFade forgets the fade but does not cancel its context.
CancelledRunMutant(f) == run
CancelledRun(f) == [run EXCEPT ![f].cancelled = TRUE]

\* fadeOutStop reads the level it will restore; without an answer it gives up.
FadeOutStart(f) ==
    /\ run[f].pc = "out"
    /\ run' = [run EXCEPT ![f].pc = IF avail = "down" THEN "out_done"
                                    ELSE IF FadeOut /\ mpd.vol > 0 THEN "out_step" ELSE "out_stop",
                          ![f].vol = IF avail = "down" THEN @ ELSE mpd.vol]
    /\ UNCHANGED <<clockVars, playerVars, override, suspended, fade, loaded, retryVars, loopVars, person>>

\* fadeTo: the steps down, or none of them when the fade is cancelled first.
FadeOutSteps(f) ==
    /\ run[f].pc = "out_step"
    /\ IF run[f].cancelled THEN UNCHANGED mpd ELSE SetVolume(0)
    /\ GoTo(f, "out_stop")
    /\ UNCHANGED <<clockVars, gen, intent, override, suspended, fade, loaded, retryVars, person>>

FadeOutStop(f) ==
    /\ run[f].pc = "out_stop"
    /\ IF run[f].cancelled
       THEN SetVolume(run[f].vol) /\ UNCHANGED <<gen, intent>> /\ GoTo(f, "out_done")
       ELSE /\ IF avail = "down" THEN UNCHANGED playerVars ELSE Command("stop")
            /\ GoTo(f, "out_restore")
    /\ UNCHANGED <<clockVars, override, suspended, fade, loaded, retryVars, person>>

FadeOutRestore(f) ==
    /\ run[f].pc = "out_restore"
    /\ SetVolume(run[f].vol)
    /\ GoTo(f, "out_done")
    /\ UNCHANGED <<clockVars, gen, intent, override, suspended, fade, loaded, retryVars, person>>

\* The fade-out of a program that is followed by another one goes on with loadAndPlay.
FadeOutDone(f) ==
    /\ run[f].pc = "out_done"
    /\ IF run[f].cancelled \/ run[f].next = NoWindow THEN Leave(f) ELSE GoTo(f, "resolve")
    /\ UNCHANGED <<clockVars, playerVars, override, suspended, fade, loaded, retryVars, person>>

\* Mutation: a cancelled fade-in leaves the volume where it is.
FadeInEndsMutant(f) ==
    /\ run[f].pc = "in"
    /\ IF run[f].cancelled THEN UNCHANGED mpd ELSE SetVolume(run[f].vol)
    /\ Leave(f)
    /\ UNCHANGED <<clockVars, gen, intent, override, suspended, fade, loaded, retryVars, person>>

\* The fade-in ends at its target level, when it is cancelled too.
FadeInEnds(f) ==
    /\ run[f].pc = "in"
    /\ SetVolume(run[f].vol)
    /\ Leave(f)
    /\ UNCHANGED <<clockVars, gen, intent, override, suspended, fade, loaded, retryVars, person>>

\* Mutation: the goroutine ends and stays recorded.
FadeEndsMutant(f) ==
    /\ run[f].pc = "end"
    /\ run' = [run EXCEPT ![f] = IdleRun]
    /\ UNCHANGED <<clockVars, playerVars, override, suspended, fade, loaded, retryVars, loopVars, person>>

\* The end of the goroutine: the record is dropped if it is still this fade, and done is closed.
FadeEnds(f) ==
    /\ run[f].pc = "end"
    /\ fade' = IF fade = f THEN NoFade ELSE fade
    /\ run' = [run EXCEPT ![f] = IdleRun]
    /\ UNCHANGED <<clockVars, playerVars, override, suspended, loaded, retryVars, loopVars, person>>

(***************************************************************************)
(* loadAndPlay, run by the loop or by a fade-out.                          *)
(***************************************************************************)
Fault == faults < MaxFaults /\ faults' = faults + 1 /\ UNCHANGED <<now, enabled, avail, requests>>

Resolve(g) ==
    /\ run[g].pc = "resolve"
    /\ \/ run[g].cancelled /\ Leave(g) /\ UNCHANGED <<retryVars, clockVars>>
       \/ ~run[g].cancelled /\ Fault /\ NoteFailures(1) /\ Leave(g)
       \/ /\ ~run[g].cancelled
          /\ run' = [run EXCEPT ![g].pc = "load",
                                ![g].vol = IF ProgramVolume \/ avail = "down" THEN 1 ELSE mpd.vol]
          /\ UNCHANGED <<retryVars, clockVars, loopVars>>
    /\ UNCHANGED <<playerVars, override, suspended, fade, loaded, person>>

\* Player.Load, with the volume at zero when a fade-in follows.
LoadProgram(g) ==
    /\ run[g].pc = "load"
    /\ \/ /\ avail # "down"
          /\ Load(SourceOf[run[g].next], IF FadeIn THEN 0 ELSE run[g].vol, "more")
          /\ GoTo(g, "loaded") /\ UNCHANGED <<retryVars, clockVars>>
       \/ avail = "down" /\ NoteFailures(1) /\ Leave(g) /\ UNCHANGED <<playerVars, clockVars>>
       \/ /\ avail # "down" /\ Fault /\ NoteFailures(1) /\ Leave(g)
          /\ BrokenLoad
    /\ UNCHANGED <<override, suspended, fade, loaded, person>>

SetLoaded(g) ==
    /\ run[g].pc = "loaded"
    /\ ResetFailures
    /\ loaded' = [key |-> run[g].next, gen |-> gen]
    /\ IF FadeIn THEN GoTo(g, "start_in") ELSE Leave(g)
    /\ UNCHANGED <<clockVars, playerVars, override, suspended, fade, person>>

StartFadeIn(g) ==
    /\ run[g].pc = "start_in"
    /\ StartFade(g, "in", run[g].next, NoWindow, run[g].vol)
    /\ UNCHANGED <<clockVars, playerVars, override, suspended, loaded, retryVars, person>>

(***************************************************************************)
(* Tick.  The ticker and the kicks let it start at any time.               *)
(***************************************************************************)
\* Mutation: a tick does not look at the suspended count.
TickStartMutant ==
    /\ run[Loop].pc = "idle"
    /\ GoTo(Loop, "snapshot")
    /\ UNCHANGED <<clockVars, playerVars, override, suspended, fade, loaded, retryVars, person>>

TickStart ==
    /\ run[Loop].pc = "idle" /\ suspended = 0
    /\ GoTo(Loop, "snapshot")
    /\ UNCHANGED <<clockVars, playerVars, override, suspended, fade, loaded, retryVars, person>>

TickSnapshot ==
    /\ run[Loop].pc = "snapshot"
    /\ view' = Snapshot
    /\ run' = [run EXCEPT ![Loop].pc = IF Snapshot.expired THEN "expire" ELSE "fade"]
    /\ UNCHANGED <<clockVars, playerVars, override, suspended, fade, loaded, retryVars, seenFade, person>>

\* The row that is removed is the one of now, whatever row the snapshot judged.
TickClearExpired ==
    /\ run[Loop].pc = "expire"
    /\ override' = NoOverride
    /\ GoTo(Loop, "fade")
    /\ UNCHANGED <<clockVars, playerVars, suspended, fade, loaded, retryVars, person>>

\* Mutation: the tick does not see the fade that runs.
TickReadFadeMutant ==
    /\ run[Loop].pc = "fade"
    /\ run' = [run EXCEPT ![Loop].pc =
                  IF view.owner \in {"MANUAL", "UNAVAILABLE"} THEN "cancel" ELSE "status"]
    /\ UNCHANGED <<clockVars, playerVars, override, suspended, fade, loaded, retryVars, loopVars, person>>

TickReadFade ==
    /\ run[Loop].pc = "fade"
    /\ seenFade' = fade
    /\ run' = [run EXCEPT ![Loop].pc =
                  IF view.owner \in {"MANUAL", "UNAVAILABLE"} THEN "cancel" ELSE "status"]
    /\ UNCHANGED <<clockVars, playerVars, override, suspended, fade, loaded, retryVars, view, person>>

\* The reason of the fade the tick read still holds.  A fade that has ended meanwhile is left alone either way.
FadeHolds ==
    /\ view.owner = "SCHEDULED"
    /\ CASE run[seenFade].kind = "out" -> view.want = NoWindow \/ view.want # run[seenFade].key
         [] run[seenFade].kind = "in"  -> view.want # NoWindow /\ view.want = run[seenFade].key
         [] OTHER                      -> TRUE

TickStatus ==
    /\ run[Loop].pc = "status"
    /\ \/ (avail = "down" \/ (seenFade # NoFade /\ FadeHolds)) /\ Leave(Loop)
       \/ /\ avail # "down" /\ seenFade # NoFade /\ ~FadeHolds
          /\ GoTo(Loop, "cancel")
       \/ /\ avail # "down" /\ seenFade = NoFade
          /\ view' = [view EXCEPT !.st = Status]
          /\ run' = [run EXCEPT ![Loop].pc = IF view.owner = "OVERRIDDEN" THEN "enforce" ELSE "decide"]
          /\ UNCHANGED seenFade
    /\ UNCHANGED <<clockVars, playerVars, override, suspended, fade, loaded, retryVars, person>>

\* cancelFade of the fade the tick read; without one, of whatever fade is recorded by now.
TickCancelFade ==
    LET f == IF seenFade = NoFade THEN fade ELSE seenFade IN
    /\ run[Loop].pc = "cancel"
    /\ IF Recorded(f)
       THEN /\ fade' = NoFade /\ seenFade' = f
            /\ run' = [CancelledRun(f) EXCEPT ![Loop].pc = "wait"]
            /\ UNCHANGED view
       ELSE Leave(Loop) /\ UNCHANGED fade
    /\ UNCHANGED <<clockVars, playerVars, override, suspended, loaded, retryVars, person>>

TickFadeGone ==
    /\ run[Loop].pc = "wait" /\ run[seenFade].pc = "idle"
    /\ Leave(Loop)
    /\ UNCHANGED <<clockVars, playerVars, override, suspended, fade, loaded, retryVars, person>>

\* An override decides: the state the person asked for is put back, and a Play Now that has run out ends.
TickEnforce ==
    LET o == view.over  st == view.st IN
    /\ run[Loop].pc = "enforce"
    /\ \/ /\ o.intent = "play" /\ o.mode = "play_now"
          /\ Finished(st) \/ (st.state = "stop" /\ st.err)
          /\ override' = NoOverride /\ UNCHANGED <<playerVars, retryVars>>
       \/ /\ o.intent = "play" /\ st.state # "play" /\ o.gen = gen /\ ~Finished(st)
          /\ ~(o.mode = "play_now" /\ st.state = "stop" /\ st.err)
          /\ TryPlay(st) /\ UNCHANGED override
       \/ /\ o.intent \in {"pause", "stop"} /\ st.state = "play" /\ avail # "down"
          /\ Command(o.intent) /\ UNCHANGED <<override, retryVars>>
       \/ /\ IF o.intent = "play"
             THEN /\ st.state = "play" \/ o.gen # gen \/ Finished(st)
                  /\ ~(o.mode = "play_now" /\ (Finished(st) \/ (st.state = "stop" /\ st.err)))
             ELSE st.state # "play" \/ avail = "down"
          /\ UNCHANGED <<override, playerVars, retryVars>>
    /\ Leave(Loop)
    /\ UNCHANGED <<clockVars, suspended, fade, loaded, person>>

\* Mutation: back-to-back windows are never recognised.
SameProgramMutant == FALSE

\* Mutation: whatever was loaded goes on in the next window, whatever its source.
SameProgramAlwaysMutant ==
    loaded.key # NoProgram /\ view.st.state = "play" /\ loaded.gen = gen

\* The queue is the one loaded for a window of the same source, so it may go on into the next window.
SameProgram ==
    /\ loaded.key # NoProgram /\ SourceOf[view.want] = SourceOf[loaded.key]
    /\ view.st.state = "play" /\ loaded.gen = gen

\* The schedule decides.
TickDecide ==
    LET want == view.want  playing == view.st.state = "play" IN
    /\ run[Loop].pc = "decide"
    /\ \/ /\ want = NoWindow /\ ~playing
          /\ Leave(Loop) /\ UNCHANGED <<mpd, fade, loaded, retryVars, intent, gen>>
       \/ /\ playing /\ want # loaded.key /\ (want # NoWindow => ~SameProgram)
          /\ StartFade(Loop, "out", loaded.key, want, 0)
          /\ UNCHANGED <<playerVars, loaded, retryVars>>
       \/ /\ want # NoWindow /\ want # loaded.key /\ SameProgram
          /\ loaded' = [loaded EXCEPT !.key = want]
          /\ IF ProgramVolume THEN SetVolume(1) ELSE UNCHANGED mpd
          /\ Leave(Loop) /\ UNCHANGED <<gen, intent, fade, retryVars>>
       \/ /\ want # NoWindow /\ want # loaded.key /\ ~playing
          /\ run' = [run EXCEPT ![Loop].pc = "resolve", ![Loop].next = want]
          /\ UNCHANGED <<playerVars, fade, loaded, retryVars, loopVars>>
       \/ /\ want = loaded.key /\ ~playing
          /\ TryPlay(view.st) /\ Leave(Loop) /\ UNCHANGED <<fade, loaded>>
       \/ /\ want = loaded.key /\ playing
          /\ ResetFailures /\ Leave(Loop) /\ UNCHANGED <<playerVars, fade, loaded>>
    /\ UNCHANGED <<clockVars, override, suspended, person>>

(***************************************************************************)
(* People.  Transport, PlayEntry and Play Now run between Suspend and its  *)
(* release; the override endpoints and the scheduler switch do not.        *)
(***************************************************************************)
PersonAt(p, pc) == person' = [person EXCEPT ![p].pc = pc]
Asks(p, r) == person[p].pc = "idle" /\ requests < MaxRequests /\ requests' = requests + 1

\* Suspend: the count first, so that no new tick starts.
Suspend(p, r) ==
    /\ r.op \in {"transport", "play_now"} /\ Asks(p, r)
    /\ suspended' = suspended + 1
    /\ person' = [person EXCEPT ![p].pc = "cancel", ![p].req = r]
    /\ UNCHANGED <<now, enabled, avail, faults, playerVars, override, fade, loaded, retryVars, run, loopVars>>

SuspendCancelFade(p) ==
    /\ person[p].pc = "cancel"
    /\ IF fade = NoFade
       THEN PersonAt(p, "handshake") /\ UNCHANGED <<fade, run>>
       ELSE /\ fade' = NoFade /\ run' = CancelledRun(fade)
            /\ person' = [person EXCEPT ![p].pc = "wait", ![p].fade = fade]
    /\ UNCHANGED <<clockVars, playerVars, override, suspended, loaded, retryVars, loopVars>>

SuspendFadeGone(p) ==
    /\ person[p].pc = "wait" /\ run[person[p].fade].pc = "idle"
    /\ person' = [person EXCEPT ![p].pc = "handshake", ![p].fade = NoFade]
    /\ UNCHANGED <<clockVars, playerVars, override, suspended, fade, loaded, retryVars, run, loopVars>>

\* tickMu is locked and unlocked once, so a tick that was running is over.
SuspendHandshake(p) ==
    /\ person[p].pc = "handshake" /\ run[Loop].pc = "idle"
    /\ PersonAt(p, "act")
    /\ UNCHANGED <<clockVars, playerVars, override, suspended, fade, loaded, retryVars, run, loopVars>>

\* The command itself; a request that fails only releases the hold.
Act(p) ==
    LET r == person[p].req IN
    /\ person[p].pc = "act"
    /\ \/ avail = "down" /\ PersonAt(p, "release") /\ UNCHANGED <<playerVars, clockVars>>
       \/ /\ avail # "down" /\ r.op = "transport" /\ PersonAt(p, "hold")
          /\ Command(r.intent) /\ UNCHANGED clockVars
       \/ /\ avail # "down" /\ r.op = "play_now" /\ PersonAt(p, "forget")
          /\ \E song \in {"more", "last"} : Load(Selection, mpd.vol, song)
          /\ UNCHANGED clockVars
       \/ avail # "down" /\ r.op = "play_now" /\ PersonAt(p, "release") /\ Fault /\ BrokenLoad
    /\ UNCHANGED <<override, suspended, fade, loaded, retryVars, run, loopVars>>

\* playNowOverride: the queue is no longer a program of the schedule.
ForgetProgram(p) ==
    /\ person[p].pc = "forget"
    /\ loaded' = Unloaded
    /\ PersonAt(p, "hold")
    /\ UNCHANGED <<clockVars, playerVars, override, suspended, fade, retryVars, run, loopVars>>

\* holdForPerson reads the switch and the override it may keep.
ReadHold(p) ==
    LET o == override  r == person[p].req
        keeps == r.op = "transport" /\ Active(o) /\ o.mode = "timed"
    IN  /\ person[p].pc = "hold"
        /\ IF ~enabled \/ (keeps /\ o.intent = r.intent)
           THEN PersonAt(p, "release")
           ELSE person' = [person EXCEPT ![p].pc = "store", ![p].over = IF keeps THEN o ELSE NoOverride]
        /\ UNCHANGED <<clockVars, playerVars, override, suspended, fade, loaded, retryVars, run, loopVars>>

\* CreateOverride, or UpdateOverrideIntent on the timed override that was read.
StoreOverride(p) ==
    LET r == person[p].req IN
    /\ person[p].pc = "store"
    /\ override' = IF person[p].over # NoOverride
                   THEN [person[p].over EXCEPT !.intent = r.intent, !.gen = gen]
                   ELSE [mode |-> r.mode, intent |-> r.intent, created |-> now, ends |-> now + 1, gen |-> gen]
    /\ person' = [person EXCEPT ![p] = IF r.op = "post" THEN Idler
                                       ELSE [@ EXCEPT !.pc = "release", !.over = NoOverride]]
    /\ UNCHANGED <<clockVars, playerVars, suspended, fade, loaded, retryVars, run, loopVars>>

Release(p) ==
    /\ person[p].pc = "release"
    /\ suspended' = suspended - 1
    /\ person' = [person EXCEPT ![p] = Idler]
    /\ UNCHANGED <<clockVars, playerVars, override, fade, loaded, retryVars, run, loopVars>>

\* POST /override is refused while the scheduler is off; otherwise it stores the override.
PostOverride(p, r) ==
    /\ r.op = "post" /\ Asks(p, r) /\ enabled
    /\ person' = [person EXCEPT ![p].pc = "store", ![p].req = r]
    /\ UNCHANGED <<now, enabled, avail, faults, playerVars, override, suspended, fade, loaded, retryVars, run, loopVars>>

DeleteOverride(p, r) ==
    /\ r.op = "delete" /\ Asks(p, r)
    /\ override' = NoOverride
    /\ UNCHANGED <<now, enabled, avail, faults, playerVars, suspended, fade, loaded, retryVars, run, loopVars, person>>

\* The scheduler setting is saved first; switching it off then clears the override.
SwitchScheduler(p, r) ==
    /\ r.op \in {"on", "off"} /\ Asks(p, r)
    /\ enabled # (r.op = "on") /\ enabled' = (r.op = "on")
    /\ IF r.op = "off" THEN PersonAt(p, "switched_off") ELSE UNCHANGED person
    /\ UNCHANGED <<now, avail, faults, playerVars, override, suspended, fade, loaded, retryVars, run, loopVars>>

SwitchedOff(p) ==
    /\ person[p].pc = "switched_off"
    /\ override' = NoOverride
    /\ person' = [person EXCEPT ![p] = Idler]
    /\ UNCHANGED <<clockVars, playerVars, suspended, fade, loaded, retryVars, run, loopVars>>

(***************************************************************************)
(* Time, MPD and the machine.                                              *)
(***************************************************************************)
AdvanceTime ==
    /\ now < Len(Sched) /\ now' = now + 1
    /\ UNCHANGED <<enabled, avail, requests, faults, playerVars, override, suspended, fade, loaded, retryVars, run, loopVars, person>>

RetryElapses ==
    /\ retryWait /\ retryWait' = FALSE
    /\ UNCHANGED <<clockVars, playerVars, override, suspended, fade, loaded, failures, run, loopVars, person>>

\* A selection plays once; a program repeats and has no last track.
MusicAdvances ==
    /\ mpd.state = "play" /\ mpd.queue = Selection
    /\ mpd' = IF mpd.song = "last" THEN [mpd EXCEPT !.state = "stop", !.song = "none"]
              ELSE [mpd EXCEPT !.song = "last"]
    /\ UNCHANGED <<clockVars, gen, intent, override, suspended, fade, loaded, retryVars, run, loopVars, person>>

\* watchMPD hears of the song; NoteSong keeps whether it was the last one.
NoteSong ==
    /\ avail # "down" /\ mpd.song # "none" /\ intent.final # (mpd.song = "last")
    /\ intent' = [intent EXCEPT !.final = (mpd.song = "last")]
    /\ UNCHANGED <<clockVars, mpd, gen, override, suspended, fade, loaded, retryVars, run, loopVars, person>>

OutputFails ==
    /\ mpd.state = "play" /\ Fault
    /\ mpd' = [mpd EXCEPT !.state = "stop", !.err = TRUE]
    /\ UNCHANGED <<gen, intent, override, suspended, fade, loaded, retryVars, run, loopVars, person>>

\* MPD exits, or the device or the clock goes.  MPD restores its queue and volume, paused.
GoesAway(a) ==
    /\ avail = "ok" /\ a \in {"away", "down"}
    /\ faults < MaxFaults /\ faults' = faults + 1 /\ avail' = a
    /\ mpd' = IF a = "down" THEN [mpd EXCEPT !.state = IF @ = "play" THEN "pause" ELSE @, !.err = FALSE] ELSE mpd
    /\ UNCHANGED <<now, enabled, requests, gen, intent, override, suspended, fade, loaded, retryVars, run, loopVars, person>>

ComesBack ==
    /\ avail # "ok" /\ avail' = "ok"
    /\ UNCHANGED <<now, enabled, requests, faults, playerVars, override, suspended, fade, loaded, retryVars, run, loopVars, person>>

-----------------------------------------------------------------------------
LoadSteps(g) == Resolve(g) \/ LoadProgram(g) \/ SetLoaded(g) \/ StartFadeIn(g)

Tick == \/ TickSnapshot \/ TickClearExpired \/ TickReadFade \/ TickStatus \/ TickCancelFade
        \/ TickFadeGone \/ TickEnforce \/ TickDecide \/ LoadSteps(Loop)

FadeSteps(f) == \/ FadeOutStart(f) \/ FadeOutSteps(f) \/ FadeOutStop(f) \/ FadeOutRestore(f)
                \/ FadeOutDone(f) \/ FadeInEnds(f) \/ FadeEnds(f) \/ LoadSteps(f)

PersonSteps(p) == \/ SuspendCancelFade(p) \/ SuspendFadeGone(p) \/ SuspendHandshake(p)
                  \/ Act(p) \/ ForgetProgram(p) \/ ReadHold(p) \/ StoreOverride(p) \/ Release(p)
                  \/ SwitchedOff(p)

Request(p, r) == Suspend(p, r) \/ PostOverride(p, r) \/ DeleteOverride(p, r) \/ SwitchScheduler(p, r)

Environment == \/ AdvanceTime \/ RetryElapses \/ MusicAdvances \/ NoteSong \/ OutputFails
               \/ ComesBack \/ \E a \in {"away", "down"} : GoesAway(a)

Next == \/ TickStart \/ Tick
        \/ \E f \in Fades : FadeSteps(f)
        \/ \E p \in Persons : PersonSteps(p) \/ \E r \in Requests : Request(p, r)
        \/ Environment

Spec == Init /\ [][Next]_vars

(***************************************************************************)
(* Fairness: the ticker fires every five seconds, goroutines and handlers  *)
(* run on, a retry time passes, MPD is brought back and reports its songs. *)
(* Nothing is said of AdvanceTime: a slot may last for as long as it takes *)
(* the loop to get in step with it, whichever slot it is.                  *)
(***************************************************************************)
Fairness ==
    /\ WF_vars(TickStart) /\ WF_vars(Tick)
    /\ \A f \in Fades : WF_vars(FadeSteps(f))
    /\ \A p \in Persons : WF_vars(PersonSteps(p))
    /\ WF_vars(RetryElapses) /\ WF_vars(ComesBack) /\ WF_vars(NoteSong)
FairSpec == Spec /\ Fairness

-----------------------------------------------------------------------------
Overrides  == [mode : Modes, intent : Intents, created : Slots, ends : Nat, gen : Nat]
LoadPCs    == {"resolve", "load", "loaded", "start_in"}
LoopPCs    == {"idle", "snapshot", "expire", "fade", "status", "cancel", "wait", "enforce", "decide"} \cup LoadPCs
FadePCs    == {"idle", "out", "out_step", "out_stop", "out_restore", "out_done", "in", "end"} \cup LoadPCs
SuspendPCs == {"cancel", "wait", "handshake", "act", "forget", "hold"}

MPDs     == [state : Intents, vol : {0, 1}, queue : Sources \cup {Selection, Empty},
             song : {"none", "more", "last"}, err : BOOLEAN]
Statuses == [state : Intents, err : BOOLEAN, queued : BOOLEAN]
Runs     == [pc : LoopPCs \cup FadePCs, kind : {"none"} \cup FadePCs, key : Keys \cup {NoProgram},
             next : Keys \cup {NoWindow}, vol : {0, 1}, cancelled : BOOLEAN]
Views    == [owner : {"none", "UNAVAILABLE", "MANUAL", "OVERRIDDEN", "SCHEDULED"},
             over : Overrides \cup {NoOverride}, expired : BOOLEAN, want : Keys \cup {NoWindow}, st : Statuses]
Callers  == [pc : SuspendPCs \cup {"idle", "store", "release", "switched_off"},
             req : AllRequests \cup {NoRequest}, fade : Fades \cup {NoFade}, over : Overrides \cup {NoOverride}]

RunsOK ==
    /\ run \in [Goroutines -> Runs] /\ run[Loop].pc \in LoopPCs
    /\ \A f \in Fades : run[f].pc \in FadePCs
    /\ \A g \in Goroutines : run[g].pc \in LoadPCs => run[g].next # NoWindow

ClockOK  == /\ now \in Slots /\ enabled \in BOOLEAN /\ avail \in {"ok", "away", "down"}
            /\ requests \in 0..MaxRequests /\ faults \in 0..MaxFaults
PlayerOK == /\ mpd \in MPDs /\ gen \in Nat
            /\ intent \in [kind : Intents \cup {"none"}, gen : Nat, final : BOOLEAN]
RetryOK  == failures \in 0..4 /\ retryWait \in BOOLEAN
LoopOK   == /\ view \in Views /\ seenFade \in Fades \cup {NoFade}
            /\ run[Loop].pc = "enforce" => view.owner = "OVERRIDDEN"
            /\ view.owner = "OVERRIDDEN" => view.over # NoOverride
CallersOK == /\ person \in [Persons -> Callers]
             /\ \A p \in Persons :
                   /\ person[p].pc \in SuspendPCs \cup {"release"} => person[p].req.op \in {"transport", "play_now"}
                   /\ person[p].pc \in SuspendPCs \cup {"store", "release"} => person[p].req \in AllRequests
                   /\ person[p].pc = "store" => person[p].req.op \in {"transport", "play_now", "post"}
                   /\ person[p].pc = "wait" => person[p].fade \in Fades

\* The shape of every variable; a goroutine that loads a program has one to load, a tick that
\* enforces an override has one to enforce, and only a request that suspends gets to be released.
TypeOK ==
    /\ ClockOK /\ PlayerOK /\ RetryOK /\ RunsOK /\ LoopOK
    /\ override \in Overrides \cup {NoOverride} /\ suspended \in Nat
    /\ fade \in Fades \cup {NoFade} /\ loaded \in [key : Keys \cup {NoProgram}, gen : Nat]
    /\ CallersOK

(***************************************************************************)
(* Safety.                                                                 *)
(***************************************************************************)
\* Between Suspend and its release; Holding once Suspend has returned.
Suspending(p) == \/ person[p].pc \in SuspendPCs
                 \/ person[p].pc \in {"store", "release"} /\ person[p].req.op # "post"
Holding(p)    == Suspending(p) /\ person[p].pc \notin {"cancel", "wait", "handshake"}

\* Suspend counts up once per caller and its release counts down once (the strengthening that the
\* proofs of TypeOK and LoopIsHeld need: a release never takes the count of another caller).
SuspendedCounts == suspended = Cardinality({p \in Persons : Suspending(p)})

\* While a person's action runs between Suspend and release, no tick is under way: the handshake on
\* tickMu waits for the running one and the count keeps the next one out (Suspend, Tick).
LoopIsHeld == \A p \in Persons : Holding(p) => run[Loop].pc = "idle"

\* The fade the scheduler knows of (s.fade) is always a goroutine that runs and that nobody has
\* cancelled: ticks that wait for it, or hold still because of it, do so for something.
RecordedFadeRuns == fade # NoFade => run[fade].pc # "idle" /\ ~run[fade].cancelled

\* Whoever waits for a fade to end (cancelFade) waits for one that was told to end.
WaitedFadeStops ==
    /\ \A p \in Persons : person[p].pc = "wait" /\ run[person[p].fade].pc # "idle" => run[person[p].fade].cancelled
    /\ run[Loop].pc = "wait" /\ run[seenFade].pc # "idle" => run[seenFade].cancelled

\* Every fade that ticks look at or wait for is a real one (s.fade, cancelFade).
FadesAreReal == RecordedFadeRuns /\ WaitedFadeStops

\* "A fade is a state the loop knows about": two fades never work on the volume at once, except that
\* one that has nothing left to do may still be ending (startFade, cancelFade).
OneFade == \A f, e \in Fades : f # e => run[f].pc \in {"idle", "end"} \/ run[e].pc \in {"idle", "end"}

\* While MPD takes every command: once no fade runs and none is about to start, the volume is back
\* where the music is meant to be, because a fade-out restores it and a fade-in ends at its target,
\* cancelled or not (fadeOutStop, loadAndPlay).
MusicNotLeftQuiet ==
    faults = 0 /\ (\A f \in Fades : run[f].pc = "idle") /\ run[Loop].pc \notin {"loaded", "start_in"}
        => mpd.vol = 1

\* The loop removes an override only when that override is over: past its end, or a Play Now it has
\* just judged (Tick, enforceOverride).
LoopStep == run'[Loop].pc # run[Loop].pc
OverrideHolds ==
    [][LoopStep /\ override' # override =>
         \/ run[Loop].pc = "expire" /\ ~Active(override)
         \/ run[Loop].pc = "enforce" /\ override = view.over]_<<override, run>>

\* Back-to-back windows with the same program keep playing: no fade stops the music of a window for
\* a window of the same source (Tick, the "same" branch).
BackToBackKeepsPlaying ==
    [][\A f \in Fades :
         run[f].pc = "out_stop" /\ run'[f].pc = "out_restore" /\ mpd.state = "play" /\ mpd'.state = "stop"
            /\ run[f].next # NoWindow /\ loaded.gen = gen /\ loaded.key # NoProgram
         => SourceOf[run[f].next] # SourceOf[loaded.key]]_<<mpd, run>>

(***************************************************************************)
(* Liveness.                                                               *)
(***************************************************************************)
\* What MPD does is what the owner of playback asks for: in a window its program plays, in a gap and under
\* a pause or a stop nothing does.
InStep ==
    LET v == Snapshot IN
    CASE v.owner = "SCHEDULED" /\ v.want = NoWindow  -> mpd.state # "play"
      [] v.owner = "SCHEDULED" /\ v.want # NoWindow  ->
            mpd.state = "play" /\ loaded.key = v.want /\ mpd.queue = SourceOf[v.want]
      [] v.owner = "OVERRIDDEN" /\ v.over.intent # "play" -> mpd.state # "play"
      [] OTHER -> TRUE

\* "Scheduler converges MPD on the desired state": once people, faults and the schedule leave the
\* jukebox alone, what plays is what the schedule or the override says, for good.  Time may come to
\* rest in any slot, so this is asked in every window and in every gap.
Converges == <>[]InStep

\* A caller that suspends the loop always gets to act: neither the fade it waits for nor the tick it
\* waits for can wait for it in turn (Suspend, cancelFade, Tick).
SuspendReturns == \A p \in Persons : person[p].pc = "cancel" ~> person[p].pc = "act"
=============================================================================
