-------------------------- MODULE ReconcilerProofs --------------------------
(***************************************************************************)
(* Proofs about Reconciler for any people, any number of fades, any        *)
(* schedule and any bounds: the shape of the state, the hold of the loop   *)
(* (Inductive), and on top of them the fades (FadesReal), the volume and   *)
(* the back-to-back windows while nobody holds the loop (OneFadeAtATime,   *)
(* LevelRestored, BackToBack), and the overrides (OverridesHold).          *)
(***************************************************************************)
EXTENDS Reconciler, FiniteSetTheorems, TLAPS

(***************************************************************************)
(* How the goroutines' records change.                                     *)
(***************************************************************************)
LEMMA RunSet ==
    ASSUME RunsOK, NEW g \in Goroutines, NEW r \in Runs,
           r.pc \in IF g = Loop THEN LoopPCs ELSE FadePCs,
           r.pc \in LoadPCs => r.next # NoWindow,
           run' = [run EXCEPT ![g] = r]
    PROVE  RunsOK' /\ run'[g] = r /\ \A h \in Goroutines \ {g} : run'[h] = run[h]
BY ConstantsOK DEF RunsOK, Goroutines, ConstantsOK

LEMMA RunGoTo ==
    ASSUME RunsOK, NEW g \in Goroutines,
           NEW pc \in IF g = Loop THEN LoopPCs ELSE FadePCs,
           pc \in LoadPCs => run[g].next # NoWindow,
           run' = [run EXCEPT ![g].pc = pc]
    PROVE  RunsOK' /\ run'[g].pc = pc /\ \A h \in Goroutines \ {g} : run'[h] = run[h]
<1>1. run[g] \in Runs
  BY DEF RunsOK
<1>2. pc \in LoopPCs \cup FadePCs
  OBVIOUS
<1>3. /\ [run[g] EXCEPT !.pc = pc] \in Runs
      /\ [run[g] EXCEPT !.pc = pc].pc = pc
      /\ [run[g] EXCEPT !.pc = pc].next = run[g].next
  BY <1>1, <1>2 DEF Runs
<1>4. run' = [run EXCEPT ![g] = [run[g] EXCEPT !.pc = pc]]
  OBVIOUS
<1>5. QED
  BY <1>3, <1>4, RunSet

LEMMA IdleRunType == IdleRun \in Runs /\ IdleRun.pc = "idle"
BY ConstantsOK DEF IdleRun, Runs, LoopPCs, FadePCs

LEMMA NoViewType == NoView \in Views /\ NoView.owner = "none"
BY DEF Views, NoView, Stopped, Statuses, Intents

LEMMA RunLeave ==
    ASSUME TypeOK, NEW g \in Goroutines, Leave(g)
    PROVE  /\ RunsOK' /\ LoopOK'
           /\ run'[g].pc = IF g = Loop THEN "idle" ELSE "end"
           /\ \A h \in Goroutines \ {g} : run'[h] = run[h]
<1>1. CASE g = Loop
  <2>1. run' = [run EXCEPT ![g] = IdleRun]
    BY <1>1 DEF Leave
  <2>2. RunsOK' /\ run'[g] = IdleRun /\ \A h \in Goroutines \ {g} : run'[h] = run[h]
    BY <1>1, <2>1, IdleRunType, RunSet DEF TypeOK, LoopPCs, LoadPCs
  <2>3. QED
    BY <1>1, <2>2, IdleRunType, NoViewType DEF Leave, LoopOK
<1>2. CASE g # Loop
  <2>1. run' = [run EXCEPT ![g].pc = "end"] /\ UNCHANGED <<view, seenFade>>
    BY <1>2 DEF Leave, loopVars
  <2>2. RunsOK' /\ run'[g].pc = "end" /\ \A h \in Goroutines \ {g} : run'[h] = run[h]
    BY <1>2, <2>1, RunGoTo DEF TypeOK, FadePCs, LoadPCs
  <2>3. QED
    BY <1>2, <2>1, <2>2 DEF TypeOK, LoopOK, Goroutines
<1>3. QED
  BY <1>1, <1>2

LEMMA RunStartFade ==
    ASSUME TypeOK, NEW g \in Goroutines, NEW kind \in {"in", "out"}, NEW key \in Keys \cup {NoProgram},
           NEW next \in Keys \cup {NoWindow}, NEW vol \in {0, 1},
           StartFade(g, kind, key, next, vol), run[g].pc # "idle"
    PROVE  /\ RunsOK' /\ LoopOK' /\ fade' \in Fades
           /\ run'[g].pc = IF g = Loop THEN "idle" ELSE "end"
           /\ run'[fade'].pc = kind /\ ~run'[fade'].cancelled /\ fade' # g
           /\ run'[fade'].vol = vol /\ run'[fade'].next = next
           /\ g # Loop => run'[g].cancelled = run[g].cancelled
           /\ IF g = Loop THEN view' = NoView /\ seenFade' = NoFade ELSE UNCHANGED loopVars
           /\ run[fade'].pc = "idle" /\ Free(fade')
           /\ \A h \in Goroutines \ {g, fade'} : run'[h] = run[h]
<1> DEFINE f == CHOOSE c \in Fades : Free(c)
           new == [pc |-> kind, kind |-> kind, key |-> key, next |-> next, vol |-> vol, cancelled |-> FALSE]
           old == IF g = Loop THEN IdleRun ELSE [run[g] EXCEPT !.pc = "end"]
<1>1. f \in Fades /\ Free(f)
  BY DEF StartFade
<1>2. fade' = f /\ f # g /\ f # Loop /\ run[f].pc = "idle"
  BY <1>1, ConstantsOK DEF StartFade, Free, ConstantsOK
<1>3. /\ new \in Runs /\ new.pc = kind /\ new.cancelled = FALSE /\ new.pc \in FadePCs /\ new.pc \notin LoadPCs
      /\ new.vol = vol /\ new.next = next
  BY DEF Runs, FadePCs, LoadPCs
<1>4. /\ old \in Runs /\ old.pc = (IF g = Loop THEN "idle" ELSE "end")
      /\ g # Loop => old.cancelled = run[g].cancelled
  <2>1. run[g] \in Runs
    BY DEF TypeOK, RunsOK
  <2>2. /\ [run[g] EXCEPT !.pc = "end"] \in Runs /\ [run[g] EXCEPT !.pc = "end"].pc = "end"
        /\ [run[g] EXCEPT !.pc = "end"].cancelled = run[g].cancelled
    BY <2>1 DEF Runs, FadePCs
  <2>3. QED
    BY <2>2, IdleRunType
<1>5. run' = [run EXCEPT ![g] = old, ![f] = new]
  BY DEF StartFade
<1> HIDE DEF f, new, old
<1>6. /\ run'[g] = old /\ run'[f] = new /\ \A h \in Goroutines \ {g, f} : run'[h] = run[h]
      /\ run' \in [Goroutines -> Runs]
  BY <1>1, <1>2, <1>3, <1>4, <1>5 DEF TypeOK, RunsOK, Goroutines
<1>7. RunsOK'
  BY <1>1, <1>2, <1>3, <1>4, <1>6, ConstantsOK DEF TypeOK, RunsOK, Goroutines, LoopPCs, FadePCs, LoadPCs, ConstantsOK
<1>8. LoopOK'
  <2>1. CASE g = Loop
    BY <2>1, <1>4, <1>6, NoViewType DEF StartFade, LoopOK
  <2>2. CASE g # Loop
    <3>1. UNCHANGED <<view, seenFade>>
      BY <2>2 DEF StartFade, loopVars
    <3>2. run'[Loop] = run[Loop]
      BY <1>2, <1>6, <2>2 DEF Goroutines
    <3>3. QED
      BY <3>1, <3>2 DEF TypeOK, LoopOK
  <2>3. QED
    BY <2>1, <2>2
<1>9. IF g = Loop THEN view' = NoView /\ seenFade' = NoFade ELSE UNCHANGED loopVars
  BY DEF StartFade
<1>10. QED
  BY <1>1, <1>2, <1>3, <1>4, <1>6, <1>7, <1>8, <1>9

(***************************************************************************)
(* How the commands to MPD and the failure count change their variables.   *)
(***************************************************************************)
LEMMA CommandType ==
    ASSUME PlayerOK, NEW kind \in Intents, Command(kind)
    PROVE  PlayerOK'
<1>1. MPDAfter(kind) \in MPDs
  BY DEF PlayerOK, MPDAfter, MPDs, Intents
<1>2. QED
  BY <1>1 DEF Command, Record, PlayerOK

LEMMA SetVolumeType ==
    ASSUME mpd \in MPDs, NEW v \in {0, 1}, SetVolume(v)
    PROVE  mpd' \in MPDs
BY DEF SetVolume, MPDs

LEMMA LoadType ==
    ASSUME PlayerOK, NEW queue \in Sources \cup {Selection, Empty}, NEW vol \in {0, 1},
           NEW song \in {"none", "more", "last"}, Load(queue, vol, song)
    PROVE  PlayerOK'
<1>1. mpd' \in MPDs
  BY DEF Load, MPDs, Intents
<1>2. gen' \in Nat
  BY DEF Load, PlayerOK
<1>3. intent' \in [kind : Intents \cup {"none"}, gen : Nat, final : BOOLEAN]
  BY <1>2 DEF Load, PlayerOK, Intents
<1>4. QED
  BY <1>1, <1>2, <1>3 DEF PlayerOK

LEMMA BrokenLoadType ==
    ASSUME PlayerOK, BrokenLoad
    PROVE  PlayerOK'
BY DEF BrokenLoad, PlayerOK, MPDs, Intents

LEMMA NoteFailuresType ==
    ASSUME RetryOK, NEW n \in Nat, NoteFailures(n)
    PROVE  RetryOK'
<1>1. failures' \in 0..4
  BY DEF RetryOK, NoteFailures
<1>2. retryWait' \in BOOLEAN
  BY DEF RetryOK, NoteFailures
<1>3. QED
  BY <1>1, <1>2 DEF RetryOK

LEMMA ResetFailuresType ==
    ASSUME ResetFailures
    PROVE  RetryOK'
<1>1. failures' \in 0..4
  BY DEF ResetFailures
<1>2. retryWait' \in BOOLEAN
  BY DEF ResetFailures
<1>3. QED
  BY <1>1, <1>2 DEF RetryOK

LEMMA TryPlayType ==
    ASSUME PlayerOK, RetryOK, NEW st, TryPlay(st)
    PROVE  PlayerOK' /\ RetryOK'
<1>1. CASE retryWait
  BY <1>1 DEF TryPlay, playerVars, retryVars, PlayerOK, RetryOK
<1>2. CASE ~retryWait
  <2>1. RetryOK'
    BY <1>2, NoteFailuresType DEF TryPlay
  <2>2. PlayerOK'
    BY <1>2, CommandType DEF TryPlay, playerVars, PlayerOK, Intents
  <2>3. QED
    BY <2>1, <2>2
<1>3. QED
  BY <1>1, <1>2

(***************************************************************************)
(* TypeOK, action by action.                                               *)
(***************************************************************************)
LEMMA UnchangedParts ==
    /\ ClockOK /\ UNCHANGED clockVars => ClockOK'
    /\ PlayerOK /\ UNCHANGED playerVars => PlayerOK'
    /\ RetryOK /\ UNCHANGED retryVars => RetryOK'
    /\ LoopOK /\ UNCHANGED loopVars /\ run'[Loop] = run[Loop] => LoopOK'
    /\ CallersOK /\ UNCHANGED person => CallersOK'
<1>1. ClockOK /\ UNCHANGED clockVars => ClockOK'
  BY DEF ClockOK, clockVars
<1>2. PlayerOK /\ UNCHANGED playerVars => PlayerOK'
  BY DEF PlayerOK, playerVars
<1>3. RetryOK /\ UNCHANGED retryVars => RetryOK'
  BY DEF RetryOK, retryVars
<1>4. LoopOK /\ UNCHANGED loopVars /\ run'[Loop] = run[Loop] => LoopOK'
  BY DEF LoopOK, loopVars
<1>5. CallersOK /\ UNCHANGED person => CallersOK'
  BY DEF CallersOK
<1>6. QED
  BY <1>1, <1>2, <1>3, <1>4, <1>5

LEMMA FaultType == ClockOK /\ Fault => ClockOK'
BY ConstantsOK DEF ClockOK, Fault, ConstantsOK

LEMMA TypeFade ==
    ASSUME TypeOK, NEW f \in Fades,
           \/ FadeOutStart(f) \/ FadeOutSteps(f) \/ FadeOutStop(f) \/ FadeOutRestore(f)
           \/ FadeOutDone(f) \/ FadeInEnds(f) \/ FadeEnds(f)
    PROVE  TypeOK'
<1> USE DEF TypeOK
<1>0. f \in Goroutines /\ f # Loop /\ run[f] \in Runs /\ run[f].vol \in {0, 1}
  BY ConstantsOK DEF Goroutines, ConstantsOK, RunsOK, Runs
<1>1. CASE FadeOutStart(f)
  <2> DEFINE r == [run[f] EXCEPT !.pc = IF avail = "down" THEN "out_done"
                                        ELSE IF FadeOut /\ mpd.vol > 0 THEN "out_step" ELSE "out_stop",
                                 !.vol = IF avail = "down" THEN @ ELSE mpd.vol]
  <2>1. mpd.vol \in {0, 1}
    BY DEF PlayerOK, MPDs
  <2>2. r \in Runs /\ r.pc \in FadePCs /\ r.pc \notin LoadPCs
    BY <1>0, <2>1 DEF Runs, FadePCs, LoadPCs
  <2>3. run' = [run EXCEPT ![f] = r]
    BY <1>1 DEF FadeOutStart
  <2> HIDE DEF r
  <2>4. RunsOK' /\ \A h \in Goroutines \ {f} : run'[h] = run[h]
    BY <1>0, <2>2, <2>3, RunSet
  <2>5. QED
    BY <1>0, <1>1, <2>4, UnchangedParts DEF FadeOutStart, Goroutines
<1>2. CASE FadeOutSteps(f)
  <2>1. RunsOK' /\ \A h \in Goroutines \ {f} : run'[h] = run[h]
    BY <1>0, <1>2, RunGoTo DEF FadeOutSteps, GoTo, FadePCs, LoadPCs
  <2>2. PlayerOK'
    BY <1>2, SetVolumeType DEF FadeOutSteps, PlayerOK
  <2>3. QED
    BY <1>0, <1>2, <2>1, <2>2, UnchangedParts DEF FadeOutSteps, GoTo, Goroutines
<1>3. CASE FadeOutStop(f)
  <2>1. RunsOK' /\ \A h \in Goroutines \ {f} : run'[h] = run[h]
    BY <1>0, <1>3, RunGoTo DEF FadeOutStop, GoTo, FadePCs, LoadPCs
  <2>2. PlayerOK'
    BY <1>0, <1>3, SetVolumeType, CommandType, UnchangedParts DEF FadeOutStop, PlayerOK, Intents
  <2>3. UNCHANGED loopVars
    BY <1>3 DEF FadeOutStop, GoTo
  <2>4. QED
    BY <1>0, <1>3, <2>1, <2>2, <2>3, UnchangedParts DEF FadeOutStop, Goroutines
<1>4. CASE FadeOutRestore(f)
  <2>1. RunsOK' /\ \A h \in Goroutines \ {f} : run'[h] = run[h]
    BY <1>0, <1>4, RunGoTo DEF FadeOutRestore, GoTo, FadePCs, LoadPCs
  <2>2. PlayerOK'
    BY <1>0, <1>4, SetVolumeType DEF FadeOutRestore, PlayerOK
  <2>3. QED
    BY <1>0, <1>4, <2>1, <2>2, UnchangedParts DEF FadeOutRestore, GoTo, Goroutines
<1>5. CASE FadeOutDone(f)
  <2>1. CASE Leave(f)
    <3>1. UNCHANGED <<clockVars, playerVars, override, suspended, fade, loaded, retryVars, person>>
      BY <1>5 DEF FadeOutDone
    <3>2. QED
      BY <1>0, <2>1, <3>1, RunLeave, UnchangedParts
  <2>2. CASE run[f].next # NoWindow /\ GoTo(f, "resolve")
    <3>1. RunsOK' /\ \A h \in Goroutines \ {f} : run'[h] = run[h]
      BY <1>0, <2>2, RunGoTo DEF GoTo, FadePCs, LoadPCs
    <3>2. QED
      BY <1>0, <1>5, <2>2, <3>1, UnchangedParts DEF FadeOutDone, GoTo, Goroutines
  <2>3. QED
    BY <1>5, <2>1, <2>2 DEF FadeOutDone
<1>6. CASE FadeInEnds(f)
  <2>1. PlayerOK'
    BY <1>0, <1>6, SetVolumeType DEF FadeInEnds, PlayerOK
  <2>2. QED
    BY <1>0, <1>6, <2>1, RunLeave, UnchangedParts DEF FadeInEnds
<1>7. CASE FadeEnds(f)
  <2>1. RunsOK' /\ \A h \in Goroutines \ {f} : run'[h] = run[h]
    BY <1>0, <1>7, RunSet, IdleRunType DEF FadeEnds, FadePCs, LoadPCs
  <2>2. QED
    BY <1>0, <1>7, <2>1, UnchangedParts DEF FadeEnds, Goroutines
<1>8. QED
  BY <1>1, <1>2, <1>3, <1>4, <1>5, <1>6, <1>7

LEMMA TypeLoad ==
    ASSUME TypeOK, NEW g \in Goroutines, LoadSteps(g)
    PROVE  TypeOK'
<1> USE DEF TypeOK
<1>0. /\ run[g] \in Runs /\ run[g].vol \in {0, 1} /\ mpd.vol \in {0, 1}
      /\ run[g].pc \in LoadPCs => run[g].next \in Keys
  <2>1. run[g] \in Runs /\ (run[g].pc \in LoadPCs => run[g].next # NoWindow)
    BY DEF RunsOK
  <2>2. QED
    BY <2>1 DEF Runs, PlayerOK, MPDs
<1>1. CASE Resolve(g)
  <2>1. CASE Leave(g)
    <3>1. UNCHANGED <<playerVars, override, suspended, fade, loaded, person>>
      BY <1>1 DEF Resolve
    <3>2. RetryOK' /\ ClockOK'
      <4>1. CASE UNCHANGED <<retryVars, clockVars>>
        BY <4>1, UnchangedParts
      <4>2. CASE Fault /\ NoteFailures(1)
        BY <4>2, FaultType, NoteFailuresType
      <4>3. QED
        BY <1>1, <4>1, <4>2 DEF Resolve
    <3>3. QED
      BY <2>1, <3>1, <3>2, RunLeave, UnchangedParts
  <2>2. CASE ~Leave(g)
    <3> DEFINE r == [run[g] EXCEPT !.pc = "load", !.vol = IF ProgramVolume \/ avail = "down" THEN 1 ELSE mpd.vol]
    <3>1. run' = [run EXCEPT ![g] = r] /\ UNCHANGED <<retryVars, clockVars, loopVars>>
      BY <1>1, <2>2 DEF Resolve
    <3>2. r \in Runs /\ r.pc = "load" /\ r.next = run[g].next
      BY <1>0 DEF Runs, LoopPCs, FadePCs, LoadPCs
    <3>3. r.next # NoWindow
      BY <1>0, <1>1, <3>2 DEF Resolve, LoadPCs, Keys
    <3> HIDE DEF r
    <3>4. RunsOK' /\ run'[g] = r /\ \A h \in Goroutines \ {g} : run'[h] = run[h]
      BY <3>1, <3>2, <3>3, RunSet DEF LoopPCs, FadePCs, LoadPCs
    <3>5. LoopOK'
      BY <3>1, <3>2, <3>4 DEF LoopOK, loopVars, Goroutines
    <3>6. QED
      BY <1>1, <3>1, <3>4, <3>5, UnchangedParts DEF Resolve
  <2>3. QED
    BY <2>1, <2>2
<1>2. CASE LoadProgram(g)
  <2>1. CASE Leave(g)
    <3>1. UNCHANGED <<override, suspended, fade, loaded, person>>
      BY <1>2 DEF LoadProgram
    <3>2. RunsOK' /\ LoopOK' /\ run'[g].pc = IF g = Loop THEN "idle" ELSE "end"
      BY <2>1, RunLeave
    <3>3. ~GoTo(g, "loaded")
      <4>1. GoTo(g, "loaded") => run'[g].pc = "loaded"
        BY <1>0 DEF GoTo, RunsOK, Runs
      <4>2. QED
        BY <3>2, <4>1
    <3>4. NoteFailures(1) /\ (UNCHANGED <<playerVars, clockVars>> \/ (Fault /\ BrokenLoad))
      BY <1>2, <3>3, Zenon DEF LoadProgram
    <3>5. RetryOK' /\ ClockOK' /\ PlayerOK'
      BY <3>4, NoteFailuresType, FaultType, BrokenLoadType, UnchangedParts
    <3>6. QED
      BY <3>1, <3>2, <3>5, UnchangedParts
  <2>2. CASE GoTo(g, "loaded") /\ ~Leave(g)
    <3>1. /\ UNCHANGED <<override, suspended, fade, loaded, person>>
          /\ UNCHANGED <<retryVars, clockVars>>
          /\ Load(SourceOf[run[g].next], IF FadeIn THEN 0 ELSE run[g].vol, "more")
      BY <1>2, <2>2 DEF LoadProgram
    <3>2. SourceOf[run[g].next] \in Sources /\ run[g].next # NoWindow
      BY <1>0, <1>2 DEF LoadProgram, LoadPCs, Sources, Keys
    <3>3. PlayerOK'
      BY <1>0, <3>1, <3>2, LoadType
    <3>4. RunsOK' /\ run'[g].pc = "loaded" /\ \A h \in Goroutines \ {g} : run'[h] = run[h]
      BY <2>2, <3>2, RunGoTo DEF GoTo, LoopPCs, FadePCs, LoadPCs
    <3>5. LoopOK'
      BY <2>2, <3>4 DEF GoTo, LoopOK, loopVars, Goroutines
    <3>6. QED
      BY <3>1, <3>3, <3>4, <3>5, UnchangedParts
  <2>3. QED
    BY <1>2, <2>1, <2>2 DEF LoadProgram
<1>3. CASE SetLoaded(g)
  <2>1. UNCHANGED <<clockVars, playerVars, override, suspended, fade, person>> /\ ResetFailures
    BY <1>3 DEF SetLoaded
  <2>2. loaded' \in [key : Keys \cup {NoProgram}, gen : Nat]
    BY <1>0, <1>3 DEF SetLoaded, LoadPCs, PlayerOK
  <2>3. RunsOK' /\ LoopOK'
    <3>1. CASE GoTo(g, "start_in")
      <4>1. run[g].next # NoWindow
        BY <1>0, <1>3 DEF SetLoaded, LoadPCs, Keys
      <4>2. RunsOK' /\ run'[g].pc = "start_in" /\ \A h \in Goroutines \ {g} : run'[h] = run[h]
        BY <3>1, <4>1, RunGoTo DEF GoTo, LoopPCs, FadePCs, LoadPCs
      <4>3. QED
        BY <3>1, <4>2 DEF GoTo, LoopOK, loopVars, Goroutines
    <3>2. CASE Leave(g)
      BY <3>2, RunLeave
    <3>3. QED
      BY <1>3, <3>1, <3>2 DEF SetLoaded
  <2>4. QED
    BY <2>1, <2>2, <2>3, ResetFailuresType, UnchangedParts
<1>4. CASE StartFadeIn(g)
  <2>1. UNCHANGED <<clockVars, playerVars, override, suspended, loaded, retryVars, person>>
    BY <1>4 DEF StartFadeIn
  <2>2. RunsOK' /\ LoopOK' /\ fade' \in Fades
    BY <1>0, <1>4, RunStartFade DEF StartFadeIn, LoadPCs
  <2>3. QED
    BY <2>1, <2>2, UnchangedParts
<1>5. QED
  BY <1>1, <1>2, <1>3, <1>4 DEF LoadSteps

\* A step of the loop from one place of Tick to another that neither loads nor enforces.
LEMMA LoopGoTo ==
    ASSUME TypeOK, NEW pc \in LoopPCs \ (LoadPCs \cup {"enforce"}),
           run' = [run EXCEPT ![Loop].pc = pc]
    PROVE  RunsOK' /\ run'[Loop].pc = pc /\ \A f \in Fades : run'[f] = run[f]
<1>1. Loop \in Goroutines /\ \A f \in Fades : f \in Goroutines \ {Loop}
  BY ConstantsOK DEF Goroutines, ConstantsOK
<1>2. QED
  BY <1>1, RunGoTo DEF TypeOK

LEMMA SnapshotType ==
    ASSUME TypeOK
    PROVE  /\ Snapshot \in Views
           /\ Snapshot.expired = (override # NoOverride /\ ~Active(override))
           /\ Snapshot.owner = "OVERRIDDEN" => Snapshot.over # NoOverride
<1>1. Active(override) \in BOOLEAN /\ (Active(override) => override # NoOverride)
  BY DEF Active
<1>2. Sched[now] \in Keys \cup {NoWindow}
  BY ConstantsOK DEF TypeOK, ClockOK, Slots, Keys, ConstantsOK
<1>3. Stopped \in Statuses
  BY DEF Stopped, Statuses, Intents
<1>4. override \in Overrides \cup {NoOverride}
  BY DEF TypeOK
<1>5. QED
  BY <1>1, <1>2, <1>3, <1>4 DEF Snapshot, Views

LEMMA StatusType == PlayerOK => Status \in Statuses
BY DEF PlayerOK, MPDs, Status, Statuses

LEMMA TypeTick ==
    ASSUME TypeOK,
           \/ TickStart \/ TickSnapshot \/ TickClearExpired \/ TickReadFade \/ TickStatus
           \/ TickCancelFade \/ TickFadeGone
    PROVE  TypeOK'
<1> USE DEF TypeOK
<1>0. Loop \in Goroutines /\ view \in Views /\ seenFade \in Fades \cup {NoFade}
  BY DEF Goroutines, LoopOK
<1>1. CASE TickStart
  <2>1. RunsOK' /\ run'[Loop].pc = "snapshot"
    BY <1>1, LoopGoTo DEF TickStart, GoTo, LoopPCs, LoadPCs
  <2>2. LoopOK'
    BY <1>1, <2>1 DEF TickStart, GoTo, LoopOK, loopVars
  <2>3. QED
    BY <1>1, <2>1, <2>2, UnchangedParts DEF TickStart
<1>2. CASE TickSnapshot
  <2>1. RunsOK' /\ run'[Loop].pc \in {"expire", "fade"}
    BY <1>2, LoopGoTo DEF TickSnapshot, LoopPCs, LoadPCs
  <2>2. LoopOK'
    BY <1>0, <1>2, <2>1, SnapshotType DEF TickSnapshot, LoopOK
  <2>3. QED
    BY <1>2, <2>1, <2>2, UnchangedParts DEF TickSnapshot
<1>3. CASE TickClearExpired
  <2>1. RunsOK' /\ run'[Loop].pc = "fade"
    BY <1>3, LoopGoTo DEF TickClearExpired, GoTo, LoopPCs, LoadPCs
  <2>2. LoopOK'
    BY <1>3, <2>1 DEF TickClearExpired, GoTo, LoopOK, loopVars
  <2>3. QED
    BY <1>3, <2>1, <2>2, UnchangedParts DEF TickClearExpired
<1>4. CASE TickReadFade
  <2>1. RunsOK' /\ run'[Loop].pc \in {"cancel", "status"}
    BY <1>4, LoopGoTo DEF TickReadFade, LoopPCs, LoadPCs
  <2>2. LoopOK'
    BY <1>4, <2>1 DEF TickReadFade, LoopOK
  <2>3. QED
    BY <1>4, <2>1, <2>2, UnchangedParts DEF TickReadFade
<1>5. CASE TickStatus
  <2>0. UNCHANGED <<clockVars, playerVars, override, suspended, fade, loaded, retryVars, person>>
    BY <1>5 DEF TickStatus
  <2>1. CASE Leave(Loop)
    BY <1>0, <2>0, <2>1, RunLeave, UnchangedParts
  <2>2. CASE GoTo(Loop, "cancel")
    <3>1. RunsOK' /\ run'[Loop].pc = "cancel"
      BY <2>2, LoopGoTo DEF GoTo, LoopPCs, LoadPCs
    <3>2. LoopOK'
      BY <2>2, <3>1 DEF GoTo, LoopOK, loopVars
    <3>3. QED
      BY <2>0, <3>1, <3>2, UnchangedParts
  <2>3. CASE /\ view' = [view EXCEPT !.st = Status]
             /\ run' = [run EXCEPT ![Loop].pc = IF view.owner = "OVERRIDDEN" THEN "enforce" ELSE "decide"]
             /\ UNCHANGED seenFade
    <3> DEFINE pc == IF view.owner = "OVERRIDDEN" THEN "enforce" ELSE "decide"
    <3>1. pc \in LoopPCs /\ pc \notin LoadPCs
      BY DEF LoopPCs, LoadPCs
    <3>2. RunsOK' /\ run'[Loop].pc = pc
      BY <1>0, <2>3, <3>1, RunGoTo
    <3>3. view' \in Views /\ view'.owner = view.owner /\ view'.over = view.over
      BY <1>0, <2>3, StatusType DEF Views
    <3>4. LoopOK'
      BY <1>0, <2>3, <3>2, <3>3 DEF LoopOK
    <3>5. QED
      BY <2>0, <3>2, <3>4, UnchangedParts
  <2>4. QED
    BY <1>5, <2>1, <2>2, <2>3 DEF TickStatus
<1>6. CASE TickCancelFade
  <2> DEFINE f == IF seenFade = NoFade THEN fade ELSE seenFade
  <2>0. UNCHANGED <<clockVars, playerVars, override, suspended, loaded, retryVars, person>>
    BY <1>6 DEF TickCancelFade
  <2>1. CASE Recorded(f)
    <3>1. /\ f \in Fades /\ f \in Goroutines /\ f # Loop
          /\ fade' = NoFade /\ seenFade' = f /\ UNCHANGED view
          /\ run' = [CancelledRun(f) EXCEPT ![Loop].pc = "wait"]
      BY <1>6, <2>1, ConstantsOK DEF TickCancelFade, Recorded, Goroutines, ConstantsOK
    <3> HIDE DEF f
    <3>2. CancelledRun(f) = [run EXCEPT ![f] = [run[f] EXCEPT !.cancelled = TRUE]]
      BY DEF CancelledRun
    <3>3. /\ [run[f] EXCEPT !.cancelled = TRUE] \in Runs
          /\ [run[f] EXCEPT !.cancelled = TRUE].pc = run[f].pc
          /\ [run[f] EXCEPT !.cancelled = TRUE].next = run[f].next
      BY <3>1 DEF RunsOK, Runs
    <3>4. [run[Loop] EXCEPT !.pc = "wait"] \in Runs /\ [run[Loop] EXCEPT !.pc = "wait"].pc = "wait"
      BY <1>0 DEF RunsOK, Runs, LoopPCs
    <3>5. /\ run'[f] = [run[f] EXCEPT !.cancelled = TRUE] /\ run'[Loop] = [run[Loop] EXCEPT !.pc = "wait"]
          /\ run' \in [Goroutines -> Runs] /\ \A g \in Goroutines \ {f, Loop} : run'[g] = run[g]
      BY <1>0, <3>1, <3>2, <3>3, <3>4 DEF RunsOK
    <3>6. RunsOK'
      <4>1. \A h \in Fades : run'[h].pc = run[h].pc /\ run'[h].next = run[h].next
        BY <3>3, <3>5, ConstantsOK DEF Goroutines, ConstantsOK
      <4>2. run'[Loop].pc = "wait"
        BY <3>4, <3>5
      <4>3. \A h \in Fades : run'[h].pc \in FadePCs
        BY <4>1 DEF RunsOK
      <4>4. \A h \in Goroutines : run'[h].pc \in LoadPCs => run'[h].next # NoWindow
        BY <4>1, <4>2 DEF RunsOK, Goroutines, LoadPCs
      <4>5. QED
        BY <3>5, <4>2, <4>3, <4>4 DEF RunsOK, LoopPCs
    <3>7. LoopOK'
      BY <3>1, <3>4, <3>5 DEF LoopOK
    <3>8. QED
      BY <2>0, <3>1, <3>6, <3>7, UnchangedParts
  <2>2. CASE ~Recorded(f)
    <3>1. Leave(Loop) /\ UNCHANGED fade
      BY <1>6, <2>2 DEF TickCancelFade
    <3>2. QED
      BY <1>0, <2>0, <3>1, RunLeave, UnchangedParts
  <2>3. QED
    BY <2>1, <2>2
<1>7. CASE TickFadeGone
  BY <1>0, <1>7, RunLeave, UnchangedParts DEF TickFadeGone
<1>8. QED
  BY <1>1, <1>2, <1>3, <1>4, <1>5, <1>6, <1>7

LEMMA TypeEnforce ==
    ASSUME TypeOK, TickEnforce
    PROVE  TypeOK'
<1> USE DEF TypeOK
<1>1. Leave(Loop) /\ UNCHANGED <<clockVars, suspended, fade, loaded, person>>
  BY DEF TickEnforce
<1>2. RunsOK' /\ LoopOK'
  BY <1>1, RunLeave DEF Goroutines
<1>3. view.over.intent \in Intents
  BY DEF TickEnforce, LoopOK, Views, Overrides
<1>4. \/ UNCHANGED <<playerVars, retryVars>>
      \/ TryPlay(view.st)
      \/ Command(view.over.intent) /\ UNCHANGED retryVars
  BY DEF TickEnforce
<1>5. PlayerOK' /\ RetryOK'
  BY <1>3, <1>4, TryPlayType, CommandType, UnchangedParts
<1>6. override' \in Overrides \cup {NoOverride}
  BY DEF TickEnforce
<1>7. QED
  BY <1>1, <1>2, <1>5, <1>6, UnchangedParts

LEMMA TypeDecide ==
    ASSUME TypeOK, TickDecide
    PROVE  TypeOK'
<1> USE DEF TypeOK
<1> DEFINE want == view.want
<1>0. /\ Loop \in Goroutines /\ run[Loop].pc # "idle" /\ want \in Keys \cup {NoWindow}
      /\ loaded.key \in Keys \cup {NoProgram}
      /\ UNCHANGED <<clockVars, override, suspended, person>>
  BY DEF TickDecide, Goroutines, LoopOK, Views
<1>1. CASE StartFade(Loop, "out", loaded.key, want, 0) /\ UNCHANGED <<playerVars, loaded, retryVars>>
  <2>1. RunsOK' /\ LoopOK' /\ fade' \in Fades
    BY <1>0, <1>1, RunStartFade
  <2>2. QED
    BY <1>0, <1>1, <2>1, UnchangedParts
<1>2. CASE /\ want # NoWindow /\ run' = [run EXCEPT ![Loop].pc = "resolve", ![Loop].next = want]
           /\ UNCHANGED <<playerVars, fade, loaded, retryVars, loopVars>>
  <2> DEFINE r == [run[Loop] EXCEPT !.pc = "resolve", !.next = want]
  <2>1. r \in Runs /\ r.pc = "resolve" /\ r.next = want
    BY <1>0 DEF RunsOK, Runs, LoopPCs, LoadPCs
  <2>2. run' = [run EXCEPT ![Loop] = r]
    BY <1>2
  <2> HIDE DEF r
  <2>3. RunsOK' /\ run'[Loop] = r
    BY <1>0, <1>2, <2>1, <2>2, RunSet DEF LoopPCs, LoadPCs
  <2>4. LoopOK'
    BY <1>2, <2>1, <2>3 DEF LoopOK, loopVars
  <2>5. QED
    BY <1>0, <1>2, <2>3, <2>4, UnchangedParts
<1>3. CASE /\ want # NoWindow /\ loaded' = [loaded EXCEPT !.key = want]
           /\ IF ProgramVolume THEN SetVolume(1) ELSE UNCHANGED mpd
           /\ Leave(Loop) /\ UNCHANGED <<gen, intent, fade, retryVars>>
  <2>1. mpd' \in MPDs
    BY <1>3, SetVolumeType DEF PlayerOK
  <2>2. PlayerOK'
    BY <1>3, <2>1 DEF PlayerOK
  <2>3. loaded' \in [key : Keys \cup {NoProgram}, gen : Nat]
    BY <1>0, <1>3
  <2>4. QED
    BY <1>0, <1>3, <2>2, <2>3, RunLeave, UnchangedParts
<1>4. CASE /\ Leave(Loop) /\ UNCHANGED <<fade, loaded>>
           /\ \/ UNCHANGED <<mpd, retryVars, intent, gen>>
              \/ TryPlay(view.st)
              \/ ResetFailures /\ UNCHANGED playerVars
  <2>1. PlayerOK' /\ RetryOK'
    <3>1. CASE UNCHANGED <<mpd, retryVars, intent, gen>>
      BY <3>1, UnchangedParts DEF playerVars
    <3>2. CASE TryPlay(view.st)
      BY <3>2, TryPlayType
    <3>3. CASE ResetFailures /\ UNCHANGED playerVars
      BY <3>3, ResetFailuresType, UnchangedParts
    <3>4. QED
      BY <1>4, <3>1, <3>2, <3>3
  <2>2. QED
    BY <1>0, <1>4, <2>1, RunLeave, UnchangedParts
<1>5. QED
  BY <1>1, <1>2, <1>3, <1>4, Zenon DEF TickDecide

\* What a caller's next record has to be for CallersOK to go on holding.
LEMMA CallerSet ==
    ASSUME CallersOK, NEW p \in Persons, NEW c \in Callers,
           c.pc \in SuspendPCs \cup {"release"} => c.req.op \in {"transport", "play_now"},
           c.pc \in SuspendPCs \cup {"store", "release"} => c.req \in AllRequests,
           c.pc = "store" => c.req.op \in {"transport", "play_now", "post"},
           c.pc = "wait" => c.fade \in Fades,
           person' = [person EXCEPT ![p] = c]
    PROVE  CallersOK' /\ person'[p] = c /\ \A q \in Persons \ {p} : person'[q] = person[q]
BY DEF CallersOK

LEMMA CallerAt ==
    ASSUME CallersOK, NEW p \in Persons, NEW pc \in (SuspendPCs \ {"wait"}) \cup {"release"},
           person[p].pc \in SuspendPCs, PersonAt(p, pc)
    PROVE  /\ CallersOK' /\ person'[p].pc = pc /\ person'[p].req = person[p].req
           /\ \A q \in Persons \ {p} : person'[q] = person[q]
<1> DEFINE c == [person[p] EXCEPT !.pc = pc]
<1>1. c \in Callers /\ c.pc = pc /\ c.req = person[p].req
  BY DEF CallersOK, Callers, SuspendPCs
<1>2. person' = [person EXCEPT ![p] = c]
  BY DEF PersonAt
<1>3. c.req.op \in {"transport", "play_now"} /\ c.req \in AllRequests
  BY <1>1 DEF CallersOK
<1>4. c.pc # "wait" /\ c.pc # "store"
  BY <1>1 DEF SuspendPCs
<1> HIDE DEF c
<1>5. QED
  BY <1>1, <1>2, <1>3, <1>4, CallerSet

LEMMA IdlerType == Idler \in Callers /\ Idler.pc = "idle"
BY DEF Idler, Callers, NoRequest

LEMMA TypePerson ==
    ASSUME TypeOK, NEW p \in Persons, PersonSteps(p), person[p].pc = "release" => suspended # 0
    PROVE  TypeOK'
<1> USE DEF TypeOK
<1>0. /\ person[p] \in Callers
      /\ person[p].pc = "store" => person[p].req.op \in {"transport", "play_now", "post"}
      /\ person[p].pc \in SuspendPCs \cup {"release"} => person[p].req.op \in {"transport", "play_now"}
      /\ person[p].pc \in SuspendPCs \cup {"store", "release"} => person[p].req \in AllRequests
  BY DEF CallersOK
<1>1. CASE SuspendCancelFade(p)
  <2>0. UNCHANGED <<clockVars, playerVars, override, suspended, loaded, retryVars, loopVars>>
    BY <1>1 DEF SuspendCancelFade
  <2>1. CASE fade = NoFade
    <3>1. CallersOK' /\ UNCHANGED <<fade, run>>
      BY <1>1, <2>1, CallerAt DEF SuspendCancelFade, SuspendPCs
    <3>2. QED
      BY <2>0, <3>1, UnchangedParts DEF RunsOK
  <2>2. CASE fade # NoFade
    <3> DEFINE r == [run[fade] EXCEPT !.cancelled = TRUE]
               c == [person[p] EXCEPT !.pc = "wait", !.fade = fade]
    <3>1. fade \in Fades /\ fade \in Goroutines /\ fade # Loop
      BY <2>2, ConstantsOK DEF Goroutines, ConstantsOK
    <3>2. r \in Runs /\ r.pc = run[fade].pc /\ r.next = run[fade].next
      BY <3>1 DEF RunsOK, Runs
    <3>3. run' = [run EXCEPT ![fade] = r]
      BY <1>1, <2>2 DEF SuspendCancelFade, CancelledRun
    <3>4. r.pc \in FadePCs /\ (r.pc \in LoadPCs => r.next # NoWindow)
      BY <3>1, <3>2 DEF RunsOK
    <3>5. c \in Callers /\ c.pc = "wait" /\ c.fade = fade /\ c.req = person[p].req
      BY <1>0, <3>1 DEF Callers, SuspendPCs
    <3>6. person' = [person EXCEPT ![p] = c] /\ fade' = NoFade /\ person[p].pc = "cancel"
      BY <1>1, <2>2 DEF SuspendCancelFade
    <3> HIDE DEF r, c
    <3>7. RunsOK' /\ run'[Loop] = run[Loop]
      BY <3>1, <3>2, <3>3, <3>4, RunSet DEF Goroutines
    <3>8. CallersOK'
      BY <1>0, <3>1, <3>5, <3>6, CallerSet DEF SuspendPCs
    <3>9. QED
      BY <2>0, <3>6, <3>7, <3>8, UnchangedParts
  <2>3. QED
    BY <2>1, <2>2
<1>2. CASE SuspendFadeGone(p)
  <2> DEFINE c == [person[p] EXCEPT !.pc = "handshake", !.fade = NoFade]
  <2>1. c \in Callers /\ c.pc = "handshake" /\ c.req = person[p].req
    BY <1>0 DEF Callers, SuspendPCs
  <2>2. person' = [person EXCEPT ![p] = c] /\ person[p].pc = "wait"
    BY <1>2 DEF SuspendFadeGone
  <2> HIDE DEF c
  <2>3. CallersOK'
    BY <1>0, <2>1, <2>2, CallerSet DEF SuspendPCs
  <2>4. QED
    BY <1>2, <2>3, UnchangedParts DEF SuspendFadeGone, RunsOK
<1>3. CASE SuspendHandshake(p)
  <2>1. CallersOK'
    BY <1>3, CallerAt DEF SuspendHandshake, SuspendPCs
  <2>2. QED
    BY <1>3, <2>1, UnchangedParts DEF SuspendHandshake, RunsOK
<1>4. CASE Act(p)
  <2>0. /\ UNCHANGED <<override, suspended, fade, loaded, retryVars, run, loopVars>>
        /\ person[p].pc = "act" /\ \E pc \in {"release", "hold", "forget"} : PersonAt(p, pc)
    BY <1>4 DEF Act
  <2>1. CallersOK'
    BY <2>0, CallerAt DEF SuspendPCs
  <2>2. person[p].req.intent \in Intents /\ mpd.vol \in {0, 1}
    BY <1>0, <2>0 DEF AllRequests, SuspendPCs, PlayerOK, MPDs
  <2>3. \/ UNCHANGED <<playerVars, clockVars>>
        \/ Command(person[p].req.intent) /\ UNCHANGED clockVars
        \/ (\E song \in {"more", "last"} : Load(Selection, mpd.vol, song)) /\ UNCHANGED clockVars
        \/ Fault /\ BrokenLoad
    BY <1>4, Zenon DEF Act
  <2>4. PlayerOK' /\ ClockOK'
    BY <2>2, <2>3, CommandType, LoadType, BrokenLoadType, FaultType, UnchangedParts
  <2>5. QED
    BY <2>0, <2>1, <2>4, UnchangedParts DEF RunsOK
<1>5. CASE ForgetProgram(p)
  <2>1. CallersOK'
    BY <1>5, CallerAt DEF ForgetProgram, SuspendPCs
  <2>2. loaded' \in [key : Keys \cup {NoProgram}, gen : Nat]
    BY <1>5 DEF ForgetProgram, Unloaded
  <2>3. QED
    BY <1>5, <2>1, <2>2, UnchangedParts DEF ForgetProgram, RunsOK
<1>6. CASE ReadHold(p)
  <2>0. person[p].pc = "hold" /\ person[p].pc \in SuspendPCs
    BY <1>6 DEF ReadHold, SuspendPCs
  <2>1. CallersOK'
    <3>1. CASE PersonAt(p, "release")
      BY <2>0, <3>1, CallerAt
    <3>2. ASSUME NEW o \in Overrides \cup {NoOverride},
                 person' = [person EXCEPT ![p].pc = "store", ![p].over = o]
          PROVE  CallersOK'
      <4> DEFINE c == [person[p] EXCEPT !.pc = "store", !.over = o]
      <4>1. c \in Callers /\ c.pc = "store" /\ c.req = person[p].req
        BY <1>0 DEF Callers
      <4>2. person' = [person EXCEPT ![p] = c]
        BY <3>2
      <4> HIDE DEF c
      <4>3. QED
        BY <1>0, <2>0, <4>1, <4>2, CallerSet DEF SuspendPCs
    <3>3. QED
      BY <1>6, <3>1, <3>2 DEF ReadHold
  <2>2. QED
    BY <1>6, <2>1, UnchangedParts DEF ReadHold, RunsOK
<1>7. CASE StoreOverride(p)
  <2> DEFINE r == person[p].req
             c == IF r.op = "post" THEN Idler ELSE [person[p] EXCEPT !.pc = "release", !.over = NoOverride]
  <2>0. /\ person[p].pc = "store" /\ r \in AllRequests /\ person[p].over \in Overrides \cup {NoOverride}
        /\ now \in Slots /\ now + 1 \in Nat /\ gen \in Nat
    BY <1>0, <1>7 DEF StoreOverride, Callers, ClockOK, PlayerOK, Slots
  <2>1. override' \in Overrides
    <3>1. CASE person[p].over # NoOverride
      BY <1>7, <2>0, <3>1 DEF StoreOverride, Overrides, AllRequests
    <3>2. CASE person[p].over = NoOverride
      BY <1>7, <2>0, <3>2 DEF StoreOverride, Overrides, AllRequests
    <3>3. QED
      BY <3>1, <3>2
  <2>2. CallersOK'
    <3>1. CASE r.op = "post"
      <4>1. person' = [person EXCEPT ![p] = Idler]
        BY <1>7, <3>1 DEF StoreOverride
      <4>2. QED
        BY <4>1, IdlerType, CallerSet DEF SuspendPCs
    <3>2. CASE r.op # "post"
      <4> DEFINE d == [person[p] EXCEPT !.pc = "release", !.over = NoOverride]
      <4>1. person' = [person EXCEPT ![p] = d]
        BY <1>7, <3>2 DEF StoreOverride
      <4>2. d \in Callers /\ d.pc = "release" /\ d.req = r
        BY <1>0 DEF Callers
      <4>3. r.op \in {"transport", "play_now"}
        BY <1>0, <2>0, <3>2
      <4> HIDE DEF d
      <4>4. QED
        BY <2>0, <4>1, <4>2, <4>3, CallerSet DEF SuspendPCs
    <3>3. QED
      BY <3>1, <3>2
  <2>3. QED
    BY <1>7, <2>1, <2>2, UnchangedParts DEF StoreOverride, RunsOK
<1>8. CASE Release(p)
  <2>1. CallersOK'
    BY <1>8, IdlerType, CallerSet DEF Release, SuspendPCs
  <2>2. suspended' \in Nat
    BY <1>8 DEF Release
  <2>3. QED
    BY <1>8, <2>1, <2>2, UnchangedParts DEF Release, RunsOK
<1>9. CASE SwitchedOff(p)
  <2>1. CallersOK'
    BY <1>9, IdlerType, CallerSet DEF SwitchedOff, SuspendPCs
  <2>2. QED
    BY <1>9, <2>1, UnchangedParts DEF SwitchedOff, RunsOK
<1>10. QED
  BY <1>1, <1>2, <1>3, <1>4, <1>5, <1>6, <1>7, <1>8, <1>9 DEF PersonSteps

LEMMA RequestsType == ASSUME ClockOK, requests < MaxRequests PROVE requests + 1 \in 0..MaxRequests
BY ConstantsOK DEF ClockOK, ConstantsOK

LEMMA TypeRequest ==
    ASSUME TypeOK, NEW p \in Persons, NEW r \in Requests, Request(p, r)
    PROVE  TypeOK'
<1> USE DEF TypeOK
<1>0. /\ r \in AllRequests /\ person[p] \in Callers /\ person[p].pc = "idle"
      /\ requests < MaxRequests /\ requests' = requests + 1
  BY ConstantsOK DEF ConstantsOK, CallersOK, Request, Suspend, PostOverride, DeleteOverride, SwitchScheduler, Asks
<1>1. requests' \in 0..MaxRequests
  BY <1>0, RequestsType
<1>2. CASE Suspend(p, r)
  <2> DEFINE c == [person[p] EXCEPT !.pc = "cancel", !.req = r]
  <2>1. c \in Callers /\ c.pc = "cancel" /\ c.req = r
    BY <1>0 DEF Callers, SuspendPCs
  <2>2. person' = [person EXCEPT ![p] = c] /\ r.op \in {"transport", "play_now"}
    BY <1>2 DEF Suspend
  <2> HIDE DEF c
  <2>3. CallersOK'
    BY <1>0, <2>1, <2>2, CallerSet DEF SuspendPCs
  <2>4. suspended' \in Nat
    BY <1>2 DEF Suspend
  <2>5. ClockOK'
    BY <1>1, <1>2 DEF Suspend, ClockOK
  <2>6. QED
    BY <1>2, <2>3, <2>4, <2>5, UnchangedParts DEF Suspend, RunsOK
<1>3. CASE PostOverride(p, r)
  <2> DEFINE c == [person[p] EXCEPT !.pc = "store", !.req = r]
  <2>1. c \in Callers /\ c.pc = "store" /\ c.req = r
    BY <1>0 DEF Callers
  <2>2. person' = [person EXCEPT ![p] = c] /\ r.op = "post"
    BY <1>3 DEF PostOverride
  <2> HIDE DEF c
  <2>3. CallersOK'
    BY <1>0, <2>1, <2>2, CallerSet DEF SuspendPCs
  <2>4. ClockOK'
    BY <1>1, <1>3 DEF PostOverride, ClockOK
  <2>5. QED
    BY <1>3, <2>3, <2>4, UnchangedParts DEF PostOverride, RunsOK
<1>4. CASE DeleteOverride(p, r)
  <2>1. ClockOK'
    BY <1>1, <1>4 DEF DeleteOverride, ClockOK
  <2>2. QED
    BY <1>4, <2>1, UnchangedParts DEF DeleteOverride, RunsOK
<1>5. CASE SwitchScheduler(p, r)
  <2>1. now \in Slots /\ avail' = avail /\ avail \in {"ok", "away", "down"} /\ faults' \in 0..MaxFaults /\ now' = now
    BY <1>5 DEF SwitchScheduler, ClockOK
  <2>2. enabled' \in BOOLEAN
    BY <1>5 DEF SwitchScheduler
  <2>3. ClockOK'
    BY <1>1, <2>1, <2>2 DEF ClockOK
  <2>4. CallersOK'
    <3>1. CASE UNCHANGED person
      BY <3>1, UnchangedParts
    <3>2. CASE PersonAt(p, "switched_off")
      <4> DEFINE c == [person[p] EXCEPT !.pc = "switched_off"]
      <4>1. c \in Callers /\ c.pc = "switched_off"
        BY <1>0 DEF Callers
      <4>2. person' = [person EXCEPT ![p] = c]
        BY <3>2 DEF PersonAt
      <4> HIDE DEF c
      <4>3. QED
        BY <4>1, <4>2, CallerSet DEF SuspendPCs
    <3>3. QED
      BY <1>5, <3>1, <3>2 DEF SwitchScheduler
  <2>5. QED
    BY <1>5, <2>3, <2>4, UnchangedParts DEF SwitchScheduler, RunsOK
<1>6. QED
  BY <1>2, <1>3, <1>4, <1>5 DEF Request

LEMMA TypeEnvironment ==
    ASSUME TypeOK, Environment
    PROVE  TypeOK'
<1> USE DEF TypeOK
<1>0. UNCHANGED <<gen, override, suspended, fade, loaded, run, loopVars, person>>
  BY DEF Environment, AdvanceTime, RetryElapses, MusicAdvances, NoteSong, OutputFails, ComesBack, GoesAway,
         playerVars, clockVars
<1>1. mpd \in MPDs /\ now \in Slots /\ now \in Nat
  BY DEF PlayerOK, ClockOK, Slots
<1>2. ClockOK'
  <2>1. CASE AdvanceTime
    <3>1. now' \in Slots
      BY <1>1, <2>1, ConstantsOK DEF AdvanceTime, Slots, ConstantsOK
    <3>2. QED
      BY <2>1, <3>1 DEF AdvanceTime, ClockOK
  <2>2. CASE OutputFails
    BY <2>2, FaultType DEF OutputFails
  <2>3. ASSUME NEW a \in {"away", "down"}, GoesAway(a)
        PROVE  ClockOK'
    <3>1. faults' \in 0..MaxFaults /\ avail' \in {"ok", "away", "down"}
      BY <2>3, ConstantsOK DEF GoesAway, ClockOK, ConstantsOK
    <3>2. QED
      BY <2>3, <3>1 DEF GoesAway, ClockOK
  <2>4. CASE ComesBack
    BY <2>4 DEF ComesBack, ClockOK
  <2>5. CASE UNCHANGED clockVars
    BY <2>5, UnchangedParts
  <2>6. QED
    BY <2>1, <2>2, <2>3, <2>4, <2>5 DEF Environment, RetryElapses, MusicAdvances, NoteSong
<1>3. PlayerOK'
  <2>1. CASE MusicAdvances
    <3>1. mpd' \in MPDs
      BY <1>1, <2>1 DEF MusicAdvances, MPDs, Intents
    <3>2. QED
      BY <2>1, <3>1 DEF MusicAdvances, PlayerOK
  <2>2. CASE NoteSong
    <3>1. intent' \in [kind : Intents \cup {"none"}, gen : Nat, final : BOOLEAN]
      BY <2>2 DEF NoteSong, PlayerOK
    <3>2. QED
      BY <2>2, <3>1 DEF NoteSong, PlayerOK
  <2>3. CASE OutputFails
    <3>1. mpd' \in MPDs
      BY <1>1, <2>3 DEF OutputFails, MPDs, Intents
    <3>2. QED
      BY <2>3, <3>1 DEF OutputFails, PlayerOK
  <2>4. ASSUME NEW a \in {"away", "down"}, GoesAway(a)
        PROVE  PlayerOK'
    <3>1. mpd' \in MPDs
      BY <1>1, <2>4 DEF GoesAway, MPDs, Intents
    <3>2. QED
      BY <2>4, <3>1 DEF GoesAway, PlayerOK
  <2>5. CASE UNCHANGED playerVars
    BY <2>5, UnchangedParts
  <2>6. QED
    BY <2>1, <2>2, <2>3, <2>4, <2>5 DEF Environment, AdvanceTime, RetryElapses, ComesBack
<1>4. RetryOK'
  <2>1. CASE RetryElapses
    <3>1. failures' \in 0..4 /\ retryWait' = FALSE
      BY <2>1 DEF RetryElapses, RetryOK
    <3>2. QED
      BY <3>1 DEF RetryOK
  <2>2. CASE UNCHANGED retryVars
    BY <2>2, UnchangedParts
  <2>3. QED
    BY <2>1, <2>2 DEF Environment, AdvanceTime, MusicAdvances, NoteSong, OutputFails, GoesAway, ComesBack
<1>5. QED
  BY <1>0, <1>2, <1>3, <1>4, UnchangedParts DEF RunsOK

\* The program that New loads is one of the schedule, or none, and MPD has its queue.
LEMMA InitProgram ==
    ASSUME Init
    PROVE  /\ loaded \in [key : Keys \cup {NoProgram}, gen : Nat]
           /\ mpd \in MPDs /\ mpd.vol = 1
<1>1. PICK key \in {NoProgram} \cup ({Sched[t] : t \in 1..now} \ {NoWindow}) :
          loaded = [key |-> key, gen |-> 0] /\ mpd = Restored(key)
  BY DEF Init
<1>2. key = NoProgram \/ key \in Keys
  <2>1. now \in Slots /\ Len(Sched) \in Nat
    BY ConstantsOK DEF Init, ConstantsOK
  <2>2. \A t \in 1..now : t \in Slots
    BY <2>1 DEF Slots
  <2> QED
    BY <1>1, <2>2 DEF Keys
<1>3. key # NoProgram => SourceOf[key] \in Sources
  BY <1>2 DEF Sources
<1>4. mpd \in MPDs /\ mpd.vol = 1
  <2>1. CASE key = NoProgram
    BY <1>1, <2>1 DEF Restored, MPDs, Intents
  <2>2. CASE key # NoProgram
    BY <1>1, <1>3, <2>2 DEF Restored, MPDs, Intents
  <2> QED
    BY <2>1, <2>2
<1> QED
  BY <1>1, <1>2, <1>4

LEMMA InitType == Init => TypeOK
<1> SUFFICES ASSUME Init PROVE TypeOK
  OBVIOUS
<1>1. ClockOK
  <2>1. now \in Slots
    BY DEF Init
  <2>2. requests \in 0..MaxRequests /\ faults \in 0..MaxFaults
    BY ConstantsOK DEF Init, ConstantsOK
  <2>3. QED
    BY <2>1, <2>2 DEF Init, ClockOK
<1>2. PlayerOK
  <2>1. mpd \in MPDs
    BY InitProgram
  <2>2. intent \in [kind : Intents \cup {"none"}, gen : Nat, final : BOOLEAN]
    BY DEF Init
  <2>3. gen \in Nat
    BY DEF Init
  <2>4. QED
    BY <2>1, <2>2, <2>3 DEF PlayerOK
<1>3. RetryOK
  <2>1. failures \in 0..4
    BY DEF Init
  <2>2. QED
    BY <2>1 DEF Init, RetryOK
<1>4. RunsOK
  <2>1. \A g \in Goroutines : run[g] = IdleRun
    BY DEF Init
  <2>2. QED
    BY <2>1, IdleRunType DEF Init, RunsOK, Goroutines, LoopPCs, FadePCs, LoadPCs
<1>5. LoopOK
  <2>1. run[Loop] = IdleRun
    BY DEF Init, Goroutines
  <2>2. QED
    BY <2>1, IdleRunType, NoViewType DEF Init, LoopOK
<1>6. CallersOK
  BY IdlerType DEF Init, CallersOK, SuspendPCs
<1>7. loaded \in [key : Keys \cup {NoProgram}, gen : Nat] /\ suspended \in Nat
  BY InitProgram DEF Init
<1>8. QED
  BY <1>1, <1>2, <1>3, <1>4, <1>5, <1>6, <1>7 DEF Init, TypeOK

(***************************************************************************)
(* Suspend and release.  LoopIsHeld alone is not inductive: that a release *)
(* takes back only its own count, so that the count is not zero while some *)
(* caller is between Suspend and release, is SuspendedCounts.              *)
(***************************************************************************)
IInv == TypeOK /\ SuspendedCounts /\ LoopIsHeld

LEMMA SuspendersFinite == IsFiniteSet({p \in Persons : Suspending(p)})
BY ConstantsOK, FS_Subset DEF ConstantsOK

LEMMA SuspendersPositive ==
    ASSUME SuspendedCounts, NEW p \in Persons, Suspending(p)
    PROVE  suspended # 0
<1>1. {q \in Persons : Suspending(q)} # {}
  OBVIOUS
<1>2. QED
  BY <1>1, SuspendersFinite, FS_EmptySet DEF SuspendedCounts

\* What one step of a caller does to the callers and to the loop.
LEMMA CallerStep ==
    ASSUME TypeOK, NEW p \in Persons, PersonSteps(p) \/ \E r \in Requests : Request(p, r)
    PROVE  /\ \A q \in Persons \ {p} : person'[q] = person[q]
           /\ run'[Loop] = run[Loop]
<1>1. person \in [Persons -> Callers] /\ run \in [Goroutines -> Runs] /\ Loop \in Goroutines
  BY DEF TypeOK, CallersOK, RunsOK, Goroutines
<1>2. \A q \in Persons \ {p} : person'[q] = person[q]
  <2>1. CASE SuspendCancelFade(p) \/ SuspendFadeGone(p) \/ SuspendHandshake(p)
    BY <1>1, <2>1 DEF SuspendCancelFade, SuspendFadeGone, SuspendHandshake, PersonAt
  <2>2. CASE Act(p)
    <3>1. \E pc \in {"release", "hold", "forget"} : PersonAt(p, pc)
      BY <2>2 DEF Act
    <3>2. QED
      BY <1>1, <3>1 DEF PersonAt
  <2>3. CASE ForgetProgram(p) \/ ReadHold(p) \/ StoreOverride(p)
    BY <1>1, <2>3 DEF ForgetProgram, ReadHold, StoreOverride, PersonAt
  <2>4. CASE Release(p) \/ SwitchedOff(p) \/ \E r \in Requests : Request(p, r)
    BY <1>1, <2>4 DEF Release, SwitchedOff, Request, Suspend, PostOverride, DeleteOverride, SwitchScheduler, PersonAt
  <2>5. QED
    BY <2>1, <2>2, <2>3, <2>4 DEF PersonSteps
<1>3. run'[Loop] = run[Loop]
  <2>1. CASE SuspendCancelFade(p) /\ fade # NoFade
    <3>1. fade \in Fades /\ fade # Loop /\ run' = [run EXCEPT ![fade].cancelled = TRUE]
      BY <2>1, ConstantsOK DEF SuspendCancelFade, CancelledRun, TypeOK, ConstantsOK
    <3>2. QED
      BY <1>1, <3>1
  <2>2. CASE UNCHANGED run
    BY <2>2
  <2>3. QED
    BY <2>1, <2>2 DEF PersonSteps, Request, SuspendCancelFade, SuspendFadeGone, SuspendHandshake, Act, ForgetProgram,
       ReadHold, StoreOverride, Release, SwitchedOff, Suspend, PostOverride, DeleteOverride, SwitchScheduler
<1>4. QED
  BY <1>2, <1>3

\* The steps of the loop, of the fades and of the world leave the callers and the count alone.
LEMMA OthersStep ==
    ASSUME TypeOK, TickStart \/ Tick \/ (\E f \in Fades : FadeSteps(f)) \/ Environment
    PROVE  UNCHANGED <<person, suspended>>
<1>1. CASE TickStart \/ Tick
  BY <1>1 DEF Tick, TickStart, TickSnapshot, TickClearExpired, TickReadFade, TickStatus, TickCancelFade, TickFadeGone,
     TickEnforce, TickDecide, LoadSteps, Resolve, LoadProgram, SetLoaded, StartFadeIn
<1>2. CASE \E f \in Fades : FadeSteps(f)
  BY <1>2 DEF FadeSteps, FadeOutStart, FadeOutSteps, FadeOutStop, FadeOutRestore, FadeOutDone, FadeInEnds, FadeEnds,
     LoadSteps, Resolve, LoadProgram, SetLoaded, StartFadeIn
<1>3. CASE Environment
  BY <1>3 DEF Environment, AdvanceTime, RetryElapses, MusicAdvances, NoteSong, OutputFails, ComesBack, GoesAway
<1>4. QED
  BY <1>1, <1>2, <1>3

\* Which caller is between Suspend and its release changes with these two only.
LEMMA SuspendingStep ==
    ASSUME TypeOK, NEW p \in Persons, PersonSteps(p) \/ \E r \in Requests : Request(p, r)
    PROVE  \/ /\ Suspending(p)' <=> Suspending(p)
              /\ UNCHANGED suspended
           \/ /\ ~Suspending(p) /\ Suspending(p)'
              /\ suspended' = suspended + 1
           \/ /\ Suspending(p) /\ ~Suspending(p)'
              /\ suspended' = suspended - 1
<1>0. person[p] \in Callers /\ person \in [Persons -> Callers]
      /\ (person[p].pc = "store" => person[p].req.op \in {"transport", "play_now", "post"})
      /\ (person[p].pc = "release" => person[p].req.op \in {"transport", "play_now"})
      /\ (person[p].pc \in SuspendPCs => person[p].req.op \in {"transport", "play_now"})
  BY DEF TypeOK, CallersOK
<1>1. CASE \E pc \in SuspendPCs \cup {"release"} : person[p].pc \in SuspendPCs /\ person'[p].pc = pc
                 /\ person'[p].req = person[p].req /\ UNCHANGED suspended
  BY <1>0, <1>1 DEF Suspending
<1>2. CASE SuspendCancelFade(p) \/ SuspendFadeGone(p) \/ SuspendHandshake(p) \/ Act(p) \/ ForgetProgram(p)
  <2>1. /\ UNCHANGED suspended /\ person[p].pc \in SuspendPCs
    BY <1>2 DEF SuspendCancelFade, SuspendFadeGone, SuspendHandshake, Act, ForgetProgram, SuspendPCs
  <2>2. CASE Act(p)
    <3>1. \E pc \in {"release", "hold", "forget"} : PersonAt(p, pc)
      BY <2>2 DEF Act
    <3>2. person'[p].req = person[p].req /\ person'[p].pc \in {"release", "hold", "forget"}
      BY <1>0, <3>1 DEF PersonAt, Callers
    <3>3. QED
      BY <1>1, <2>1, <3>2 DEF SuspendPCs
  <2>3. CASE ~Act(p)
    <3>1. person'[p].req = person[p].req /\ person'[p].pc \in {"wait", "handshake", "act", "hold"}
      BY <1>0, <1>2, <2>3 DEF PersonAt, Callers, SuspendCancelFade, SuspendFadeGone, SuspendHandshake, ForgetProgram
    <3>2. QED
      BY <1>1, <2>1, <3>1 DEF SuspendPCs
  <2>4. QED
    BY <2>2, <2>3
<1>3. CASE ReadHold(p)
  <2>1. person'[p].req = person[p].req /\ person'[p].pc \in {"release", "store"}
    BY <1>0, <1>3 DEF ReadHold, PersonAt, Callers
  <2>2. person[p].pc = "hold" /\ person[p].pc \in SuspendPCs /\ UNCHANGED suspended
    BY <1>3 DEF ReadHold, SuspendPCs
  <2>3. QED
    BY <1>0, <2>1, <2>2 DEF Suspending
<1>4. CASE StoreOverride(p)
  <2>1. person[p].pc = "store" /\ UNCHANGED suspended
    BY <1>4 DEF StoreOverride
  <2>2. CASE person[p].req.op = "post"
    <3>1. person'[p] = Idler
      BY <1>0, <1>4, <2>2 DEF StoreOverride
    <3>2. QED
      BY <2>1, <2>2, <3>1, IdlerType DEF Suspending, SuspendPCs
  <2>3. CASE person[p].req.op # "post"
    <3>1. person'[p].pc = "release" /\ person'[p].req = person[p].req
      BY <1>0, <1>4, <2>3 DEF StoreOverride, Callers
    <3>2. QED
      BY <2>1, <2>3, <3>1 DEF Suspending
  <2>4. QED
    BY <2>2, <2>3
<1>5. CASE Release(p)
  <2>1. person'[p] = Idler /\ person[p].pc = "release" /\ suspended' = suspended - 1
    BY <1>0, <1>5 DEF Release
  <2>2. QED
    BY <1>0, <2>1, IdlerType DEF Suspending, SuspendPCs
<1>6. CASE SwitchedOff(p)
  <2>1. person'[p] = Idler /\ person[p].pc = "switched_off" /\ UNCHANGED suspended
    BY <1>0, <1>6 DEF SwitchedOff
  <2>2. QED
    BY <2>1, IdlerType DEF Suspending, SuspendPCs
<1>7. CASE \E r \in Requests : Request(p, r)
  <2>1. PICK r \in Requests : Request(p, r)
    BY <1>7
  <2>2. person[p].pc = "idle"
    BY <2>1 DEF Request, Suspend, PostOverride, DeleteOverride, SwitchScheduler, Asks
  <2>3. ~Suspending(p)
    BY <2>2 DEF Suspending, SuspendPCs
  <2>4. CASE Suspend(p, r)
    <3>1. person'[p].pc = "cancel" /\ suspended' = suspended + 1
      BY <1>0, <2>4 DEF Suspend, Callers
    <3>2. QED
      BY <2>3, <3>1 DEF Suspending, SuspendPCs
  <2>5. CASE PostOverride(p, r)
    <3>1. person'[p].pc = "store" /\ person'[p].req.op = "post" /\ UNCHANGED suspended
      BY <1>0, <2>5 DEF PostOverride, Callers
    <3>2. QED
      BY <2>3, <3>1 DEF Suspending, SuspendPCs
  <2>6. CASE DeleteOverride(p, r)
    <3>1. UNCHANGED <<person, suspended>>
      BY <2>6 DEF DeleteOverride
    <3>2. QED
      BY <3>1 DEF Suspending
  <2>7. CASE SwitchScheduler(p, r)
    <3>1. person'[p].pc \in {"idle", "switched_off"} /\ UNCHANGED suspended
      BY <1>0, <2>2, <2>7 DEF SwitchScheduler, PersonAt, Callers
    <3>2. QED
      BY <2>3, <3>1 DEF Suspending, SuspendPCs
  <2>8. QED
    BY <2>1, <2>4, <2>5, <2>6, <2>7 DEF Request
<1>8. QED
  BY <1>2, <1>3, <1>4, <1>5, <1>6, <1>7 DEF PersonSteps

LEMMA CountsStep ==
    ASSUME TypeOK, SuspendedCounts, [Next]_vars
    PROVE  SuspendedCounts'
<1> DEFINE S == {q \in Persons : Suspending(q)}
           T == {q \in Persons : Suspending(q)'}
<1>0. /\ suspended = Cardinality(S) /\ IsFiniteSet(S) /\ Cardinality(S) \in Nat
      /\ S \subseteq Persons /\ T \subseteq Persons
  BY SuspendersFinite, FS_CardinalityType DEF SuspendedCounts
<1>1. SUFFICES suspended' = Cardinality(T)
  BY DEF SuspendedCounts
<1>2. CASE UNCHANGED <<person, suspended>>
  BY <1>0, <1>2 DEF Suspending
<1>3. ASSUME NEW p \in Persons, PersonSteps(p) \/ \E r \in Requests : Request(p, r)
      PROVE  suspended' = Cardinality(T)
  <2>1. \A q \in Persons \ {p} : Suspending(q)' <=> Suspending(q)
    BY <1>3, CallerStep DEF Suspending
  <2>2. CASE (Suspending(p)' <=> Suspending(p)) /\ UNCHANGED suspended
    <3>1. T = S
      BY <2>1, <2>2
    <3>2. QED
      BY <1>0, <2>2, <3>1
  <2>3. CASE ~Suspending(p) /\ Suspending(p)' /\ suspended' = suspended + 1
    <3>1. T = S \cup {p} /\ p \notin S
      BY <2>1, <2>3
    <3>2. QED
      BY <1>0, <2>3, <3>1, FS_AddElement
  <2>4. CASE Suspending(p) /\ ~Suspending(p)' /\ suspended' = suspended - 1
    <3>1. T = S \ {p} /\ p \in S
      BY <2>1, <2>4
    <3>2. QED
      BY <1>0, <2>4, <3>1, FS_RemoveElement
  <2>5. QED
    BY <1>3, <2>2, <2>3, <2>4, SuspendingStep
<1>4. QED
  BY <1>2, <1>3, OthersStep DEF Next, vars

\* The fades never move the loop.
LEMMA FadesLeaveLoop ==
    ASSUME TypeOK, NEW f \in Fades, FadeSteps(f)
    PROVE  run'[Loop] = run[Loop]
<1>1. run \in [Goroutines -> Runs] /\ Loop \in Goroutines /\ f \in Goroutines /\ f # Loop
  BY ConstantsOK DEF TypeOK, RunsOK, Goroutines, ConstantsOK
<1>2. CASE \E r : run' = [run EXCEPT ![f] = r]
  BY <1>1, <1>2
<1>3. CASE Leave(f)
  BY <1>1, <1>3, RunLeave
<1>4. CASE \E pc : GoTo(f, pc)
  BY <1>1, <1>4 DEF GoTo
<1>5. CASE StartFadeIn(f)
  <2>1. run[f].next \in Keys \cup {NoProgram, NoWindow} /\ run[f].pc = "start_in" /\ run[f].vol \in {0, 1}
    BY <1>1, <1>5 DEF StartFadeIn, Runs
  <2>2. run[f].next \in Keys
    BY <1>1, <2>1 DEF TypeOK, RunsOK, Runs, LoadPCs
  <2>3. fade' \in Fades /\ \A h \in Goroutines \ {f, fade'} : run'[h] = run[h]
    BY <1>1, <1>5, <2>1, <2>2, RunStartFade DEF StartFadeIn
  <2>4. QED
    BY <1>1, <2>3, ConstantsOK DEF ConstantsOK
<1>6. CASE FadeOutStart(f) \/ FadeEnds(f)
  BY <1>1, <1>6 DEF FadeOutStart, FadeEnds
<1>7. CASE FadeOutSteps(f) \/ FadeOutStop(f) \/ FadeOutRestore(f) \/ FadeOutDone(f) \/ FadeInEnds(f)
  BY <1>3, <1>4, <1>7 DEF FadeOutSteps, FadeOutStop, FadeOutRestore, FadeOutDone, FadeInEnds
<1>8. CASE Resolve(f)
  BY <1>1, <1>3, <1>8 DEF Resolve
<1>9. CASE LoadProgram(f) \/ SetLoaded(f)
  BY <1>3, <1>4, <1>9 DEF LoadProgram, SetLoaded
<1>10. QED
  BY <1>5, <1>6, <1>7, <1>8, <1>9 DEF FadeSteps, LoadSteps

LEMMA HeldStep ==
    ASSUME TypeOK, SuspendedCounts, LoopIsHeld, [Next]_vars
    PROVE  LoopIsHeld'
<1>0. \A p \in Persons : Holding(p) => Suspending(p)
  BY DEF Holding
<1>1. CASE UNCHANGED person /\ run'[Loop] = run[Loop]
  BY <1>1 DEF LoopIsHeld, Holding, Suspending
<1>2. CASE TickStart
  <2>1. suspended = 0 /\ UNCHANGED person
    BY <1>2 DEF TickStart
  <2>2. \A p \in Persons : ~Suspending(p)
    BY <2>1, SuspendersPositive
  <2>3. QED
    BY <1>0, <2>1, <2>2 DEF LoopIsHeld, Holding, Suspending
<1>3. CASE Tick
  <2>1. run[Loop].pc # "idle"
    BY <1>3 DEF Tick, TickSnapshot, TickClearExpired, TickReadFade, TickStatus, TickCancelFade, TickFadeGone,
       TickEnforce, TickDecide, LoadSteps, Resolve, LoadProgram, SetLoaded, StartFadeIn
  <2>2. \A p \in Persons : ~Holding(p)
    BY <2>1 DEF LoopIsHeld
  <2>3. UNCHANGED person
    BY <1>3, OthersStep
  <2>4. QED
    BY <2>2, <2>3 DEF LoopIsHeld, Holding, Suspending
<1>4. CASE \E f \in Fades : FadeSteps(f)
  BY <1>1, <1>4, OthersStep, FadesLeaveLoop
<1>5. CASE Environment
  <2>1. UNCHANGED run
    BY <1>5 DEF Environment, AdvanceTime, RetryElapses, MusicAdvances, NoteSong, OutputFails, ComesBack, GoesAway
  <2>2. QED
    BY <1>1, <1>5, <2>1, OthersStep
<1>6. ASSUME NEW p \in Persons, PersonSteps(p) \/ \E r \in Requests : Request(p, r)
      PROVE  LoopIsHeld'
  <2>1. run'[Loop] = run[Loop] /\ \A q \in Persons \ {p} : person'[q] = person[q]
    BY <1>6, CallerStep
  <2>2. \A q \in Persons \ {p} : Holding(q)' => run'[Loop].pc = "idle"
    BY <2>1 DEF LoopIsHeld, Holding, Suspending
  <2>3. Holding(p)' => Holding(p) \/ run[Loop].pc = "idle"
    <3>1. CASE SuspendHandshake(p)
      BY <3>1 DEF SuspendHandshake
    <3>2. CASE SuspendCancelFade(p) \/ SuspendFadeGone(p)
      <4>1. person'[p].pc \in {"wait", "handshake"}
        BY <3>2 DEF SuspendCancelFade, SuspendFadeGone, PersonAt, TypeOK, CallersOK, Callers
      <4>2. QED
        BY <4>1 DEF Holding
    <3>3. CASE Act(p) \/ ForgetProgram(p) \/ ReadHold(p)
      <4>1. person[p].pc \in {"act", "forget", "hold"}
        BY <3>3 DEF Act, ForgetProgram, ReadHold
      <4>2. QED
        BY <4>1 DEF Holding, Suspending, SuspendPCs
    <3>4. CASE StoreOverride(p) \/ Release(p)
      <4>1. person[p].pc \in {"store", "release"}
        BY <3>4 DEF StoreOverride, Release
      <4>2. Suspending(p)' => Suspending(p)
        <5>1. UNCHANGED suspended \/ suspended' = suspended - 1
          BY <3>4 DEF StoreOverride, Release
        <5>2. suspended \in Nat
          BY DEF TypeOK
        <5>3. suspended' # suspended + 1
          BY <5>1, <5>2
        <5>4. QED
          BY <1>6, <5>3, SuspendingStep
      <4>3. QED
        BY <4>1, <4>2 DEF Holding
    <3>5. CASE SwitchedOff(p) \/ \E r \in Requests : Request(p, r)
      <4>1. person'[p].pc \in {"idle", "cancel", "switched_off"} \/ (person'[p].pc = "store" /\ person'[p].req.op = "post")
        BY <3>5 DEF SwitchedOff, Request, Suspend, PostOverride, DeleteOverride, SwitchScheduler, PersonAt, Asks, Idler,
           TypeOK, CallersOK, Callers
      <4>2. QED
        BY <4>1 DEF Holding, Suspending, SuspendPCs
    <3>6. QED
      BY <1>6, <3>1, <3>2, <3>3, <3>4, <3>5 DEF PersonSteps
  <2>4. Holding(p)' => run'[Loop].pc = "idle"
    BY <2>1, <2>3 DEF LoopIsHeld
  <2>5. QED
    BY <2>2, <2>4 DEF LoopIsHeld
<1>7. CASE UNCHANGED vars
  BY <1>1, <1>7 DEF vars
<1>8. QED
  BY <1>2, <1>3, <1>4, <1>5, <1>6, <1>7 DEF Next

LEMMA TypeStep ==
    ASSUME TypeOK, SuspendedCounts, [Next]_vars
    PROVE  TypeOK'
<1>1. CASE TickStart \/ Tick
  BY <1>1, TypeTick, TypeEnforce, TypeDecide, TypeLoad DEF Tick, Goroutines
<1>2. ASSUME NEW f \in Fades, FadeSteps(f) PROVE TypeOK'
  BY <1>2, TypeFade, TypeLoad DEF FadeSteps, Goroutines
<1>3. ASSUME NEW p \in Persons, PersonSteps(p) PROVE TypeOK'
  <2>1. person[p].pc = "release" => Suspending(p)
    BY DEF Suspending, TypeOK, CallersOK
  <2>2. QED
    BY <1>3, <2>1, SuspendersPositive, TypePerson
<1>4. ASSUME NEW p \in Persons, NEW r \in Requests, Request(p, r) PROVE TypeOK'
  BY <1>4, TypeRequest
<1>5. CASE Environment
  BY <1>5, TypeEnvironment
<1>6. CASE UNCHANGED vars
  BY <1>6, UnchangedParts DEF vars, TypeOK, RunsOK
<1>7. QED
  BY <1>1, <1>2, <1>3, <1>4, <1>5, <1>6 DEF Next

LEMMA InitInductive == Init => IInv
<1> SUFFICES ASSUME Init PROVE IInv
  OBVIOUS
<1>1. TypeOK
  BY InitType
<1>2. \A p \in Persons : ~Suspending(p)
  BY IdlerType DEF Init, Suspending, SuspendPCs
<1>3. {p \in Persons : Suspending(p)} = {}
  BY <1>2
<1>4. SuspendedCounts
  BY <1>3, FS_EmptySet DEF Init, SuspendedCounts
<1>5. LoopIsHeld
  BY <1>2 DEF LoopIsHeld, Holding
<1>6. QED
  BY <1>1, <1>4, <1>5 DEF IInv

\* The inductive invariant holds in every reachable state.
THEOREM Inductive == Spec => []IInv
<1>1. Init => IInv
  BY InitInductive
<1>2. IInv /\ [Next]_vars => IInv'
  BY TypeStep, CountsStep, HeldStep DEF IInv
<1>3. QED
  BY <1>1, <1>2, PTL DEF Spec

\* Every reachable state has the shape TypeOK gives it: in particular the suspended count never goes
\* below zero, whoever calls, and a goroutine that loads a program has one to load.
THEOREM TypeCorrect == Spec => []TypeOK
<1>1. IInv => TypeOK
  BY DEF IInv
<1>2. QED
  BY <1>1, Inductive, PTL

\* Suspend and its release keep the loop out: while any number of callers hold it, in whatever order
\* they came and go, no tick is under way (Suspend and Tick of scheduler.go).
THEOREM LoopHeld == Spec => []LoopIsHeld
<1>1. IInv => LoopIsHeld
  BY DEF IInv
<1>2. QED
  BY <1>1, Inductive, PTL

\* The count is exactly the number of callers between Suspend and release, for any number of them.
THEOREM CountExact == Spec => []SuspendedCounts
<1>1. IInv => SuspendedCounts
  BY DEF IInv
<1>2. QED
  BY <1>1, Inductive, PTL

(***************************************************************************)
(* The fades.  What one step does to the record of its goroutine, to the   *)
(* recorded fade and to what the tick read.                                *)
(***************************************************************************)
LEMMA GoToFields ==
    ASSUME TypeOK, NEW g \in Goroutines, NEW pc, GoTo(g, pc)
    PROVE  /\ run'[g].pc = pc /\ run'[g].cancelled = run[g].cancelled
           /\ run'[g].vol = run[g].vol /\ run'[g].next = run[g].next
           /\ \A h \in Goroutines \ {g} : run'[h] = run[h]
           /\ UNCHANGED loopVars
<1>1. run \in [Goroutines -> Runs] /\ run[g] \in Runs
  BY DEF TypeOK, RunsOK
<1>2. QED
  BY <1>1 DEF GoTo, Runs

LEMMA LeaveFields ==
    ASSUME TypeOK, NEW g \in Goroutines, Leave(g)
    PROVE  /\ run'[g].pc = IF g = Loop THEN "idle" ELSE "end"
           /\ g # Loop => run'[g].cancelled = run[g].cancelled /\ UNCHANGED loopVars
           /\ g = Loop => view' = NoView /\ seenFade' = NoFade
           /\ \A h \in Goroutines \ {g} : run'[h] = run[h]
<1>1. run \in [Goroutines -> Runs] /\ run[g] \in Runs
  BY DEF TypeOK, RunsOK
<1>2. g # Loop => run'[g].cancelled = run[g].cancelled
  BY <1>1 DEF Leave, Runs
<1>3. QED
  BY <1>2, RunLeave DEF Leave

LEMMA StartFadeInFields ==
    ASSUME TypeOK, NEW g \in Goroutines, StartFadeIn(g)
    PROVE  /\ fade' \in Fades /\ fade' # g /\ run[fade'].pc = "idle" /\ Free(fade')
           /\ run'[g].pc = IF g = Loop THEN "idle" ELSE "end"
           /\ run'[fade'].pc = "in" /\ ~run'[fade'].cancelled /\ run'[fade'].vol = run[g].vol
           /\ g # Loop => run'[g].cancelled = run[g].cancelled
           /\ IF g = Loop THEN view' = NoView /\ seenFade' = NoFade ELSE UNCHANGED loopVars
           /\ \A h \in Goroutines \ {g, fade'} : run'[h] = run[h]
<1>1. run[g] \in Runs /\ run[g].pc = "start_in" /\ run[g].next # NoWindow
  BY DEF StartFadeIn, TypeOK, RunsOK, LoadPCs
<1>2. run[g].next \in Keys /\ run[g].vol \in {0, 1}
  BY <1>1 DEF Runs
<1>3. StartFade(g, "in", run[g].next, NoWindow, run[g].vol)
  BY DEF StartFadeIn
<1>4. QED
  BY <1>1, <1>2, <1>3, RunStartFade

\* A step of a fade moves the fade on, hands over to a fade-in, or ends the goroutine.
LEMMA FadeKinds ==
    ASSUME TypeOK, NEW f \in Fades, FadeSteps(f)
    PROVE  \/ /\ run[f].pc \notin {"idle", "end"} /\ run'[f].pc # "idle"
              /\ run'[f].cancelled = run[f].cancelled
              /\ \A h \in Goroutines \ {f} : run'[h] = run[h]
              /\ UNCHANGED <<fade, loopVars>>
           \/ StartFadeIn(f)
           \/ FadeEnds(f)
<1>0. /\ f \in Goroutines /\ f # Loop /\ run \in [Goroutines -> Runs] /\ run[f] \in Runs
  BY ConstantsOK DEF Goroutines, ConstantsOK, TypeOK, RunsOK
<1>1. CASE FadeOutStart(f)
  <2>1. /\ run'[f].pc \in {"out_done", "out_step", "out_stop"} /\ run'[f].cancelled = run[f].cancelled
        /\ \A h \in Goroutines \ {f} : run'[h] = run[h]
    BY <1>0, <1>1 DEF FadeOutStart, Runs
  <2>2. QED
    BY <1>1, <2>1 DEF FadeOutStart
<1>2. CASE FadeOutSteps(f) \/ FadeOutRestore(f)
  <2>1. \E pc \in {"out_stop", "out_done"} : GoTo(f, pc)
    BY <1>2 DEF FadeOutSteps, FadeOutRestore
  <2>2. QED
    BY <1>0, <1>2, <2>1, GoToFields DEF FadeOutSteps, FadeOutRestore
<1>3. CASE FadeOutStop(f)
  <2>1. \E pc \in {"out_restore", "out_done"} : GoTo(f, pc)
    BY <1>3 DEF FadeOutStop
  <2>2. QED
    BY <1>0, <1>3, <2>1, GoToFields DEF FadeOutStop
<1>4. CASE FadeOutDone(f)
  <2>1. GoTo(f, "resolve") \/ Leave(f)
    BY <1>4 DEF FadeOutDone
  <2>2. QED
    BY <1>0, <1>4, <2>1, GoToFields, LeaveFields DEF FadeOutDone
<1>5. CASE FadeInEnds(f)
  BY <1>0, <1>5, LeaveFields DEF FadeInEnds
<1>6. CASE Resolve(f)
  <2>1. CASE Leave(f)
    BY <1>0, <1>6, <2>1, LeaveFields DEF Resolve
  <2>2. CASE ~Leave(f)
    <3>1. /\ run' = [run EXCEPT ![f].pc = "load",
                                ![f].vol = IF ProgramVolume \/ avail = "down" THEN 1 ELSE mpd.vol]
          /\ UNCHANGED <<fade, loopVars>> /\ run[f].pc = "resolve"
      BY <1>6, <2>2 DEF Resolve
    <3>2. run'[f].pc = "load" /\ run'[f].cancelled = run[f].cancelled /\ \A h \in Goroutines \ {f} : run'[h] = run[h]
      BY <1>0, <3>1 DEF Runs
    <3>3. QED
      BY <3>1, <3>2
  <2>3. QED
    BY <2>1, <2>2
<1>7. CASE LoadProgram(f)
  <2>1. GoTo(f, "loaded") \/ Leave(f)
    BY <1>7 DEF LoadProgram
  <2>2. QED
    BY <1>0, <1>7, <2>1, GoToFields, LeaveFields DEF LoadProgram
<1>8. CASE SetLoaded(f)
  <2>1. GoTo(f, "start_in") \/ Leave(f)
    BY <1>8 DEF SetLoaded
  <2>2. QED
    BY <1>0, <1>8, <2>1, GoToFields, LeaveFields DEF SetLoaded
<1>9. QED
  BY <1>1, <1>2, <1>3, <1>4, <1>5, <1>6, <1>7, <1>8 DEF FadeSteps, LoadSteps

\* A step of the loop leaves the fades alone, starts one, or cancels the one it read.
LEMMA TickKinds ==
    ASSUME TypeOK, TickStart \/ Tick
    PROVE  \/ /\ \A f \in Fades : run'[f] = run[f]
              /\ UNCHANGED fade /\ run'[Loop].pc # "wait"
           \/ run[Loop].pc = "decide" /\ StartFade(Loop, "out", loaded.key, view.want, 0)
           \/ StartFadeIn(Loop)
           \/ /\ run[Loop].pc = "cancel" /\ fade \in Fades /\ (seenFade # NoFade => fade = seenFade)
              /\ fade' = NoFade /\ seenFade' = fade /\ UNCHANGED view
              /\ run'[Loop].pc = "wait"
              /\ run'[fade].pc = run[fade].pc /\ run'[fade].cancelled
              /\ run'[fade].vol = run[fade].vol /\ run'[fade].next = run[fade].next
              /\ \A f \in Fades \ {fade} : run'[f] = run[f]
<1>0. /\ Loop \in Goroutines /\ run \in [Goroutines -> Runs] /\ \A f \in Fades : f \in Goroutines \ {Loop}
  BY ConstantsOK DEF Goroutines, ConstantsOK, TypeOK, RunsOK
<1>1. CASE Leave(Loop) /\ UNCHANGED fade
  BY <1>0, <1>1, LeaveFields
<1>2. ASSUME NEW pc, pc # "wait", GoTo(Loop, pc), UNCHANGED fade
      PROVE  (\A f \in Fades : run'[f] = run[f]) /\ UNCHANGED fade /\ run'[Loop].pc # "wait"
  BY <1>0, <1>2, GoToFields
<1>3. ASSUME NEW pc, pc # "wait", run' = [run EXCEPT ![Loop].pc = pc], UNCHANGED fade
      PROVE  (\A f \in Fades : run'[f] = run[f]) /\ UNCHANGED fade /\ run'[Loop].pc # "wait"
  BY <1>0, <1>3 DEF Runs
<1>4. CASE TickStart \/ TickClearExpired
  BY <1>2, <1>4 DEF TickStart, TickClearExpired
<1>5. CASE TickSnapshot \/ TickReadFade
  BY <1>3, <1>5 DEF TickSnapshot, TickReadFade
<1>6. CASE TickStatus
  BY <1>1, <1>2, <1>3, <1>6 DEF TickStatus
<1>7. CASE TickCancelFade
  <2> DEFINE f == IF seenFade = NoFade THEN fade ELSE seenFade
  <2>1. CASE ~Recorded(f)
    BY <1>1, <1>7, <2>1 DEF TickCancelFade
  <2>2. CASE Recorded(f)
    <3>1. /\ run[Loop].pc = "cancel" /\ fade \in Fades /\ (seenFade # NoFade => fade = seenFade)
          /\ fade' = NoFade /\ seenFade' = fade /\ UNCHANGED view
          /\ run' = [CancelledRun(fade) EXCEPT ![Loop].pc = "wait"]
      BY <1>7, <2>2 DEF TickCancelFade, Recorded, TypeOK
    <3>2. fade \in Goroutines \ {Loop} /\ run[fade] \in Runs
      BY <1>0, <3>1
    <3>3. /\ CancelledRun(fade) \in [Goroutines -> Runs]
          /\ CancelledRun(fade)[fade].pc = run[fade].pc /\ CancelledRun(fade)[fade].cancelled
          /\ CancelledRun(fade)[fade].vol = run[fade].vol /\ CancelledRun(fade)[fade].next = run[fade].next
          /\ \A h \in Goroutines \ {fade} : CancelledRun(fade)[h] = run[h]
      BY <1>0, <3>2 DEF CancelledRun, Runs
    <3> HIDE DEF f
    <3>4. /\ run'[Loop].pc = "wait"
          /\ \A h \in Goroutines \ {Loop} : run'[h] = CancelledRun(fade)[h]
      BY <1>0, <3>1, <3>3 DEF Runs
    <3>5. QED
      BY <1>0, <3>1, <3>2, <3>3, <3>4
  <2>3. QED
    BY <2>1, <2>2
<1>8. CASE TickFadeGone \/ TickEnforce
  BY <1>1, <1>8 DEF TickFadeGone, TickEnforce
<1>9. CASE TickDecide
  <2>1. CASE /\ view.want # NoWindow
             /\ run' = [run EXCEPT ![Loop].pc = "resolve", ![Loop].next = view.want] /\ UNCHANGED fade
    BY <1>0, <2>1 DEF Runs
  <2>2. \/ Leave(Loop) /\ UNCHANGED fade
        \/ run[Loop].pc = "decide" /\ StartFade(Loop, "out", loaded.key, view.want, 0)
        \/ /\ view.want # NoWindow
           /\ run' = [run EXCEPT ![Loop].pc = "resolve", ![Loop].next = view.want] /\ UNCHANGED fade
    BY <1>9, Zenon DEF TickDecide
  <2>3. QED
    BY <1>1, <2>1, <2>2
<1>10. CASE Resolve(Loop)
  <2>1. CASE Leave(Loop)
    BY <1>1, <1>10, <2>1 DEF Resolve
  <2>2. CASE ~Leave(Loop)
    <3>1. /\ run' = [run EXCEPT ![Loop].pc = "load",
                                ![Loop].vol = IF ProgramVolume \/ avail = "down" THEN 1 ELSE mpd.vol]
          /\ UNCHANGED fade
      BY <1>10, <2>2 DEF Resolve
    <3>2. QED
      BY <1>0, <3>1 DEF Runs
  <2>3. QED
    BY <2>1, <2>2
<1>11. CASE LoadProgram(Loop) \/ SetLoaded(Loop)
  BY <1>1, <1>2, <1>11 DEF LoadProgram, SetLoaded
<1>12. QED
  BY <1>4, <1>5, <1>6, <1>7, <1>8, <1>9, <1>10, <1>11 DEF Tick, LoadSteps

\* A caller touches the goroutines only to cancel the recorded fade, and then it waits for that one.
LEMMA CallerKinds ==
    ASSUME TypeOK, NEW p \in Persons, PersonSteps(p) \/ \E r \in Requests : Request(p, r)
    PROVE  /\ UNCHANGED loopVars
           /\ \/ UNCHANGED <<run, fade>> /\ person'[p].pc # "wait"
              \/ /\ person[p].pc = "cancel" /\ fade \in Fades /\ fade' = NoFade
                 /\ person'[p].fade = fade
                 /\ run'[fade].pc = run[fade].pc /\ run'[fade].cancelled
                 /\ \A h \in Goroutines \ {fade} : run'[h] = run[h]
<1>0. /\ person \in [Persons -> Callers] /\ person[p] \in Callers /\ run \in [Goroutines -> Runs]
      /\ Idler.pc = "idle"
  BY DEF TypeOK, CallersOK, RunsOK, Idler
<1>1. ASSUME NEW pc, pc # "wait", PersonAt(p, pc) PROVE person'[p].pc # "wait"
  BY <1>0, <1>1 DEF PersonAt, Callers
<1>2. CASE SuspendCancelFade(p)
  <2>1. CASE fade = NoFade
    BY <1>1, <1>2, <2>1 DEF SuspendCancelFade
  <2>2. CASE fade # NoFade
    <3>1. /\ person[p].pc = "cancel" /\ fade \in Fades /\ fade' = NoFade /\ UNCHANGED loopVars
          /\ run' = CancelledRun(fade) /\ person' = [person EXCEPT ![p].pc = "wait", ![p].fade = fade]
      BY <1>2, <2>2 DEF SuspendCancelFade, TypeOK
    <3>2. person'[p].fade = fade
      BY <1>0, <3>1 DEF Callers
    <3>3. /\ run'[fade].pc = run[fade].pc /\ run'[fade].cancelled
          /\ \A h \in Goroutines \ {fade} : run'[h] = run[h]
      BY <1>0, <3>1 DEF CancelledRun, Goroutines, Runs
    <3>4. QED
      BY <3>1, <3>2, <3>3
  <2>3. QED
    BY <2>1, <2>2
<1>3. CASE SuspendFadeGone(p)
  <2>1. person'[p].pc = "handshake"
    BY <1>0, <1>3 DEF SuspendFadeGone, Callers
  <2>2. QED
    BY <1>3, <2>1 DEF SuspendFadeGone
<1>4. CASE SuspendHandshake(p)
  BY <1>1, <1>4 DEF SuspendHandshake
<1>5. CASE Act(p)
  <2>1. \E pc \in {"release", "hold", "forget"} : PersonAt(p, pc)
    BY <1>5 DEF Act
  <2>2. QED
    BY <1>1, <1>5, <2>1 DEF Act
<1>6. CASE ForgetProgram(p)
  BY <1>1, <1>6 DEF ForgetProgram
<1>7. CASE ReadHold(p)
  <2>1. person'[p].pc \in {"release", "store"}
    BY <1>0, <1>7 DEF ReadHold, PersonAt, Callers
  <2>2. QED
    BY <1>7, <2>1 DEF ReadHold
<1>8. CASE StoreOverride(p)
  <2>1. person'[p].pc \in {"release", "idle"}
    BY <1>0, <1>8 DEF StoreOverride, Callers
  <2>2. QED
    BY <1>8, <2>1 DEF StoreOverride
<1>9. CASE Release(p) \/ SwitchedOff(p)
  BY <1>0, <1>9 DEF Release, SwitchedOff
<1>10. ASSUME NEW r \in Requests, Request(p, r)
       PROVE  UNCHANGED <<run, fade, loopVars>> /\ person'[p].pc # "wait"
  <2>1. person[p].pc = "idle"
    BY <1>10 DEF Request, Suspend, PostOverride, DeleteOverride, SwitchScheduler, Asks
  <2>2. UNCHANGED <<run, fade, loopVars>>
    BY <1>10 DEF Request, Suspend, PostOverride, DeleteOverride, SwitchScheduler
  <2>3. CASE Suspend(p, r) \/ PostOverride(p, r)
    BY <1>0, <2>2, <2>3 DEF Suspend, PostOverride, Callers
  <2>4. CASE DeleteOverride(p, r) \/ SwitchScheduler(p, r)
    BY <1>0, <1>1, <2>1, <2>2, <2>4 DEF DeleteOverride, SwitchScheduler
  <2>5. QED
    BY <1>10, <2>3, <2>4 DEF Request
<1>11. QED
  BY <1>2, <1>3, <1>4, <1>5, <1>6, <1>7, <1>8, <1>9, <1>10 DEF PersonSteps

\* The world does not touch the goroutines.
LEMMA WorldKinds == ASSUME Environment PROVE UNCHANGED <<run, fade, loopVars, loaded, gen, person>>
BY DEF Environment, AdvanceTime, RetryElapses, MusicAdvances, NoteSong, OutputFails, ComesBack, GoesAway, playerVars

\* A tick that waits, waits for a fade.
WaitsForOne == run[Loop].pc = "wait" => seenFade \in Fades

FadesInv == WaitsForOne /\ FadesAreReal

LEMMA FadesInvStep == TypeOK /\ FadesInv /\ [Next]_vars => FadesInv'
<1> SUFFICES ASSUME TypeOK, FadesInv, [Next]_vars PROVE FadesInv'
  OBVIOUS
<1> USE DEF FadesInv, FadesAreReal, RecordedFadeRuns, WaitedFadeStops, WaitsForOne
<1>0. /\ Loop \in Goroutines /\ Loop \notin Fades /\ NoFade \notin Fades /\ \A f \in Fades : f \in Goroutines
      /\ fade \in Fades \cup {NoFade} /\ seenFade \in Fades \cup {NoFade}
      /\ \A p \in Persons : person[p].pc = "wait" => person[p].fade \in Fades
  BY ConstantsOK DEF Goroutines, ConstantsOK, TypeOK, LoopOK, CallersOK
\* A new fade is recorded and not cancelled, and nobody waits for its slot.
<1>1. ASSUME NEW g \in Goroutines, UNCHANGED person,
             /\ fade' \in Fades /\ fade' # g /\ Free(fade')
             /\ run'[fade'].pc # "idle" /\ ~run'[fade'].cancelled
             /\ run'[g].pc = (IF g = Loop THEN "idle" ELSE "end")
             /\ g # Loop => run'[g].cancelled = run[g].cancelled
             /\ IF g = Loop THEN view' = NoView /\ seenFade' = NoFade ELSE UNCHANGED loopVars
             /\ \A h \in Goroutines \ {g, fade'} : run'[h] = run[h],
             run[g].pc # "idle"
      PROVE  FadesInv'
  <2>1. RecordedFadeRuns'
    BY <1>1
  <2>2. \A p \in Persons : person[p].fade # fade'
    BY <1>1 DEF Free
  <2>3. \A f \in Fades \ {fade'} : run[f].pc # "idle" /\ run[f].cancelled => run'[f].cancelled
    BY <1>0, <1>1
  <2>4. \A f \in Fades \ {fade'} : run'[f].pc # "idle" => run[f].pc # "idle"
    BY <1>0, <1>1
  <2>5. \A p \in Persons : person[p].pc = "wait" /\ run'[person[p].fade].pc # "idle" => run'[person[p].fade].cancelled
    BY <1>0, <2>2, <2>3, <2>4
  <2>6. run'[Loop].pc = "wait" => /\ seenFade' \in Fades
                                  /\ run'[seenFade'].pc # "idle" => run'[seenFade'].cancelled
    <3>1. CASE g = Loop
      BY <1>1, <3>1
    <3>2. CASE g # Loop
      <4>1. run'[Loop] = run[Loop] /\ seenFade' = seenFade /\ seenFade # fade'
        BY <1>0, <1>1, <3>2 DEF loopVars, Free
      <4>2. QED
        BY <2>3, <2>4, <4>1
    <3>3. QED
      BY <3>1, <3>2
  <2>7. QED
    BY <1>1, <2>1, <2>5, <2>6
\* A cancelled fade is no longer recorded, and a cancellation is for good.
<1>2. CASE TickStart \/ Tick
  <2>0. UNCHANGED person
    BY <1>2, OthersStep
  <2>1. CASE /\ \A f \in Fades : run'[f] = run[f]
             /\ UNCHANGED fade /\ run'[Loop].pc # "wait"
    BY <1>0, <2>0, <2>1
  <2>2. CASE run[Loop].pc = "decide" /\ StartFade(Loop, "out", loaded.key, view.want, 0)
    <3>1. view.want \in Keys \cup {NoWindow} /\ loaded.key \in Keys \cup {NoProgram}
      BY DEF TypeOK, LoopOK, Views
    <3>2. QED
      BY <1>0, <1>1, <2>0, <2>2, <3>1, RunStartFade
  <2>3. CASE StartFadeIn(Loop)
    <3>1. run[Loop].pc # "idle"
      BY <2>3 DEF StartFadeIn
    <3>2. QED
      BY <1>0, <1>1, <2>0, <2>3, <3>1, StartFadeInFields
  <2>4. CASE /\ run[Loop].pc = "cancel" /\ fade \in Fades
             /\ fade' = NoFade /\ seenFade' = fade
             /\ run'[fade].pc = run[fade].pc /\ run'[fade].cancelled
             /\ \A f \in Fades \ {fade} : run'[f] = run[f]
    BY <1>0, <2>0, <2>4
  <2>5. QED
    BY <1>2, <2>1, <2>2, <2>3, <2>4, TickKinds
<1>3. ASSUME NEW f \in Fades, FadeSteps(f) PROVE FadesInv'
  <2>0. UNCHANGED person
    BY <1>3, OthersStep
  <2>1. CASE /\ run[f].pc \notin {"idle", "end"} /\ run'[f].pc # "idle"
             /\ run'[f].cancelled = run[f].cancelled
             /\ \A h \in Goroutines \ {f} : run'[h] = run[h]
             /\ UNCHANGED <<fade, loopVars>>
    BY <1>0, <2>0, <2>1 DEF loopVars
  <2>2. CASE StartFadeIn(f)
    <3>1. run[f].pc # "idle" /\ f \in Goroutines
      BY <1>0, <2>2 DEF StartFadeIn
    <3>2. QED
      BY <1>0, <1>1, <2>0, <2>2, <3>1, StartFadeInFields
  <2>3. CASE FadeEnds(f)
    <3>1. /\ run'[f].pc = "idle" /\ \A h \in Goroutines \ {f} : run'[h] = run[h]
          /\ UNCHANGED loopVars /\ fade' = IF fade = f THEN NoFade ELSE fade
      BY <1>0, <2>3, IdleRunType DEF FadeEnds, TypeOK, RunsOK
    <3>2. QED
      BY <1>0, <2>0, <3>1 DEF loopVars
  <2>4. QED
    BY <1>3, <2>1, <2>2, <2>3, FadeKinds
<1>4. ASSUME NEW p \in Persons, PersonSteps(p) \/ \E r \in Requests : Request(p, r) PROVE FadesInv'
  <2>0. \A q \in Persons \ {p} : person'[q] = person[q]
    BY <1>4, CallerStep
  <2>1. CASE UNCHANGED <<run, fade, loopVars>> /\ person'[p].pc # "wait"
    BY <1>0, <2>0, <2>1 DEF loopVars
  <2>2. CASE /\ fade \in Fades /\ fade' = NoFade /\ person'[p].fade = fade
             /\ run'[fade].pc = run[fade].pc /\ run'[fade].cancelled
             /\ \A h \in Goroutines \ {fade} : run'[h] = run[h]
             /\ UNCHANGED loopVars
    <3>1. run'[Loop] = run[Loop] /\ seenFade' = seenFade
      BY <1>0, <2>2 DEF loopVars
    <3>2. \A f \in Fades : /\ run'[f].pc = run[f].pc
                           /\ run[f].cancelled => run'[f].cancelled
      BY <1>0, <2>2
    <3>3. QED
      BY <1>0, <2>0, <2>2, <3>1, <3>2
  <2>3. QED
    BY <1>4, <2>1, <2>2, CallerKinds
<1>5. CASE Environment
  BY <1>5, WorldKinds DEF loopVars
<1>6. CASE UNCHANGED vars
  BY <1>6 DEF vars, loopVars
<1>7. QED
  BY <1>2, <1>3, <1>4, <1>5, <1>6 DEF Next

\* Whoever the ticks and the callers wait for, or hold still for, is a goroutine that runs, and one that
\* was told to end when they wait for its end: for any number of people, fades and requests.
THEOREM FadesReal == Spec => []FadesAreReal
<1>1. Init => FadesInv
  <2>1. Init => run[Loop].pc = "idle" /\ fade = NoFade /\ \A p \in Persons : person[p].pc = "idle"
    BY DEF Init, IdleRun, Idler, Goroutines
  <2>2. QED
    BY <2>1 DEF FadesInv, FadesAreReal, RecordedFadeRuns, WaitedFadeStops, WaitsForOne
<1>2. FadesInv => FadesAreReal
  BY DEF FadesInv
<1>3. QED
  BY <1>1, <1>2, FadesInvStep, TypeCorrect, PTL DEF Spec

(***************************************************************************)
(* One fade at a time, while nobody holds the loop.  A tick that passed    *)
(* the suspended check may start a fade after Suspend has cancelled the    *)
(* one before, so the requests that suspend the loop are left out here.    *)
(*                                                                         *)
(* Alone: the fade that works is the recorded one, or the one a tick has   *)
(* cancelled and waits for; and a tick that saw none and is past its look  *)
(* at the fade has none beside it until it starts one itself.              *)
(***************************************************************************)
NoHolds == \A r \in Requests : r.op \notin {"transport", "play_now"}

Working(f) == run[f].pc \notin {"idle", "end"}
AfterLook == {"status", "enforce", "decide"} \cup LoadPCs

Alone ==
    /\ OneFade
    /\ \A f \in Fades : Working(f) => fade = f \/ (run[Loop].pc = "wait" /\ seenFade = f)
    /\ run[Loop].pc \in AfterLook \ {"status"} => seenFade = NoFade
    /\ run[Loop].pc \in AfterLook /\ seenFade = NoFade => \A f \in Fades : ~Working(f)

\* How a tick gets past its look at the fade, and how it stops waiting for one.
LEMMA LoopMoves ==
    ASSUME TypeOK, TickStart \/ Tick
    PROVE  /\ \/ run'[Loop].pc \notin AfterLook
              \/ run[Loop].pc = "fade" /\ run'[Loop].pc = "status" /\ seenFade' = fade
              \/ /\ run[Loop].pc \in AfterLook /\ UNCHANGED seenFade
                 /\ run[Loop].pc = "status" => seenFade = NoFade
           /\ run[Loop].pc = "wait" => run[seenFade].pc = "idle"
<1>0. /\ Loop \in Goroutines /\ run \in [Goroutines -> Runs] /\ run[Loop] \in Runs
  BY DEF Goroutines, TypeOK, RunsOK
<1> USE DEF AfterLook, LoadPCs
<1>1. CASE Leave(Loop) /\ run[Loop].pc # "wait"
  BY <1>0, <1>1, LeaveFields
<1>2. ASSUME NEW pc, GoTo(Loop, pc) PROVE run'[Loop].pc = pc /\ UNCHANGED seenFade
  BY <1>0, <1>2, GoToFields DEF loopVars
<1>3. ASSUME NEW pc, run' = [run EXCEPT ![Loop].pc = pc] PROVE run'[Loop].pc = pc
  BY <1>0, <1>3 DEF Runs
<1>4. CASE TickStart \/ TickClearExpired
  BY <1>2, <1>4 DEF TickStart, TickClearExpired
<1>5. CASE TickSnapshot \/ TickReadFade
  BY <1>3, <1>5 DEF TickSnapshot, TickReadFade
<1>6. CASE TickStatus
  <2>1. run[Loop].pc = "status"
    BY <1>6 DEF TickStatus
  <2>2. \/ Leave(Loop)
        \/ GoTo(Loop, "cancel")
        \/ /\ seenFade = NoFade /\ UNCHANGED seenFade
           /\ run' = [run EXCEPT ![Loop].pc = IF view.owner = "OVERRIDDEN" THEN "enforce" ELSE "decide"]
    BY <1>6 DEF TickStatus
  <2>3. QED
    BY <1>1, <1>2, <2>1, <2>2
<1>7. CASE TickCancelFade
  <2>1. run'[Loop].pc \in {"idle", "wait"} /\ run[Loop].pc = "cancel"
    <3>1. CASE Leave(Loop)
      BY <1>0, <1>7, <3>1, LeaveFields DEF TickCancelFade
    <3>2. CASE ~Leave(Loop)
      BY <1>0, <1>7, <3>2 DEF TickCancelFade, CancelledRun, Runs
    <3>3. QED
      BY <3>1, <3>2
  <2>2. QED
    BY <2>1
<1>8. CASE TickFadeGone
  BY <1>0, <1>8, LeaveFields DEF TickFadeGone
<1>9. CASE TickEnforce
  BY <1>1, <1>9 DEF TickEnforce
<1>10. CASE TickDecide
  <2>1. \/ Leave(Loop)
        \/ StartFade(Loop, "out", loaded.key, view.want, 0)
        \/ UNCHANGED loopVars
    BY <1>10, Zenon DEF TickDecide
  <2>2. run[Loop].pc = "decide" /\ view.want \in Keys \cup {NoWindow} /\ loaded.key \in Keys \cup {NoProgram}
    BY <1>10 DEF TickDecide, TypeOK, LoopOK, Views
  <2>3. CASE StartFade(Loop, "out", loaded.key, view.want, 0)
    <3>1. run'[Loop].pc = "idle"
      BY <1>0, <2>2, <2>3, RunStartFade
    <3>2. QED
      BY <2>2, <3>1
  <2>4. QED
    BY <1>1, <2>1, <2>2, <2>3 DEF loopVars
<1>11. CASE Resolve(Loop)
  <2>1. run[Loop].pc = "resolve" /\ (Leave(Loop) \/ UNCHANGED loopVars)
    BY <1>11 DEF Resolve
  <2>2. QED
    BY <1>1, <2>1 DEF loopVars
<1>12. CASE LoadProgram(Loop) \/ SetLoaded(Loop)
  <2>1. run[Loop].pc \in {"load", "loaded"} /\ (Leave(Loop) \/ \E pc : GoTo(Loop, pc))
    BY <1>12 DEF LoadProgram, SetLoaded
  <2>2. QED
    BY <1>1, <1>2, <2>1
<1>13. CASE StartFadeIn(Loop)
  <2>1. run'[Loop].pc = "idle" /\ run[Loop].pc = "start_in"
    BY <1>0, <1>13, StartFadeInFields DEF StartFadeIn
  <2>2. QED
    BY <2>1
<1>14. QED
  BY <1>4, <1>5, <1>6, <1>7, <1>8, <1>9, <1>10, <1>11, <1>12, <1>13 DEF Tick, LoadSteps

\* Without a request that suspends, nobody holds the loop.
LEMMA NobodyHolds ==
    ASSUME NoHolds, TypeOK, suspended = 0, [Next]_vars, TypeOK'
    PROVE  suspended' = 0
<1>1. ASSUME NEW p \in Persons, NEW r \in Requests, Request(p, r) PROVE suspended' = 0
  BY <1>1 DEF NoHolds, Request, Suspend, PostOverride, DeleteOverride, SwitchScheduler
<1>2. ASSUME NEW p \in Persons, PersonSteps(p) PROVE suspended' = 0
  <2>1. UNCHANGED suspended \/ suspended' = suspended - 1
    BY <1>2 DEF PersonSteps, SuspendCancelFade, SuspendFadeGone, SuspendHandshake, Act, ForgetProgram,
       ReadHold, StoreOverride, Release, SwitchedOff
  <2>2. suspended' \in Nat
    BY DEF TypeOK
  <2>3. QED
    BY <2>1, <2>2
<1>3. QED
  BY <1>1, <1>2, OthersStep DEF Next, vars

LEMMA AloneStep ==
    ASSUME TypeOK, SuspendedCounts, suspended = 0, Alone, [Next]_vars
    PROVE  Alone'
<1> USE DEF Alone, OneFade, Working
<1>0. /\ Loop \in Goroutines /\ Loop \notin Fades /\ NoFade \notin Fades /\ \A f \in Fades : f \in Goroutines
      /\ fade \in Fades \cup {NoFade} /\ seenFade \in Fades \cup {NoFade}
  BY ConstantsOK DEF Goroutines, ConstantsOK, TypeOK, LoopOK
<1>1. CASE TickStart \/ Tick
  <2>1. CASE (\A f \in Fades : run'[f] = run[f]) /\ UNCHANGED fade /\ run'[Loop].pc # "wait"
    <3>1. \A f \in Fades : Working(f)' => fade = f
      <4>1. SUFFICES ASSUME NEW f \in Fades, Working(f) PROVE fade = f
        BY <2>1
      <4>2. CASE run[Loop].pc = "wait" /\ seenFade = f
        BY <1>1, <4>1, <4>2, LoopMoves
      <4>3. QED
        BY <4>1, <4>2
    <3>2. run'[Loop].pc \in AfterLook \ {"status"} => seenFade' = NoFade
      BY <1>1, LoopMoves
    <3>3. run'[Loop].pc \in AfterLook /\ seenFade' = NoFade => \A f \in Fades : ~Working(f)
      <4>1. CASE run'[Loop].pc \notin AfterLook
        BY <4>1
      <4>2. CASE run[Loop].pc = "fade" /\ seenFade' = fade
        BY <1>0, <4>2
      <4>3. CASE run[Loop].pc \in AfterLook /\ UNCHANGED seenFade
        BY <4>3
      <4>4. QED
        BY <1>1, <4>1, <4>2, <4>3, LoopMoves
    <3>4. QED
      BY <2>1, <3>1, <3>2, <3>3
  \* The loop starts a fade where none works.
  <2>2. ASSUME fade' \in Fades, fade' # Loop, run'[Loop].pc = "idle",
               \A h \in Goroutines \ {Loop, fade'} : run'[h] = run[h],
               run[Loop].pc \in AfterLook \ {"status"}
        PROVE  Alone'
    <3>1. \A f \in Fades \ {fade'} : ~Working(f)'
      BY <1>0, <2>2
    <3>2. QED
      BY <2>2, <3>1 DEF AfterLook, LoadPCs
  <2>3. CASE run[Loop].pc = "decide" /\ StartFade(Loop, "out", loaded.key, view.want, 0)
    <3>1. view.want \in Keys \cup {NoWindow} /\ loaded.key \in Keys \cup {NoProgram}
      BY DEF TypeOK, LoopOK, Views
    <3>2. QED
      BY <1>0, <2>2, <2>3, <3>1, RunStartFade DEF AfterLook
  <2>4. CASE StartFadeIn(Loop)
    <3>1. run[Loop].pc = "start_in"
      BY <2>4 DEF StartFadeIn
    <3>2. QED
      BY <1>0, <2>2, <2>4, <3>1, StartFadeInFields DEF AfterLook, LoadPCs
  <2>5. CASE /\ run[Loop].pc = "cancel" /\ fade \in Fades
             /\ fade' = NoFade /\ seenFade' = fade
             /\ run'[Loop].pc = "wait"
             /\ run'[fade].pc = run[fade].pc
             /\ \A f \in Fades \ {fade} : run'[f] = run[f]
    <3>1. \A f \in Fades : run'[f].pc = run[f].pc
      BY <2>5
    <3>2. QED
      BY <2>5, <3>1 DEF AfterLook, LoadPCs
  <2>6. QED
    BY <1>1, <2>1, <2>3, <2>4, <2>5, TickKinds
<1>2. ASSUME NEW f \in Fades, FadeSteps(f) PROVE Alone'
  <2>1. CASE /\ run[f].pc \notin {"idle", "end"}
             /\ \A h \in Goroutines \ {f} : run'[h] = run[h]
             /\ UNCHANGED <<fade, loopVars>>
    <3>1. Working(f) /\ run'[Loop] = run[Loop] /\ seenFade' = seenFade /\ \A e \in Fades \ {f} : run'[e] = run[e]
      BY <1>0, <2>1 DEF loopVars
    <3>2. QED
      BY <2>1, <3>1
  <2>2. CASE StartFadeIn(f)
    <3>1. /\ Working(f) /\ fade' \in Fades /\ fade' # f /\ run'[f].pc = "end" /\ UNCHANGED loopVars
          /\ \A h \in Goroutines \ {f, fade'} : run'[h] = run[h]
      BY <1>0, <2>2, StartFadeInFields DEF StartFadeIn
    <3>2. \A e \in Fades \ {fade'} : ~Working(e)'
      BY <1>0, <3>1
    <3>3. run'[Loop] = run[Loop] /\ seenFade' = seenFade
      BY <1>0, <3>1 DEF loopVars
    <3>4. run[Loop].pc \in AfterLook => seenFade # NoFade
      BY <3>1
    <3>5. QED
      BY <3>1, <3>2, <3>3, <3>4
  <2>3. CASE FadeEnds(f)
    <3>1. /\ run'[f].pc = "idle" /\ run[f].pc = "end" /\ \A h \in Goroutines \ {f} : run'[h] = run[h]
          /\ UNCHANGED loopVars /\ fade' = IF fade = f THEN NoFade ELSE fade
      BY <1>0, <2>3, IdleRunType DEF FadeEnds, TypeOK, RunsOK
    <3>2. \A e \in Fades : Working(e)' <=> Working(e)
      BY <1>0, <3>1
    <3>3. run'[Loop] = run[Loop] /\ seenFade' = seenFade /\ ~Working(f)
      BY <1>0, <3>1 DEF loopVars
    <3>4. QED
      BY <3>1, <3>2, <3>3
  <2>4. QED
    BY <1>2, <2>1, <2>2, <2>3, FadeKinds
<1>3. ASSUME NEW p \in Persons, PersonSteps(p) \/ \E r \in Requests : Request(p, r) PROVE Alone'
  <2>1. ~Suspending(p)
    BY SuspendersPositive
  <2>2. person[p].pc # "cancel"
    BY <2>1 DEF Suspending, SuspendPCs
  <2>3. UNCHANGED <<run, fade, loopVars>>
    BY <1>3, <2>2, CallerKinds
  <2>4. QED
    BY <2>3 DEF loopVars
<1>4. CASE Environment
  BY <1>4, WorldKinds DEF loopVars
<1>5. CASE UNCHANGED vars
  BY <1>5 DEF vars, loopVars
<1>6. QED
  BY <1>1, <1>2, <1>3, <1>4, <1>5 DEF Next

\* Two fades never work on the volume at once, as long as no request suspends the loop (Suspend takes the
\* record of the fade of a tick that passed the check before it): a tick starts a fade only where it saw
\* none, and none can have come between.
THEOREM OneFadeAtATime == NoHolds => (Spec => []OneFade)
<1>1. Init => suspended = 0 /\ Alone
  <2>1. Init => suspended = 0 /\ run[Loop].pc = "idle" /\ \A f \in Fades : run[f].pc = "idle"
    BY DEF Init, IdleRun, Goroutines
  <2>2. QED
    BY <2>1 DEF Alone, OneFade, Working, AfterLook, LoadPCs
<1>2. ASSUME NoHolds PROVE TypeOK /\ suspended = 0 /\ [Next]_vars /\ TypeOK' => (suspended = 0)'
  BY <1>2, NobodyHolds
<1>3. TypeOK /\ SuspendedCounts /\ suspended = 0 /\ Alone /\ [Next]_vars => Alone'
  BY AloneStep
<1>4. Alone => OneFade
  BY DEF Alone
<1>5. ASSUME NoHolds PROVE Spec => []OneFade
  BY <1>1, <1>2, <1>3, <1>4, <1>5, TypeCorrect, CountExact, PTL DEF Spec
<1>6. QED
  BY <1>5

(***************************************************************************)
(* The volume, while MPD takes every command and nobody holds the loop.    *)
(*                                                                         *)
(* Level: a goroutine that is going to set the volume has the level of the *)
(* music to set it to, and the volume is at that level unless somebody who *)
(* is going to restore it, or to fade in, has taken it down.               *)
(***************************************************************************)
Meant    == {"out_step", "out_stop", "out_restore", "load", "loaded", "start_in", "in"}
Quiet(g) == \/ run[g].pc \in {"out_stop", "out_restore", "start_in", "in"}
            \/ run[g].pc = "loaded" /\ FadeIn
Level    == faults = 0 => /\ avail = "ok"
                          /\ \A g \in Goroutines : run[g].pc \in Meant => run[g].vol = 1
                          /\ mpd.vol = 1 \/ \E g \in Goroutines : Quiet(g)

\* A step of one goroutine keeps the level when it sets the volume to it, when it is the one that took
\* the volume down, or when it has nothing to do with the volume.
LEMMA LevelOne ==
    ASSUME TypeOK, Level, faults = 0, avail' = "ok", NEW g \in Goroutines,
           \A h \in Goroutines \ {g} : run'[h] = run[h],
           run'[g].pc \in Meant => run'[g].vol = 1,
           mpd'.vol = 1 \/ Quiet(g)' \/ (mpd'.vol = mpd.vol /\ ~Quiet(g))
    PROVE  Level'
<1>1. \A h \in Goroutines : run'[h].pc \in Meant => run'[h].vol = 1
  BY DEF Level
<1>2. mpd'.vol = 1 \/ \E h \in Goroutines : Quiet(h)'
  <2>1. \A h \in Goroutines \ {g} : Quiet(h) => Quiet(h)'
    BY DEF Quiet
  <2>2. QED
    BY <2>1 DEF Level
<1>3. QED
  BY <1>1, <1>2 DEF Level

\* Before a goroutine reads the level nobody has taken the volume down.
LEMMA StillLevel ==
    ASSUME TypeOK, Alone, Level, faults = 0, NEW g \in Goroutines, run[g].pc \in {"out", "resolve"}
    PROVE  mpd.vol = 1
<1>1. SUFFICES ASSUME NEW h \in Goroutines, Quiet(h) PROVE FALSE
  BY DEF Level
<1>2. run[h].pc \notin {"idle", "end"} /\ h # g
  BY <1>1 DEF Quiet
<1>3. run[Loop].pc \in LoopPCs
  BY DEF TypeOK, RunsOK
<1>4. CASE g = Loop
  <2>1. run[Loop].pc \in AfterLook \ {"status"} /\ h \in Fades
    BY <1>2, <1>3, <1>4 DEF Goroutines, AfterLook, LoadPCs, LoopPCs
  <2>2. QED
    BY <1>2, <2>1 DEF Alone, Working
<1>5. CASE h = Loop
  <2>1. run[Loop].pc \in AfterLook \ {"status"} /\ g \in Fades /\ run[g].pc \notin {"idle", "end"}
    BY <1>1, <1>2, <1>3, <1>5 DEF Goroutines, AfterLook, LoadPCs, LoopPCs, Quiet
  <2>2. QED
    BY <2>1 DEF Alone, Working
<1>6. CASE g \in Fades /\ h \in Fades
  BY <1>2, <1>6 DEF Alone, OneFade
<1>7. QED
  BY <1>4, <1>5, <1>6 DEF Goroutines

\* What the steps that set the volume, and those that do not, make of it.
LEMMA Volumes ==
    ASSUME TypeOK
    PROVE  /\ \A v \in {0, 1} : SetVolume(v) => mpd'.vol = IF avail = "down" THEN mpd.vol ELSE v
           /\ \A kind \in Intents : Command(kind) => mpd'.vol = mpd.vol
           /\ \A st : TryPlay(st) => mpd'.vol = mpd.vol
           /\ \A queue, song : \A v \in {0, 1} : Load(queue, v, song) => mpd'.vol = v
<1>1. mpd \in MPDs
  BY DEF TypeOK, PlayerOK
<1>2. \A v \in {0, 1} : SetVolume(v) => mpd'.vol = IF avail = "down" THEN mpd.vol ELSE v
  BY <1>1 DEF SetVolume, MPDs
<1>3. \A kind \in Intents : Command(kind) => mpd'.vol = mpd.vol
  BY <1>1 DEF Command, MPDAfter, MPDs, Intents
<1>4. \A st : TryPlay(st) => mpd'.vol = mpd.vol
  BY <1>3 DEF TryPlay, playerVars, Intents
<1>5. \A queue, song : \A v \in {0, 1} : Load(queue, v, song) => mpd'.vol = v
  BY DEF Load
<1>6. QED
  BY <1>2, <1>3, <1>4, <1>5

LEMMA LevelStartFade ==
    ASSUME TypeOK, Level, faults = 0, avail' = "ok", UNCHANGED mpd, NEW g \in Goroutines,
           fade' \in Fades, fade' # g, run[fade'].pc = "idle",
           run'[g].pc \in {"idle", "end"},
           \/ run'[fade'].pc = "out" /\ ~Quiet(g)
           \/ run'[fade'].pc = "in" /\ run'[fade'].vol = 1,
           \A h \in Goroutines \ {g, fade'} : run'[h] = run[h]
    PROVE  Level'
<1>1. \A h \in Goroutines : run'[h].pc \in Meant => run'[h].vol = 1
  BY DEF Level, Meant
<1>2. mpd'.vol = 1 \/ \E h \in Goroutines : Quiet(h)'
  <2>1. fade' \in Goroutines /\ ~Quiet(fade')
    BY DEF Goroutines, Quiet
  <2>2. \A h \in Goroutines \ {g, fade'} : Quiet(h) => Quiet(h)'
    BY DEF Quiet
  <2>3. run'[fade'].pc = "in" => Quiet(fade)'
    BY DEF Quiet
  <2>4. QED
    BY <2>1, <2>2, <2>3 DEF Level
<1>3. QED
  BY <1>1, <1>2 DEF Level

LEMMA LevelLoad ==
    ASSUME TypeOK, Alone, Level, faults = 0, faults' = 0, NEW g \in Goroutines, LoadSteps(g)
    PROVE  Level'
<1>0. /\ run \in [Goroutines -> Runs] /\ run[g] \in Runs /\ mpd \in MPDs /\ avail = "ok" /\ faults \in Nat
      /\ run[g].pc \in Meant => run[g].vol = 1
  BY ConstantsOK DEF TypeOK, RunsOK, PlayerOK, Level, ClockOK, ConstantsOK
<1>1. ~Fault
  BY <1>0 DEF Fault
<1>2. CASE Resolve(g)
  <2>1. mpd.vol = 1 /\ UNCHANGED <<mpd, avail>> /\ ~Quiet(g)
    <3>1. run[g].pc = "resolve" /\ UNCHANGED <<mpd, avail>>
      BY <1>1, <1>2 DEF Resolve, playerVars, clockVars
    <3>2. QED
      BY <3>1, StillLevel DEF Quiet
  <2>2. CASE Leave(g)
    BY <1>0, <2>1, <2>2, LeaveFields, LevelOne DEF Meant
  <2>3. CASE ~Leave(g)
    <3>1. run' = [run EXCEPT ![g].pc = "load",
                             ![g].vol = IF ProgramVolume \/ avail = "down" THEN 1 ELSE mpd.vol]
      BY <1>1, <1>2, <2>3 DEF Resolve
    <3>2. run'[g].vol = 1 /\ \A h \in Goroutines \ {g} : run'[h] = run[h]
      BY <1>0, <2>1, <3>1 DEF Runs
    <3>3. QED
      BY <1>0, <2>1, <3>2, LevelOne
  <2>4. QED
    BY <2>2, <2>3
<1>3. CASE LoadProgram(g)
  <2>1. /\ run[g].pc = "load" /\ GoTo(g, "loaded") /\ UNCHANGED avail
        /\ Load(SourceOf[run[g].next], IF FadeIn THEN 0 ELSE run[g].vol, "more")
    BY <1>0, <1>1, <1>3 DEF LoadProgram, clockVars
  <2>2. run[g].vol = 1
    BY <1>0, <2>1 DEF Meant
  <2>3. FadeIn \/ mpd'.vol = 1
    BY <2>1, <2>2, Volumes
  <2>4. /\ run'[g].pc = "loaded" /\ run'[g].vol = 1 /\ \A h \in Goroutines \ {g} : run'[h] = run[h]
    BY <2>1, <2>2, GoToFields
  <2>5. QED
    BY <1>0, <2>1, <2>3, <2>4, LevelOne DEF Quiet
<1>4. CASE SetLoaded(g)
  <2>1. run[g].pc = "loaded" /\ UNCHANGED <<mpd, avail>> /\ IF FadeIn THEN GoTo(g, "start_in") ELSE Leave(g)
    BY <1>4 DEF SetLoaded, playerVars, clockVars
  <2>2. run[g].vol = 1
    BY <1>0, <2>1 DEF Meant
  <2>3. CASE FadeIn
    <3>1. Quiet(g)' /\ run'[g].vol = 1 /\ \A h \in Goroutines \ {g} : run'[h] = run[h]
      BY <2>1, <2>2, <2>3, GoToFields DEF Quiet
    <3>2. QED
      BY <1>0, <2>1, <3>1, LevelOne
  <2>4. CASE ~FadeIn
    <3>1. ~Quiet(g) /\ run'[g].pc \notin Meant /\ \A h \in Goroutines \ {g} : run'[h] = run[h]
      BY <2>1, <2>4, LeaveFields DEF Quiet, Meant
    <3>2. QED
      BY <1>0, <2>1, <3>1, LevelOne
  <2>5. QED
    BY <2>3, <2>4
<1>5. CASE StartFadeIn(g)
  <2>1. run[g].pc = "start_in" /\ UNCHANGED <<mpd, avail>>
    BY <1>5 DEF StartFadeIn, playerVars, clockVars
  <2>2. run[g].vol = 1
    BY <1>0, <2>1 DEF Meant
  <2>3. QED
    BY <1>0, <1>5, <2>1, <2>2, StartFadeInFields, LevelStartFade
<1>6. QED
  BY <1>2, <1>3, <1>4, <1>5 DEF LoadSteps

LEMMA LevelFade ==
    ASSUME TypeOK, Alone, Level, faults = 0, faults' = 0, NEW f \in Fades, FadeSteps(f)
    PROVE  Level'
<1>0. /\ f \in Goroutines /\ f # Loop /\ run \in [Goroutines -> Runs] /\ run[f] \in Runs /\ mpd \in MPDs
      /\ avail = "ok" /\ (run[f].pc \in Meant => run[f].vol = 1)
  BY ConstantsOK DEF ConstantsOK, Goroutines, TypeOK, RunsOK, PlayerOK, Level
<1>1. CASE FadeOutStart(f)
  <2>1. mpd.vol = 1
    BY <1>0, <1>1, StillLevel DEF FadeOutStart
  <2>2. run'[f].vol = 1 /\ \A h \in Goroutines \ {f} : run'[h] = run[h]
    BY <1>0, <1>1, <2>1 DEF FadeOutStart, Runs
  <2>3. QED
    BY <1>0, <1>1, <2>1, <2>2, LevelOne DEF FadeOutStart, clockVars, playerVars
<1>2. CASE FadeOutSteps(f)
  <2>1. Quiet(f)' /\ run'[f].vol = 1 /\ \A h \in Goroutines \ {f} : run'[h] = run[h]
    BY <1>0, <1>2, GoToFields DEF FadeOutSteps, Quiet, Meant
  <2>2. QED
    BY <1>0, <1>2, <2>1, LevelOne DEF FadeOutSteps, clockVars
<1>3. CASE FadeOutStop(f)
  <2>1. run[f].vol = 1 /\ UNCHANGED avail
    BY <1>0, <1>3 DEF FadeOutStop, Meant, clockVars
  <2>2. CASE run[f].cancelled
    <3>1. mpd'.vol = 1
      BY <1>0, <1>3, <2>1, <2>2, Volumes DEF FadeOutStop
    <3>2. GoTo(f, "out_done")
      BY <1>3, <2>2 DEF FadeOutStop
    <3>3. run'[f].vol = 1 /\ \A h \in Goroutines \ {f} : run'[h] = run[h]
      BY <1>0, <2>1, <3>2, GoToFields
    <3>4. QED
      BY <1>0, <2>1, <3>1, <3>3, LevelOne
  <2>3. CASE ~run[f].cancelled
    <3>1. GoTo(f, "out_restore")
      BY <1>3, <2>3 DEF FadeOutStop
    <3>2. Quiet(f)' /\ run'[f].vol = 1 /\ \A h \in Goroutines \ {f} : run'[h] = run[h]
      BY <1>0, <2>1, <3>1, GoToFields DEF Quiet
    <3>3. QED
      BY <1>0, <2>1, <3>2, LevelOne
  <2>4. QED
    BY <2>2, <2>3
<1>4. CASE FadeOutRestore(f)
  <2>1. mpd'.vol = 1 /\ UNCHANGED avail
    BY <1>0, <1>4, Volumes DEF FadeOutRestore, Meant, clockVars
  <2>2. run'[f].pc \notin Meant /\ \A h \in Goroutines \ {f} : run'[h] = run[h]
    BY <1>0, <1>4, GoToFields DEF FadeOutRestore, Meant
  <2>3. QED
    BY <1>0, <2>1, <2>2, LevelOne
<1>5. CASE FadeOutDone(f)
  <2>1. UNCHANGED <<mpd, avail>> /\ ~Quiet(f) /\ (GoTo(f, "resolve") \/ Leave(f))
    BY <1>5 DEF FadeOutDone, Quiet, clockVars, playerVars
  <2>2. run'[f].pc \notin Meant /\ \A h \in Goroutines \ {f} : run'[h] = run[h]
    BY <1>0, <2>1, GoToFields, LeaveFields DEF Meant
  <2>3. QED
    BY <1>0, <2>1, <2>2, LevelOne
<1>6. CASE FadeInEnds(f)
  <2>1. mpd'.vol = 1 /\ UNCHANGED avail
    BY <1>0, <1>6, Volumes DEF FadeInEnds, Meant, clockVars
  <2>2. run'[f].pc \notin Meant /\ \A h \in Goroutines \ {f} : run'[h] = run[h]
    BY <1>0, <1>6, LeaveFields DEF FadeInEnds, Meant
  <2>3. QED
    BY <1>0, <2>1, <2>2, LevelOne
<1>7. CASE FadeEnds(f)
  <2>1. UNCHANGED <<mpd, avail>> /\ ~Quiet(f)
    BY <1>7 DEF FadeEnds, Quiet, clockVars, playerVars
  <2>2. run'[f].pc \notin Meant /\ \A h \in Goroutines \ {f} : run'[h] = run[h]
    BY <1>0, <1>7, IdleRunType DEF FadeEnds, Meant
  <2>3. QED
    BY <1>0, <2>1, <2>2, LevelOne
<1>8. CASE LoadSteps(f)
  BY <1>0, <1>8, LevelLoad
<1>9. QED
  BY <1>1, <1>2, <1>3, <1>4, <1>5, <1>6, <1>7, <1>8 DEF FadeSteps

LEMMA LevelTick ==
    ASSUME TypeOK, Alone, Level, faults = 0, faults' = 0, TickStart \/ Tick
    PROVE  Level'
<1>0. /\ Loop \in Goroutines /\ run \in [Goroutines -> Runs] /\ run[Loop] \in Runs /\ mpd \in MPDs
      /\ \A f \in Fades : f \in Goroutines \ {Loop}
  BY ConstantsOK DEF ConstantsOK, Goroutines, TypeOK, RunsOK, PlayerOK
\* Steps that do not touch the volume, and those that leave it as it is.
<1>1. ASSUME run[Loop].pc \notin {"loaded", "start_in"}, mpd'.vol \in {mpd.vol, 1},
             run'[Loop].pc \notin Meant, \A f \in Fades : run'[f] = run[f], UNCHANGED avail
      PROVE  Level'
  <2>1. ~Quiet(Loop)
    BY <1>0, <1>1 DEF Quiet, TypeOK, RunsOK, LoopPCs, LoadPCs
  <2>2. \A h \in Goroutines \ {Loop} : run'[h] = run[h]
    BY <1>1 DEF Goroutines
  <2>3. QED
    BY <1>0, <1>1, <2>1, <2>2, LevelOne DEF Level
<1>2. ASSUME NEW pc, pc \notin Meant, GoTo(Loop, pc)
      PROVE  run'[Loop].pc \notin Meant /\ \A f \in Fades : run'[f] = run[f]
  BY <1>0, <1>2, GoToFields
<1>3. ASSUME NEW pc, pc \notin Meant, run' = [run EXCEPT ![Loop].pc = pc]
      PROVE  run'[Loop].pc \notin Meant /\ \A f \in Fades : run'[f] = run[f]
  BY <1>0, <1>3 DEF Runs
<1>4. ASSUME Leave(Loop)
      PROVE  run'[Loop].pc \notin Meant /\ \A f \in Fades : run'[f] = run[f]
  BY <1>0, <1>4, LeaveFields DEF Meant
<1>5. CASE TickStart \/ TickClearExpired \/ TickSnapshot \/ TickReadFade \/ TickStatus \/ TickFadeGone
  <2>1. /\ run[Loop].pc \notin {"loaded", "start_in"} /\ UNCHANGED <<mpd, avail>>
        /\ \/ \E pc \in LoopPCs \ Meant : GoTo(Loop, pc) \/ run' = [run EXCEPT ![Loop].pc = pc]
           \/ Leave(Loop)
    BY <1>5 DEF TickStart, TickClearExpired, TickSnapshot, TickReadFade, TickStatus, TickFadeGone, clockVars, playerVars,
       LoopPCs, Meant
  <2>2. QED
    BY <1>1, <1>2, <1>3, <1>4, <2>1
<1>6. CASE TickCancelFade
  <2>0. run[Loop].pc = "cancel" /\ UNCHANGED <<mpd, avail>>
    BY <1>6 DEF TickCancelFade, clockVars, playerVars
  <2>1. CASE Leave(Loop)
    BY <1>1, <1>4, <2>0, <2>1
  <2>2. CASE /\ fade \in Fades /\ run'[Loop].pc = "wait" /\ run'[fade].pc = run[fade].pc /\ run'[fade].vol = run[fade].vol
             /\ \A f \in Fades \ {fade} : run'[f] = run[f]
    <3>1. \A g \in Goroutines \ {Loop} : run'[g].pc = run[g].pc /\ run'[g].vol = run[g].vol
      BY <1>0, <2>2 DEF Goroutines
    <3>2. ~Quiet(Loop) /\ run'[Loop].pc \notin Meant
      BY <2>0, <2>2 DEF Quiet, Meant
    <3>3. \A g \in Goroutines : Quiet(g) => Quiet(g)'
      BY <3>1, <3>2 DEF Quiet
    <3>4. QED
      BY <2>0, <3>1, <3>2, <3>3 DEF Level
  <2>3. CASE \A f \in Fades : run'[f] = run[f]
    <3>1. run'[Loop].pc \in {"idle", "wait"}
      <4>1. CASE Leave(Loop)
        BY <1>0, <4>1, LeaveFields
      <4>2. CASE ~Leave(Loop)
        BY <1>0, <1>6, <4>2 DEF TickCancelFade, CancelledRun, Runs
      <4>3. QED
        BY <4>1, <4>2
    <3>2. QED
      BY <1>1, <2>0, <2>3, <3>1 DEF Meant
  <2>4. ~StartFadeIn(Loop) /\ run[Loop].pc # "decide"
    BY <2>0 DEF StartFadeIn
  <2>5. QED
    BY <1>6, <2>2, <2>3, <2>4, TickKinds DEF Tick
<1>7. CASE TickEnforce
  <2>1. run[Loop].pc = "enforce" /\ Leave(Loop) /\ UNCHANGED avail
    BY <1>7 DEF TickEnforce, clockVars
  <2>2. mpd'.vol = mpd.vol
    <3>1. \/ UNCHANGED playerVars
          \/ TryPlay(view.st)
          \/ view.over.intent \in {"pause", "stop"} /\ Command(view.over.intent)
      BY <1>7, Zenon DEF TickEnforce
    <3>2. QED
      BY <3>1, Volumes DEF playerVars, Intents
  <2>3. QED
    BY <1>1, <1>4, <2>1, <2>2
<1>8. CASE TickDecide
  <2>0. run[Loop].pc = "decide" /\ UNCHANGED avail
    BY <1>8 DEF TickDecide, clockVars
  <2>1. \/ Leave(Loop) /\ (UNCHANGED mpd \/ SetVolume(1) \/ TryPlay(view.st) \/ UNCHANGED playerVars)
        \/ StartFade(Loop, "out", loaded.key, view.want, 0) /\ UNCHANGED playerVars
        \/ /\ run' = [run EXCEPT ![Loop].pc = "resolve", ![Loop].next = view.want]
           /\ UNCHANGED playerVars
    BY <1>8, Zenon DEF TickDecide
  <2>2. CASE Leave(Loop) /\ (UNCHANGED mpd \/ SetVolume(1) \/ TryPlay(view.st) \/ UNCHANGED playerVars)
    <3>1. mpd'.vol \in {mpd.vol, 1}
      BY <2>2, Volumes DEF playerVars
    <3>2. QED
      BY <1>1, <1>4, <2>0, <2>2, <3>1
  <2>3. CASE StartFade(Loop, "out", loaded.key, view.want, 0) /\ UNCHANGED playerVars
    <3>1. view.want \in Keys \cup {NoWindow} /\ loaded.key \in Keys \cup {NoProgram}
      BY DEF TypeOK, LoopOK, Views
    <3>2. ~Quiet(Loop) /\ avail' = "ok" /\ UNCHANGED mpd
      BY <2>0, <2>3 DEF Quiet, Level, playerVars
    <3>3. /\ fade' \in Fades /\ fade' # Loop /\ run[fade'].pc = "idle" /\ run'[fade'].pc = "out"
          /\ run'[Loop].pc = "idle" /\ \A h \in Goroutines \ {Loop, fade'} : run'[h] = run[h]
      <4>1. Loop \in Goroutines /\ run[Loop].pc # "idle" /\ StartFade(Loop, "out", loaded.key, view.want, 0)
        BY <1>0, <2>0, <2>3
      <4>2. QED
        BY <3>1, <4>1, RunStartFade
    <3>4. QED
      BY <1>0, <3>2, <3>3, LevelStartFade
  <2>4. CASE /\ run' = [run EXCEPT ![Loop].pc = "resolve", ![Loop].next = view.want]
             /\ UNCHANGED playerVars
    <3>1. run'[Loop].pc = "resolve" /\ \A f \in Fades : run'[f] = run[f]
      BY <1>0, <2>4 DEF Runs
    <3>2. QED
      BY <1>1, <2>0, <2>4, <3>1 DEF playerVars, Meant
  <2>5. QED
    BY <2>1, <2>2, <2>3, <2>4
<1>9. CASE LoadSteps(Loop)
  BY <1>0, <1>9, LevelLoad
<1>10. QED
  BY <1>5, <1>6, <1>7, <1>8, <1>9 DEF Tick

LEMMA LevelStep ==
    ASSUME TypeOK, SuspendedCounts, suspended = 0, Alone, Level, [Next]_vars
    PROVE  Level'
<1>1. SUFFICES ASSUME faults' = 0 PROVE Level'
  BY DEF Level
<1>2. CASE TickStart \/ Tick
  <2>1. faults = 0
    <3>1. faults' = faults \/ Fault
      BY <1>2 DEF Tick, TickStart, TickSnapshot, TickClearExpired, TickReadFade, TickStatus, TickCancelFade,
         TickFadeGone, TickEnforce, TickDecide, LoadSteps, Resolve, LoadProgram, SetLoaded, StartFadeIn, clockVars
    <3>2. QED
      BY <1>1, <3>1 DEF Fault, TypeOK, ClockOK
  <2>2. QED
    BY <1>1, <1>2, <2>1, LevelTick
<1>3. ASSUME NEW f \in Fades, FadeSteps(f) PROVE Level'
  <2>1. faults = 0
    <3>1. faults' = faults \/ Fault
      BY <1>3 DEF FadeSteps, FadeOutStart, FadeOutSteps, FadeOutStop, FadeOutRestore, FadeOutDone, FadeInEnds, FadeEnds,
         LoadSteps, Resolve, LoadProgram, SetLoaded, StartFadeIn, clockVars
    <3>2. QED
      BY <1>1, <3>1 DEF Fault, TypeOK, ClockOK
  <2>2. QED
    BY <1>1, <1>3, <2>1, LevelFade
<1>4. ASSUME UNCHANGED <<mpd, avail, faults, run>> PROVE Level'
  BY <1>4 DEF Level, Quiet
<1>5. ASSUME NEW p \in Persons, PersonSteps(p) \/ \E r \in Requests : Request(p, r) PROVE Level'
  <2>1. ~Suspending(p)
    BY SuspendersPositive
  <2>2. person[p].pc \notin SuspendPCs
    BY <2>1 DEF Suspending
  <2>3. UNCHANGED <<mpd, avail, faults, run>>
    BY <1>5, <2>2 DEF SuspendPCs, PersonSteps, SuspendCancelFade, SuspendFadeGone, SuspendHandshake, Act, ForgetProgram,
       ReadHold, StoreOverride, Release, SwitchedOff, Request, Suspend, PostOverride, DeleteOverride, SwitchScheduler,
       clockVars, playerVars
  <2>4. QED
    BY <1>4, <2>3
<1>6. CASE Environment
  <2>1. ~OutputFails /\ ~\E a \in {"away", "down"} : GoesAway(a)
    BY <1>1 DEF OutputFails, GoesAway, Fault, TypeOK, ClockOK
  <2>2. CASE ComesBack
    BY <2>2 DEF ComesBack, Level, playerVars
  <2>3. CASE MusicAdvances
    <3>1. mpd'.vol = mpd.vol /\ UNCHANGED <<avail, faults, run>>
      BY <2>3 DEF MusicAdvances, TypeOK, PlayerOK, MPDs, clockVars
    <3>2. QED
      BY <3>1 DEF Level, Quiet
  <2>4. CASE AdvanceTime \/ RetryElapses \/ NoteSong
    BY <1>4, <2>4 DEF AdvanceTime, RetryElapses, NoteSong, clockVars, playerVars
  <2>5. QED
    BY <1>6, <2>1, <2>2, <2>3, <2>4 DEF Environment
<1>7. CASE UNCHANGED vars
  BY <1>4, <1>7 DEF vars, clockVars, playerVars
<1>8. QED
  BY <1>2, <1>3, <1>5, <1>6, <1>7 DEF Next

\* While MPD takes every command, the volume is back where the music is meant to be once no fade runs and
\* none is about to start, however the fades end, as long as no request suspends the loop.
THEOREM LevelRestored == NoHolds => (Spec => []MusicNotLeftQuiet)
<1>1. Init => suspended = 0 /\ Alone /\ Level
  <2>1. Init => /\ suspended = 0 /\ \A g \in Goroutines : run[g].pc = "idle"
                /\ mpd.vol = 1 /\ avail = "ok"
    <3> SUFFICES ASSUME Init PROVE /\ suspended = 0 /\ \A g \in Goroutines : run[g].pc = "idle"
                                   /\ mpd.vol = 1 /\ avail = "ok"
      OBVIOUS
    <3>1. mpd.vol = 1
      BY InitProgram
    <3> QED
      BY <3>1 DEF Init, IdleRun
  <2>2. Loop \in Goroutines /\ \A f \in Fades : f \in Goroutines
    BY DEF Goroutines
  <2>3. QED
    BY <2>1, <2>2 DEF Alone, OneFade, Working, AfterLook, LoadPCs, Level, Meant
<1>2. ASSUME NoHolds PROVE TypeOK /\ suspended = 0 /\ [Next]_vars /\ TypeOK' => (suspended = 0)'
  BY <1>2, NobodyHolds
<1>3. TypeOK /\ SuspendedCounts /\ suspended = 0 /\ Alone /\ Level /\ [Next]_vars => Alone' /\ Level'
  BY AloneStep, LevelStep
<1>4. TypeOK /\ Level => MusicNotLeftQuiet
  <2>1. ASSUME TypeOK, Level, faults = 0, \A f \in Fades : run[f].pc = "idle", run[Loop].pc \notin {"loaded", "start_in"}
        PROVE  mpd.vol = 1
    <3>1. \A g \in Goroutines : ~Quiet(g)
      BY <2>1 DEF Goroutines, Quiet, TypeOK, RunsOK, LoopPCs, LoadPCs
    <3>2. QED
      BY <2>1, <3>1 DEF Level
  <2>2. QED
    BY <2>1 DEF MusicNotLeftQuiet
<1>5. ASSUME NoHolds PROVE Spec => []MusicNotLeftQuiet
  BY <1>1, <1>2, <1>3, <1>4, <1>5, TypeCorrect, CountExact, PTL DEF Spec
<1>6. QED
  BY <1>5

(***************************************************************************)
(* Back-to-back windows.  Leaving: a fade-out that goes on with another    *)
(* window takes down music that is not the music of that window, and while *)
(* it works nobody loads anything else.                                    *)
(***************************************************************************)
OutPCs     == {"out", "out_step", "out_stop"}
Another(k) == loaded.gen # gen \/ loaded.key = NoProgram \/ SourceOf[k] # SourceOf[loaded.key]
Leaving    == \A f \in Fades : run[f].pc \in OutPCs /\ run[f].next # NoWindow => Another(run[f].next)

\* A fade that loads a program, or a tick that does, has no fade-out beside it.
LEMMA LoadsAlone ==
    ASSUME TypeOK, Alone, NEW g \in Goroutines, run[g].pc \in LoadPCs \/ (g = Loop /\ run[g].pc = "decide")
    PROVE  \A f \in Fades : run[f].pc \notin OutPCs
<1>1. \A f \in Fades : run[f].pc \in OutPCs => Working(f) /\ f # g
  <2>1. Loop \notin Fades
    BY ConstantsOK DEF ConstantsOK
  <2>2. \A f \in Fades : run[f].pc \in OutPCs => run[f].pc \notin LoadPCs \cup {"idle", "end"}
    BY DEF OutPCs, LoadPCs
  <2>3. QED
    BY <2>1, <2>2 DEF Working
<1>2. CASE g = Loop
  BY <1>1, <1>2 DEF Alone, AfterLook, LoadPCs
<1>3. CASE g \in Fades
  <2>1. Working(g)
    BY <1>3, ConstantsOK DEF Working, LoadPCs, ConstantsOK
  <2>2. QED
    BY <1>1, <1>3, <2>1 DEF Alone, OneFade, Working
<1>4. QED
  BY <1>2, <1>3 DEF Goroutines

\* Outside the load and the same-program branch of a tick, what is loaded stays.
LEMMA LeavingKept ==
    ASSUME Leaving, UNCHANGED <<loaded, gen>>,
           \A f \in Fades : run'[f].pc \in OutPCs => run[f].pc \in OutPCs /\ run'[f].next = run[f].next
    PROVE  Leaving'
BY DEF Leaving, Another

LEMMA LeavingLoad ==
    ASSUME TypeOK, Alone, Leaving, NEW g \in Goroutines, LoadSteps(g)
    PROVE  Leaving'
<1>1. run[g].pc \in LoadPCs
  BY DEF LoadSteps, Resolve, LoadProgram, SetLoaded, StartFadeIn, LoadPCs
<1>2. \A f \in Fades : run[f].pc \notin OutPCs
  BY <1>1, LoadsAlone
<1>3. \A f \in Fades : run'[f].pc \notin OutPCs
  <2>1. CASE StartFadeIn(g)
    <3>1. \A f \in Fades \ {g, fade'} : run'[f] = run[f]
      BY <2>1, StartFadeInFields DEF Goroutines
    <3>2. run'[fade'].pc \notin OutPCs /\ run'[g].pc \notin OutPCs
      BY <2>1, StartFadeInFields DEF OutPCs
    <3>3. QED
      BY <1>2, <3>1, <3>2
  <2>2. CASE ~StartFadeIn(g)
    <3>1. \/ Leave(g) \/ GoTo(g, "loaded") \/ GoTo(g, "start_in")
          \/ run' = [run EXCEPT ![g].pc = "load",
                                ![g].vol = IF ProgramVolume \/ avail = "down" THEN 1 ELSE mpd.vol]
      BY <2>2 DEF LoadSteps, Resolve, LoadProgram, SetLoaded
    <3>2. run'[g].pc \notin OutPCs /\ \A h \in Goroutines \ {g} : run'[h] = run[h]
      <4>1. CASE Leave(g)
        BY <4>1, LeaveFields DEF OutPCs
      <4>2. CASE GoTo(g, "loaded") \/ GoTo(g, "start_in")
        BY <4>2, GoToFields DEF OutPCs
      <4>3. CASE run' = [run EXCEPT ![g].pc = "load",
                                    ![g].vol = IF ProgramVolume \/ avail = "down" THEN 1 ELSE mpd.vol]
        BY <4>3 DEF TypeOK, RunsOK, Runs, OutPCs
      <4>4. QED
        BY <3>1, <4>1, <4>2, <4>3
    <3>3. QED
      BY <1>2, <3>2 DEF Goroutines
  <2>3. QED
    BY <2>1, <2>2
<1>4. QED
  BY <1>3 DEF Leaving

LEMMA LeavingFade ==
    ASSUME TypeOK, Alone, Leaving, NEW f \in Fades, FadeSteps(f)
    PROVE  Leaving'
<1>0. /\ f \in Goroutines /\ run \in [Goroutines -> Runs] /\ run[f] \in Runs
  BY DEF Goroutines, TypeOK, RunsOK
<1>1. CASE LoadSteps(f)
  BY <1>0, <1>1, LeavingLoad
<1>2. ASSUME UNCHANGED <<loaded, gen>>, \A h \in Goroutines \ {f} : run'[h] = run[h],
             run'[f].pc \in OutPCs => run[f].pc \in OutPCs /\ run'[f].next = run[f].next
      PROVE  Leaving'
  <2>1. \A e \in Fades : run'[e].pc \in OutPCs => run[e].pc \in OutPCs /\ run'[e].next = run[e].next
    BY <1>2 DEF Goroutines
  <2>2. QED
    BY <1>2, <2>1, LeavingKept
<1>3. CASE FadeOutStart(f)
  <2>1. /\ run[f].pc \in OutPCs /\ run'[f].next = run[f].next /\ \A h \in Goroutines \ {f} : run'[h] = run[h]
    BY <1>0, <1>3 DEF FadeOutStart, Runs, OutPCs
  <2>2. QED
    BY <1>2, <1>3, <2>1 DEF FadeOutStart, playerVars
<1>4. CASE FadeOutSteps(f)
  BY <1>0, <1>2, <1>4, GoToFields DEF FadeOutSteps, OutPCs
<1>5. CASE FadeOutStop(f)
  <2>1. (GoTo(f, "out_restore") \/ GoTo(f, "out_done")) /\ UNCHANGED <<loaded, gen>>
    BY <1>5 DEF FadeOutStop, playerVars, Command
  <2>2. QED
    BY <1>0, <1>2, <2>1, GoToFields DEF OutPCs
<1>6. CASE FadeOutRestore(f) \/ FadeOutDone(f) \/ FadeInEnds(f)
  <2>1. (GoTo(f, "out_done") \/ GoTo(f, "resolve") \/ Leave(f)) /\ UNCHANGED <<loaded, gen>>
    BY <1>6 DEF FadeOutRestore, FadeOutDone, FadeInEnds, playerVars
  <2>2. run'[f].pc \in {"out_done", "resolve", "end", "idle"} /\ \A h \in Goroutines \ {f} : run'[h] = run[h]
    BY <1>0, <2>1, GoToFields, LeaveFields
  <2>3. QED
    BY <1>2, <2>1, <2>2 DEF OutPCs
<1>7. CASE FadeEnds(f)
  <2>1. run'[f].pc = "idle" /\ \A h \in Goroutines \ {f} : run'[h] = run[h]
    BY <1>0, <1>7, IdleRunType DEF FadeEnds
  <2>2. QED
    BY <1>2, <1>7, <2>1 DEF FadeEnds, OutPCs, playerVars
<1>8. QED
  BY <1>1, <1>3, <1>4, <1>5, <1>6, <1>7 DEF FadeSteps

LEMMA LeavingTick ==
    ASSUME TypeOK, Alone, Leaving, TickStart \/ Tick
    PROVE  Leaving'
<1>0. Loop \in Goroutines /\ Loop \notin Fades /\ run \in [Goroutines -> Runs] /\ \A f \in Fades : f \in Goroutines
  BY ConstantsOK DEF ConstantsOK, Goroutines, TypeOK, RunsOK
<1>1. CASE LoadSteps(Loop)
  BY <1>0, <1>1, LeavingLoad
<1>2. CASE TickDecide
  <2>0. /\ run[Loop].pc = "decide"
        /\ view.want \in Keys \cup {NoWindow} /\ loaded.key \in Keys \cup {NoProgram}
    BY <1>2 DEF TickDecide, TypeOK, LoopOK, Views
  <2>1. \A f \in Fades : run[f].pc \notin OutPCs
    BY <1>0, <2>0, LoadsAlone
  <2>2. \/ Leave(Loop)
        \/ run' = [run EXCEPT ![Loop].pc = "resolve", ![Loop].next = view.want]
        \/ /\ view.st.state = "play" /\ (view.want # NoWindow => ~SameProgram)
           /\ StartFade(Loop, "out", loaded.key, view.want, 0) /\ UNCHANGED <<playerVars, loaded>>
    BY <1>2, Zenon DEF TickDecide
  <2>3. CASE Leave(Loop)
    <3>1. \A f \in Fades : run'[f] = run[f]
      BY <1>0, <2>3, LeaveFields
    <3>2. QED
      BY <2>1, <3>1 DEF Leaving
  <2>4. CASE run' = [run EXCEPT ![Loop].pc = "resolve", ![Loop].next = view.want]
    <3>1. \A f \in Fades : run'[f] = run[f]
      BY <1>0, <2>4
    <3>2. QED
      BY <2>1, <3>1 DEF Leaving
  <2>5. CASE /\ view.st.state = "play" /\ (view.want # NoWindow => ~SameProgram)
             /\ StartFade(Loop, "out", loaded.key, view.want, 0) /\ UNCHANGED <<playerVars, loaded>>
    <3>1. /\ run'[fade'].next = view.want /\ fade' \in Fades
          /\ \A h \in Goroutines \ {Loop, fade'} : run'[h] = run[h]
      BY <1>0, <2>0, <2>5, RunStartFade
    <3>2. UNCHANGED <<loaded, gen>> /\ (view.want # NoWindow => Another(view.want))
      BY <2>5 DEF SameProgram, Another, playerVars
    <3>3. \A f \in Fades \ {fade'} : run'[f].pc \notin OutPCs
      BY <1>0, <2>1, <3>1
    <3>4. QED
      BY <3>1, <3>2, <3>3 DEF Leaving, Another
  <2>6. QED
    BY <2>2, <2>3, <2>4, <2>5
<1>3. CASE TickCancelFade
  <2>1. UNCHANGED <<loaded, gen>> /\ run[Loop].pc = "cancel"
    BY <1>3 DEF TickCancelFade, playerVars
  <2>2. \A f \in Fades : run'[f].pc = run[f].pc /\ run'[f].next = run[f].next
    <3>1. ~StartFadeIn(Loop) /\ run[Loop].pc # "decide"
      BY <2>1 DEF StartFadeIn
    <3>2. QED
      BY <1>3, <3>1, TickKinds DEF Tick
  <2>3. QED
    BY <2>1, <2>2, LeavingKept
<1>4. CASE TickStart \/ TickClearExpired \/ TickSnapshot \/ TickReadFade \/ TickStatus \/ TickFadeGone \/ TickEnforce
  <2>1. UNCHANGED <<loaded, gen>>
    BY <1>4 DEF TickStart, TickClearExpired, TickSnapshot, TickReadFade, TickStatus, TickFadeGone, TickEnforce,
       TryPlay, Command, playerVars
  <2>2. \A f \in Fades : run'[f] = run[f]
    <3>1. run[Loop].pc \notin {"decide", "start_in", "cancel"}
      BY <1>4 DEF TickStart, TickClearExpired, TickSnapshot, TickReadFade, TickStatus, TickFadeGone, TickEnforce
    <3>2. ~StartFadeIn(Loop)
      BY <3>1 DEF StartFadeIn
    <3>3. QED
      BY <1>4, <3>1, <3>2, TickKinds DEF Tick
  <2>3. QED
    BY <2>1, <2>2, LeavingKept
<1>5. QED
  BY <1>1, <1>2, <1>3, <1>4 DEF Tick

LEMMA LeavingStep ==
    ASSUME TypeOK, SuspendedCounts, suspended = 0, Alone, Leaving, [Next]_vars
    PROVE  Leaving'
<1>1. ASSUME UNCHANGED <<loaded, gen, run>> PROVE Leaving'
  BY <1>1 DEF Leaving, Another
<1>2. ASSUME NEW p \in Persons, PersonSteps(p) \/ \E r \in Requests : Request(p, r) PROVE Leaving'
  <2>1. person[p].pc \notin SuspendPCs
    BY SuspendersPositive DEF Suspending
  <2>2. UNCHANGED <<loaded, gen, run>>
    BY <1>2, <2>1 DEF SuspendPCs, PersonSteps, SuspendCancelFade, SuspendFadeGone, SuspendHandshake, Act, ForgetProgram,
       ReadHold, StoreOverride, Release, SwitchedOff, Request, Suspend, PostOverride, DeleteOverride, SwitchScheduler,
       clockVars, playerVars
  <2>3. QED
    BY <1>1, <2>2
<1>3. CASE Environment
  BY <1>1, <1>3, WorldKinds
<1>4. CASE UNCHANGED vars
  BY <1>1, <1>4 DEF vars, playerVars
<1>5. QED
  BY <1>2, <1>3, <1>4, LeavingTick, LeavingFade DEF Next

\* No fade stops the music of a window for a window of the same source, whatever the requests to the
\* override and the switch, faults and the clock do while it fades, as long as none suspends the loop.
THEOREM BackToBack == NoHolds => (Spec => BackToBackKeepsPlaying)
<1>1. Init => suspended = 0 /\ Alone /\ Leaving
  <2>1. Init => suspended = 0 /\ run[Loop].pc = "idle" /\ \A f \in Fades : run[f].pc = "idle"
    BY DEF Init, IdleRun, Goroutines
  <2>2. QED
    BY <2>1 DEF Alone, OneFade, Working, AfterLook, LoadPCs, Leaving, OutPCs
<1>2. ASSUME NoHolds PROVE TypeOK /\ suspended = 0 /\ [Next]_vars /\ TypeOK' => (suspended = 0)'
  BY <1>2, NobodyHolds
<1>3. TypeOK /\ SuspendedCounts /\ suspended = 0 /\ Alone /\ Leaving /\ [Next]_vars => Alone' /\ Leaving'
  BY AloneStep, LeavingStep
<1>4. Leaving => [\A f \in Fades :
                    run[f].pc = "out_stop" /\ run'[f].pc = "out_restore" /\ mpd.state = "play" /\ mpd'.state = "stop"
                       /\ run[f].next # NoWindow /\ loaded.gen = gen /\ loaded.key # NoProgram
                    => SourceOf[run[f].next] # SourceOf[loaded.key]]_<<mpd, run>>
  BY DEF Leaving, OutPCs, Another
<1>5. ASSUME NoHolds PROVE Spec => BackToBackKeepsPlaying
  BY <1>1, <1>2, <1>3, <1>4, <1>5, TypeCorrect, CountExact, PTL DEF Spec, BackToBackKeepsPlaying
<1>6. QED
  BY <1>5

(***************************************************************************)
(* Overrides.  Ends are numbers, so an override that is over stays over.   *)
(***************************************************************************)
LEMMA Least ==
    ASSUME NEW T \in SUBSET Nat, T # {}
    PROVE  \E x \in T : \A y \in T : x <= y
<1> DEFINE R == StrictSubsetOrdering(Nat)
           B == {0..x : x \in T}
<1>1. B \subseteq FiniteSubsetsOf(Nat) /\ B # {}
  <2>1. \A x \in T : 0..x \in FiniteSubsetsOf(Nat)
    BY FS_Interval DEF FiniteSubsetsOf
  <2>2. QED
    BY <2>1
<1>2. IsWellFoundedOn(R, FiniteSubsetsOf(Nat))
  BY FS_StrictSubsetOrderingWellFounded
<1> HIDE DEF R, B
<1>3. PICK b \in B : \A c \in B : ~ (<<c, b>> \in R)
  BY <1>1, <1>2, WFMin
<1>4. PICK x \in T : b = 0..x
  BY <1>3 DEF B
<1>5. ASSUME NEW y \in T, ~(x <= y) PROVE FALSE
  <2>1. 0..y \in B
    BY DEF B
  <2>2. 0..y \subseteq 0..x /\ x \in 0..x /\ x \notin 0..y /\ 0..x \subseteq Nat
    BY <1>5
  <2>3. <<0..y, 0..x>> \in R
    BY <2>2 DEF R, StrictSubsetOrdering
  <2>4. QED
    BY <1>3, <1>4, <2>1, <2>3
<1>6. QED
  BY <1>5

LEMMA EndType == ASSUME NEW o \in Overrides PROVE OverrideEnd(o) \in Nat
<1> DEFINE later == {b \in (o.created + 1)..Len(Sched) : Sched[b] # Sched[b - 1]}
<1>1. o.created \in Nat /\ o.ends \in Nat /\ Len(Sched) \in Nat
  BY ConstantsOK DEF Overrides, Slots, ConstantsOK
<1>2. NextBoundary(o.created) \in Nat
  <2>1. CASE later = {}
    BY <1>1, <2>1 DEF NextBoundary
  <2>2. CASE later # {}
    <3>1. later \subseteq Nat
      BY <1>1
    <3>2. NextBoundary(o.created) = CHOOSE b \in later : \A c \in later : b <= c
      BY <2>2 DEF NextBoundary
    <3> HIDE DEF later
    <3>3. NextBoundary(o.created) \in later
      BY <2>2, <3>1, <3>2, Least
    <3>4. QED
      BY <3>1, <3>3
  <2>3. QED
    BY <2>1, <2>2
<1>3. QED
  BY <1>1, <1>2 DEF OverrideEnd

(***************************************************************************)
(* The loop and the overrides, while overrides are stored only by people   *)
(* who hold the loop: POST /override does not, and may replace the row     *)
(* between a tick's look at it and the tick's removal of it.               *)
(***************************************************************************)
NoPosts == \A r \in Requests : r.op # "post"

OverridesInv ==
    /\ \A p \in Persons : person[p].pc = "store" => person[p].req.op # "post"
    /\ run[Loop].pc = "idle" => view.owner = "none"
    /\ view.owner = "OVERRIDDEN" => override \in {NoOverride, view.over}
    /\ run[Loop].pc = "expire" => ~Active(override)

\* What a tick has read stays until it is done, and it removes the override in two places.
LEMMA TickViews ==
    ASSUME TypeOK, TickStart \/ Tick
    PROVE  /\ UNCHANGED now
           /\ \/ view' = NoView
              \/ view'.owner = view.owner /\ view'.over = view.over /\ run'[Loop].pc # "idle"
              \/ TickSnapshot
           /\ run'[Loop].pc = "expire" => TickSnapshot
           /\ \/ UNCHANGED override
              \/ TickClearExpired /\ override' = NoOverride
              \/ run[Loop].pc = "enforce" /\ override' = NoOverride /\ view' = NoView
<1>0. /\ Loop \in Goroutines /\ run \in [Goroutines -> Runs] /\ view \in Views /\ NoView.owner = "none"
  BY NoViewType DEF Goroutines, TypeOK, RunsOK, LoopOK
<1>1. ASSUME Leave(Loop) PROVE view' = NoView /\ run'[Loop].pc = "idle"
  BY <1>0, <1>1, LeaveFields
<1>2. ASSUME NEW pc, GoTo(Loop, pc) PROVE UNCHANGED view /\ run'[Loop].pc = pc
  BY <1>0, <1>2, GoToFields DEF loopVars
<1>3. CASE TickStart \/ TickClearExpired
  BY <1>2, <1>3 DEF TickStart, TickClearExpired, clockVars
<1>4. CASE TickSnapshot
  BY <1>4 DEF TickSnapshot, clockVars
<1>5. CASE TickReadFade
  BY <1>0, <1>5 DEF TickReadFade, clockVars, Runs
<1>6. CASE TickStatus
  <2>1. UNCHANGED <<now, override>>
    BY <1>6 DEF TickStatus, clockVars
  <2>2. \/ Leave(Loop) \/ GoTo(Loop, "cancel")
        \/ /\ view' = [view EXCEPT !.st = Status]
           /\ run' = [run EXCEPT ![Loop].pc = IF view.owner = "OVERRIDDEN" THEN "enforce" ELSE "decide"]
    BY <1>6 DEF TickStatus
  <2>3. CASE /\ view' = [view EXCEPT !.st = Status]
             /\ run' = [run EXCEPT ![Loop].pc = IF view.owner = "OVERRIDDEN" THEN "enforce" ELSE "decide"]
    <3>1. view'.owner = view.owner /\ view'.over = view.over
      BY <1>0, <2>3 DEF Views
    <3>2. run'[Loop].pc \in {"enforce", "decide"}
      BY <1>0, <2>3 DEF Runs
    <3>3. QED
      BY <2>1, <3>1, <3>2
  <2>4. QED
    BY <1>1, <1>2, <2>1, <2>2, <2>3
<1>7. CASE TickCancelFade
  <2>1. UNCHANGED <<now, override>>
    BY <1>7 DEF TickCancelFade, clockVars
  <2>2. CASE Leave(Loop)
    BY <1>1, <2>1, <2>2
  <2>3. CASE ~Leave(Loop)
    <3>1. UNCHANGED view /\ run'[Loop].pc = "wait"
      BY <1>0, <1>7, <2>3 DEF TickCancelFade, CancelledRun, Runs
    <3>2. QED
      BY <2>1, <3>1
  <2>4. QED
    BY <2>2, <2>3
<1>8. CASE TickFadeGone
  BY <1>1, <1>8 DEF TickFadeGone, clockVars
<1>9. CASE TickEnforce
  <2>1. /\ run[Loop].pc = "enforce" /\ Leave(Loop) /\ UNCHANGED now
        /\ override' = NoOverride \/ UNCHANGED override
    BY <1>9, Zenon DEF TickEnforce, clockVars
  <2>2. QED
    BY <1>1, <2>1
<1>10. CASE TickDecide
  <2>0. run[Loop].pc = "decide" /\ UNCHANGED <<now, override>>
    BY <1>10 DEF TickDecide, clockVars
  <2>1. \/ Leave(Loop)
        \/ StartFade(Loop, "out", loaded.key, view.want, 0)
        \/ run' = [run EXCEPT ![Loop].pc = "resolve", ![Loop].next = view.want] /\ UNCHANGED loopVars
    BY <1>10, Zenon DEF TickDecide
  <2>2. CASE StartFade(Loop, "out", loaded.key, view.want, 0)
    <3>1. view.want \in Keys \cup {NoWindow} /\ loaded.key \in Keys \cup {NoProgram}
      BY DEF TypeOK, LoopOK, Views
    <3>2. view' = NoView /\ run'[Loop].pc = "idle"
      BY <1>0, <2>0, <2>2, <3>1, RunStartFade
    <3>3. QED
      BY <2>0, <3>2
  <2>3. CASE run' = [run EXCEPT ![Loop].pc = "resolve", ![Loop].next = view.want] /\ UNCHANGED loopVars
    <3>1. run'[Loop].pc = "resolve" /\ UNCHANGED view
      BY <1>0, <2>3 DEF Runs, loopVars
    <3>2. QED
      BY <2>0, <3>1
  <2>4. QED
    BY <1>1, <2>0, <2>1, <2>2, <2>3
<1>11. CASE LoadSteps(Loop)
  <2>1. UNCHANGED <<now, override>>
    BY <1>11 DEF LoadSteps, Resolve, LoadProgram, SetLoaded, StartFadeIn, Fault, clockVars
  <2>2. CASE StartFadeIn(Loop)
    BY <1>0, <2>1, <2>2, StartFadeInFields
  <2>3. CASE Leave(Loop) \/ GoTo(Loop, "loaded") \/ GoTo(Loop, "start_in")
    BY <1>1, <1>2, <2>1, <2>3
  <2>4. CASE /\ run' = [run EXCEPT ![Loop].pc = "load",
                                   ![Loop].vol = IF ProgramVolume \/ avail = "down" THEN 1 ELSE mpd.vol]
             /\ UNCHANGED loopVars
    <3>1. run'[Loop].pc = "load" /\ UNCHANGED view
      BY <1>0, <2>4 DEF Runs, loopVars
    <3>2. QED
      BY <2>1, <3>1
  <2>5. QED
    BY <1>11, <2>2, <2>3, <2>4 DEF LoadSteps, Resolve, LoadProgram, SetLoaded
<1>12. QED
  BY <1>3, <1>4, <1>5, <1>6, <1>7, <1>8, <1>9, <1>10, <1>11 DEF Tick

LEMMA OverridesStep ==
    ASSUME NoPosts, TypeOK, LoopIsHeld, OverridesInv, [Next]_vars
    PROVE  OverridesInv'
<1> USE DEF OverridesInv
<1>0. NoView.owner = "none" /\ NoView.over = NoOverride
  BY DEF NoView
<1>1. CASE TickStart \/ Tick
  <2>1. UNCHANGED person
    BY <1>1, OthersStep
  <2>2. CASE TickSnapshot
    <3>1. view' = Snapshot /\ UNCHANGED <<override, now>>
      BY <2>2 DEF TickSnapshot, clockVars
    <3>2. run'[Loop].pc = (IF Snapshot.expired THEN "expire" ELSE "fade")
      BY <2>2 DEF TickSnapshot, TypeOK, RunsOK, Runs, Goroutines
    <3>3. /\ Snapshot.expired => ~Active(override)
          /\ Snapshot.owner = "OVERRIDDEN" => Snapshot.over = override
      BY DEF Snapshot
    <3>4. Active(override)' = Active(override)
      BY <3>1 DEF Active, OverrideEnd, NextBoundary
    <3>5. QED
      BY <2>1, <3>1, <3>2, <3>3, <3>4
  <2>3. CASE ~TickSnapshot
    <3>1. run'[Loop].pc # "expire"
      BY <1>1, <2>3, TickViews
    <3>2. view' = NoView \/ (view'.owner = view.owner /\ view'.over = view.over /\ run'[Loop].pc # "idle")
      BY <1>1, <2>3, TickViews
    <3>3. override' \in {override, NoOverride}
      BY <1>1, TickViews
    <3>4. QED
      BY <1>0, <2>1, <3>1, <3>2, <3>3
  <2>4. QED
    BY <2>2, <2>3
<1>2. ASSUME NEW f \in Fades, FadeSteps(f) PROVE OverridesInv'
  <2>1. run'[Loop] = run[Loop] /\ UNCHANGED person
    BY <1>2, FadesLeaveLoop, OthersStep
  <2>2. UNCHANGED <<override, now, view>>
    <3>1. f # Loop
      BY ConstantsOK DEF ConstantsOK
    <3>2. UNCHANGED <<override, now>>
      BY <1>2 DEF FadeSteps, FadeOutStart, FadeOutSteps, FadeOutStop, FadeOutRestore, FadeOutDone, FadeInEnds, FadeEnds,
         LoadSteps, Resolve, LoadProgram, SetLoaded, StartFadeIn, Fault, clockVars
    <3>3. UNCHANGED view
      BY <1>2, <3>1 DEF FadeSteps, FadeOutStart, FadeOutSteps, FadeOutStop, FadeOutRestore, FadeOutDone, FadeInEnds, FadeEnds,
         LoadSteps, Resolve, LoadProgram, SetLoaded, StartFadeIn, StartFade, GoTo, Leave, loopVars
    <3>4. QED
      BY <3>2, <3>3
  <2>3. Active(override)' = Active(override)
    BY <2>2 DEF Active, OverrideEnd, NextBoundary
  <2>4. QED
    BY <2>1, <2>2, <2>3
<1>3. ASSUME NEW p \in Persons, PersonSteps(p) \/ \E r \in Requests : Request(p, r) PROVE OverridesInv'
  <2>0. person \in [Persons -> Callers] /\ person[p] \in Callers /\ Idler.pc = "idle"
    BY DEF TypeOK, CallersOK, Idler
  <2>1. /\ run'[Loop] = run[Loop] /\ UNCHANGED view
        /\ \A q \in Persons \ {p} : person'[q] = person[q]
    BY <1>3, CallerStep, CallerKinds DEF loopVars
  <2>2. UNCHANGED now
    BY <1>3 DEF PersonSteps, SuspendCancelFade, SuspendFadeGone, SuspendHandshake, Act, ForgetProgram,
       ReadHold, StoreOverride, Release, SwitchedOff, Request, Suspend, PostOverride, DeleteOverride, SwitchScheduler,
       Fault, clockVars
  <2>3. person'[p].pc = "store" => person'[p].req.op # "post"
    <3>1. CASE ReadHold(p)
      <4>1. person'[p].req = person[p].req /\ person[p].pc \in SuspendPCs
        BY <2>0, <3>1 DEF ReadHold, PersonAt, Callers, SuspendPCs
      <4>2. QED
        BY <4>1 DEF TypeOK, CallersOK
    <3>2. CASE \E r \in Requests : PostOverride(p, r)
      BY <3>2 DEF NoPosts, PostOverride
    <3>3. CASE \E r \in Requests : Suspend(p, r)
      <4>1. person'[p].pc = "cancel"
        BY <2>0, <3>3 DEF Suspend, Callers
      <4>2. QED
        BY <4>1
    <3>4. CASE \E r \in Requests : DeleteOverride(p, r) \/ SwitchScheduler(p, r)
      <4>1. PICK r \in Requests : DeleteOverride(p, r) \/ SwitchScheduler(p, r)
        BY <3>4
      <4>2. UNCHANGED person \/ PersonAt(p, "switched_off")
        BY <4>1 DEF DeleteOverride, SwitchScheduler
      <4>3. CASE PersonAt(p, "switched_off")
        BY <2>0, <4>3 DEF PersonAt, Callers
      <4>4. QED
        BY <4>2, <4>3
    <3>5. CASE SuspendCancelFade(p) \/ SuspendFadeGone(p) \/ SuspendHandshake(p) \/ Act(p) \/ ForgetProgram(p)
      <4>1. person'[p].pc \in {"handshake", "wait", "act", "release", "hold", "forget"}
        <5>1. CASE \E pc \in {"handshake", "wait", "act", "release", "hold", "forget"} : PersonAt(p, pc)
          BY <2>0, <5>1 DEF PersonAt, Callers
        <5>2. CASE person' = [person EXCEPT ![p].pc = "wait", ![p].fade = fade]
          BY <2>0, <5>2 DEF Callers
        <5>3. CASE person' = [person EXCEPT ![p].pc = "handshake", ![p].fade = NoFade]
          BY <2>0, <5>3 DEF Callers
        <5>4. QED
          BY <3>5, <5>1, <5>2, <5>3 DEF SuspendCancelFade, SuspendFadeGone, SuspendHandshake, Act, ForgetProgram
      <4>2. QED
        BY <4>1
    <3>6. CASE StoreOverride(p) \/ Release(p) \/ SwitchedOff(p)
      <4>1. person'[p].pc \in {"release", "idle"}
        BY <2>0, <3>6 DEF StoreOverride, Release, SwitchedOff, Callers
      <4>2. QED
        BY <4>1
    <3>7. QED
      BY <1>3, <3>1, <3>2, <3>3, <3>4, <3>5, <3>6 DEF PersonSteps, Request
  <2>4. CASE StoreOverride(p)
    <3>1. Holding(p)
      BY <2>4 DEF StoreOverride, Holding, Suspending
    <3>2. run[Loop].pc = "idle"
      BY <3>1 DEF LoopIsHeld
    <3>3. QED
      BY <2>1, <2>3, <3>2
  <2>5. CASE override' \in {override, NoOverride}
    <3>1. Active(override)' => Active(override)
      BY <2>2, <2>5 DEF Active, OverrideEnd, NextBoundary
    <3>2. QED
      BY <2>1, <2>3, <2>5, <3>1
  <2>6. override' \in {override, NoOverride} \/ StoreOverride(p)
    BY <1>3 DEF PersonSteps, SuspendCancelFade, SuspendFadeGone, SuspendHandshake, Act, ForgetProgram,
       ReadHold, Release, SwitchedOff, Request, Suspend, PostOverride, DeleteOverride, SwitchScheduler
  <2>7. QED
    BY <2>4, <2>5, <2>6
<1>4. CASE Environment
  <2>1. UNCHANGED <<run, view, person>>
    BY <1>4, WorldKinds DEF loopVars
  <2>2. UNCHANGED override /\ (UNCHANGED now \/ now' = now + 1)
    BY <1>4 DEF Environment, AdvanceTime, RetryElapses, MusicAdvances, NoteSong, OutputFails, ComesBack, GoesAway,
       Fault, clockVars
  <2>3. ~Active(override) => ~Active(override)'
    <3>1. CASE override = NoOverride
      BY <2>2, <3>1 DEF Active
    <3>2. CASE override \in Overrides
      <4>1. OverrideEnd(override) \in Nat /\ now \in Nat
        BY <3>2, EndType DEF TypeOK, ClockOK, Slots
      <4>2. OverrideEnd(override)' = OverrideEnd(override)
        BY <2>2 DEF OverrideEnd, NextBoundary
      <4>3. QED
        BY <2>2, <4>1, <4>2 DEF Active
    <3>3. QED
      BY <3>1, <3>2 DEF TypeOK
  <2>4. QED
    BY <2>1, <2>2, <2>3
<1>5. CASE UNCHANGED vars
  <2>1. UNCHANGED <<run, view, person, override, now>>
    BY <1>5 DEF vars, loopVars, clockVars
  <2>2. Active(override)' = Active(override)
    BY <2>1 DEF Active, OverrideEnd, NextBoundary
  <2>3. QED
    BY <2>1, <2>2
<1>6. QED
  BY <1>1, <1>2, <1>3, <1>4, <1>5 DEF Next

\* The loop removes an override only when that one is over, or when it is the Play Now it has just judged:
\* a person who holds the loop cannot put another one in its place meanwhile.  Only create-override, which
\* holds nothing, could (NoPosts).
THEOREM OverridesHold == NoPosts => (Spec => OverrideHolds)
<1>1. Init => OverridesInv
  <2>1. Init => run[Loop].pc = "idle" /\ view.owner = "none" /\ \A p \in Persons : person[p].pc = "idle"
    BY DEF Init, IdleRun, Goroutines, NoView, Idler
  <2>2. QED
    BY <2>1 DEF OverridesInv
<1>2. ASSUME NoPosts PROVE TypeOK /\ LoopIsHeld /\ OverridesInv /\ [Next]_vars => OverridesInv'
  BY <1>2, OverridesStep
<1>3. TypeOK /\ OverridesInv /\ [Next]_vars
      => [LoopStep /\ override' # override =>
            \/ run[Loop].pc = "expire" /\ ~Active(override)
            \/ run[Loop].pc = "enforce" /\ override = view.over]_<<override, run>>
  <2>1. SUFFICES ASSUME TypeOK, OverridesInv, [Next]_vars, LoopStep, override' # override
                 PROVE  \/ run[Loop].pc = "expire" /\ ~Active(override)
                        \/ run[Loop].pc = "enforce" /\ override = view.over
    OBVIOUS
  <2>2. TickStart \/ Tick
    <3>1. run'[Loop].pc # run[Loop].pc
      BY <2>1 DEF LoopStep
    <3>2. ~UNCHANGED run
      BY <3>1
    <3>3. ~Environment /\ ~UNCHANGED vars
      BY <3>2, WorldKinds DEF vars
    <3>4. QED
      BY <2>1, <3>1, <3>3, FadesLeaveLoop, CallerStep DEF Next
  <2>3. \/ TickClearExpired
        \/ run[Loop].pc = "enforce" /\ override' = NoOverride
    BY <2>1, <2>2, TickViews
  <2>4. CASE TickClearExpired
    BY <2>1, <2>4 DEF TickClearExpired, OverridesInv
  <2>5. CASE run[Loop].pc = "enforce" /\ override' = NoOverride
    BY <2>1, <2>5 DEF OverridesInv, TypeOK, LoopOK
  <2>6. QED
    BY <2>3, <2>4, <2>5
<1>4. ASSUME NoPosts PROVE Spec => OverrideHolds
  BY <1>1, <1>2, <1>3, <1>4, TypeCorrect, LoopHeld, PTL DEF Spec, OverrideHolds
<1>5. QED
  BY <1>4
=============================================================================
