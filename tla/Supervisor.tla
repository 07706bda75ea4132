----------------------------- MODULE Supervisor -----------------------------
(***************************************************************************)
(* The supervisor of MPD, internal/mpdctl/supervisor.go, with the orphan   *)
(* recovery of recover_linux.go and the settings change that reconfigures  *)
(* it, UpdateSettings of internal/app/ops.go.                              *)
(*                                                                         *)
(* The loop owns the process.  Reconfigure replaces the config file by way *)
(* of a temporary file that all its callers share, and leaves one request  *)
(* in a channel of one place.  jukem itself can be killed, and finds the   *)
(* MPD of its former life when it starts again.                            *)
(***************************************************************************)
EXTENDS Naturals, FiniteSets

CONSTANTS
    Writers,        \* goroutines that reconfigure MPD
    Configs,        \* configurations a writer may ask for
    First,          \* the configuration of the settings at first
    Partial,        \* a file whose writing has begun
    None,
    SaveFails,      \* whether the settings may fail to be saved
    MaxWrites, MaxFaults, MaxKills      \* bounds

ASSUME SupervisorConstantsOK ==
    /\ IsFiniteSet(Writers) /\ First \in Configs /\ {Partial, None} \cap Configs = {}
    /\ None \notin Nat
    /\ SaveFails \in BOOLEAN /\ MaxWrites \in Nat /\ MaxFaults \in Nat /\ MaxKills \in Nat

\* Enough files for the name, the temporary name and what every writer has open.
Files == 1..(Cardinality(Writers) + 2)

VARIABLES
    content,    \* what each file holds
    file,       \* the file that mpd.conf names
    tmp,        \* the file that mpd.conf.tmp names, or None
    saved,      \* the configuration that the stored settings amount to
    writer,     \* UpdateSettings in each writer: [pc, conf, fd]
    restart,    \* restartCh holds a request
    cancelled,  \* Stop was called
    loop,       \* the loop goroutine: [pc, reason]
    child,      \* its MPD: [state, conf]
    strays,     \* MPD processes that no loop owns
    jukem,      \* "up", "stopped" or "killed"
    writes, faults, kills   \* how much of each bound is used

store  == <<content, file, tmp, saved, writer>>
used   == <<writes, faults, kills>>
proc   == <<loop, child, strays>>
vars   == <<store, restart, cancelled, proc, jukem, used>>

NoChild == [state |-> "none", conf |-> None]
Alive   == {"starting", "loaded", "open"}
AtRest  == [pc |-> "idle", conf |-> None, fd |-> None]

\* After the first Start.
Init ==
    /\ content = [f \in Files |-> First] /\ file = 1 /\ tmp = None /\ saved = First
    /\ writer = [w \in Writers |-> AtRest]
    /\ restart = FALSE /\ cancelled = FALSE
    /\ loop = [pc |-> "drain", reason |-> None] /\ child = NoChild /\ strays = 0
    /\ jukem = "up" /\ writes = 0 /\ faults = 0 /\ kills = 0

Fault == faults < MaxFaults /\ faults' = faults + 1

(***************************************************************************)
(* UpdateSettings and Reconfigure                                          *)
(***************************************************************************)
Free == Files \ ({file, tmp} \cup {writer[w].fd : w \in Writers})

\* os.WriteFile opens the temporary file: a new one, or one that another writer made, emptied.
OpenTmp(w, c) ==
    LET f == IF tmp = None THEN CHOOSE g \in Free : TRUE ELSE tmp IN
    /\ jukem = "up" /\ writer[w].pc = "idle" /\ writes < MaxWrites
    /\ tmp' = f /\ content' = [content EXCEPT ![f] = Partial]
    /\ writer' = [writer EXCEPT ![w] = [pc |-> "fill", conf |-> c, fd |-> f]]
    /\ writes' = writes + 1
    /\ UNCHANGED <<file, saved, restart, cancelled, proc, jukem, faults, kills>>

FillTmp(w) ==
    /\ writer[w].pc = "fill"
    /\ content' = [content EXCEPT ![writer[w].fd] = writer[w].conf]
    /\ writer' = [writer EXCEPT ![w].pc = "rename", ![w].fd = None]
    /\ UNCHANGED <<file, tmp, saved, restart, cancelled, proc, jukem, used>>

\* The disk is full: the temporary file stays as it is.
WriteFails(w) ==
    /\ writer[w].pc = "fill" /\ Fault
    /\ writer' = [writer EXCEPT ![w].pc = "failed", ![w].fd = None]
    /\ UNCHANGED <<content, file, tmp, saved, restart, cancelled, proc, jukem, writes, kills>>

\* Mutation: the temporary file stays.
\* os.Rename fails when another writer has already renamed the file.
Rename(w) ==
    /\ writer[w].pc = "rename"
    /\ IF tmp = None
       THEN writer' = [writer EXCEPT ![w].pc = "failed"] /\ UNCHANGED <<file, tmp>>
       ELSE file' = tmp /\ tmp' = None /\ writer' = [writer EXCEPT ![w].pc = "renamed"]
    /\ UNCHANGED <<content, saved, restart, cancelled, proc, jukem, used>>

\* Mutation: a request waits for the loop to be in its select.
RestartMutant(w) ==
    /\ writer[w].pc = "renamed"
    /\ restart' = (restart \/ loop.pc = "running") /\ writer' = [writer EXCEPT ![w].pc = "save"]
    /\ UNCHANGED <<content, file, tmp, saved, cancelled, proc, jukem, used>>

\* A request that is already in the channel stands for this one too.
Restart(w) ==
    /\ writer[w].pc = "renamed"
    /\ restart' = TRUE /\ writer' = [writer EXCEPT ![w].pc = "save"]
    /\ UNCHANGED <<content, file, tmp, saved, cancelled, proc, jukem, used>>

SaveSettings(w) ==
    /\ writer[w].pc = "save"
    /\ \/ saved' = writer[w].conf /\ writer' = [writer EXCEPT ![w] = AtRest]
       \/ SaveFails /\ writer' = [writer EXCEPT ![w].pc = "failed"] /\ UNCHANGED saved
    /\ UNCHANGED <<content, file, tmp, restart, cancelled, proc, jukem, used>>

Refused(w) ==
    /\ writer[w].pc = "failed"
    /\ writer' = [writer EXCEPT ![w] = AtRest]
    /\ UNCHANGED <<content, file, tmp, saved, restart, cancelled, proc, jukem, used>>

(***************************************************************************)
(* The loop                                                                *)
(***************************************************************************)
\* "A restart request from before this start is already satisfied."
Drain ==
    /\ loop.pc = "drain"
    /\ restart' = FALSE /\ loop' = [loop EXCEPT !.pc = "spawn"]
    /\ UNCHANGED <<store, cancelled, child, strays, jukem, used>>

\* runOnce starts the process, or fails to.
Spawn ==
    /\ loop.pc = "spawn"
    /\ \/ /\ child' = [NoChild EXCEPT !.state = "starting"] /\ loop' = [loop EXCEPT !.pc = "wait"]
          /\ UNCHANGED faults
       \/ Fault /\ loop' = [loop EXCEPT !.pc = "backoff"] /\ UNCHANGED child
    /\ UNCHANGED <<store, restart, cancelled, strays, jukem, writes, kills>>

\* Mutation: the socket is waited for, and the requests meanwhile are forgotten.
SocketOpenMutant ==
    /\ loop.pc = "wait" /\ child.state = "open"
    /\ loop' = [loop EXCEPT !.pc = "running"] /\ restart' = FALSE
    /\ UNCHANGED <<store, cancelled, child, strays, jukem, used>>

SocketOpen ==
    /\ loop.pc = "wait" /\ child.state = "open"
    /\ loop' = [loop EXCEPT !.pc = "running"]
    /\ UNCHANGED <<store, restart, cancelled, child, strays, jukem, used>>

\* MPD has exited: runOnce returns and the loop waits before the next start.
Exited ==
    /\ loop.pc \in {"wait", "running"} /\ child.state = "dead"
    /\ child' = NoChild /\ loop' = [loop EXCEPT !.pc = "backoff"]
    /\ UNCHANGED <<store, restart, cancelled, strays, jukem, used>>

\* No socket within fifteen seconds.
TooSlow ==
    /\ loop.pc = "wait" /\ child.state \in {"starting", "loaded"} /\ Fault
    /\ loop' = [pc |-> "terminate", reason |-> "crashed"]
    /\ UNCHANGED <<store, restart, cancelled, child, strays, jukem, writes, kills>>

SeesRestart ==
    /\ loop.pc \in {"wait", "running"} /\ restart
    /\ restart' = FALSE /\ loop' = [pc |-> "terminate", reason |-> "requested"]
    /\ UNCHANGED <<store, cancelled, child, strays, jukem, used>>

SeesStop ==
    /\ loop.pc \in {"wait", "running"} /\ cancelled
    /\ loop' = [pc |-> "terminate", reason |-> "cancelled"]
    /\ UNCHANGED <<store, restart, cancelled, child, strays, jukem, used>>

\* Mutation: the loop goes on after a stop.
AfterRunMutant == CASE loop.reason = "crashed" -> "backoff"
                    [] loop.reason = "requested" /\ cancelled -> "ended"
                    [] OTHER -> "drain"

AfterRun == CASE loop.reason = "crashed" -> "backoff"
              [] loop.reason = "cancelled" \/ cancelled -> "ended"
              [] OTHER -> "drain"

\* Mutation: SIGTERM, and the exit is not awaited.
TerminateMutant ==
    /\ loop.pc = "terminate"
    /\ child' = NoChild /\ loop' = [pc |-> AfterRun, reason |-> None]
    /\ strays' = strays + (IF child.state \in Alive THEN 1 ELSE 0)
    /\ UNCHANGED <<store, restart, cancelled, jukem, used>>

\* terminate: SIGTERM, SIGKILL after five seconds, and in either case the exit is awaited.
Terminate ==
    /\ loop.pc = "terminate"
    /\ child' = NoChild /\ loop' = [pc |-> AfterRun, reason |-> None]
    /\ UNCHANGED <<store, restart, cancelled, strays, jukem, used>>

Backoff ==
    /\ loop.pc = "backoff"
    /\ \/ loop' = [loop EXCEPT !.pc = "drain"] /\ UNCHANGED restart
       \/ restart /\ restart' = FALSE /\ loop' = [loop EXCEPT !.pc = "drain"]
       \/ cancelled /\ loop' = [loop EXCEPT !.pc = "ended"] /\ UNCHANGED restart
    /\ UNCHANGED <<store, cancelled, child, strays, jukem, used>>

(***************************************************************************)
(* MPD                                                                     *)
(***************************************************************************)
ReadConf ==
    /\ child.state = "starting"
    /\ child' = [state |-> "loaded", conf |-> content[file]]
    /\ UNCHANGED <<store, restart, cancelled, loop, strays, jukem, used>>

OpenSocket ==
    /\ child.state = "loaded"
    /\ child' = [child EXCEPT !.state = "open"]
    /\ UNCHANGED <<store, restart, cancelled, loop, strays, jukem, used>>

Crash ==
    /\ child.state \in Alive /\ Fault
    /\ child' = [child EXCEPT !.state = "dead"]
    /\ UNCHANGED <<store, restart, cancelled, loop, strays, jukem, writes, kills>>

(***************************************************************************)
(* The life of jukem                                                       *)
(***************************************************************************)
Stop ==
    /\ jukem = "up" /\ ~cancelled /\ cancelled' = TRUE
    /\ UNCHANGED <<store, restart, proc, jukem, used>>

\* Stop waits for the loop.  Then the process exits, and the writers with it.
Stopped ==
    /\ jukem = "up" /\ loop.pc = "ended"
    /\ jukem' = "stopped" /\ writer' = [w \in Writers |-> AtRest]
    /\ UNCHANGED <<content, file, tmp, saved, restart, cancelled, proc, used>>

\* jukem is killed or panics.  Its MPD stays.
Kill ==
    /\ jukem = "up" /\ kills < MaxKills
    /\ jukem' = "killed" /\ kills' = kills + 1
    /\ writer' = [w \in Writers |-> AtRest]
    /\ strays' = strays + (IF child.state \in Alive THEN 1 ELSE 0) /\ child' = NoChild
    /\ loop' = [pc |-> "ended", reason |-> None]
    /\ UNCHANGED <<content, file, tmp, saved, restart, cancelled, writes, faults>>

\* Mutation: a config that is there is good enough.
BootMutant ==
    /\ jukem # "up" /\ jukem' = "up"
    /\ strays' = 0 /\ loop' = [pc |-> "drain", reason |-> None]
    /\ restart' = FALSE /\ cancelled' = FALSE
    /\ UNCHANGED <<store, child, used>>

\* Mutation: no orphan is looked for after a clean pid file.
RecoverMutant ==
    /\ jukem # "up" /\ jukem' = "up"
    /\ file' = IF tmp = None THEN CHOOSE g \in Free : TRUE ELSE tmp
    /\ content' = [content EXCEPT ![file'] = saved] /\ tmp' = None
    /\ loop' = [pc |-> "drain", reason |-> None] /\ restart' = FALSE /\ cancelled' = FALSE
    /\ UNCHANGED <<saved, writer, strays, child, used>>

\* Start: the orphan is killed, by pid file or by command line, and the config is written anew.
Boot ==
    /\ jukem # "up" /\ jukem' = "up"
    /\ strays' = 0
    /\ file' = IF tmp = None THEN CHOOSE g \in Free : TRUE ELSE tmp
    /\ content' = [content EXCEPT ![file'] = saved] /\ tmp' = None
    /\ loop' = [pc |-> "drain", reason |-> None] /\ restart' = FALSE /\ cancelled' = FALSE
    /\ UNCHANGED <<saved, writer, child, used>>

WriterStep(w) == FillTmp(w) \/ WriteFails(w) \/ Rename(w) \/ Restart(w) \/ SaveSettings(w) \/ Refused(w)
LoopStep  == Drain \/ Spawn \/ SocketOpen \/ Exited \/ TooSlow \/ SeesRestart \/ SeesStop
             \/ Terminate \/ Backoff
ChildStep == ReadConf \/ OpenSocket

Next ==
    \/ \E w \in Writers : WriterStep(w) \/ (\E c \in Configs : OpenTmp(w, c))
    \/ LoopStep \/ ChildStep \/ Crash
    \/ Stop \/ Stopped \/ Kill \/ Boot

Spec == Init /\ [][Next]_vars

\* Goroutines run, and an MPD that is left alone opens its socket.  Crash, Kill, Stop, Boot and a
\* new request are never owed.
Fairness ==
    /\ \A w \in Writers : WF_vars(WriterStep(w))
    /\ WF_vars(LoopStep) /\ WF_vars(ChildStep) /\ WF_vars(Stopped)

FairSpec == Spec /\ Fairness

(***************************************************************************)
(* Properties                                                              *)
(***************************************************************************)
TypeOK ==
    /\ content \in [Files -> Configs \cup {Partial}]
    /\ file \in Files /\ tmp \in (Files \ {file}) \cup {None} /\ saved \in Configs
    /\ writer \in [Writers -> [pc : {"idle", "fill", "rename", "renamed", "save", "failed"},
                               conf : Configs \cup {None}, fd : Files \cup {None}]]
    /\ restart \in BOOLEAN /\ cancelled \in BOOLEAN
    /\ loop \in [pc : {"drain", "spawn", "wait", "running", "terminate", "backoff", "ended"},
                 reason : {None, "crashed", "requested", "cancelled"}]
    /\ child \in [state : {"none", "starting", "loaded", "open", "dead"},
                  conf : Configs \cup {Partial, None}]
    /\ strays \in Nat /\ jukem \in {"up", "stopped", "killed"}
    /\ writes \in 0..MaxWrites /\ faults \in 0..MaxFaults /\ kills \in 0..MaxKills

\* killAndWait, terminate: the next MPD never finds the device busy.  Whatever restarts, crashes
\* and deaths of jukem come together, an MPD is started only when no other one is alive.
OneMPD == child.state # "none" => strays = 0

\* Stop: "Stop ends MPD and the restart loop".  When it has returned no MPD is left.
StopEndsMPD == jukem = "stopped" => child.state = "none" /\ strays = 0

\* loop: "A restart request from before this start is already satisfied".  An MPD that has read
\* another config than the file now holds is about to be replaced: a request is in the channel,
\* or on its way to it, or the loop is already ending the process.
ConfReachesMPD ==
    child.state \in {"loaded", "open"} /\ jukem = "up" =>
        \/ child.conf = content[file]
        \/ restart \/ \E w \in Writers : writer[w].pc = "renamed"
        \/ loop.pc = "terminate"

\* The settings and the config that MPD is started with agree whenever no change is under way,
\* after a kill of jukem between the two writes as well.
SavedMatchesConf ==
    jukem = "up" /\ (\A w \in Writers : writer[w].pc = "idle") => content[file] = saved

\* Reconfigure: while jukem runs on, MPD ends up running, with the config that was written last.
RunsLastConf ==
    <>[](jukem = "up" /\ ~cancelled) => <>[](child.state = "open" /\ child.conf = content[file])

\* Stop returns, whatever MPD does: also during its start, the backoff, and with a request pending.
StopReturns == cancelled /\ jukem = "up" ~> jukem # "up"

=============================================================================
