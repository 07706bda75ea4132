-------------------------- MODULE SupervisorProofs --------------------------
(***************************************************************************)
(* For any number of configurations, crashes and deaths of jukem: at most  *)
(* one MPD at a time and none after Stop, the type of the state, and, for  *)
(* changes of the settings that do not overlap, that a config that is in   *)
(* place reaches MPD and agrees with the stored settings.                  *)
(***************************************************************************)
EXTENDS Supervisor, FiniteSetTheorems, TLAPS

LoopPCs == {"drain", "spawn", "wait", "running", "terminate", "backoff", "ended"}

\* The inductive invariant.  A process that nobody owns is there only after jukem was killed, and
\* the loop has a child only between the start of the process and its awaited end.
Owned ==
    /\ jukem \in {"up", "stopped", "killed"} /\ strays \in Nat
    /\ loop \in [pc : LoopPCs, reason : {None, "crashed", "requested", "cancelled"}]
    /\ jukem # "killed" => strays = 0
    /\ jukem # "up" => loop.pc = "ended"
    /\ child.state # "none" => loop.pc \in {"wait", "running", "terminate"}

LEMMA InitOwned == Init => Owned
BY DEF Init, Owned, NoChild, LoopPCs

\* A step of a writer leaves the processes alone.
LEMMA WriterOwned ==
    ASSUME Owned, NEW w \in Writers, WriterStep(w) \/ \E c \in Configs : OpenTmp(w, c)
    PROVE  Owned'
BY DEF WriterStep, FillTmp, WriteFails, Fault, Rename, Restart, SaveSettings, Refused, OpenTmp, Owned, proc

\* The loop awaits the end of the process on every way out of runOnce.
LEMMA LoopOwned == ASSUME Owned, LoopStep PROVE Owned'
<1>1. CASE Drain        BY <1>1 DEF Drain, Owned, LoopPCs
<1>2. CASE Spawn        BY <1>2 DEF Spawn, Fault, Owned, LoopPCs
<1>3. CASE SocketOpen   BY <1>3 DEF SocketOpen, Owned, LoopPCs
<1>4. CASE Exited       BY <1>4 DEF Exited, Owned, LoopPCs, NoChild
<1>5. CASE TooSlow      BY <1>5 DEF TooSlow, Fault, Owned, LoopPCs
<1>6. CASE SeesRestart  BY <1>6 DEF SeesRestart, Owned, LoopPCs
<1>7. CASE SeesStop     BY <1>7 DEF SeesStop, Owned, LoopPCs
<1>8. CASE Terminate    BY <1>8 DEF Terminate, Owned, LoopPCs, NoChild, AfterRun
<1>9. CASE Backoff      BY <1>9 DEF Backoff, Owned, LoopPCs
<1> QED BY <1>1, <1>2, <1>3, <1>4, <1>5, <1>6, <1>7, <1>8, <1>9 DEF LoopStep

LEMMA ChildOwned == ASSUME Owned, ChildStep \/ Crash PROVE Owned'
<1>1. CASE ReadConf     BY <1>1 DEF ReadConf, Owned
<1>2. CASE OpenSocket   BY <1>2 DEF OpenSocket, Owned
<1>3. CASE Crash        BY <1>3 DEF Crash, Fault, Owned, Alive
<1> QED BY <1>1, <1>2, <1>3 DEF ChildStep

\* A kill leaves at most the one child behind, and Boot does not go on before it is gone.
LEMMA LifeOwned == ASSUME Owned, Stop \/ Stopped \/ Kill \/ Boot PROVE Owned'
<1>1. CASE Stop         BY <1>1 DEF Stop, Owned, proc
<1>2. CASE Stopped      BY <1>2 DEF Stopped, Owned, proc
<1>3. CASE Kill         BY <1>3 DEF Kill, Owned, NoChild, LoopPCs
<1>4. CASE Boot
  <2>1. child.state = "none"   BY <1>4 DEF Boot, Owned
  <2> QED BY <1>4, <2>1 DEF Boot, Owned, LoopPCs
<1> QED BY <1>1, <1>2, <1>3, <1>4

LEMMA NextOwned == Owned /\ [Next]_vars => Owned'
<1> SUFFICES ASSUME Owned, [Next]_vars PROVE Owned'   OBVIOUS
<1>1. CASE \E w \in Writers : WriterStep(w) \/ (\E c \in Configs : OpenTmp(w, c))
      BY <1>1, WriterOwned
<1>2. CASE LoopStep                             BY <1>2, LoopOwned
<1>3. CASE ChildStep \/ Crash                   BY <1>3, ChildOwned
<1>4. CASE Stop \/ Stopped \/ Kill \/ Boot      BY <1>4, LifeOwned
<1>5. CASE UNCHANGED vars                       BY <1>5 DEF vars, proc, Owned
<1> QED BY <1>1, <1>2, <1>3, <1>4, <1>5 DEF Next

LEMMA AlwaysOwned == Spec => []Owned
BY InitOwned, NextOwned, PTL DEF Spec

\* No MPD is started while another one is alive (terminate, killAndWait), however requests, crashes
\* and deaths of jukem fall together.
THEOREM OneMPDAtATime == Spec => []OneMPD
<1>1. Owned => OneMPD
  <2> SUFFICES ASSUME Owned, child.state # "none" PROVE strays = 0   BY DEF OneMPD
  <2>1. jukem = "up"   BY DEF Owned
  <2> QED BY <2>1 DEF Owned
<1> QED BY <1>1, AlwaysOwned, PTL

\* After Stop has returned no MPD is left (Stop, loop).
THEOREM StopEnds == Spec => []StopEndsMPD
<1>1. Owned => StopEndsMPD
  <2> SUFFICES ASSUME Owned, jukem = "stopped" PROVE child.state = "none" /\ strays = 0
      BY DEF StopEndsMPD
  <2> QED BY DEF Owned
<1> QED BY <1>1, AlwaysOwned, PTL

(***************************************************************************)
(* The files.  TypeOK says that the temporary file is never the one that   *)
(* mpd.conf names; it is inductive because a new file can always be had.   *)
(***************************************************************************)
\* Only a writer in the middle of its write has a file open, and only one of the N + 2 files is
\* mpd.conf.
LEMMA NewFile == TypeOK /\ tmp = None => Free # {}
<1> SUFFICES ASSUME TypeOK, tmp = None PROVE Free # {}   OBVIOUS
<1> DEFINE Open  == {writer[w].fd : w \in Writers}
           Taken == Open \cup {file}
           N     == Cardinality(Writers)
<1>1. IsFiniteSet(Writers) /\ N \in Nat
      BY SupervisorConstantsOK, FS_CardinalityType
<1>2. IsFiniteSet(Open) /\ Cardinality(Open) <= N
  <2> DEFINE fd[w \in Writers] == writer[w].fd
  <2>1. fd \in Surjection(Writers, Open)   BY DEF Surjection
  <2> QED BY <2>1, <1>1, FS_Surjection
<1>3. Cardinality(Open) \in Nat   BY <1>2, FS_CardinalityType
<1>4. IsFiniteSet(Taken) /\ Cardinality(Taken) <= N + 1
  <2> HIDE DEF Open
  <2>1. /\ IsFiniteSet(Open \cup {file})
        /\ Cardinality(Open \cup {file}) =
               IF file \in Open THEN Cardinality(Open) ELSE Cardinality(Open) + 1
        BY <1>2, FS_AddElement
  <2> QED BY <2>1, <1>1, <1>2, <1>3
<1>5. IsFiniteSet(Files) /\ Cardinality(Files) = N + 2
      BY <1>1, FS_Interval DEF Files
<1>6. Cardinality(Taken) \in Nat   BY <1>4, FS_CardinalityType
<1>7. ~(Files \subseteq Taken)
      BY <1>1, <1>4, <1>5, <1>6, FS_Subset
<1>8. PICK f \in Files : f \notin Taken   BY <1>7
<1>9. None \notin Nat /\ f \in Nat   BY SupervisorConstantsOK DEF Files
<1> QED BY <1>8, <1>9 DEF Free

\* The inductive form of TypeOK: a writer that has begun knows what it writes.
Typed == TypeOK /\ \A w \in Writers : writer[w].pc # "idle" => writer[w].conf \in Configs

LEMMA InitTyped == Init => Typed
<1> SUFFICES ASSUME Init PROVE Typed   OBVIOUS
<1>1. 1 \in Files
  <2>1. Cardinality(Writers) \in Nat   BY SupervisorConstantsOK, FS_CardinalityType
  <2> QED BY <2>1 DEF Files
<1>2. /\ content \in [Files -> Configs \cup {Partial}]
      /\ file \in Files /\ tmp \in (Files \ {file}) \cup {None} /\ saved \in Configs
      BY <1>1, SupervisorConstantsOK DEF Init
<1>3. /\ writer \in [Writers -> [pc : {"idle", "fill", "rename", "renamed", "save", "failed"},
                               conf : Configs \cup {None}, fd : Files \cup {None}]]
      /\ \A w \in Writers : writer[w].pc # "idle" => writer[w].conf \in Configs
      BY DEF Init, AtRest
<1>4. /\ writes \in 0..MaxWrites /\ faults \in 0..MaxFaults /\ kills \in 0..MaxKills
      /\ strays \in Nat
      BY SupervisorConstantsOK DEF Init
<1>5. /\ restart \in BOOLEAN /\ cancelled \in BOOLEAN
      /\ loop \in [pc : {"drain", "spawn", "wait", "running", "terminate", "backoff", "ended"},
                   reason : {None, "crashed", "requested", "cancelled"}]
      /\ child \in [state : {"none", "starting", "loaded", "open", "dead"},
                    conf : Configs \cup {Partial, None}]
      /\ jukem \in {"up", "stopped", "killed"}
      BY DEF Init, NoChild
<1> QED BY <1>2, <1>3, <1>4, <1>5 DEF Typed, TypeOK

\* Only OpenTmp needs a new file; the other steps of a writer change one record.
LEMMA WriterTyped ==
    ASSUME Typed, NEW w \in Writers, WriterStep(w) \/ \E c \in Configs : OpenTmp(w, c)
    PROVE  Typed'
<1> USE DEF Typed
<1>1. ASSUME NEW c \in Configs, OpenTmp(w, c) PROVE Typed'
  <2> DEFINE f == IF tmp = None THEN CHOOSE g \in Free : TRUE ELSE tmp
  <2>1. f \in Files \ {file}   BY NewFile DEF TypeOK, Free
  <2>2. /\ tmp' = f /\ content' = [content EXCEPT ![f] = Partial]
        /\ writer' = [writer EXCEPT ![w] = [pc |-> "fill", conf |-> c, fd |-> f]]
        /\ writes < MaxWrites /\ writes' = writes + 1
        /\ UNCHANGED <<file, saved, restart, cancelled, proc, jukem, faults, kills>>
        BY <1>1 DEF OpenTmp
  <2> HIDE DEF f
  <2> QED BY <2>1, <2>2, SupervisorConstantsOK DEF TypeOK, proc
<1>2. CASE FillTmp(w)
  <2>1. writer[w].conf \in Configs   BY <1>2 DEF FillTmp
  <2>2. content' \in [Files -> Configs \cup {Partial}]   BY <1>2, <2>1 DEF FillTmp, TypeOK
  <2>3. /\ writer' \in [Writers -> [pc : {"idle", "fill", "rename", "renamed", "save", "failed"},
                                    conf : Configs \cup {None}, fd : Files \cup {None}]]
        /\ \A v \in Writers : writer'[v].conf = writer[v].conf
        /\ \A v \in Writers \ {w} : writer'[v] = writer[v]
        BY <1>2 DEF FillTmp, TypeOK
  <2> QED BY <1>2, <2>1, <2>2, <2>3 DEF FillTmp, TypeOK, proc, used
<1>3. CASE Rename(w)        BY <1>3 DEF Rename, TypeOK, proc, used
<1>4. CASE Restart(w)       BY <1>4 DEF Restart, TypeOK, proc, used
<1>5. CASE SaveSettings(w)  BY <1>5 DEF SaveSettings, TypeOK, proc, used, AtRest
<1>6. CASE Refused(w)       BY <1>6 DEF Refused, TypeOK, proc, used, AtRest
<1>7. CASE WriteFails(w)
  <2>1. faults' \in 0..MaxFaults   BY <1>7, SupervisorConstantsOK DEF WriteFails, Fault, TypeOK
  <2>2. /\ writer' \in [Writers -> [pc : {"idle", "fill", "rename", "renamed", "save", "failed"},
                                    conf : Configs \cup {None}, fd : Files \cup {None}]]
        /\ \A v \in Writers : writer'[v].conf = writer[v].conf
        /\ \A v \in Writers \ {w} : writer'[v] = writer[v]
        /\ writer[w].pc = "fill"
        BY <1>7 DEF WriteFails, TypeOK
  <2> QED BY <1>7, <2>1, <2>2 DEF WriteFails, TypeOK, proc
<1> QED BY <1>1, <1>2, <1>3, <1>4, <1>5, <1>6, <1>7 DEF WriterStep

LEMMA LoopTyped == ASSUME Typed, LoopStep PROVE Typed'
<1> USE DEF Typed, TypeOK, store
<1>1. CASE Drain        BY <1>1 DEF Drain, used
<1>2. CASE Spawn        BY <1>2, SupervisorConstantsOK DEF Spawn, Fault, NoChild
<1>3. CASE SocketOpen   BY <1>3 DEF SocketOpen, used
<1>4. CASE Exited       BY <1>4 DEF Exited, NoChild, used
<1>5. CASE TooSlow      BY <1>5, SupervisorConstantsOK DEF TooSlow, Fault
<1>6. CASE SeesRestart  BY <1>6 DEF SeesRestart, used
<1>7. CASE SeesStop     BY <1>7 DEF SeesStop, used
<1>8. CASE Terminate    BY <1>8 DEF Terminate, NoChild, AfterRun, used
<1>9. CASE Backoff      BY <1>9 DEF Backoff, used
<1> QED BY <1>1, <1>2, <1>3, <1>4, <1>5, <1>6, <1>7, <1>8, <1>9 DEF LoopStep

LEMMA ChildTyped == ASSUME Typed, ChildStep \/ Crash PROVE Typed'
<1> USE DEF Typed, TypeOK, store
<1>1. CASE ReadConf     BY <1>1 DEF ReadConf, used
<1>2. CASE OpenSocket   BY <1>2 DEF OpenSocket, used
<1>3. CASE Crash        BY <1>3, SupervisorConstantsOK DEF Crash, Fault
<1> QED BY <1>1, <1>2, <1>3 DEF ChildStep

LEMMA LifeTyped == ASSUME Typed, Stop \/ Stopped \/ Kill \/ Boot PROVE Typed'
<1> USE DEF Typed
<1>1. CASE Stop         BY <1>1 DEF Stop, TypeOK, store, proc, used
<1>2. CASE Stopped      BY <1>2 DEF Stopped, TypeOK, proc, used, AtRest
<1>3. CASE Kill         BY <1>3, SupervisorConstantsOK DEF Kill, TypeOK, AtRest, NoChild
<1>4. CASE Boot
  <2> DEFINE f == IF tmp = None THEN CHOOSE g \in Free : TRUE ELSE tmp
  <2>1. f \in Files   BY NewFile DEF TypeOK, Free
  <2>2. /\ jukem' = "up" /\ strays' = 0 /\ file' = f /\ tmp' = None
        /\ content' = [content EXCEPT ![f] = saved]
        /\ loop' = [pc |-> "drain", reason |-> None] /\ restart' = FALSE /\ cancelled' = FALSE
        /\ UNCHANGED <<saved, writer, child, used>>
        BY <1>4 DEF Boot
  <2> HIDE DEF f
  <2> QED BY <2>1, <2>2 DEF TypeOK, used
<1> QED BY <1>1, <1>2, <1>3, <1>4

LEMMA NextTyped == Typed /\ [Next]_vars => Typed'
<1> SUFFICES ASSUME Typed, [Next]_vars PROVE Typed'   OBVIOUS
<1>1. CASE \E w \in Writers : WriterStep(w) \/ (\E c \in Configs : OpenTmp(w, c))
      BY <1>1, WriterTyped
<1>2. CASE LoopStep                             BY <1>2, LoopTyped
<1>3. CASE ChildStep \/ Crash                   BY <1>3, ChildTyped
<1>4. CASE Stop \/ Stopped \/ Kill \/ Boot      BY <1>4, LifeTyped
<1>5. CASE UNCHANGED vars                       BY <1>5 DEF vars, store, proc, used, Typed, TypeOK
<1> QED BY <1>1, <1>2, <1>3, <1>4, <1>5 DEF Next

LEMMA AlwaysTyped == Spec => []Typed
BY InitTyped, NextTyped, PTL DEF Spec

\* The state has its type (writeConf): the temporary name never stands for the file that mpd.conf
\* names, and a new file for it can always be had.
THEOREM SupervisorTypeCorrect == Spec => []TypeOK
<1>1. Typed => TypeOK   BY DEF Typed
<1> QED BY <1>1, AlwaysTyped, PTL

(***************************************************************************)
(* The config reaches MPD, when changes of the settings do not overlap.    *)
(* Two that do share the temporary file: the second then writes on into    *)
(* the file that the first has put in place.                               *)
(***************************************************************************)
OneWriter == \A v, w \in Writers : v = w

\* The inductive invariant: the file that is being written is the temporary one.
Placed ==
    /\ Typed /\ Owned /\ ConfReachesMPD
    /\ \A w \in Writers : writer[w].pc = "fill" => writer[w].fd = tmp /\ tmp # None
    /\ jukem # "up" => \A w \in Writers : writer[w].pc = "idle"

LEMMA InitPlaced == Init => Placed
BY InitTyped, InitOwned DEF Init, Placed, ConfReachesMPD, NoChild, AtRest

LEMMA WriterPlaced ==
    ASSUME OneWriter, Placed, Typed', Owned', NEW w \in Writers,
           WriterStep(w) \/ \E c \in Configs : OpenTmp(w, c)
    PROVE  Placed'
<1> Writers = {w}   BY DEF OneWriter
<1> USE DEF Placed, ConfReachesMPD, Typed, TypeOK, proc, used
<1>1. ASSUME NEW c \in Configs, OpenTmp(w, c) PROVE Placed'
  <2> DEFINE f == IF tmp = None THEN CHOOSE g \in Free : TRUE ELSE tmp
  <2>1. f \in Files \ {file} /\ f # None
        BY NewFile, SupervisorConstantsOK DEF Free, Files
  <2>2. /\ tmp' = f /\ content' = [content EXCEPT ![f] = Partial]
        /\ writer[w].pc = "idle"
        /\ writer' = [writer EXCEPT ![w] = [pc |-> "fill", conf |-> c, fd |-> f]]
        /\ jukem = "up" /\ UNCHANGED <<file, restart, loop, child, jukem>>
        BY <1>1 DEF OpenTmp
  <2> HIDE DEF f
  <2>3. content'[file'] = content[file]   BY <2>1, <2>2
  <2> QED BY <2>1, <2>2, <2>3
<1>2. CASE FillTmp(w)
  <2>1. content'[file'] = content[file]   BY <1>2 DEF FillTmp
  <2> QED BY <1>2, <2>1 DEF FillTmp
<1>3. CASE Rename(w)        BY <1>3 DEF Rename
<1>4. CASE Restart(w)       BY <1>4 DEF Restart
<1>5. CASE SaveSettings(w)  BY <1>5 DEF SaveSettings, AtRest
<1>6. CASE Refused(w)       BY <1>6 DEF Refused, AtRest
<1>7. CASE WriteFails(w)    BY <1>7 DEF WriteFails
<1> QED BY <1>1, <1>2, <1>3, <1>4, <1>5, <1>6, <1>7 DEF WriterStep

\* MPD reads the file that is in place; a request is only taken on the way to ending MPD.
LEMMA ProcessPlaced ==
    ASSUME Placed, Typed', Owned', LoopStep \/ ChildStep \/ Crash
    PROVE  Placed'
<1> USE DEF Placed, ConfReachesMPD, Owned, store
<1>1. CASE Drain        BY <1>1 DEF Drain
<1>2. CASE Spawn        BY <1>2 DEF Spawn, NoChild
<1>3. CASE SocketOpen   BY <1>3 DEF SocketOpen
<1>4. CASE Exited       BY <1>4 DEF Exited, NoChild
<1>5. CASE TooSlow      BY <1>5 DEF TooSlow
<1>6. CASE SeesRestart  BY <1>6 DEF SeesRestart
<1>7. CASE SeesStop     BY <1>7 DEF SeesStop
<1>8. CASE Terminate    BY <1>8 DEF Terminate, NoChild
<1>9. CASE Backoff      BY <1>9 DEF Backoff
<1>10. CASE ReadConf    BY <1>10 DEF ReadConf
<1>11. CASE OpenSocket  BY <1>11 DEF OpenSocket
<1>12. CASE Crash       BY <1>12 DEF Crash
<1> QED BY <1>1, <1>2, <1>3, <1>4, <1>5, <1>6, <1>7, <1>8, <1>9, <1>10, <1>11, <1>12
        DEF LoopStep, ChildStep

LEMMA LifePlaced ==
    ASSUME Placed, Typed', Owned', Stop \/ Stopped \/ Kill \/ Boot
    PROVE  Placed'
<1> USE DEF Placed, ConfReachesMPD, Owned, store, proc
<1>1. CASE Stop         BY <1>1 DEF Stop
<1>2. CASE Stopped      BY <1>2 DEF Stopped, AtRest
<1>3. CASE Kill         BY <1>3 DEF Kill, AtRest, NoChild
<1>4. CASE Boot
  <2>1. child'.state = "none" /\ jukem' = "up"   BY <1>4 DEF Boot
  <2>2. writer' = writer /\ \A w \in Writers : writer[w].pc = "idle"   BY <1>4 DEF Boot
  <2> QED BY <2>1, <2>2
<1> QED BY <1>1, <1>2, <1>3, <1>4

LEMMA NextPlaced == OneWriter /\ Placed /\ [Next]_vars => Placed'
<1> SUFFICES ASSUME OneWriter, Placed, [Next]_vars PROVE Placed'   OBVIOUS
<1>0. Typed' /\ Owned'   BY NextTyped, NextOwned DEF Placed
<1>1. CASE \E w \in Writers : WriterStep(w) \/ (\E c \in Configs : OpenTmp(w, c))
      BY <1>0, <1>1, WriterPlaced
<1>2. CASE LoopStep \/ ChildStep \/ Crash       BY <1>0, <1>2, ProcessPlaced
<1>3. CASE Stop \/ Stopped \/ Kill \/ Boot      BY <1>0, <1>3, LifePlaced
<1>4. CASE UNCHANGED vars
      BY <1>0, <1>4 DEF vars, store, proc, used, Placed, ConfReachesMPD
<1> QED BY <1>1, <1>2, <1>3, <1>4 DEF Next

\* A config that is in place reaches MPD, however requests and restarts fall together: MPD has read
\* it, or a request that will make it read it is on its way (Reconfigure, loop).
THEOREM ConfReaches == OneWriter => (Spec => []ConfReachesMPD)
<1>1. Placed => ConfReachesMPD   BY DEF Placed
<1>2. ASSUME OneWriter PROVE Placed /\ [Next]_vars => Placed'   BY <1>2, NextPlaced
<1>3. ASSUME OneWriter PROVE Spec => []ConfReachesMPD
      BY <1>1, <1>2, <1>3, InitPlaced, PTL DEF Spec
<1> QED BY <1>3

(***************************************************************************)
(* The settings and the config agree, when changes do not overlap and the  *)
(* settings can be saved.  A save that fails comes after the config is in  *)
(* place, and then the two do part until jukem starts again.               *)
(***************************************************************************)
\* The inductive invariant: where a change has got to says which of the files holds what.
Agreed ==
    /\ SavedMatchesConf
    /\ jukem = "up" => \A w \in Writers :
         /\ writer[w].pc \in {"fill", "rename", "failed"} => content[file] = saved
         /\ writer[w].pc = "rename" => tmp # None /\ content[tmp] = writer[w].conf
         /\ writer[w].pc \in {"renamed", "save"} => content[file] = writer[w].conf

LEMMA InitAgreed == Init => Agreed
<1> SUFFICES ASSUME Init PROVE Agreed   OBVIOUS
<1>1. 1 \in Files
  <2>1. Cardinality(Writers) \in Nat   BY SupervisorConstantsOK, FS_CardinalityType
  <2> QED BY <2>1 DEF Files
<1> QED BY <1>1 DEF Init, Agreed, SavedMatchesConf, AtRest

LEMMA WriterAgreed ==
    ASSUME OneWriter, ~SaveFails, Placed, Agreed, NEW w \in Writers,
           WriterStep(w) \/ \E c \in Configs : OpenTmp(w, c)
    PROVE  Agreed'
<1> Writers = {w}   BY DEF OneWriter
<1>0. /\ content \in [Files -> Configs \cup {Partial}]
      /\ file \in Files /\ tmp \in (Files \ {file}) \cup {None}
      /\ writer \in [Writers -> [pc : {"idle", "fill", "rename", "renamed", "save", "failed"},
                                 conf : Configs \cup {None}, fd : Files \cup {None}]]
      BY DEF Placed, Typed, TypeOK
<1>1. jukem = "up"
  <2>1. (\E c \in Configs : OpenTmp(w, c)) => jukem = "up"   BY DEF OpenTmp
  <2>2. WriterStep(w) => writer[w].pc # "idle"
        BY DEF WriterStep, FillTmp, WriteFails, Rename, Restart, SaveSettings, Refused
  <2> QED BY <2>1, <2>2 DEF Placed
<1> USE DEF Agreed, SavedMatchesConf
<1>2. ASSUME NEW c \in Configs, OpenTmp(w, c) PROVE Agreed'
  <2> DEFINE f == IF tmp = None THEN CHOOSE g \in Free : TRUE ELSE tmp
  <2>1. f \in Files \ {file}
        BY NewFile DEF Free, Placed, Typed, TypeOK
  <2>2. /\ content' = [content EXCEPT ![f] = Partial] /\ writer[w].pc = "idle"
        /\ writer' = [writer EXCEPT ![w] = [pc |-> "fill", conf |-> c, fd |-> f]]
        /\ UNCHANGED <<file, saved>>
        BY <1>2 DEF OpenTmp
  <2> HIDE DEF f
  <2>3. content'[file'] = content[file]   BY <1>0, <2>1, <2>2
  <2>4. writer'[w].pc = "fill"   BY <1>0, <2>2
  <2> QED BY <1>1, <2>2, <2>3, <2>4
<1>3. CASE FillTmp(w)
  <2>1. writer[w].fd = tmp /\ tmp # None /\ writer[w].pc = "fill"   BY <1>3 DEF FillTmp, Placed
  <2>2. /\ content'[file'] = content[file] /\ content'[tmp'] = writer[w].conf
        /\ tmp' = tmp /\ saved' = saved
        BY <1>0, <1>3, <2>1 DEF FillTmp
  <2>3. writer'[w].pc = "rename" /\ writer'[w].conf = writer[w].conf   BY <1>0, <1>3 DEF FillTmp
  <2> QED BY <1>1, <2>1, <2>2, <2>3
<1>4. CASE WriteFails(w)
  <2>1. writer'[w].pc = "failed" /\ writer[w].pc = "fill"   BY <1>0, <1>4 DEF WriteFails
  <2> QED BY <1>1, <1>4, <2>1 DEF WriteFails
<1>5. CASE Rename(w)
  <2>1. tmp # None /\ content[tmp] = writer[w].conf   BY <1>1, <1>5 DEF Rename
  <2>2. file' = tmp /\ content' = content /\ writer'[w].pc = "renamed" /\ writer'[w].conf = writer[w].conf
        BY <1>0, <1>5, <2>1 DEF Rename
  <2> QED BY <1>1, <2>1, <2>2
<1>6. CASE Restart(w)
  <2>1. writer[w].pc = "renamed" /\ writer'[w].pc = "save" /\ writer'[w].conf = writer[w].conf
        BY <1>0, <1>6 DEF Restart
  <2> QED BY <1>1, <1>6, <2>1 DEF Restart
<1>7. CASE SaveSettings(w)
  <2>1. saved' = writer[w].conf /\ writer'[w].pc = "idle" /\ writer[w].pc = "save"
        BY <1>0, <1>7 DEF SaveSettings, AtRest
  <2> QED BY <1>1, <1>7, <2>1 DEF SaveSettings
<1>8. CASE Refused(w)
  <2>1. writer'[w].pc = "idle" /\ writer[w].pc = "failed"   BY <1>0, <1>8 DEF Refused, AtRest
  <2> QED BY <1>1, <1>8, <2>1 DEF Refused
<1> QED BY <1>2, <1>3, <1>4, <1>5, <1>6, <1>7, <1>8 DEF WriterStep

\* Boot writes the config anew from the settings; nobody else but a writer touches either.
LEMMA LifeAgreed == ASSUME Placed, Agreed, Stop \/ Stopped \/ Kill \/ Boot PROVE Agreed'
<1>1. CASE Stop      BY <1>1 DEF Stop, store, Agreed, SavedMatchesConf
<1>2. CASE Stopped   BY <1>2 DEF Stopped, Agreed, SavedMatchesConf
<1>3. CASE Kill      BY <1>3 DEF Kill, Agreed, SavedMatchesConf
<1>4. CASE Boot
  <2> DEFINE f == IF tmp = None THEN CHOOSE g \in Free : TRUE ELSE tmp
  <2>1. f \in Files /\ content \in [Files -> Configs \cup {Partial}]
        BY NewFile DEF Free, Placed, Typed, TypeOK
  <2>2. file' = f /\ content' = [content EXCEPT ![f] = saved] /\ UNCHANGED <<saved, writer>>
        BY <1>4 DEF Boot
  <2> HIDE DEF f
  <2>3. content'[file'] = saved'   BY <2>1, <2>2
  <2>4. \A w \in Writers : writer'[w].pc = "idle"   BY <1>4, <2>2 DEF Boot, Placed
  <2> QED BY <2>3, <2>4 DEF Agreed, SavedMatchesConf
<1> QED BY <1>1, <1>2, <1>3, <1>4

LEMMA NextAgreed == OneWriter /\ ~SaveFails /\ Placed /\ Agreed /\ [Next]_vars => Agreed'
<1> SUFFICES ASSUME OneWriter, ~SaveFails, Placed, Agreed, [Next]_vars PROVE Agreed'   OBVIOUS
<1>1. CASE \E w \in Writers : WriterStep(w) \/ (\E c \in Configs : OpenTmp(w, c))
      BY <1>1, WriterAgreed
<1>2. ASSUME UNCHANGED <<store, jukem>> PROVE Agreed'   BY <1>2 DEF store, Agreed, SavedMatchesConf
<1>3. CASE LoopStep
      BY <1>2, <1>3 DEF LoopStep, Drain, Spawn, SocketOpen, Exited, TooSlow, SeesRestart, SeesStop, Terminate, Backoff
<1>4. CASE ChildStep \/ Crash   BY <1>2, <1>4 DEF ChildStep, ReadConf, OpenSocket, Crash
<1>5. CASE Stop \/ Stopped \/ Kill \/ Boot   BY <1>5, LifeAgreed
<1>6. CASE UNCHANGED vars   BY <1>2, <1>6 DEF vars
<1> QED BY <1>1, <1>3, <1>4, <1>5, <1>6 DEF Next

\* The stored settings and the config that MPD is started with agree whenever no change is under way,
\* also after jukem was killed between the two writes (UpdateSettings, writeConf, Start).
THEOREM SettingsAgree == OneWriter /\ ~SaveFails => (Spec => []SavedMatchesConf)
<1>1. Agreed => SavedMatchesConf   BY DEF Agreed
<1>2. ASSUME OneWriter, ~SaveFails
      PROVE  (Placed /\ [Next]_vars => Placed') /\ (Placed /\ Agreed /\ [Next]_vars => Agreed')
      BY <1>2, NextPlaced, NextAgreed
<1>3. ASSUME OneWriter, ~SaveFails PROVE Spec => []SavedMatchesConf
      BY <1>1, <1>2, <1>3, InitPlaced, InitAgreed, PTL DEF Spec
<1> QED BY <1>3
=============================================================================
