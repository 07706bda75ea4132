-------------------------------- MODULE Pool --------------------------------
(***************************************************************************)
(* The pool of connections to MPD, internal/mpdctl/pool.go: its places,    *)
(* the goroutine that runs each command, the two timeouts of a caller, and *)
(* the idle connections; and applyOutput of internal/app/app.go, which     *)
(* selects the output through it each time MPD starts.                     *)
(*                                                                         *)
(* A command outlives the caller that gave up on it.  It keeps its place   *)
(* and its connection until MPD answers or goes away.                      *)
(***************************************************************************)
EXTENDS Naturals, Sequences, FiniteSets

CONSTANTS
    Callers,        \* goroutines that use the pool
    Applier,        \* the goroutine of onMPDEvent, which runs applyOutput
    Places,         \* the places of the semaphore Pool.sem
    NoPlace,
    Refusals,       \* whether MPD may answer a command with an error
    MaxProcesses, MaxWedges \* bounds on what happens to MPD

Max == Cardinality(Places)
Users == Callers \cup {Applier}

ASSUME PoolConstantsOK ==
    /\ IsFiniteSet(Places) /\ Places # {} /\ NoPlace \notin Places
    /\ Applier \notin Callers
    /\ Refusals \in BOOLEAN /\ MaxProcesses \in Nat \ {0} /\ MaxWedges \in Nat

VARIABLES
    mpd,        \* "up", "wedged" or "down"
    process,    \* counts the MPD processes: a connection belongs to one of them
    wedges,     \* how much of the bound is used
    selected,   \* the process that plays on the selected output
    idle,       \* Pool.idle, the newest last: [of, rested]; of = 0 when MPD has closed it
    job,        \* the goroutine of each place: [pc, of, answer, selects]
    caller,     \* [pc, place, answer]
    apply       \* applyOutput: [asks, pc]

vars == <<mpd, process, wedges, selected, idle, job, caller, apply>>

NoJob == [pc |-> "none", of |-> 0, answer |-> "none", selects |-> FALSE]
Quiet == [pc |-> "idle", place |-> NoPlace, answer |-> "none"]

\* MPD has just opened its socket for the first time.
Init ==
    /\ mpd = "up" /\ process = 1 /\ wedges = 0 /\ selected = 0
    /\ idle = <<>>
    /\ job = [t \in Places |-> NoJob]
    /\ caller = [u \in Users |-> Quiet]
    /\ apply = [asks |-> 1, pc |-> "idle"]

(***************************************************************************)
(* Do, on the caller's side: a place or a timeout, an answer or a timeout. *)
(***************************************************************************)
Call(u) ==
    /\ caller[u].pc = "idle" /\ (u = Applier => apply.pc \in {"first", "second"})
    /\ caller' = [caller EXCEPT ![u].pc = "wait"]
    /\ UNCHANGED <<mpd, process, wedges, selected, idle, job, apply>>

Acquire(u, t) ==
    /\ caller[u].pc = "wait" /\ job[t].pc = "none"
    /\ caller' = [caller EXCEPT ![u].pc = "running", ![u].place = t]
    /\ job' = [job EXCEPT ![t].pc = "get", ![t].selects = (u = Applier)]
    /\ UNCHANGED <<mpd, process, wedges, selected, idle, apply>>

\* Mutation: a caller waits for a place as long as it takes.
NoPlaceInTimeMutant(u) == FALSE /\ UNCHANGED vars

NoPlaceInTime(u) ==
    /\ caller[u].pc = "wait" /\ \A t \in Places : job[t].pc # "none"
    /\ caller' = [caller EXCEPT ![u].pc = "back", ![u].answer = "timeout"]
    /\ UNCHANGED <<mpd, process, wedges, selected, idle, job, apply>>

Answered(u) ==
    /\ caller[u].pc = "running" /\ caller[u].answer # "none"
    /\ caller' = [caller EXCEPT ![u].pc = "back"]
    /\ UNCHANGED <<mpd, process, wedges, selected, idle, job, apply>>

\* The caller leaves; the job goes on without one, and nobody reads its answer.
NoAnswerInTime(u) ==
    /\ caller[u].pc = "running" /\ caller[u].answer = "none"
    /\ caller' = [caller EXCEPT ![u] = [pc |-> "back", place |-> NoPlace, answer |-> "timeout"]]
    /\ UNCHANGED <<mpd, process, wedges, selected, idle, job, apply>>

Return(u) ==
    /\ u # Applier /\ caller[u].pc = "back"
    /\ caller' = [caller EXCEPT ![u] = Quiet]
    /\ UNCHANGED <<mpd, process, wedges, selected, idle, job, apply>>

(***************************************************************************)
(* The job: get, the command, put, the answer, and the place given back.   *)
(***************************************************************************)
\* Mutation: a connection that has rested is passed over, not pinged.
GetMutant(t) ==
    /\ job[t].pc = "get"
    /\ IF idle = <<>> \/ idle[Len(idle)].rested
       THEN job' = [job EXCEPT ![t].pc = "dial"] /\ UNCHANGED idle
       ELSE /\ job' = [job EXCEPT ![t].pc = "command", ![t].of = idle[Len(idle)].of]
            /\ idle' = SubSeq(idle, 1, Len(idle) - 1)
    /\ UNCHANGED <<mpd, process, wedges, selected, caller, apply>>

\* The newest idle connection; with none the job dials.
Get(t) ==
    /\ job[t].pc = "get"
    /\ IF idle = <<>>
       THEN job' = [job EXCEPT ![t].pc = "dial"] /\ UNCHANGED idle
       ELSE LET c == idle[Len(idle)] IN
            /\ job' = [job EXCEPT ![t].pc = IF c.rested THEN "ping" ELSE "command", ![t].of = c.of]
            /\ idle' = SubSeq(idle, 1, Len(idle) - 1)
    /\ UNCHANGED <<mpd, process, wedges, selected, caller, apply>>

\* Whether MPD answers on the job's connection, and whether that connection is broken.
\* With neither, MPD is wedged and the job waits.
Answers(t) == mpd = "up" /\ job[t].of = process
Broken(t)  == mpd = "down" \/ job[t].of # process

Ping(t) ==
    /\ job[t].pc = "ping"
    /\ \/ Answers(t) /\ job' = [job EXCEPT ![t].pc = "command"]
       \/ Broken(t) /\ job' = [job EXCEPT ![t].pc = "get", ![t].of = 0]
    /\ UNCHANGED <<mpd, process, wedges, selected, idle, caller, apply>>

\* Mutation: the goroutine ends without an answer.
\* The goroutine sends its answer, to the caller that still waits for it.
Finish(t, answer) ==
    /\ job' = [job EXCEPT ![t] = [NoJob EXCEPT !.pc = "release"]]
    /\ caller' = [u \in Users |->
          IF caller[u].pc = "running" /\ caller[u].place = t
          THEN [caller[u] EXCEPT !.place = NoPlace, !.answer = answer] ELSE caller[u]]

\* A wedged MPD accepts the connection and does not greet.
Dial(t) ==
    /\ job[t].pc = "dial"
    /\ \/ /\ mpd = "up"
          /\ job' = [job EXCEPT ![t].pc = "command", ![t].of = process] /\ UNCHANGED caller
       \/ mpd = "down" /\ Finish(t, "error")
    /\ UNCHANGED <<mpd, process, wedges, selected, idle, apply>>

\* EnableOnly, as the command of applyOutput: the output of the device goes on before the others go off.
EnableOnly(t) == selected' = IF job[t].selects THEN process ELSE selected

\* Mutation: a command whose connection broke is tried again on that connection.
CommandMutant(t) ==
    /\ job[t].pc = "command" /\ Answers(t)
    /\ job' = [job EXCEPT ![t].pc = "put", ![t].answer = "ok"]
    /\ EnableOnly(t)
    /\ UNCHANGED <<mpd, process, wedges, idle, caller, apply>>

\* fn(c).  An answer of MPD, a refusal too, keeps the connection; any other error closes it, which
\* EnableOnly also returns when the config has no such output.
Command(t) ==
    /\ job[t].pc = "command"
    /\ \/ /\ Answers(t)
          /\ \/ job' = [job EXCEPT ![t].pc = "put", ![t].answer = "ok"] /\ EnableOnly(t)
             \/ /\ Refusals
                /\ job' = [job EXCEPT ![t].pc = "put", ![t].answer = "refused"]
                /\ UNCHANGED selected
          /\ UNCHANGED caller
       \/ Broken(t) /\ Finish(t, "error") /\ UNCHANGED selected
       \/ Refusals /\ Answers(t) /\ job[t].selects /\ Finish(t, "refused") /\ UNCHANGED selected
    /\ UNCHANGED <<mpd, process, wedges, idle, apply>>

Put(t) ==
    /\ job[t].pc = "put"
    /\ idle' = IF Len(idle) < Max THEN Append(idle, [of |-> job[t].of, rested |-> FALSE]) ELSE idle
    /\ Finish(t, job[t].answer)
    /\ UNCHANGED <<mpd, process, wedges, selected, apply>>

Release(t) ==
    /\ job[t].pc = "release"
    /\ job' = [job EXCEPT ![t] = NoJob]
    /\ UNCHANGED <<mpd, process, wedges, selected, idle, caller, apply>>

(***************************************************************************)
(* applyOutput, called once for each start of MPD, one call at a time.     *)
(***************************************************************************)
ApplyBegin ==
    /\ apply.asks > 0 /\ apply.pc \notin {"first", "second"}
    /\ apply' = [asks |-> apply.asks - 1, pc |-> "first"]
    /\ UNCHANGED <<mpd, process, wedges, selected, idle, job, caller>>

\* The answer of EnableOnly: a second try after a first failure, and then none.
ApplyBack ==
    LET answer == caller[Applier].answer IN
    /\ caller[Applier].pc = "back"
    /\ caller' = [caller EXCEPT ![Applier] = Quiet]
    /\ apply' = [apply EXCEPT
          !.pc = IF answer = "ok" THEN "done" ELSE IF apply.pc = "first" THEN "second" ELSE "failed"]
    /\ UNCHANGED <<mpd, process, wedges, selected, idle, job>>

(***************************************************************************)
(* Time and MPD.                                                           *)
(***************************************************************************)
\* pingAfter, half a minute, passes for an idle connection; the ones below it were used before it.
\* A get takes that long only on a wedged MPD.
Rest(i) ==
    /\ mpd # "wedged" => \A t \in Places : job[t].pc \notin {"get", "ping"}
    /\ i \in DOMAIN idle /\ ~idle[i].rested /\ \A j \in 1..(i - 1) : idle[j].rested
    /\ idle' = [idle EXCEPT ![i].rested = TRUE]
    /\ UNCHANGED <<mpd, process, wedges, selected, job, caller, apply>>

\* MPD closes a connection that rests past its own limit, which is longer than pingAfter.
ClosedByMPD(i) ==
    /\ i \in DOMAIN idle /\ idle[i].rested /\ idle[i].of = process /\ mpd = "up"
    /\ idle' = [idle EXCEPT ![i].of = 0]
    /\ UNCHANGED <<mpd, process, wedges, selected, job, caller, apply>>

Wedge ==
    /\ mpd = "up" /\ wedges < MaxWedges
    /\ mpd' = "wedged" /\ wedges' = wedges + 1
    /\ UNCHANGED <<process, selected, idle, job, caller, apply>>

Unwedge ==
    /\ mpd = "wedged" /\ mpd' = "up"
    /\ UNCHANGED <<process, wedges, selected, idle, job, caller, apply>>

Exit ==
    /\ mpd # "down" /\ process < MaxProcesses
    /\ mpd' = "down"
    /\ UNCHANGED <<process, wedges, selected, idle, job, caller, apply>>

\* Mutation: a start is dropped while an applyOutput runs.
StartMutant ==
    /\ mpd = "down"
    /\ mpd' = "up" /\ process' = process + 1
    /\ apply' = IF apply.pc \in {"first", "second"} THEN apply ELSE [apply EXCEPT !.asks = @ + 1]
    /\ UNCHANGED <<wedges, selected, idle, job, caller>>

\* The supervisor starts MPD again, and EventStarted asks for an applyOutput.
Start ==
    /\ mpd = "down"
    /\ mpd' = "up" /\ process' = process + 1 /\ apply' = [apply EXCEPT !.asks = @ + 1]
    /\ UNCHANGED <<wedges, selected, idle, job, caller>>

CallerStep(u) ==
    \/ Call(u) \/ NoPlaceInTime(u) \/ Answered(u) \/ NoAnswerInTime(u) \/ Return(u)
    \/ \E t \in Places : Acquire(u, t)
JobStep(t) == Get(t) \/ Ping(t) \/ Dial(t) \/ Command(t) \/ Put(t) \/ Release(t)
MPDStep == Wedge \/ Unwedge \/ Exit \/ Start

Next ==
    \/ \E u \in Users : CallerStep(u)
    \/ \E t \in Places : JobStep(t)
    \/ ApplyBegin \/ ApplyBack
    \/ \E i \in 1..Max : Rest(i) \/ ClosedByMPD(i)
    \/ MPDStep

Spec == Init /\ [][Next]_vars

(***************************************************************************)
(* Goroutines run and timers fire, and the supervisor starts an MPD that   *)
(* has ended.  Nobody promises that a wedged MPD answers again, or that a  *)
(* person calls.                                                           *)
(***************************************************************************)
Leaves(u) ==
    \/ NoPlaceInTime(u) \/ Answered(u) \/ NoAnswerInTime(u) \/ Return(u)
    \/ \E t \in Places : Acquire(u, t)

Fairness ==
    /\ \A u \in Users : WF_vars(Leaves(u))
    /\ \A t \in Places : WF_vars(JobStep(t))
    /\ WF_vars(Call(Applier)) /\ WF_vars(ApplyBegin) /\ WF_vars(ApplyBack) /\ WF_vars(Start)

FairSpec == Spec /\ Fairness

(***************************************************************************)
(* Properties                                                              *)
(***************************************************************************)
JobPCs  == {"none", "get", "ping", "dial", "command", "put", "release"}
AnswersOf == {"none", "ok", "refused", "error", "timeout"}

\* Types.  The answer of a job is kept from the command to put only, and a place that a caller
\* waits on is in use: code of Do.
TypeOK ==
    /\ mpd \in {"up", "wedged", "down"}
    /\ process \in 1..MaxProcesses /\ wedges \in 0..MaxWedges /\ selected \in 0..process
    /\ idle \in Seq([of : 0..process, rested : BOOLEAN])
    /\ job \in [Places -> [pc : JobPCs, of : 0..process, answer : AnswersOf, selects : BOOLEAN]]
    /\ caller \in [Users -> [pc : {"idle", "wait", "running", "back"},
                             place : Places \cup {NoPlace}, answer : AnswersOf]]
    /\ apply \in [asks : Nat, pc : {"idle", "first", "second", "done", "failed"}]
    /\ \A u \in Users : caller[u].place # NoPlace => job[caller[u].place].pc # "none"

\* NewPool: "a pool of at most max connections".  The idle connections and those that jobs hold or
\* open never exceed max, so put always has room, and callers that gave up do not open more.
Holding == {t \in Places : job[t].pc \in {"ping", "dial", "command", "put"}}
ConnectionsBounded == Len(idle) + Cardinality(Holding) <= Max

\* When every start was served and the last applyOutput found no error, the MPD that runs now plays
\* on the selected output: no start is lost while an earlier applyOutput still waits for a dead MPD.
OutputSelected == apply.asks = 0 /\ apply.pc = "done" => selected = process

\* Pool: "A wedged MPD must not hold every caller".  Whoever calls Do comes back, even when MPD
\* never answers again.
EveryCallerReturns == \A u \in Users : caller[u].pc = "wait" ~> caller[u].pc = "idle"

\* "its connection stays in use until MPD answers or is restarted": once MPD stays up, each place
\* is free again and again, the ones of jobs that a former MPD left hanging too.
PlacesComeBack == <>[](mpd = "up") => \A t \in Places : []<>(job[t].pc = "none")
=============================================================================
