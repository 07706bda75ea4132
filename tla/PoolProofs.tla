----------------------------- MODULE PoolProofs -----------------------------
(***************************************************************************)
(* For any number of callers and places and whatever MPD does: the pool    *)
(* never has more connections than places, and no start of MPD is lost.    *)
(***************************************************************************)
EXTENDS Pool, FiniteSetTheorems, SequenceTheorems, TLAPS

Conns == [of : Nat, rested : BOOLEAN]
Jobs  == [pc : JobPCs, of : Nat, answer : AnswersOf, selects : BOOLEAN]

\* The inductive invariant: the types that the count needs, and the count.
Bounded ==
    /\ process \in Nat /\ idle \in Seq(Conns) /\ job \in [Places -> Jobs]
    /\ ConnectionsBounded

\* Places are finite in number, and a job that takes or gives up a connection counts for one.
LEMMA Counting ==
    ASSUME NEW H \in SUBSET Places
    PROVE  /\ Max \in Nat /\ Cardinality(H) \in 0..Max
           /\ \A t \in Places : /\ t \notin H => Cardinality(H \cup {t}) = Cardinality(H) + 1
                                /\ t \in H => Cardinality(H \ {t}) = Cardinality(H) - 1
<1>1. IsFiniteSet(Places) /\ IsFiniteSet(H) /\ Cardinality(H) <= Cardinality(Places)
      BY PoolConstantsOK, FS_Subset
<1>2. Max \in Nat /\ Cardinality(H) \in 0..Max   BY <1>1, FS_CardinalityType DEF Max
<1>3. \A t \in Places : t \notin H => Cardinality(H \cup {t}) = Cardinality(H) + 1
      BY <1>1, FS_AddElement
<1>4. \A t \in Places : t \in H => Cardinality(H \ {t}) = Cardinality(H) - 1
      BY <1>1, FS_RemoveElement
<1> QED BY <1>2, <1>3, <1>4

LEMMA InitBounded == Init => Bounded
<1> SUFFICES ASSUME Init PROVE Bounded   OBVIOUS
<1>1. process \in Nat /\ idle \in Seq(Conns) /\ Len(idle) = 0   BY DEF Init
<1>2. job \in [Places -> Jobs]   BY DEF Init, NoJob, Jobs, JobPCs, AnswersOf
<1>3. Holding = {}   BY DEF Init, Holding, NoJob
<1>4. Cardinality({}) = 0 /\ Max \in Nat   BY Counting, FS_EmptySet
<1> QED BY <1>1, <1>2, <1>3, <1>4 DEF Bounded, ConnectionsBounded

\* A job's own steps.  Only get moves a connection from the idle ones to a job, and only put back;
\* dial opens one for a job that found no idle one, which a pool with a free place can take.
LEMMA JobBounded == ASSUME Bounded, NEW t \in Places, JobStep(t) PROVE Bounded'
<1>1. /\ Holding \in SUBSET Places /\ Holding' \in SUBSET Places
      /\ Len(idle) \in Nat
      BY DEF Holding, Bounded
<1>2. job \in [Places -> Jobs] /\ process \in Nat /\ idle \in Seq(Conns)   BY DEF Bounded
<1>3. CASE Get(t)
  <2>1. CASE idle = <<>>
    <3>1. job' \in [Places -> Jobs]   BY <1>2, <1>3, <2>1 DEF Get, Jobs, JobPCs
    <3>2. Len(idle') = 0 /\ idle' \in Seq(Conns) /\ process' = process
          BY <1>2, <1>3, <2>1 DEF Get
    <3> QED BY <1>1, <1>2, <3>1, <3>2, Counting DEF Bounded, ConnectionsBounded
  <2>2. CASE idle # <<>>
    <3> DEFINE c == idle[Len(idle)]
    <3>1. Len(idle) \in Nat \ {0} /\ c \in Conns   BY <1>2, <2>2
    <3>2. /\ job' = [job EXCEPT ![t].pc = IF c.rested THEN "ping" ELSE "command", ![t].of = c.of]
          /\ idle' = SubSeq(idle, 1, Len(idle) - 1)
          /\ process' = process /\ job[t].pc = "get"
          BY <1>3, <2>2 DEF Get
    <3>3. idle' \in Seq(Conns) /\ Len(idle') = Len(idle) - 1
      <4> DEFINE n == Len(idle) - 1
      <4>1. n \in Nat /\ idle' = SubSeq(idle, 1, n)   BY <3>1, <3>2
      <4>2. \A i \in 1..n : idle[i] \in Conns   BY <1>2, <3>1, ElementOfSeq
      <4> HIDE DEF n
      <4>3. idle' \in Seq(Conns) /\ Len(idle') = IF 1 <= n THEN n - 1 + 1 ELSE 0
            BY <4>1, <4>2, SubSeqProperties
      <4>4. Len(idle') = n   BY <4>1, <4>3
      <4> QED BY <4>3, <4>4 DEF n
    <3> HIDE DEF c
    <3>4. job' \in [Places -> Jobs]   BY <1>2, <3>1, <3>2 DEF Conns, Jobs, JobPCs
    <3>5. Holding' = Holding \cup {t} /\ t \notin Holding
      <4>1. job'[t].pc \in {"ping", "command"}   BY <1>2, <3>2 DEF Jobs
      <4>2. \A v \in Places \ {t} : job'[v] = job[v]   BY <1>2, <3>2
      <4> QED BY <3>2, <4>1, <4>2 DEF Holding
    <3>6. Cardinality(Holding') = Cardinality(Holding) + 1   BY <1>1, <3>5, Counting
    <3> QED BY <1>1, <1>2, <3>1, <3>2, <3>3, <3>4, <3>6, Counting DEF Bounded, ConnectionsBounded
  <2> QED BY <2>1, <2>2
<1>4. ASSUME job' \in [Places -> Jobs], process' = process, idle' = idle,
             Holding' = Holding \/ (t \in Holding /\ Holding' = Holding \ {t})
      PROVE  Bounded'
      BY <1>1, <1>2, <1>4, Counting DEF Bounded, ConnectionsBounded
<1>5. CASE Ping(t)
  <2>1. job' \in [Places -> Jobs]
    <3>1. CASE job' = [job EXCEPT ![t].pc = "command"]   BY <1>2, <3>1 DEF Jobs, JobPCs
    <3>2. CASE job' = [job EXCEPT ![t].pc = "get", ![t].of = 0]   BY <1>2, <3>2 DEF Jobs, JobPCs
    <3> QED BY <1>5, <3>1, <3>2 DEF Ping
  <2>2. Holding' = Holding \/ (t \in Holding /\ Holding' = Holding \ {t})
    <3>1. job[t].pc = "ping" /\ job'[t].pc \in {"command", "get"}   BY <1>2, <1>5 DEF Ping, Jobs
    <3>2. \A v \in Places \ {t} : job'[v] = job[v]   BY <1>2, <1>5 DEF Ping
    <3> QED BY <3>1, <3>2 DEF Holding
  <2> QED BY <1>4, <1>5, <2>1, <2>2 DEF Ping
<1>6. ASSUME NEW answer, Finish(t, answer)
      PROVE  job' \in [Places -> Jobs] /\ Holding' = Holding \ {t}
      BY <1>2, <1>6 DEF Finish, NoJob, Jobs, JobPCs, AnswersOf, Holding
<1>7. CASE Dial(t)
  <2>1. CASE Finish(t, "error")
        BY <1>4, <1>6, <1>7, <2>1 DEF Dial, Holding
  <2>2. CASE job' = [job EXCEPT ![t].pc = "command", ![t].of = process]
    <3>1. job' \in [Places -> Jobs]   BY <1>2, <2>2 DEF Jobs, JobPCs
    <3>2. Holding' = Holding   BY <1>2, <1>7, <2>2 DEF Dial, Holding, Jobs
    <3> QED BY <1>4, <1>7, <3>1, <3>2 DEF Dial
  <2> QED BY <1>7, <2>1, <2>2 DEF Dial
<1>8. CASE Command(t)
  <2>1. ASSUME NEW answer, Finish(t, answer) PROVE Bounded'
        BY <1>4, <1>6, <1>8, <2>1 DEF Command, Holding
  <2>2. ASSUME NEW answer \in {"ok", "refused"},
               job' = [job EXCEPT ![t].pc = "put", ![t].answer = answer]
        PROVE  Bounded'
    <3>1. job' \in [Places -> Jobs]   BY <1>2, <2>2 DEF Jobs, JobPCs, AnswersOf
    <3>2. Holding' = Holding   BY <1>2, <1>8, <2>2 DEF Command, Holding, Jobs
    <3> QED BY <1>4, <1>8, <3>1, <3>2 DEF Command
  <2> QED BY <1>8, <2>1, <2>2 DEF Command
<1>9. CASE Put(t)
  <2>1. job' \in [Places -> Jobs] /\ Holding' = Holding \ {t} /\ t \in Holding
        BY <1>6, <1>9 DEF Put, Holding
  <2>2. Cardinality(Holding') = Cardinality(Holding) - 1   BY <1>1, <2>1, Counting
  <2>3. idle' \in Seq(Conns) /\ Len(idle') <= Len(idle) + 1 /\ process' = process
    <3>1. [of |-> job[t].of, rested |-> FALSE] \in Conns   BY <1>2 DEF Jobs, Conns
    <3> QED BY <1>2, <1>9, <3>1 DEF Put
  <2>4. Len(idle') \in Nat   BY <2>3
  <2> QED BY <1>1, <1>2, <2>1, <2>2, <2>3, <2>4, Counting DEF Bounded, ConnectionsBounded
<1>10. CASE Release(t)
  <2>1. job' \in [Places -> Jobs]   BY <1>2, <1>10 DEF Release, NoJob, Jobs, JobPCs, AnswersOf
  <2>2. Holding' = Holding   BY <1>2, <1>10 DEF Release, NoJob, Holding
  <2> QED BY <1>4, <1>10, <2>1, <2>2 DEF Release
<1> QED BY <1>3, <1>5, <1>7, <1>8, <1>9, <1>10 DEF JobStep

\* A caller touches a job only to start it, before the job has a connection.
LEMMA CallerBounded == ASSUME Bounded, NEW u \in Users, CallerStep(u) PROVE Bounded'
<1>1. ASSUME UNCHANGED <<process, idle, job>> PROVE Bounded'
      BY <1>1 DEF Bounded, ConnectionsBounded, Holding
<1>2. ASSUME NEW t \in Places, Acquire(u, t) PROVE Bounded'
  <2>1. job' \in [Places -> Jobs]   BY <1>2 DEF Acquire, Bounded, Jobs, JobPCs
  <2>2. Holding' = Holding   BY <1>2 DEF Acquire, Bounded, Holding, Jobs
  <2> QED BY <1>2, <2>1, <2>2 DEF Acquire, Bounded, ConnectionsBounded
<1> QED BY <1>1, <1>2 DEF CallerStep, Call, NoPlaceInTime, Answered, NoAnswerInTime, Return

\* Time and MPD change what a connection is worth, never how many there are.
LEMMA WorldBounded ==
    ASSUME Bounded,
           ApplyBegin \/ ApplyBack \/ MPDStep \/ (\E i \in 1..Max : Rest(i) \/ ClosedByMPD(i))
    PROVE  Bounded'
<1>1. ASSUME process' \in Nat, UNCHANGED job, idle' \in Seq(Conns), Len(idle') = Len(idle)
      PROVE  Bounded'
      BY <1>1 DEF Bounded, ConnectionsBounded, Holding
<1>2. process \in Nat /\ idle \in Seq(Conns)   BY DEF Bounded
<1>3. ASSUME NEW i \in 1..Max, Rest(i) PROVE Bounded'
  <2>1. i \in 1..Len(idle) /\ idle' = [idle EXCEPT ![i] = [idle[i] EXCEPT !.rested = TRUE]]
        BY <1>2, <1>3 DEF Rest
  <2>2. [idle[i] EXCEPT !.rested = TRUE] \in Conns
    <3>1. idle[i] \in Conns   BY <1>2, <2>1, ElementOfSeq
    <3> QED BY <3>1 DEF Conns
  <2>3. idle' \in Seq(Conns) /\ Len(idle') = Len(idle)   BY <1>2, <2>1, <2>2, ExceptSeq
  <2> QED BY <1>1, <1>2, <1>3, <2>3 DEF Rest
<1>4. ASSUME NEW i \in 1..Max, ClosedByMPD(i) PROVE Bounded'
  <2>1. i \in 1..Len(idle) /\ idle' = [idle EXCEPT ![i] = [idle[i] EXCEPT !.of = 0]]
        BY <1>2, <1>4 DEF ClosedByMPD
  <2>2. [idle[i] EXCEPT !.of = 0] \in Conns
    <3>1. idle[i] \in Conns   BY <1>2, <2>1, ElementOfSeq
    <3> QED BY <3>1 DEF Conns
  <2>3. idle' \in Seq(Conns) /\ Len(idle') = Len(idle)   BY <1>2, <2>1, <2>2, ExceptSeq
  <2> QED BY <1>1, <1>2, <1>4, <2>3 DEF ClosedByMPD
<1>5. CASE ApplyBegin   BY <1>1, <1>2, <1>5 DEF ApplyBegin
<1>6. CASE ApplyBack    BY <1>1, <1>2, <1>6 DEF ApplyBack
<1>7. CASE MPDStep      BY <1>1, <1>2, <1>7 DEF MPDStep, Wedge, Unwedge, Exit, Start
<1> QED BY <1>3, <1>4, <1>5, <1>6, <1>7

LEMMA NextBounded == Bounded /\ [Next]_vars => Bounded'
<1> SUFFICES ASSUME Bounded, [Next]_vars PROVE Bounded'   OBVIOUS
<1>1. CASE \E u \in Users : CallerStep(u)   BY <1>1, CallerBounded
<1>2. CASE \E t \in Places : JobStep(t)     BY <1>2, JobBounded
<1>3. CASE ApplyBegin \/ ApplyBack \/ MPDStep \/ (\E i \in 1..Max : Rest(i) \/ ClosedByMPD(i))
      BY <1>3, WorldBounded
<1>4. CASE UNCHANGED vars
      BY <1>4 DEF vars, Bounded, ConnectionsBounded, Holding
<1> QED BY <1>1, <1>2, <1>3, <1>4 DEF Next

\* "A pool of at most max connections" (NewPool): callers that gave up do not make it open more, and
\* put always has room for the connection of a command that was answered.
THEOREM PoolBounded == Spec => []ConnectionsBounded
<1>1. Bounded => ConnectionsBounded   BY DEF Bounded
<1> QED BY <1>1, InitBounded, NextBounded, PTL DEF Spec

(***************************************************************************)
(* The output.  An answer that reaches applyOutput comes from the job that *)
(* its present call started, and that job answers well only when it has    *)
(* selected the output of the process it spoke to.                         *)
(***************************************************************************)
Callings == [pc : {"idle", "wait", "running", "back"}, place : Places \cup {NoPlace}, answer : AnswersOf]
Applying == [asks : Nat, pc : {"idle", "first", "second", "done", "failed"}]
Asked == caller[Applier]
Busy(t) == job[t].selects /\ job[t].pc \in {"get", "ping", "dial", "command", "put"}

\* The inductive invariant: the types, what a call of applyOutput holds, and what an answer means
\* when no start is left to be served.
Served ==
    /\ job \in [Places -> Jobs] /\ caller \in [Users -> Callings] /\ apply \in Applying
    /\ Asked.pc # "idle" => apply.pc \in {"first", "second"}
    /\ Asked.pc = "idle" => Asked = Quiet
    /\ Asked.pc = "wait" => Asked.answer = "none"
    /\ Asked.place # NoPlace => Asked.pc = "running" /\ Asked.answer = "none" /\ Busy(Asked.place)
    /\ apply.asks = 0 =>
         /\ apply.pc = "done" => selected = process
         /\ Asked.answer = "ok" => selected = process
         /\ Asked.place # NoPlace =>
              (job[Asked.place].pc = "put" /\ job[Asked.place].answer = "ok" => selected = process)

LEMMA InitServed == Init => Served
<1> SUFFICES ASSUME Init PROVE Served   OBVIOUS
<1>1. job \in [Places -> Jobs]   BY DEF Init, NoJob, Jobs, JobPCs, AnswersOf
<1>2. caller \in [Users -> Callings] /\ Asked = Quiet
      BY DEF Init, Quiet, Callings, AnswersOf, Users, Asked
<1>3. apply \in Applying   BY DEF Init, Applying
<1> QED BY <1>1, <1>2, <1>3 DEF Init, Served, Quiet

LEMMA ApplierIsUser == Applier \in Users /\ NoPlace \notin Places
BY PoolConstantsOK DEF Users

\* A caller that is not applyOutput leaves its call alone, and takes no place that is in use.
LEMMA CallerServed == ASSUME Served, NEW u \in Users, CallerStep(u) PROVE Served'
<1> USE ApplierIsUser
<1>1. /\ job \in [Places -> Jobs] /\ caller \in [Users -> Callings] /\ apply \in Applying
      /\ apply' = apply /\ selected' = selected /\ process' = process
      BY DEF Served, CallerStep, Call, Acquire, NoPlaceInTime, Answered, NoAnswerInTime, Return
<1>2. ASSUME caller' \in [Users -> Callings], Asked' = Asked, job' = job PROVE Served'
      BY <1>1, <1>2 DEF Served, Busy
<1>3. ASSUME caller' \in [Users -> Callings], job' = job,
             Asked'.pc # "idle" => apply.pc \in {"first", "second"},
             Asked'.pc = "idle" => Asked' = Quiet,
             Asked'.pc = "wait" => Asked'.answer = "none",
             Asked'.place = NoPlace, Asked'.answer = "ok" => Asked.answer = "ok"
      PROVE  Served'
      BY <1>1, <1>3 DEF Served, Busy
<1>4. CASE Call(u)
  <2>1. caller' \in [Users -> Callings]   BY <1>1, <1>4 DEF Call, Callings
  <2>2. CASE u # Applier   BY <1>1, <1>2, <1>4, <2>1, <2>2 DEF Call, Asked
  <2>3. CASE u = Applier
    <3>1. Asked = Quiet /\ Asked' = [Asked EXCEPT !.pc = "wait"]
          BY <1>1, <1>4, <2>3 DEF Call, Served, Asked
    <3> QED BY <1>1, <1>3, <1>4, <2>1, <2>3, <3>1 DEF Call, Quiet
  <2> QED BY <2>2, <2>3
<1>5. ASSUME NEW t \in Places, Acquire(u, t) PROVE Served'
  <2>1. caller' = [caller EXCEPT ![u].pc = "running", ![u].place = t]   BY <1>5 DEF Acquire
  <2>2. caller' \in [Users -> Callings]   BY <1>1, <2>1 DEF Callings
  <2>3. job' \in [Places -> Jobs]   BY <1>1, <1>5 DEF Acquire, Jobs, JobPCs
  <2>4. CASE u # Applier
    <3>1. Asked' = Asked   BY <1>1, <2>1, <2>4 DEF Asked
    <3>2. Asked.place # NoPlace => Asked.place \in Places /\ Asked.place # t
          BY <1>1, <1>5 DEF Served, Busy, Acquire, Callings, Asked
    <3>3. Asked.place # NoPlace => job'[Asked.place] = job[Asked.place]
          BY <1>1, <1>5, <3>2 DEF Acquire
    <3> QED BY <1>1, <2>2, <2>3, <3>1, <3>3 DEF Served, Busy
  <2>5. CASE u = Applier
    <3>1. Asked.pc = "wait" /\ Asked.place = NoPlace /\ Asked' = [Asked EXCEPT !.pc = "running", !.place = t]
          BY <1>1, <1>5, <2>1, <2>5 DEF Acquire, Asked, Served
    <3>2. Asked'.pc = "running" /\ Asked'.place = t /\ Asked'.answer = Asked.answer
          BY <1>1, <3>1 DEF Asked, Callings
    <3>3. job'[t].pc = "get" /\ job'[t].selects   BY <1>1, <1>5, <2>5 DEF Acquire, Jobs
    <3>4. Asked.answer = "none"   BY <3>1 DEF Served
    <3> QED BY <1>1, <2>2, <2>3, <3>1, <3>2, <3>3, <3>4 DEF Served, Busy
  <2> QED BY <2>4, <2>5
<1>6. CASE NoPlaceInTime(u) \/ Answered(u) \/ NoAnswerInTime(u) \/ Return(u)
  <2>1. caller' \in [Users -> Callings]
    <3>1. CASE NoPlaceInTime(u)    BY <1>1, <3>1 DEF NoPlaceInTime, Callings, AnswersOf
    <3>2. CASE Answered(u)         BY <1>1, <3>2 DEF Answered, Callings
    <3>3. CASE NoAnswerInTime(u)   BY <1>1, <3>3 DEF NoAnswerInTime, Callings, AnswersOf
    <3>4. CASE Return(u)           BY <1>1, <3>4 DEF Return, Callings, AnswersOf, Quiet
    <3> QED BY <1>6, <3>1, <3>2, <3>3, <3>4
  <2>2. CASE u # Applier
    <3>1. Asked' = Asked   BY <1>1, <1>6, <2>2 DEF NoPlaceInTime, Answered, NoAnswerInTime, Return, Asked
    <3> QED BY <1>2, <1>6, <2>1, <3>1 DEF NoPlaceInTime, Answered, NoAnswerInTime, Return
  <2>3. CASE u = Applier
    <3>1. ASSUME NoPlaceInTime(u) PROVE Served'
      <4>1. Asked.pc = "wait" /\ Asked' = [Asked EXCEPT !.pc = "back", !.answer = "timeout"]
            BY <1>1, <2>3, <3>1 DEF NoPlaceInTime, Asked
      <4>2. Asked.place = NoPlace /\ apply.pc \in {"first", "second"}   BY <4>1 DEF Served
      <4>3. Asked'.pc = "back" /\ Asked'.answer = "timeout" /\ Asked'.place = NoPlace
            BY <1>1, <4>1, <4>2 DEF Asked, Callings
      <4> QED BY <1>3, <2>1, <3>1, <4>2, <4>3 DEF NoPlaceInTime
    <3>2. ASSUME Answered(u) PROVE Served'
      <4>1. /\ Asked.pc = "running" /\ Asked.answer # "none" /\ Asked' = [Asked EXCEPT !.pc = "back"]
            BY <1>1, <2>3, <3>2 DEF Answered, Asked
      <4>2. Asked.place = NoPlace /\ apply.pc \in {"first", "second"}   BY <4>1 DEF Served
      <4>3. Asked'.pc = "back" /\ Asked'.answer = Asked.answer /\ Asked'.place = NoPlace
            BY <1>1, <4>1, <4>2 DEF Asked, Callings
      <4> QED BY <1>3, <2>1, <3>2, <4>2, <4>3 DEF Answered
    <3>3. ASSUME NoAnswerInTime(u) PROVE Served'
      <4>1. Asked.pc = "running" /\ Asked' = [pc |-> "back", place |-> NoPlace, answer |-> "timeout"]
            BY <1>1, <2>3, <3>3 DEF NoAnswerInTime, Asked
      <4>2. apply.pc \in {"first", "second"}   BY <4>1 DEF Served
      <4> QED BY <1>3, <2>1, <3>3, <4>1, <4>2 DEF NoAnswerInTime
    <3>4. ASSUME Return(u) PROVE Served'   BY <2>3, <3>4 DEF Return
    <3> QED BY <1>6, <3>1, <3>2, <3>3, <3>4
  <2> QED BY <2>2, <2>3
<1> QED BY <1>4, <1>5, <1>6 DEF CallerStep

\* The job of the present call is busy until it answers.  EnableOnly is the only step of a job that
\* touches the output, and it selects it for the process that answers.
LEMMA JobServed == ASSUME Served, Bounded', NEW t \in Places, JobStep(t) PROVE Served'
<1> USE ApplierIsUser
<1>1. /\ job \in [Places -> Jobs] /\ caller \in [Users -> Callings] /\ apply \in Applying
      /\ apply' = apply /\ process' = process
      BY DEF Served, JobStep, Get, Ping, Dial, Command, Put, Release, Finish
<1>2. ASSUME caller' = caller, selected' \in {selected, process},
             \A v \in Places \ {t} : job'[v] = job[v],
             job[t].pc # "none", job'[t].selects = job[t].selects,
             job[t].pc # "release" => job'[t].pc \in {"get", "ping", "dial", "command", "put"},
             job'[t].pc = "put" /\ job'[t].answer = "ok" /\ job[t].selects => selected' = process
      PROVE  Served'
  <2>1. job' \in [Places -> Jobs]   BY DEF Bounded
  <2>2. Asked' = Asked   BY <1>2 DEF Asked
  <2>3. Asked.place # NoPlace => Asked.place \in Places   BY <1>1 DEF Asked, Callings
  <2>4. CASE Asked.place = t
    <3>1. Busy(t) /\ Busy(t)'   BY <1>2, <2>4 DEF Served, Busy
    <3>2. job[t].selects   BY <3>1 DEF Busy
    <3> QED BY <1>1, <1>2, <2>1, <2>2, <2>4, <3>1, <3>2 DEF Served
  <2>5. CASE Asked.place # t
    <3>1. Asked.place # NoPlace => job'[Asked.place] = job[Asked.place]   BY <1>2, <2>3, <2>5
    <3> QED BY <1>1, <1>2, <2>1, <2>2, <3>1 DEF Served, Busy
  <2> QED BY <2>4, <2>5
<1>3. ASSUME NEW answer \in AnswersOf, Finish(t, answer), selected' = selected,
             answer = "ok" => job[t].pc = "put" /\ job[t].answer = "ok"
      PROVE  Served'
  <2>1. /\ job' = [job EXCEPT ![t] = [NoJob EXCEPT !.pc = "release"]]
        /\ caller' = [u \in Users |->
             IF caller[u].pc = "running" /\ caller[u].place = t
             THEN [caller[u] EXCEPT !.place = NoPlace, !.answer = answer] ELSE caller[u]]
        BY <1>3 DEF Finish
  <2>2. job' \in [Places -> Jobs]   BY <1>1, <2>1 DEF NoJob, Jobs, JobPCs, AnswersOf
  <2>3. caller' \in [Users -> Callings]   BY <1>1, <2>1 DEF Callings
  <2>4. Asked.place # NoPlace => Asked.place \in Places   BY <1>1 DEF Asked, Callings
  <2>5. CASE Asked.place = t
    <3>1. Asked.pc = "running" /\ apply.pc \in {"first", "second"}   BY <2>5 DEF Served
    <3>2. Asked' = [Asked EXCEPT !.place = NoPlace, !.answer = answer]   BY <1>1, <2>1, <2>5, <3>1 DEF Asked
    <3>3. Asked'.pc = "running" /\ Asked'.place = NoPlace /\ Asked'.answer = answer
          BY <1>1, <3>1, <3>2 DEF Asked, Callings
    <3>4. apply.asks = 0 /\ answer = "ok" => selected = process   BY <1>3, <2>5 DEF Served
    <3> QED BY <1>1, <1>3, <2>2, <2>3, <3>1, <3>3, <3>4 DEF Served
  <2>6. CASE Asked.place # t
    <3>1. Asked' = Asked   BY <1>1, <2>1, <2>6 DEF Asked
    <3>2. Asked.place # NoPlace => job'[Asked.place] = job[Asked.place]   BY <1>1, <2>1, <2>4, <2>6
    <3> QED BY <1>1, <1>3, <2>2, <2>3, <3>1, <3>2 DEF Served, Busy
  <2> QED BY <2>5, <2>6
<1>4. CASE Get(t)
  <2>1. CASE idle = <<>>   BY <1>1, <1>2, <1>4, <2>1 DEF Get, Jobs
  <2>2. CASE idle # <<>>
    <3> DEFINE c == idle[Len(idle)]
    <3>1. /\ job' = [job EXCEPT ![t].pc = IF c.rested THEN "ping" ELSE "command", ![t].of = c.of]
          /\ job[t].pc = "get" /\ UNCHANGED <<selected, caller>>
          BY <1>4, <2>2 DEF Get
    <3> HIDE DEF c
    <3>2. job'[t].pc \in {"ping", "command"} /\ job'[t].selects = job[t].selects
          BY <1>1, <3>1 DEF Jobs
    <3> QED BY <1>1, <1>2, <3>1, <3>2
  <2> QED BY <2>1, <2>2
<1>5. CASE Ping(t)
  <2>1. CASE job' = [job EXCEPT ![t].pc = "command"]             BY <1>1, <1>2, <1>5, <2>1 DEF Ping, Jobs
  <2>2. CASE job' = [job EXCEPT ![t].pc = "get", ![t].of = 0]   BY <1>1, <1>2, <1>5, <2>2 DEF Ping, Jobs
  <2> QED BY <1>5, <2>1, <2>2 DEF Ping
<1>6. CASE Dial(t)
  <2>1. CASE job' = [job EXCEPT ![t].pc = "command", ![t].of = process] /\ UNCHANGED caller
        BY <1>1, <1>2, <1>6, <2>1 DEF Dial, Jobs
  <2>2. CASE Finish(t, "error")   BY <1>3, <1>6, <2>2 DEF Dial, AnswersOf
  <2> QED BY <1>6, <2>1, <2>2 DEF Dial
<1>7. CASE Command(t)
  <2>1. ASSUME NEW answer \in {"ok", "refused"}, caller' = caller,
               job' = [job EXCEPT ![t].pc = "put", ![t].answer = answer],
               selected' = IF answer = "ok" /\ job[t].selects THEN process ELSE selected
        PROVE  Served'
    <3>1. job'[t].pc = "put" /\ job'[t].answer = answer /\ job'[t].selects = job[t].selects
          BY <1>1, <2>1 DEF Jobs
    <3> QED BY <1>1, <1>2, <1>7, <2>1, <3>1 DEF Command
  <2>2. CASE job' = [job EXCEPT ![t].pc = "put", ![t].answer = "ok"] /\ EnableOnly(t) /\ caller' = caller
        BY <2>1, <2>2 DEF EnableOnly
  <2>3. CASE job' = [job EXCEPT ![t].pc = "put", ![t].answer = "refused"] /\ selected' = selected /\ caller' = caller
        BY <2>1, <2>3
  <2>4. CASE Finish(t, "error") /\ selected' = selected      BY <1>3, <2>4 DEF AnswersOf
  <2>5. CASE Finish(t, "refused") /\ selected' = selected    BY <1>3, <2>5 DEF AnswersOf
  <2> QED BY <1>7, <2>2, <2>3, <2>4, <2>5 DEF Command
<1>8. CASE Put(t)       BY <1>1, <1>3, <1>8 DEF Put, Jobs
<1>9. CASE Release(t)
  <2>1. \A v \in Places \ {t} : job'[v] = job[v]   BY <1>1, <1>9 DEF Release
  <2>2. Asked.place # t   BY <1>9 DEF Release, Served, Busy
  <2>3. Asked.place # NoPlace => Asked.place \in Places   BY <1>1 DEF Asked, Callings
  <2>4. Asked' = Asked /\ caller' = caller /\ selected' = selected   BY <1>9 DEF Release, Asked
  <2>5. Asked.place # NoPlace => job'[Asked.place] = job[Asked.place]   BY <2>1, <2>2, <2>3
  <2>6. job' \in [Places -> Jobs]   BY DEF Bounded
  <2> QED BY <1>1, <2>4, <2>5, <2>6 DEF Served, Busy
<1> QED BY <1>4, <1>5, <1>6, <1>7, <1>8, <1>9 DEF JobStep

\* applyOutput counts a start as served before it asks, and a new start is one more to serve.
LEMMA WorldServed ==
    ASSUME Served, Bounded',
           ApplyBegin \/ ApplyBack \/ MPDStep \/ (\E i \in 1..Max : Rest(i) \/ ClosedByMPD(i))
    PROVE  Served'
<1> USE ApplierIsUser
<1>1. job \in [Places -> Jobs] /\ caller \in [Users -> Callings] /\ apply \in Applying
      BY DEF Served
<1>2. CASE ApplyBegin
  <2>1. Asked = Quiet   BY <1>2 DEF ApplyBegin, Served
  <2>2. apply' \in Applying /\ apply'.pc = "first"   BY <1>1, <1>2 DEF ApplyBegin, Applying
  <2>3. Asked' = Asked /\ job' = job /\ caller' = caller   BY <1>2 DEF ApplyBegin, Asked
  <2> QED BY <1>1, <2>1, <2>2, <2>3 DEF Served, Quiet
<1>3. CASE ApplyBack
  <2>1. /\ Asked.pc = "back" /\ caller' = [caller EXCEPT ![Applier] = Quiet]
        /\ UNCHANGED <<process, selected, job>>
        BY <1>3 DEF ApplyBack, Asked
  <2>2. Asked' = Quiet /\ caller' \in [Users -> Callings]
        BY <1>1, <2>1 DEF Asked, Quiet, Callings, AnswersOf
  <2>3. /\ apply' \in Applying /\ apply'.asks = apply.asks
        /\ apply'.pc = "done" => Asked.answer = "ok"
        BY <1>1, <1>3 DEF ApplyBack, Applying, Asked
  <2> QED BY <1>1, <2>1, <2>2, <2>3 DEF Served, Quiet
<1>4. ASSUME UNCHANGED <<process, selected, job, caller, apply>> PROVE Served'
      BY <1>4 DEF Served, Asked, Busy
<1>5. CASE Start
  <2>1. apply' \in Applying /\ apply'.asks # 0 /\ apply'.pc = apply.pc   BY <1>1, <1>5 DEF Start, Applying
  <2>2. UNCHANGED <<job, caller>>   BY <1>5 DEF Start
  <2> QED BY <1>1, <2>1, <2>2 DEF Served, Asked, Busy
<1>6. CASE MPDStep   BY <1>4, <1>5, <1>6 DEF MPDStep, Wedge, Unwedge, Exit
<1>7. CASE \E i \in 1..Max : Rest(i) \/ ClosedByMPD(i)   BY <1>4, <1>7 DEF Rest, ClosedByMPD
<1> QED BY <1>2, <1>3, <1>6, <1>7

LEMMA NextServed == Bounded /\ Served /\ [Next]_vars => Served'
<1> SUFFICES ASSUME Bounded, Served, [Next]_vars PROVE Served'   OBVIOUS
<1>1. Bounded'   BY NextBounded
<1>2. CASE \E u \in Users : CallerStep(u)   BY <1>2, CallerServed
<1>3. CASE \E t \in Places : JobStep(t)     BY <1>1, <1>3, JobServed
<1>4. CASE ApplyBegin \/ ApplyBack \/ MPDStep \/ (\E i \in 1..Max : Rest(i) \/ ClosedByMPD(i))
      BY <1>1, <1>4, WorldServed
<1>5. CASE UNCHANGED vars   BY <1>5 DEF vars, Served, Asked, Busy
<1> QED BY <1>2, <1>3, <1>4, <1>5 DEF Next

\* No start of MPD is lost (onMPDEvent, applyOutput): when every start was served and the last call
\* found no error, the process that runs now plays on the selected output, whatever answers of former
\* processes and of callers that gave up arrive in between.
THEOREM NoStartLost == Spec => []OutputSelected
<1>1. Served => OutputSelected   BY DEF Served, OutputSelected
<1> QED BY <1>1, InitBounded, NextBounded, InitServed, NextServed, PTL DEF Spec
=============================================================================
