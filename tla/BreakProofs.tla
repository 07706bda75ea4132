----------------------------- MODULE BreakProofs ------------------------------
(****************************************************************************)
(* Proofs about Break: however many announcements a break has, whenever     *)
(* they join and whatever people do, none stays in the queue, and the music *)
(* comes back as it was unless someone touched it.                          *)
(****************************************************************************)
EXTENDS Break, SequenceTheorems, FiniteSetTheorems, TLAPS

Pcs == {"idle", "status", "insert", "unrepeat", "fade", "pause", "level", "first", "wait", "join",
        "next", "restore", "remove", "look", "track", "seek", "settle", "volume", "done"}
Playing == {"unrepeat", "fade", "pause", "level", "first", "wait", "join", "next"}
Returning == {"look", "track", "seek", "settle", "volume", "done"}
States == {"play", "pause", "stop"}

Songs == [file : Files \cup Range(Music) \cup {PlayNow}, process : Nat]
Players == [queue : Seq(Songs), at : Nat, state : States, repeat : BOOLEAN,
            level : {"music", "zero", "announcement"}, point : BOOLEAN]
Statuses == [song : Songs \cup {NoSong}, state : States, repeat : BOOLEAN]

(* What MPD keeps true of itself.                                          *)
Sane(m) ==
  /\ m \in Players /\ m.at <= Len(m.queue)
  /\ m.at = 0 => m.state = "stop"
  /\ IsInjective(m.queue)

(* Files that no entry of the queue is of yet.                             *)
Pending == coming \cup Range(waiting) \cup Range(ready)

TypesInv ==
  /\ Sane(mpd)
  /\ process \in Nat /\ restarts \in Nat /\ faults \in Nat
  /\ restarts = 0 => process = 0
  /\ coming \subseteq Files /\ waiting \in Seq(Files) /\ ready \in Seq(Files)
  /\ queued \in Seq([file : Files, process : Nat])
  /\ before \in Statuses
  /\ pc \in Pcs /\ touched \in BOOLEAN

(* A file is asked for once, and has one entry at most.                    *)
Fresh ==
  /\ IsInjective(waiting) /\ IsInjective(ready)
  /\ coming \cap Range(waiting) = {} /\ coming \cap Range(ready) = {} /\ Range(waiting) \cap Range(ready) = {}
  /\ \A e \in Range(mpd.queue) : e.process = process /\ e.file \notin Pending

Stages ==
  /\ pc \in {"idle", "status"} \cup Returning => queued = <<>>
  /\ pc \in Playing => queued # <<>>

(* With one MPD process and no failed command, every announcement of the   *)
(* queue is one the group knows.                                           *)
Known ==
  restarts = 0 /\ faults = 0 =>
    /\ \A e \in Range(queued) : e.process = process
    /\ \A e \in Range(mpd.queue) : IsAnnouncement(e) => e \in Range(queued)

(* What is left of the music while nobody touches it, at each step.        *)
OnSong == mpd.at # 0 /\ mpd.queue[mpd.at] = before.song
Kept ==
  pc \notin {"idle", "status"} /\ ~touched =>
    /\ \A e \in Range(queued) : e.process = process
    /\ IF before.song = NoSong THEN before.state = "stop"
       ELSE before.song \in Range(mpd.queue) \ Range(queued)
    /\ ~before.repeat => ~mpd.repeat
    /\ pc \in {"remove"} \cup Returning => mpd.repeat = before.repeat
    /\ pc \in {"look", "track", "seek", "settle"} => before.song # NoSong /\ before.state # "stop"
    /\ pc = "track" /\ seen = 1 => OnSong
    /\ pc \in {"seek", "settle"} => OnSong /\ mpd.state = "play"
    /\ pc = "settle" => mpd.point
    /\ pc \in {"volume", "done"} => mpd.state = before.state /\ (mpd.state # "stop" => OnSong /\ mpd.point)
    /\ pc = "done" => mpd.level = "music"

(* The first entry stays a track of the music.                             *)
OnTop ==
  pc \notin {"idle", "status"} /\ ~touched /\ restarts = 0 /\ faults = 0 /\ before.song # NoSong =>
    /\ ~IsAnnouncement(mpd.queue[1])
    /\ (pc = "insert" /\ after = NoSong) \/ (pc = "join" /\ ~(seen > 0)) =>
         mpd.at # 0 /\ mpd.queue[mpd.at] \notin Range(queued)

BreakInv == TypesInv /\ Fresh /\ Stages /\ Known /\ Kept /\ OnTop

----------------------------------------------------------------------------
(* Sequences: a part, an entry that goes in, and one that goes out.        *)
LEMMA Part ==
    ASSUME NEW S, NEW s \in Seq(S), NEW a \in 1..(Len(s) + 1), NEW b \in 0..Len(s)
    PROVE  /\ SubSeq(s, a, b) \in Seq(S)
           /\ Len(SubSeq(s, a, b)) = IF a <= b THEN b - a + 1 ELSE 0
           /\ \A i \in 1..(b - a + 1) : SubSeq(s, a, b)[i] = s[a + i - 1]
<1>1. Len(s) \in Nat /\ a \in Int /\ b \in Int
  BY LenProperties
<1>2. ASSUME NEW i \in a..b PROVE s[i] \in S
  <2>1. i \in 1..Len(s)
    BY <1>1
  <2>2. QED
    BY <2>1, ElementOfSeq
<1>3. QED
  BY <1>1, <1>2, SubSeqProperties

LEMMA InsertsAt ==
    ASSUME NEW S, NEW s \in Seq(S), NEW e \in S, NEW i \in 1..(Len(s) + 1)
    PROVE  /\ InsertAt(s, i, e) \in Seq(S)
           /\ Len(InsertAt(s, i, e)) = Len(s) + 1
           /\ \A k \in 1..(Len(s) + 1) :
                InsertAt(s, i, e)[k] = IF k < i THEN s[k] ELSE IF k = i THEN e ELSE s[k - 1]
<1> DEFINE l == SubSeq(s, 1, i - 1)
           r == SubSeq(s, i, Len(s))
           m == l \o <<e>>
<1>1. Len(s) \in Nat /\ i \in Int
  BY LenProperties
<1>2. /\ l \in Seq(S) /\ Len(l) = i - 1
      /\ \A k \in 1..(i - 1) : l[k] = s[k]
  <2>1. i - 1 \in 0..Len(s) /\ 1 \in 1..(Len(s) + 1)
    BY <1>1
  <2>2. /\ l \in Seq(S) /\ Len(l) = IF 1 <= i - 1 THEN i - 1 - 1 + 1 ELSE 0
        /\ \A k \in 1..(i - 1 - 1 + 1) : l[k] = s[1 + k - 1]
    BY <2>1, Part
  <2>3. QED
    BY <1>1, <2>2
<1>3. /\ r \in Seq(S) /\ Len(r) = Len(s) - i + 1
      /\ \A k \in 1..(Len(s) - i + 1) : r[k] = s[i + k - 1]
  <2>1. Len(s) \in 0..Len(s)
    BY <1>1
  <2>2. /\ r \in Seq(S) /\ Len(r) = IF i <= Len(s) THEN Len(s) - i + 1 ELSE 0
        /\ \A k \in 1..(Len(s) - i + 1) : r[k] = s[i + k - 1]
    BY <2>1, Part
  <2>3. QED
    BY <1>1, <2>2
<1>4. <<e>> \in Seq(S) /\ Len(<<e>>) = 1 /\ <<e>>[1] = e
  OBVIOUS
<1>5. /\ m \in Seq(S) /\ Len(m) = i
      /\ \A k \in 1..i : m[k] = IF k <= i - 1 THEN l[k] ELSE e
  <2> HIDE DEF l
  <2>1. /\ m \in Seq(S) /\ Len(m) = Len(l) + Len(<<e>>)
        /\ \A k \in 1..(Len(l) + Len(<<e>>)) : m[k] = IF k <= Len(l) THEN l[k] ELSE <<e>>[k - Len(l)]
    BY <1>2, <1>4, ConcatProperties
  <2>2. QED
    BY <1>1, <1>2, <1>4, <2>1
<1>6. InsertAt(s, i, e) = m \o r
  BY DEF InsertAt
<1>7. /\ m \o r \in Seq(S) /\ Len(m \o r) = Len(m) + Len(r)
      /\ \A k \in 1..(Len(m) + Len(r)) : (m \o r)[k] = IF k <= Len(m) THEN m[k] ELSE r[k - Len(m)]
  <2> HIDE DEF m, r
  <2>1. QED
    BY <1>3, <1>5, ConcatProperties
<1> HIDE DEF l, m, r
<1>8. ASSUME NEW k \in 1..(Len(s) + 1)
      PROVE (m \o r)[k] = IF k < i THEN s[k] ELSE IF k = i THEN e ELSE s[k - 1]
  <2>1. (m \o r)[k] = IF k <= i THEN m[k] ELSE r[k - i]
    BY <1>1, <1>3, <1>5, <1>7
  <2>2. CASE k <= i
    BY <1>1, <1>2, <1>5, <2>1, <2>2
  <2>3. CASE k > i
    <3>1. k - i \in 1..(Len(s) - i + 1) /\ i + (k - i) - 1 = k - 1
      BY <1>1, <2>3
    <3>2. QED
      BY <1>1, <1>3, <2>1, <2>3, <3>1
  <2>4. k <= i \/ k > i
    BY <1>1
  <2>5. QED
    BY <2>2, <2>3, <2>4
<1>9. QED
  BY <1>1, <1>3, <1>5, <1>6, <1>7, <1>8

LEMMA RemovesAt ==
    ASSUME NEW S, NEW s \in Seq(S), NEW i \in 1..Len(s)
    PROVE  /\ RemoveAt(s, i) \in Seq(S)
           /\ Len(RemoveAt(s, i)) = Len(s) - 1
           /\ \A k \in 1..(Len(s) - 1) : RemoveAt(s, i)[k] = IF k < i THEN s[k] ELSE s[k + 1]
<1> DEFINE l == SubSeq(s, 1, i - 1)
           r == SubSeq(s, i + 1, Len(s))
<1>1. Len(s) \in Nat /\ i \in Int
  BY LenProperties
<1>2. /\ l \in Seq(S) /\ Len(l) = i - 1
      /\ \A k \in 1..(i - 1) : l[k] = s[k]
  <2>1. i - 1 \in 0..Len(s) /\ 1 \in 1..(Len(s) + 1)
    BY <1>1
  <2>2. /\ l \in Seq(S) /\ Len(l) = IF 1 <= i - 1 THEN i - 1 - 1 + 1 ELSE 0
        /\ \A k \in 1..(i - 1 - 1 + 1) : l[k] = s[1 + k - 1]
    BY <2>1, Part
  <2>3. QED
    BY <1>1, <2>2
<1>3. /\ r \in Seq(S) /\ Len(r) = Len(s) - i
      /\ \A k \in 1..(Len(s) - i) : r[k] = s[i + k]
  <2>1. Len(s) \in 0..Len(s) /\ i + 1 \in 1..(Len(s) + 1)
    BY <1>1
  <2>2. /\ r \in Seq(S) /\ Len(r) = IF i + 1 <= Len(s) THEN Len(s) - (i + 1) + 1 ELSE 0
        /\ \A k \in 1..(Len(s) - (i + 1) + 1) : r[k] = s[i + 1 + k - 1]
    BY <2>1, Part
  <2>3. QED
    BY <1>1, <2>2
<1>4. RemoveAt(s, i) = l \o r
  BY DEF RemoveAt
<1> HIDE DEF l, r
<1>5. /\ l \o r \in Seq(S) /\ Len(l \o r) = Len(l) + Len(r)
      /\ \A k \in 1..(Len(l) + Len(r)) : (l \o r)[k] = IF k <= Len(l) THEN l[k] ELSE r[k - Len(l)]
  BY <1>2, <1>3, ConcatProperties
<1>6. ASSUME NEW k \in 1..(Len(s) - 1)
      PROVE (l \o r)[k] = IF k < i THEN s[k] ELSE s[k + 1]
  <2>1. (l \o r)[k] = IF k <= i - 1 THEN l[k] ELSE r[k - (i - 1)]
    BY <1>1, <1>2, <1>3, <1>5
  <2>2. CASE k < i
    BY <1>1, <1>2, <2>1, <2>2
  <2>3. CASE k >= i
    <3>1. k - (i - 1) \in 1..(Len(s) - i) /\ i + (k - (i - 1)) = k + 1
      BY <1>1, <2>3
    <3>2. QED
      BY <1>1, <1>3, <2>1, <2>3, <3>1
  <2>4. k < i \/ k >= i
    BY <1>1
  <2>5. QED
    BY <2>2, <2>3, <2>4
<1>7. QED
  BY <1>1, <1>2, <1>3, <1>4, <1>5, <1>6

(* The members and distinctness after each of them.                        *)
LEMMA InsertsOne ==
    ASSUME NEW S, NEW s \in Seq(S), IsInjective(s), NEW e \in S, e \notin Range(s), NEW i \in 1..(Len(s) + 1)
    PROVE  /\ IsInjective(InsertAt(s, i, e))
           /\ Range(InsertAt(s, i, e)) = Range(s) \cup {e}
<1> DEFINE t == InsertAt(s, i, e)
<1>1. /\ t \in Seq(S) /\ Len(t) = Len(s) + 1
      /\ \A k \in 1..(Len(s) + 1) : t[k] = IF k < i THEN s[k] ELSE IF k = i THEN e ELSE s[k - 1]
  BY InsertsAt
<1>2. Len(s) \in Nat /\ DOMAIN s = 1..Len(s) /\ DOMAIN t = 1..(Len(s) + 1) /\ i \in Int
  BY <1>1, LenProperties
<1> HIDE DEF t
<1>3. \A k \in 1..Len(s) : s[k] # e
  BY <1>2 DEF Range
<1>4. IsInjective(t)
  <2>1. SUFFICES ASSUME NEW j \in 1..(Len(s) + 1), NEW k \in 1..(Len(s) + 1), t[j] = t[k] PROVE j = k
    BY <1>2 DEF IsInjective
  <2>2. CASE j = i
    <3>1. CASE k < i
      BY <1>1, <1>2, <1>3, <2>1, <2>2, <3>1
    <3>2. CASE k > i
      <4>1. k - 1 \in 1..Len(s)
        BY <1>2, <3>2
      <4>2. QED
        BY <1>1, <1>2, <1>3, <2>1, <2>2, <3>2, <4>1
    <3>3. QED
      BY <1>2, <2>2, <3>1, <3>2
  <2>3. CASE k = i
    <3>1. CASE j < i
      BY <1>1, <1>2, <1>3, <2>1, <2>3, <3>1
    <3>2. CASE j > i
      <4>1. j - 1 \in 1..Len(s)
        BY <1>2, <3>2
      <4>2. QED
        BY <1>1, <1>2, <1>3, <2>1, <2>3, <3>2, <4>1
    <3>3. QED
      BY <1>2, <2>3, <3>1, <3>2
  <2>4. CASE j # i /\ k # i
    <3> DEFINE Old(x) == IF x < i THEN x ELSE x - 1
    <3>1. Old(j) \in 1..Len(s) /\ Old(k) \in 1..Len(s) /\ t[j] = s[Old(j)] /\ t[k] = s[Old(k)]
      BY <1>1, <1>2, <2>4
    <3>2. Old(j) = Old(k)
      BY <1>2, <2>1, <3>1 DEF IsInjective
    <3>3. QED
      BY <1>2, <2>4, <3>2
  <2>5. QED
    BY <2>2, <2>3, <2>4
<1>5. Range(t) = Range(s) \cup {e}
  <2>1. ASSUME NEW k \in 1..(Len(s) + 1) PROVE t[k] \in Range(s) \cup {e}
    <3>1. CASE k < i
      BY <1>1, <1>2, <3>1 DEF Range
    <3>2. CASE k = i
      BY <1>1, <1>2, <3>2
    <3>3. CASE k > i
      <4>1. k - 1 \in 1..Len(s) /\ t[k] = s[k - 1]
        BY <1>1, <1>2, <3>3
      <4>2. QED
        BY <1>2, <4>1 DEF Range
    <3>4. QED
      BY <1>2, <3>1, <3>2, <3>3
  <2>2. ASSUME NEW k \in 1..Len(s) PROVE s[k] \in Range(t)
    <3>1. CASE k < i
      BY <1>1, <1>2, <3>1 DEF Range
    <3>2. CASE k >= i
      <4>1. k + 1 \in 1..(Len(s) + 1) /\ t[k + 1] = s[k]
        BY <1>1, <1>2, <3>2
      <4>2. QED
        BY <1>2, <4>1 DEF Range
    <3>3. QED
      BY <1>2, <3>1, <3>2
  <2>3. e \in Range(t)
    BY <1>1, <1>2 DEF Range
  <2>4. QED
    BY <1>2, <2>1, <2>2, <2>3 DEF Range
<1>6. QED
  BY <1>4, <1>5 DEF t

LEMMA RemovesOne ==
    ASSUME NEW S, NEW s \in Seq(S), IsInjective(s), NEW i \in 1..Len(s)
    PROVE  /\ IsInjective(RemoveAt(s, i))
           /\ Range(RemoveAt(s, i)) = Range(s) \ {s[i]}
<1> DEFINE t == RemoveAt(s, i)
           Old(x) == IF x < i THEN x ELSE x + 1
<1>1. /\ t \in Seq(S) /\ Len(t) = Len(s) - 1
      /\ \A k \in 1..(Len(s) - 1) : t[k] = IF k < i THEN s[k] ELSE s[k + 1]
  BY RemovesAt
<1>2. Len(s) \in Nat /\ DOMAIN s = 1..Len(s) /\ DOMAIN t = 1..(Len(s) - 1) /\ i \in Int
  BY <1>1, LenProperties
<1> HIDE DEF t
<1>3. \A k \in 1..(Len(s) - 1) : t[k] = s[Old(k)] /\ Old(k) \in 1..Len(s) /\ Old(k) # i
  BY <1>1, <1>2
<1>4. IsInjective(t)
  <2>1. SUFFICES ASSUME NEW j \in 1..(Len(s) - 1), NEW k \in 1..(Len(s) - 1), t[j] = t[k] PROVE j = k
    BY <1>2 DEF IsInjective
  <2>2. Old(j) = Old(k)
    <3> HIDE DEF Old
    <3>1. QED
      BY <1>2, <1>3, <2>1 DEF IsInjective
  <2>3. QED
    BY <1>2, <2>2
<1>5. ASSUME NEW k \in 1..(Len(s) - 1) PROVE t[k] \in Range(s) \ {s[i]}
  <2> HIDE DEF Old
  <2>1. QED
    BY <1>2, <1>3 DEF Range, IsInjective
<1>6. ASSUME NEW k \in 1..Len(s), k # i PROVE s[k] \in Range(t)
  <2>1. CASE k < i
    BY <1>1, <1>2, <2>1 DEF Range
  <2>2. CASE k > i
    <3>1. k - 1 \in 1..(Len(s) - 1) /\ t[k - 1] = s[k]
      BY <1>1, <1>2, <2>2
    <3>2. QED
      BY <1>2, <3>1 DEF Range
  <2>3. QED
    BY <1>2, <1>6, <2>1, <2>2
<1>7. Range(t) = Range(s) \ {s[i]}
  BY <1>2, <1>5, <1>6 DEF Range
<1>8. QED
  BY <1>4, <1>7 DEF t

----------------------------------------------------------------------------
(* Commands of MPD keep it sane; only addid and deleteid change the queue. *)
LEMMA SaneIs ==
    ASSUME NEW m, Sane(m)
    PROVE  /\ m \in Players /\ m.queue \in Seq(Songs) /\ m.at \in Nat /\ m.state \in States
           /\ m.repeat \in BOOLEAN /\ m.point \in BOOLEAN
           /\ m.level \in {"music", "zero", "announcement"}
           /\ Len(m.queue) \in Nat /\ DOMAIN m.queue = 1..Len(m.queue)
           /\ m.at \in 0..Len(m.queue)
           /\ m.at = 0 => m.state = "stop"
           /\ IsInjective(m.queue)
<1>1. /\ m \in Players /\ m.queue \in Seq(Songs) /\ m.at \in Nat /\ m.state \in States
      /\ m.repeat \in BOOLEAN /\ m.point \in BOOLEAN
      /\ m.level \in {"music", "zero", "announcement"}
      /\ m.at <= Len(m.queue) /\ (m.at = 0 => m.state = "stop") /\ IsInjective(m.queue)
  BY DEF Sane, Players
<1>2. Len(m.queue) \in Nat /\ DOMAIN m.queue = 1..Len(m.queue)
  BY <1>1, LenProperties
<1>3. QED
  BY <1>1, <1>2

(* Where an entry is, and which entry is there.                            *)
LEMMA PlaceIs ==
    ASSUME NEW m, Sane(m), NEW e
    PROVE  /\ PlaceOf(m, e) \in 0..Len(m.queue)
           /\ PlaceOf(m, e) # 0 <=> e \in Range(m.queue)
           /\ e \in Range(m.queue) => m.queue[PlaceOf(m, e)] = e
           /\ \A k \in 1..Len(m.queue) : m.queue[k] = e => PlaceOf(m, e) = k
<1>1. Len(m.queue) \in Nat /\ DOMAIN m.queue = 1..Len(m.queue) /\ IsInjective(m.queue)
  BY SaneIs
<1>2. CASE e \in Range(m.queue)
  <2>1. PICK k \in 1..Len(m.queue) : m.queue[k] = e
    BY <1>1, <1>2 DEF Range
  <2>2. PlaceOf(m, e) \in 1..Len(m.queue) /\ m.queue[PlaceOf(m, e)] = e
    <3>1. PlaceOf(m, e) = CHOOSE i \in DOMAIN m.queue : m.queue[i] = e
      BY <1>2 DEF PlaceOf
    <3>2. QED
      BY <1>1, <2>1, <3>1
  <2>3. QED
    BY <1>1, <1>2, <2>2 DEF IsInjective
<1>3. CASE e \notin Range(m.queue)
  <2>1. PlaceOf(m, e) = 0
    BY <1>3 DEF PlaceOf
  <2>2. \A k \in 1..Len(m.queue) : m.queue[k] # e
    BY <1>1, <1>3 DEF Range
  <2>3. QED
    BY <1>1, <1>3, <2>1, <2>2
<1>4. QED
  BY <1>2, <1>3

LEMMA PlacesIn ==
    ASSUME Sane(mpd), NEW e, NEW i \in PlacesOf(e)
    PROVE  i \in 0..Len(mpd.queue)
BY PlaceIs DEF PlacesOf

LEMMA StartAtIs ==
    ASSUME NEW m, Sane(m), NEW i \in 1..Len(m.queue)
    PROVE  /\ Sane(StartAt(m, i))
           /\ StartAt(m, i).queue = m.queue /\ StartAt(m, i).at = i /\ StartAt(m, i).state = "play"
           /\ StartAt(m, i).repeat = m.repeat
<1>1. m \in Players /\ IsInjective(m.queue) /\ Len(m.queue) \in Nat /\ i \in Nat
  <2>1. m \in Players /\ IsInjective(m.queue) /\ Len(m.queue) \in Nat
    BY SaneIs
  <2>2. QED
    BY <2>1
<1>2. StartAt(m, i) \in Players
  BY <1>1 DEF StartAt, Players, States
<1>3. /\ StartAt(m, i).queue = m.queue /\ StartAt(m, i).at = i /\ StartAt(m, i).state = "play"
      /\ StartAt(m, i).repeat = m.repeat
  BY <1>1 DEF StartAt, Players
<1>4. QED
  BY <1>1, <1>2, <1>3 DEF Sane

LEMMA HaltIs ==
    ASSUME NEW m, Sane(m)
    PROVE  /\ Sane(Halt(m))
           /\ Halt(m).queue = m.queue /\ Halt(m).at = 0 /\ Halt(m).repeat = m.repeat
<1>1. m \in Players /\ IsInjective(m.queue) /\ Len(m.queue) \in Nat
  BY SaneIs
<1>2. Halt(m) \in Players
  BY <1>1 DEF Halt, Players, States
<1>3. Halt(m).queue = m.queue /\ Halt(m).at = 0 /\ Halt(m).repeat = m.repeat /\ Halt(m).state = "stop"
  BY <1>1 DEF Halt, Players
<1>4. QED
  BY <1>1, <1>2, <1>3 DEF Sane

LEMMA SuccessorIs ==
    ASSUME NEW m, Sane(m), Successor(m) # 0
    PROVE  /\ Successor(m) \in Nat
           /\ m.at # 0 => Successor(m) \in 1..Len(m.queue)
           /\ m.at < Len(m.queue) => Successor(m) = m.at + 1
           /\ m.at >= Len(m.queue) => Successor(m) = 1
BY SaneIs DEF Successor

LEMMA EndOfEntryIs ==
    ASSUME NEW m, Sane(m), m.state = "play"
    PROVE  /\ Sane(EndOfEntry(m))
           /\ EndOfEntry(m).queue = m.queue /\ EndOfEntry(m).repeat = m.repeat
<1>1. CASE Successor(m) = 0
  BY <1>1, HaltIs DEF EndOfEntry
<1>2. CASE Successor(m) # 0
  <2>1. Successor(m) \in 1..Len(m.queue)
    BY <1>2, SaneIs, SuccessorIs
  <2>2. QED
    BY <1>2, <2>1, StartAtIs DEF EndOfEntry
<1>3. QED
  BY <1>1, <1>2

(* What changes neither the queue nor the current entry.                   *)
Alike(n, m) == n.queue = m.queue /\ n.at = m.at

LEMMA LevelIs ==
    ASSUME NEW m, Sane(m), NEW l \in {"music", "zero", "announcement"}
    PROVE  /\ Sane([m EXCEPT !.level = l]) /\ Alike([m EXCEPT !.level = l], m)
           /\ [m EXCEPT !.level = l].state = m.state /\ [m EXCEPT !.level = l].repeat = m.repeat
           /\ [m EXCEPT !.level = l].point = m.point /\ [m EXCEPT !.level = l].level = l
<1> DEFINE n == [m EXCEPT !.level = l]
<1>1. m \in Players
  BY SaneIs
<1>2. /\ n \in Players /\ n.queue = m.queue /\ n.at = m.at
      /\ n.state = m.state /\ n.repeat = m.repeat /\ n.point = m.point /\ n.level = l
  BY <1>1 DEF Players
<1> HIDE DEF n
<1>3. Sane(n) /\ Alike(n, m)
  BY <1>2 DEF Sane, Alike
<1>4. QED
  BY <1>2, <1>3 DEF n

LEMMA RepeatIs ==
    ASSUME NEW m, Sane(m), NEW r \in BOOLEAN
    PROVE  /\ Sane([m EXCEPT !.repeat = r]) /\ Alike([m EXCEPT !.repeat = r], m)
           /\ [m EXCEPT !.repeat = r].state = m.state /\ [m EXCEPT !.repeat = r].repeat = r
<1> DEFINE n == [m EXCEPT !.repeat = r]
<1>1. m \in Players
  BY SaneIs
<1>2. /\ n \in Players /\ n.queue = m.queue /\ n.at = m.at
      /\ n.state = m.state /\ n.repeat = r
  BY <1>1 DEF Players
<1> HIDE DEF n
<1>3. Sane(n) /\ Alike(n, m)
  BY <1>2 DEF Sane, Alike
<1>4. QED
  BY <1>2, <1>3 DEF n

LEMMA PointIs ==
    ASSUME NEW m, Sane(m), NEW p \in BOOLEAN
    PROVE  /\ Sane([m EXCEPT !.point = p]) /\ Alike([m EXCEPT !.point = p], m)
           /\ [m EXCEPT !.point = p].state = m.state /\ [m EXCEPT !.point = p].repeat = m.repeat
           /\ [m EXCEPT !.point = p].point = p
<1> DEFINE n == [m EXCEPT !.point = p]
<1>1. m \in Players
  BY SaneIs
<1>2. /\ n \in Players /\ n.queue = m.queue /\ n.at = m.at
      /\ n.state = m.state /\ n.repeat = m.repeat /\ n.point = p
  BY <1>1 DEF Players
<1> HIDE DEF n
<1>3. Sane(n) /\ Alike(n, m)
  BY <1>2 DEF Sane, Alike
<1>4. QED
  BY <1>2, <1>3 DEF n

LEMMA PausedIs ==
    ASSUME NEW m, Sane(m)
    PROVE  /\ Sane(Paused(m)) /\ Alike(Paused(m), m)
           /\ Paused(m).state = IF m.state = "play" THEN "pause" ELSE m.state
           /\ Paused(m).repeat = m.repeat /\ Paused(m).point = m.point
<1>1. m \in Players /\ m.at \in Nat
  BY SaneIs
<1>2. /\ Paused(m) \in Players /\ Paused(m).queue = m.queue /\ Paused(m).at = m.at
      /\ Paused(m).state = IF m.state = "play" THEN "pause" ELSE m.state
      /\ Paused(m).repeat = m.repeat /\ Paused(m).point = m.point
  BY <1>1 DEF Paused, Players, States
<1>3. QED
  BY <1>1, <1>2 DEF Sane, Alike

LEMMA StoppedIs ==
    ASSUME NEW m, Sane(m)
    PROVE  /\ Sane(Stopped(m)) /\ Alike(Stopped(m), m)
           /\ Stopped(m).state = "stop" /\ Stopped(m).repeat = m.repeat
<1>1. m \in Players
  BY SaneIs
<1>2. /\ Stopped(m) \in Players /\ Stopped(m).queue = m.queue /\ Stopped(m).at = m.at
      /\ Stopped(m).state = "stop" /\ Stopped(m).repeat = m.repeat
  BY <1>1 DEF Stopped, Players, States
<1>3. QED
  BY <1>2 DEF Sane, Alike

LEMMA PlayedIs ==
    ASSUME NEW m, Sane(m)
    PROVE  /\ Sane(Played(m)) /\ Played(m).queue = m.queue /\ Played(m).repeat = m.repeat
           /\ m.at # 0 => Played(m).at = m.at /\ Played(m).state = "play"
<1>1. m \in Players /\ m.at \in 0..Len(m.queue) /\ m.state \in States /\ m.queue \in Seq(Songs)
      /\ Len(m.queue) \in Nat
  BY SaneIs
<1>2. CASE m.state = "pause"
  <2>1. /\ Played(m) \in Players /\ Played(m).queue = m.queue /\ Played(m).at = m.at
        /\ Played(m).state = "play" /\ Played(m).repeat = m.repeat
    BY <1>1, <1>2 DEF Played, Players, States
  <2>2. m.at # 0
    BY <1>2 DEF Sane
  <2>3. QED
    BY <2>1, <2>2 DEF Sane
<1>3. CASE m.state = "play" \/ (m.state # "pause" /\ m.queue = <<>>)
  <2>1. Played(m) = m
    BY <1>3 DEF Played
  <2>2. m.queue = <<>> => m.at = 0
    BY <1>1
  <2>3. QED
    BY <1>1, <1>3, <2>1, <2>2
<1>4. CASE m.state = "stop" /\ m.queue # <<>>
  <2>1. Played(m) = StartAt(m, IF m.at = 0 THEN 1 ELSE m.at)
    BY <1>4 DEF Played
  <2>2. (IF m.at = 0 THEN 1 ELSE m.at) \in 1..Len(m.queue)
    <3>1. Len(m.queue) # 0
      BY <1>1, <1>4, EmptySeq
    <3>2. QED
      BY <1>1, <3>1
  <2>3. QED
    BY <2>1, <2>2, StartAtIs
<1>5. QED
  BY <1>1, <1>2, <1>3, <1>4 DEF States

(* addid: one more entry, and the current entry stays what it is.          *)
LEMMA AddAtIs ==
    ASSUME NEW m, Sane(m), NEW e \in Songs, e \notin Range(m.queue), NEW i \in 1..(Len(m.queue) + 1)
    PROVE  /\ Sane(AddAt(m, i, e))
           /\ Range(AddAt(m, i, e).queue) = Range(m.queue) \cup {e}
           /\ AddAt(m, i, e).queue[1] = IF i = 1 THEN e ELSE m.queue[1]
           /\ m.at # 0 => /\ AddAt(m, i, e).at # 0
                          /\ AddAt(m, i, e).queue[AddAt(m, i, e).at] = m.queue[m.at]
           /\ AddAt(m, i, e).state = m.state /\ AddAt(m, i, e).repeat = m.repeat
<1> DEFINE n == AddAt(m, i, e)
           q == m.queue
           t == InsertAt(q, i, e)
<1>1. /\ m \in Players /\ q \in Seq(Songs) /\ m.at \in Nat /\ Len(q) \in Nat /\ DOMAIN q = 1..Len(q)
      /\ m.at \in 0..Len(q) /\ (m.at = 0 => m.state = "stop") /\ IsInjective(q)
  BY SaneIs
<1>2. /\ t \in Seq(Songs) /\ Len(t) = Len(q) + 1
      /\ \A k \in 1..(Len(q) + 1) : t[k] = IF k < i THEN q[k] ELSE IF k = i THEN e ELSE q[k - 1]
      /\ IsInjective(t) /\ Range(t) = Range(q) \cup {e}
  <2>1. q \in Seq(Songs) /\ IsInjective(q) /\ e \in Songs /\ e \notin Range(q) /\ i \in 1..(Len(q) + 1)
    BY <1>1
  <2> HIDE DEF q
  <2>2. QED
    BY <2>1, InsertsAt, InsertsOne
<1>3. n = [m EXCEPT !.queue = t, !.at = IF m.at >= i THEN m.at + 1 ELSE m.at]
  <2> HIDE DEF t
  <2>1. t = InsertAt(m.queue, i, e)
    BY DEF t
  <2>2. QED
    BY <1>1, <2>1 DEF AddAt, Players
<1> HIDE DEF q, t, n
<1>4. m.queue = q
  BY DEF q
<1>5. (IF m.at >= i THEN m.at + 1 ELSE m.at) \in Nat
  BY <1>1
<1>6. /\ n \in Players /\ n.queue = t /\ n.at = (IF m.at >= i THEN m.at + 1 ELSE m.at)
      /\ n.state = m.state /\ n.repeat = m.repeat
  BY <1>1, <1>2, <1>3, <1>5 DEF Players
<1>7. i \in Int /\ n.at <= Len(n.queue) /\ (n.at = 0 => n.state = "stop")
  BY <1>1, <1>2, <1>4, <1>6
<1>8. Sane(n)
  BY <1>2, <1>6, <1>7 DEF Sane
<1>9. n.queue[1] = IF i = 1 THEN e ELSE m.queue[1]
  <2>1. t[1] = IF 1 < i THEN q[1] ELSE IF 1 = i THEN e ELSE q[1 - 1]
    BY <1>1, <1>2
  <2>2. 1 < i <=> i # 1
    BY <1>1, <1>4
  <2>3. QED
    BY <1>4, <1>6, <2>1, <2>2
<1>10. ASSUME m.at # 0 PROVE n.at # 0 /\ n.queue[n.at] = m.queue[m.at]
  <2>1. CASE m.at >= i
    <3>1. m.at + 1 \in 1..(Len(q) + 1) /\ m.at + 1 > i /\ (m.at + 1) - 1 = m.at
      BY <1>1, <1>7, <2>1
    <3>2. t[m.at + 1] = q[m.at]
      BY <1>2, <1>7, <3>1
    <3>3. QED
      BY <1>1, <1>4, <1>6, <2>1, <3>2
  <2>2. CASE m.at < i
    <3>1. m.at \in 1..(Len(q) + 1)
      BY <1>1, <1>10
    <3>2. t[m.at] = q[m.at]
      BY <1>2, <2>2, <3>1
    <3>3. n.at = m.at
      BY <1>1, <1>6, <1>7, <2>2
    <3>4. QED
      BY <1>4, <1>6, <1>10, <3>2, <3>3
  <2>3. m.at >= i \/ m.at < i
    BY <1>1, <1>7
  <2>4. QED
    BY <2>1, <2>2, <2>3
<1>11. QED
  BY <1>2, <1>4, <1>6, <1>8, <1>9, <1>10 DEF n, q

(* deleteid: the entry goes out; if it was the current one, MPD halts or   *)
(* goes to the one after it.                                               *)
LEMMA DeleteAtIs ==
    ASSUME NEW m, Sane(m), NEW i \in 1..Len(m.queue)
    PROVE  /\ Sane(DeleteAt(m, i))
           /\ Range(DeleteAt(m, i).queue) = Range(m.queue) \ {m.queue[i]}
           /\ i # 1 => DeleteAt(m, i).queue[1] = m.queue[1]
           /\ DeleteAt(m, i).repeat = m.repeat
           /\ \A e \in Current(DeleteAt(m, i)) :
                \/ e \in Current(m)
                \/ m.at = i /\ Successor(m) \notin {0, i} /\ e = m.queue[Successor(m)]
<1> DEFINE n == DeleteAt(m, i)
           q == m.queue
           t == RemoveAt(q, i)
           at == IF m.at > i THEN m.at - 1 ELSE m.at
           g == [m EXCEPT !.queue = t, !.at = at]
           s == Successor(m)
           next == IF s > i THEN s - 1 ELSE s
<1>1. /\ m \in Players /\ q \in Seq(Songs) /\ m.at \in Nat /\ Len(q) \in Nat /\ DOMAIN q = 1..Len(q)
      /\ m.at \in 0..Len(q) /\ (m.at = 0 => m.state = "stop") /\ IsInjective(q) /\ m.state \in States
      /\ i \in Nat /\ i # 0
  BY SaneIs
<1>2. /\ t \in Seq(Songs) /\ Len(t) = Len(q) - 1
      /\ \A k \in 1..(Len(q) - 1) : t[k] = IF k < i THEN q[k] ELSE q[k + 1]
      /\ IsInjective(t) /\ Range(t) = Range(q) \ {q[i]}
  BY <1>1, RemovesAt, RemovesOne
<1>3. \/ m.at # i /\ n = g
      \/ m.at = i /\ (s \in {0, i} \/ m.state = "stop") /\ n = Halt(g)
      \/ m.at = i /\ s \notin {0, i} /\ m.state = "play" /\ n = StartAt(g, next)
      \/ m.at = i /\ s \notin {0, i} /\ m.state = "pause" /\ n = [Halt(g) EXCEPT !.at = next]
  <2> HIDE DEF t, s
  <2>1. t = RemoveAt(m.queue, i) /\ s = Successor(m)
    BY DEF t, s
  <2>2. g = [m EXCEPT !.queue = RemoveAt(@, i), !.at = IF @ > i THEN @ - 1 ELSE @]
    BY <1>1, <2>1 DEF Players
  <2> HIDE DEF g
  <2>3. QED
    BY <1>1, <2>1, <2>2 DEF DeleteAt, States
<1> HIDE DEF q, t, n, s
<1>4. m.queue = q
  BY DEF q
<1>5. m.at # i => at \in Nat /\ at <= Len(t)
  BY <1>1, <1>2, <1>4
<1>6. at \in Nat /\ (at # 0 <=> m.at # 0)
  BY <1>1
<1> HIDE DEF at
<1>7. /\ g \in Players /\ g.queue = t /\ g.at = at /\ g.state = m.state /\ g.repeat = m.repeat
  BY <1>1, <1>2, <1>6 DEF Players
<1> HIDE DEF g
<1>8. ASSUME m.at # i, n = g
      PROVE Sane(n) /\ n.queue = t /\ n.repeat = m.repeat /\ \A e \in Current(n) : e \in Current(m)
  <2>1. Sane(n)
    BY <1>1, <1>2, <1>5, <1>6, <1>7, <1>8 DEF Sane
  <2>2. ASSUME m.at # 0 PROVE t[at] = q[m.at]
    <3>1. CASE m.at > i
      <4>1. at = m.at - 1 /\ m.at - 1 \in 1..(Len(q) - 1) /\ ~(m.at - 1 < i) /\ (m.at - 1) + 1 = m.at
        BY <1>1, <1>4, <3>1 DEF at
      <4>2. QED
        BY <1>2, <4>1
    <3>2. CASE m.at < i
      <4>1. at = m.at /\ m.at \in 1..(Len(q) - 1)
        BY <1>1, <1>4, <2>2, <3>2 DEF at
      <4>2. QED
        BY <1>2, <3>2, <4>1
    <3>3. m.at > i \/ m.at < i
      BY <1>1, <1>8
    <3>4. QED
      BY <3>1, <3>2, <3>3
  <2>3. QED
    BY <1>4, <1>6, <1>7, <1>8, <2>1, <2>2 DEF Current
<1>9. ASSUME n = Halt(g)
      PROVE Sane(n) /\ n.queue = t /\ n.repeat = m.repeat /\ Current(n) = {}
  <2>1. /\ n \in Players /\ n.queue = t /\ n.at = 0 /\ n.state = "stop" /\ n.repeat = m.repeat
    BY <1>7, <1>9 DEF Halt, Players, States
  <2>2. 0 <= Len(t)
    BY <1>2, LenProperties
  <2>3. QED
    BY <1>2, <2>1, <2>2 DEF Sane, Current
<1>10. ASSUME m.at = i, s \notin {0, i}
       PROVE next \in 1..Len(t) /\ t[next] = q[s]
  <2>1. s \in 1..Len(q)
    <3>1. m.at # 0 /\ Successor(m) # 0
      BY <1>1, <1>10 DEF s
    <3>2. QED
      BY <1>4, <3>1, SuccessorIs DEF s
  <2>2. CASE s > i
    <3>1. next = s - 1 /\ s - 1 \in 1..(Len(q) - 1) /\ ~(s - 1 < i) /\ (s - 1) + 1 = s
      BY <1>1, <2>1, <2>2
    <3>2. QED
      BY <1>2, <3>1
  <2>3. CASE s < i
    <3>1. next = s /\ s \in 1..(Len(q) - 1)
      BY <1>1, <1>4, <2>1, <2>3
    <3>2. QED
      BY <1>2, <2>3, <3>1
  <2>4. s > i \/ s < i
    BY <1>1, <1>10, <2>1
  <2>5. QED
    BY <2>2, <2>3, <2>4
<1> HIDE DEF next
<1>11. ASSUME m.at = i, s \notin {0, i}, n = StartAt(g, next) \/ (m.state = "pause" /\ n = [Halt(g) EXCEPT !.at = next])
       PROVE Sane(n) /\ n.queue = t /\ n.repeat = m.repeat /\ Current(n) = {q[s]}
  <2>1. next \in Nat /\ next # 0 /\ next <= Len(t)
    <3>1. Len(t) \in Nat
      BY <1>2, LenProperties
    <3>2. QED
      BY <1>10, <1>11, <3>1
  <2>2. CASE n = StartAt(g, next)
    <3>1. n \in Players /\ n.queue = t /\ n.at = next /\ n.repeat = m.repeat
      BY <1>7, <2>1, <2>2 DEF StartAt, Players, States
    <3>2. QED
      BY <1>2, <1>10, <1>11, <2>1, <3>1 DEF Sane, Current
  <2>3. CASE n = [Halt(g) EXCEPT !.at = next]
    <3>1. n \in Players /\ n.queue = t /\ n.at = next /\ n.repeat = m.repeat
      BY <1>7, <2>1, <2>3 DEF Halt, Players, States
    <3>2. QED
      BY <1>2, <1>10, <1>11, <2>1, <3>1 DEF Sane, Current
  <2>4. QED
    BY <1>11, <2>2, <2>3
<1>12. /\ Sane(n) /\ n.queue = t /\ n.repeat = m.repeat
       /\ \A e \in Current(n) : \/ e \in Current(m)
                                \/ m.at = i /\ s \notin {0, i} /\ e = q[s]
  BY <1>3, <1>8, <1>9, <1>11
<1>13. ASSUME i # 1 PROVE t[1] = q[1]
  <2>1. 1 \in 1..(Len(q) - 1) /\ 1 < i
    BY <1>1, <1>4, <1>13
  <2>2. QED
    BY <1>2, <2>1
<1>14. QED
  BY <1>2, <1>4, <1>12, <1>13 DEF n, q, s

----------------------------------------------------------------------------
(* The kinds of steps.                                                     *)
LEMMA FreshKept ==
    ASSUME Fresh, process' = process, coming' = coming, Range(mpd'.queue) \subseteq Range(mpd.queue),
           \/ ready' = ready /\ waiting' = waiting
           \/ ready' = <<>> /\ waiting' = waiting
           \/ ready' = waiting /\ waiting' = <<>>
    PROVE  Fresh'
<1>1. /\ IsInjective(<<>>) /\ Range(<<>>) = {}
  BY DEF IsInjective, Range
<1>2. /\ IsInjective(waiting') /\ IsInjective(ready')
      /\ coming' \cap Range(waiting') = {} /\ coming' \cap Range(ready') = {}
      /\ Range(waiting') \cap Range(ready') = {}
  BY <1>1 DEF Fresh
<1>3. Pending' \subseteq Pending
  BY <1>1 DEF Pending
<1>4. QED
  BY <1>2, <1>3 DEF Fresh

LEMMA KnownKept ==
    ASSUME Known, process' = process, restarts' = restarts, queued' = queued,
           faults' = faults \/ faults' # 0,
           \A e \in Range(mpd'.queue) : e \in Range(mpd.queue) \/ ~IsAnnouncement(e)
    PROVE  Known'
BY DEF Known, IsAnnouncement

(* A step that leaves the files of the queue alone.                        *)
LEMMA SameQueue ==
    ASSUME BreakInv, Sane(mpd'), mpd'.queue = mpd.queue,
           UNCHANGED <<process, coming, waiting, ready, queued, before, restarts>>,
           pc' \in Pcs, touched' \in BOOLEAN, faults' \in Nat,
           faults' = faults \/ (faults' # 0 /\ touched'),
           Stages', faults' = faults => Kept' /\ OnTop'
    PROVE  BreakInv'
<1>1. TypesInv'
  BY DEF BreakInv, TypesInv
<1>2. Fresh'
  BY FreshKept DEF BreakInv
<1>3. Known'
  BY KnownKept DEF BreakInv
<1>4. Kept' /\ OnTop'
  BY DEF Kept, OnTop
<1>5. QED
  BY <1>1, <1>2, <1>3, <1>4 DEF BreakInv

(* A step of someone who touches the music.                                *)
LEMMA TouchedStep ==
    ASSUME BreakInv, Sane(mpd'), process' = process, UNCHANGED <<coming, waiting, group, restarts, faults>>,
           touched' = TRUE,
           \A e \in Range(mpd'.queue) :
             \/ e \in Range(mpd.queue)
             \/ ~IsAnnouncement(e) /\ e.process = process /\ e.file \notin Files
    PROVE  BreakInv'
<1>1. UNCHANGED <<pc, ready, queued, after, started, seen, late, before, coming, waiting, restarts, faults>>
  BY DEF group
<1>2. TypesInv'
  BY <1>1 DEF BreakInv, TypesInv
<1>3. Fresh'
  <2>1. Pending' = Pending /\ Pending \subseteq Files
    <3>1. coming \subseteq Files /\ Range(waiting) \subseteq Files /\ Range(ready) \subseteq Files
      BY RangeOfSeq DEF BreakInv, TypesInv
    <3>2. QED
      BY <1>1, <3>1 DEF Pending
  <2>2. \A e \in Range(mpd'.queue) : e.process = process' /\ e.file \notin Pending'
    BY <2>1 DEF BreakInv, Fresh
  <2>3. QED
    BY <1>1, <2>2 DEF BreakInv, Fresh
<1>4. Stages' /\ Known'
  BY <1>1, KnownKept DEF BreakInv, Stages
<1>5. Kept' /\ OnTop'
  BY DEF Kept, OnTop
<1>6. QED
  BY <1>2, <1>3, <1>4, <1>5 DEF BreakInv

(* Nothing the invariant speaks about changes.                             *)
LEMMA UnseenStep ==
    ASSUME BreakInv, UNCHANGED <<mpd, process, waiting, coming, pc, ready, queued, after, seen, before,
                                 touched, restarts, faults>>
    PROVE  BreakInv'
<1>1. TypesInv' /\ Fresh' /\ Stages' /\ Known'
  BY DEF BreakInv, TypesInv, Fresh, Pending, Stages, Known, IsAnnouncement
<1>2. Kept' /\ OnTop'
  BY DEF BreakInv, Kept, OnTop, OnSong, IsAnnouncement
<1>3. QED
  BY <1>1, <1>2 DEF BreakInv

LEMMA FaultIs ==
    ASSUME TypesInv, Fault
    PROVE  /\ faults' \in Nat /\ faults' # 0 /\ faults' # faults /\ touched' = TRUE /\ restarts' = restarts
BY DEF Fault, TypesInv

LEMMA FineIs ==
    ASSUME TypesInv, Fine
    PROVE  /\ faults' \in Nat /\ faults' = faults /\ touched' = touched /\ restarts' = restarts
           /\ touched' \in BOOLEAN
BY DEF Fine, bounds, TypesInv

LEMMA WorksIs ==
    ASSUME TypesInv, Works
    PROVE  /\ faults' \in Nat /\ restarts' = restarts /\ touched' \in BOOLEAN
           /\ \/ faults' = faults /\ touched' = touched
              \/ faults' # faults /\ faults' # 0 /\ touched' = TRUE
BY FaultIs, FineIs DEF Works

(* The queue keeps its first entry while nobody touches it.                *)
LEMMA OnTopKept ==
    ASSUME OnTop, UNCHANGED <<before, restarts, touched>>, faults' = faults, mpd'.queue = mpd.queue,
           pc \notin {"idle", "status"}, pc' \notin {"insert", "join"}
    PROVE  OnTop'
BY DEF OnTop, IsAnnouncement

----------------------------------------------------------------------------
(* One command of the group.                                               *)
LEMMA CommandStep ==
    ASSUME BreakInv, NEW from \in Pcs \ {"idle", "status"}, NEW to \in Pcs \ {"idle", "status", "insert", "join"},
           NEW m, Command(from, to, m), Sane(m), m.queue = mpd.queue,
           Stages', ~touched' => Kept'
    PROVE  BreakInv'
<1>1. /\ pc = from /\ pc' = to /\ Works
      /\ mpd' = (IF faults' = faults THEN m ELSE mpd)
      /\ UNCHANGED <<process, coming, waiting, ready, queued, before>>
  BY DEF Command, Worked, Elsewhere, GoTo
<1>2. /\ faults' \in Nat /\ restarts' = restarts /\ touched' \in BOOLEAN
      /\ \/ faults' = faults /\ touched' = touched
         \/ faults' # faults /\ faults' # 0 /\ touched' = TRUE
  BY <1>1, WorksIs DEF BreakInv
<1>3. Sane(mpd') /\ mpd'.queue = mpd.queue
  BY <1>1 DEF BreakInv, TypesInv
<1>4. ASSUME faults' = faults PROVE Kept' /\ OnTop'
  <2>1. mpd' = m /\ touched' = touched
    BY <1>1, <1>2, <1>4
  <2>2. OnTop'
    BY <1>1, <1>2, <1>3, <1>4, <2>1, OnTopKept DEF BreakInv
  <2>3. Kept'
    BY DEF Kept
  <2>4. QED
    BY <2>2, <2>3
<1>5. pc' \in Pcs
  BY <1>1
<1>6. QED
  BY <1>1, <1>2, <1>3, <1>4, <1>5, SameQueue

(* What the group finds while nobody touched the music.                    *)
Found ==
  /\ \A e \in Range(queued) : e.process = process
  /\ IF before.song = NoSong THEN before.state = "stop"
     ELSE before.song \in Range(mpd.queue) \ Range(queued)

LEMMA Undisturbed ==
    ASSUME BreakInv, NEW from, NEW to, NEW m, from \notin {"idle", "status"}, Command(from, to, m), ~touched'
    PROVE  /\ pc = from /\ pc' = to /\ ~touched /\ mpd' = m
           /\ Found
           /\ ~before.repeat => ~mpd.repeat
           /\ UNCHANGED <<before, queued, process, seen>>
<1>1. /\ pc = from /\ pc' = to /\ Works
      /\ mpd' = (IF faults' = faults THEN m ELSE mpd)
      /\ UNCHANGED <<before, queued, process, seen>>
  BY DEF Command, Elsewhere, GoTo, Worked
<1>2. ~touched /\ faults' = faults
  <2>1. \/ faults' = faults /\ touched' = touched
        \/ faults' # faults /\ faults' # 0 /\ touched' = TRUE
    BY <1>1, WorksIs DEF BreakInv
  <2>2. QED
    BY <2>1
<1>3. Found /\ (~before.repeat => ~mpd.repeat)
  BY <1>1, <1>2 DEF BreakInv, Kept, Found
<1>4. QED
  BY <1>1, <1>2, <1>3

LEMMA FoundKept ==
    ASSUME Found, mpd'.queue = mpd.queue, UNCHANGED <<before, queued, process>>
    PROVE  Found'
BY DEF Found

LEMMA SaneNow ==
    ASSUME BreakInv
    PROVE  /\ Sane(mpd) /\ before \in Statuses
           /\ before.repeat \in BOOLEAN /\ before.state \in States /\ mpd.repeat \in BOOLEAN
           /\ mpd.state \in States /\ mpd.point \in BOOLEAN
BY SaneIs DEF BreakInv, TypesInv, Statuses

(* Before the restore.                                                     *)
LEMMA RepeatOffStep ==
    ASSUME BreakInv, RepeatOff
    PROVE  BreakInv'
<1> DEFINE m == IF before.repeat THEN [mpd EXCEPT !.repeat = FALSE] ELSE mpd
<1>1. Command("unrepeat", "fade", m)
  BY DEF RepeatOff
<1>2. Sane(m) /\ m.queue = mpd.queue /\ (~before.repeat => m.repeat = mpd.repeat)
  BY SaneNow, RepeatIs DEF Alike
<1> HIDE DEF m
<1>3. ASSUME ~touched' PROVE Kept'
  <2>1. /\ pc' = "fade" /\ Found /\ (~before.repeat => ~mpd.repeat)
        /\ mpd' = m /\ UNCHANGED <<before, queued, process>>
    BY <1>1, <1>3, Undisturbed
  <2>2. Found' /\ (~before'.repeat => ~mpd'.repeat)
    BY <1>2, <2>1, FoundKept
  <2>3. QED
    BY <2>1, <2>2 DEF Found, Kept, Returning
<1>4. Stages'
  BY <1>1 DEF Command, GoTo, BreakInv, Stages, Playing, Returning
<1>5. "unrepeat" \in Pcs \ {"idle", "status"} /\ "fade" \in Pcs \ {"idle", "status", "insert", "join"}
  BY DEF Pcs
<1>6. QED
  BY <1>1, <1>2, <1>3, <1>4, <1>5, CommandStep

LEMMA HoldStep ==
    ASSUME BreakInv, FadeOut \/ Pause \/ Level
    PROVE  BreakInv'
<1>1. PICK from \in {"fade", "pause", "level"}, to \in {"pause", "level", "first"}, m \in Players :
        /\ Command(from, to, m) /\ Sane(m) /\ m.queue = mpd.queue /\ m.repeat = mpd.repeat
  <2> DEFINE f == IF before.state = "play" THEN [mpd EXCEPT !.level = "zero"] ELSE mpd
             p == IF before.state = "play" THEN Paused(mpd) ELSE mpd
             l == [mpd EXCEPT !.level = "announcement"]
  <2>1. Sane(f) /\ f.queue = mpd.queue /\ f.repeat = mpd.repeat
    BY SaneNow, LevelIs DEF Alike
  <2>2. Sane(p) /\ p.queue = mpd.queue /\ p.repeat = mpd.repeat
    BY SaneNow, PausedIs DEF Alike
  <2>3. Sane(l) /\ l.queue = mpd.queue /\ l.repeat = mpd.repeat
    BY SaneNow, LevelIs DEF Alike
  <2>4. Command("fade", "pause", f) \/ Command("pause", "level", p) \/ Command("level", "first", l)
    BY DEF FadeOut, Pause, Level
  <2> HIDE DEF f, p, l
  <2>5. QED
    BY <2>1, <2>2, <2>3, <2>4 DEF Sane
<1>2. ASSUME ~touched' PROVE Kept'
  <2>1. /\ pc' = to /\ Found /\ (~before.repeat => ~mpd.repeat)
        /\ mpd' = m /\ UNCHANGED <<before, queued, process>>
    BY <1>1, <1>2, Undisturbed
  <2>2. Found' /\ (~before'.repeat => ~mpd'.repeat)
    BY <1>1, <2>1, FoundKept
  <2>3. QED
    BY <2>1, <2>2 DEF Found, Kept, Returning
<1>3. Stages'
  BY <1>1 DEF Command, GoTo, BreakInv, Stages, Playing, Returning
<1>4. from \in Pcs \ {"idle", "status"} /\ to \in Pcs \ {"idle", "status", "insert", "join"}
  BY DEF Pcs
<1>5. QED
  BY <1>1, <1>2, <1>3, <1>4, CommandStep

(* The start and the end of a break.                                       *)
LEMMA BeginStep ==
    ASSUME BreakInv, Begin
    PROVE  BreakInv'
<1>1. /\ pc = "idle" /\ pc' = "status" /\ ready' = waiting /\ waiting' = <<>> /\ touched' = FALSE
      /\ UNCHANGED <<mpd, process, coming, queued, before, restarts, faults>>
  BY DEF Begin, GoTo, bounds
<1>2. queued = <<>> /\ queued' = <<>>
  BY <1>1 DEF BreakInv, Stages
<1>3. TypesInv'
  <2>1. waiting' \in Seq(Files) /\ ready' \in Seq(Files)
    BY <1>1, EmptySeq DEF BreakInv, TypesInv
  <2>2. pc' \in Pcs
    BY <1>1 DEF Pcs
  <2>3. touched' \in BOOLEAN
    BY <1>1
  <2>4. QED
    BY <1>1, <2>1, <2>2, <2>3 DEF BreakInv, TypesInv
<1>4. Fresh'
  <2>1. Range(mpd'.queue) \subseteq Range(mpd.queue)
    BY <1>1
  <2>2. QED
    BY <1>1, <2>1, FreshKept DEF BreakInv
<1>5. Known'
  <2>1. \A e \in Range(mpd'.queue) : e \in Range(mpd.queue) \/ ~IsAnnouncement(e)
    BY <1>1
  <2>2. QED
    BY <1>1, <2>1, KnownKept DEF BreakInv
<1>6. Stages'
  BY <1>1, <1>2 DEF Stages, Playing
<1>7. Kept' /\ OnTop'
  BY <1>1 DEF Kept, OnTop
<1>8. QED
  BY <1>3, <1>4, <1>5, <1>6, <1>7 DEF BreakInv

LEMMA ReleasedStep ==
    ASSUME BreakInv, Released, UNCHANGED <<mpd, process, coming, waiting, restarts>>,
           faults' \in Nat, touched' \in BOOLEAN, queued = <<>> \/ faults' # 0, faults' = faults \/ faults' # 0
    PROVE  BreakInv'
<1>1. pc' = "idle" /\ ready' = <<>> /\ queued' = <<>> /\ before' = Unknown
  BY DEF Released
<1>2. TypesInv'
  <2>1. Unknown \in Statuses
    BY DEF Unknown, Statuses, States
  <2>2. QED
    BY <1>1, <2>1 DEF BreakInv, TypesInv, Pcs
<1>3. Fresh'
  BY <1>1, FreshKept DEF BreakInv
<1>4. Stages'
  BY <1>1 DEF Stages, Playing
<1>5. Known'
  BY <1>1 DEF BreakInv, Known, IsAnnouncement, Range
<1>6. Kept' /\ OnTop'
  BY <1>1 DEF Kept, OnTop
<1>7. QED
  BY <1>2, <1>3, <1>4, <1>5, <1>6 DEF BreakInv

LEMMA DoneStep ==
    ASSUME BreakInv, Done
    PROVE  BreakInv'
<1>1. pc = "done" /\ Released /\ Fine /\ UNCHANGED <<mpd, process, coming, waiting>>
  BY DEF Done, Elsewhere
<1>2. queued = <<>>
  BY <1>1 DEF BreakInv, Stages, Returning
<1>3. faults' \in Nat /\ faults' = faults /\ restarts' = restarts /\ touched' \in BOOLEAN
  BY <1>1, FineIs DEF BreakInv
<1>4. QED
  BY <1>1, <1>2, <1>3, ReleasedStep

LEMMA InsertedStep ==
    ASSUME BreakInv, Inserted
    PROVE  BreakInv'
<1>1. /\ pc = "insert" /\ Fine /\ UNCHANGED <<mpd, process, coming, waiting>>
      /\ queued = <<>> => Released
      /\ queued # <<>> => /\ pc' \in {"unrepeat", "next"}
                          /\ UNCHANGED <<ready, queued, started, seen, late, before>>
  BY DEF Inserted, Elsewhere, GoTo
<1>2. faults' \in Nat /\ faults' = faults /\ restarts' = restarts /\ touched' = touched /\ touched' \in BOOLEAN
  BY <1>1, FineIs DEF BreakInv
<1>3. CASE queued = <<>>
  BY <1>1, <1>2, <1>3, ReleasedStep
<1>4. CASE queued # <<>>
  <2>1. Stages'
    BY <1>1, <1>4 DEF Stages, Returning
  <2>2. Kept'
    <3>1. UNCHANGED <<mpd, process, queued, before, touched>>
      BY <1>1, <1>2, <1>4
    <3>2. QED
      BY <1>1, <1>4, <3>1 DEF BreakInv, Kept, Returning
  <2>3. OnTop'
    BY <1>1, <1>2, <1>4, OnTopKept DEF BreakInv
  <2>4. Sane(mpd') /\ pc' \in Pcs
    BY <1>1, <1>4 DEF BreakInv, TypesInv, Pcs
  <2>5. QED
    BY <1>1, <1>2, <1>4, <2>1, <2>2, <2>3, <2>4, SameQueue
<1>5. QED
  BY <1>3, <1>4

LEMMA ReadBeforeStep ==
    ASSUME BreakInv, ReadBefore
    PROVE  BreakInv'
<1> DEFINE now == [song |-> IF mpd.at = 0 THEN NoSong ELSE mpd.queue[mpd.at],
                   state |-> mpd.state, repeat |-> mpd.repeat]
<1>1. pc = "status" /\ queued = <<>> /\ UNCHANGED <<process, coming, waiting>>
  BY DEF ReadBefore, Elsewhere, BreakInv, Stages
<1>2. CASE Fault /\ Released /\ UNCHANGED mpd
  <2>1. faults' \in Nat /\ faults' # 0 /\ touched' \in BOOLEAN /\ restarts' = restarts
    BY <1>2, FaultIs DEF BreakInv
  <2>2. QED
    BY <1>1, <1>2, <2>1, ReleasedStep
<1>3. CASE /\ before' = now
           /\ mpd' = [mpd EXCEPT !.point = (mpd.at # 0)]
           /\ touched' = FALSE /\ UNCHANGED bounds
           /\ GoTo("insert")
           /\ UNCHANGED <<ready, queued, after, started, seen, late, announcing, holds>>
  <2>1. /\ pc' = "insert" /\ touched' = FALSE
        /\ UNCHANGED <<ready, queued, after, restarts, faults>>
    BY <1>3 DEF bounds, GoTo
  <2>2. Sane(mpd') /\ mpd'.queue = mpd.queue /\ mpd'.at = mpd.at /\ mpd'.repeat = mpd.repeat
    <3>1. Sane(mpd) /\ (mpd.at # 0) \in BOOLEAN
      BY SaneNow
    <3>2. QED
      BY <1>3, <3>1, PointIs DEF Alike
  <2>3. mpd.at # 0 => mpd.queue[mpd.at] \in Songs /\ mpd.queue[mpd.at] \in Range(mpd.queue)
    BY SaneIs, SaneNow DEF Range
  <2>4. now \in Statuses
    BY <2>3, SaneNow DEF Statuses
  <2>5. \/ before'.song = NoSong /\ before'.state = "stop"
        \/ before'.song # NoSong /\ before'.song \in Range(mpd'.queue)
    <3>1. mpd.at # 0 => mpd.queue[mpd.at].file # ""
      BY <2>3, NoFileAssumption DEF Songs
    <3>2. mpd.at # 0 => mpd.queue[mpd.at] # NoSong
      <4>1. NoSong.file = ""
        BY DEF NoSong
      <4>2. QED
        BY <3>1, <4>1
    <3>3. mpd.at = 0 => mpd.state = "stop"
      BY SaneIs, SaneNow
    <3>4. before'.song = (IF mpd.at = 0 THEN NoSong ELSE mpd.queue[mpd.at]) /\ before'.state = mpd.state
      BY <1>3
    <3>5. QED
      BY <2>2, <2>3, <3>2, <3>3, <3>4
  <2>6. before'.repeat = mpd.repeat
    BY <1>3
  <2>7. before'.song # NoSong => mpd.at # 0
    BY <1>3
  <2>8. queued' = <<>> /\ Range(queued') = {}
    BY <1>1, <2>1 DEF Range
  <2>9. TypesInv'
    BY <1>1, <1>3, <2>1, <2>2, <2>4 DEF BreakInv, TypesInv, Pcs
  <2>10. Fresh'
    BY <1>1, <2>1, <2>2, FreshKept DEF BreakInv
  <2>11. Stages'
    BY <2>1, <2>8 DEF Stages, Playing, Returning
  <2>12. Known'
    BY <1>1, <2>1, <2>2, KnownKept DEF BreakInv
  <2>13. Kept'
    <3>1. \A e \in Range(queued') : e.process = process'
      BY <2>8
    <3>2. IF before'.song = NoSong THEN before'.state = "stop"
          ELSE before'.song \in Range(mpd'.queue) \ Range(queued')
      BY <2>5, <2>8
    <3>3. ~before'.repeat => ~mpd'.repeat
      BY <2>2, <2>6
    <3>4. QED
      BY <2>1, <3>1, <3>2, <3>3 DEF Kept, Returning
  <2>14. OnTop'
    <3>1. SUFFICES ASSUME restarts = 0, faults = 0, before'.song # NoSong
                   PROVE  /\ ~IsAnnouncement(mpd.queue[1])
                          /\ mpd'.at # 0
      BY <2>1, <2>2, <2>8 DEF OnTop, IsAnnouncement
    <3>2. mpd.at # 0
      BY <2>7, <3>1
    <3>3. Range(queued) = {}
      BY <1>1 DEF Range
    <3>4. \A e \in Range(mpd.queue) : ~IsAnnouncement(e)
      BY <3>1, <3>3 DEF BreakInv, Known
    <3>5. mpd.queue[1] \in Range(mpd.queue)
      BY <3>2, SaneIs, SaneNow DEF Range
    <3>6. QED
      BY <2>2, <3>2, <3>4, <3>5
  <2>15. QED
    BY <2>9, <2>10, <2>11, <2>12, <2>13, <2>14 DEF BreakInv
<1>4. QED
  BY <1>2, <1>3 DEF ReadBefore

----------------------------------------------------------------------------
(* Sequences: their ends.                                                  *)
LEMMA TailIs ==
    ASSUME NEW S, NEW s \in Seq(S), s # <<>>, IsInjective(s)
    PROVE  /\ Head(s) \in S /\ Head(s) \in Range(s)
           /\ Tail(s) \in Seq(S) /\ IsInjective(Tail(s))
           /\ Range(Tail(s)) \subseteq Range(s) \ {Head(s)}
<1>1. /\ Len(s) \in Nat /\ Len(s) # 0 /\ DOMAIN s = 1..Len(s)
  BY LenProperties, EmptySeq
<1>2. /\ Head(s) \in S /\ Tail(s) \in Seq(S) /\ Len(Tail(s)) = Len(s) - 1
      /\ Head(s) = s[1] /\ \A k \in 1..Len(Tail(s)) : Tail(s)[k] = s[k + 1]
  BY HeadTailProperties
<1>3. DOMAIN Tail(s) = 1..(Len(s) - 1)
  BY <1>2, LenProperties
<1>4. \A k \in 1..(Len(s) - 1) : k + 1 \in 1..Len(s) /\ k + 1 # 1 /\ Tail(s)[k] = s[k + 1]
  BY <1>1, <1>2
<1>5. 1 \in 1..Len(s)
  BY <1>1
<1>6. IsInjective(Tail(s))
  <2>1. SUFFICES ASSUME NEW j \in 1..(Len(s) - 1), NEW k \in 1..(Len(s) - 1), Tail(s)[j] = Tail(s)[k]
                 PROVE  j = k
    BY <1>3 DEF IsInjective
  <2>2. j + 1 = k + 1
    BY <1>1, <1>4, <2>1 DEF IsInjective
  <2>3. QED
    BY <1>1, <2>2
<1>7. Range(Tail(s)) \subseteq Range(s) \ {Head(s)}
  <2>1. SUFFICES ASSUME NEW k \in 1..(Len(s) - 1) PROVE Tail(s)[k] \in Range(s) \ {Head(s)}
    BY <1>3 DEF Range
  <2>2. s[k + 1] # s[1]
    BY <1>1, <1>4, <1>5 DEF IsInjective
  <2>3. QED
    BY <1>1, <1>2, <1>4, <2>2 DEF Range
<1>8. QED
  BY <1>1, <1>2, <1>5, <1>6, <1>7 DEF Range

LEMMA AppendIs ==
    ASSUME NEW S, NEW s \in Seq(S), NEW e \in S
    PROVE  /\ Append(s, e) \in Seq(S) /\ Append(s, e) # <<>>
           /\ Range(Append(s, e)) = Range(s) \cup {e}
<1>1. /\ Append(s, e) \in Seq(S) /\ Len(Append(s, e)) = Len(s) + 1
      /\ \A k \in 1..Len(s) : Append(s, e)[k] = s[k]
      /\ Append(s, e)[Len(s) + 1] = e
  BY AppendProperties
<1>2. Len(s) \in Nat /\ DOMAIN s = 1..Len(s) /\ DOMAIN Append(s, e) = 1..(Len(s) + 1)
  BY <1>1, LenProperties
<1>3. Range(Append(s, e)) = Range(s) \cup {e}
  <2>1. ASSUME NEW k \in 1..(Len(s) + 1) PROVE Append(s, e)[k] \in Range(s) \cup {e}
    <3>1. k \in 1..Len(s) \/ k = Len(s) + 1
      BY <1>2
    <3>2. QED
      BY <1>1, <1>2, <3>1 DEF Range
  <2>2. ASSUME NEW k \in 1..Len(s) PROVE s[k] \in Range(Append(s, e))
    <3>1. k \in 1..(Len(s) + 1)
      BY <1>2
    <3>2. QED
      BY <1>1, <1>2, <3>1 DEF Range
  <2>3. e \in Range(Append(s, e))
    <3>1. Len(s) + 1 \in 1..(Len(s) + 1)
      BY <1>2
    <3>2. QED
      BY <1>1, <1>2, <3>1 DEF Range
  <2>4. QED
    BY <1>2, <2>1, <2>2, <2>3 DEF Range
<1>4. Append(s, e) # <<>>
  BY <1>1, <1>2, EmptySeq
<1>5. QED
  BY <1>1, <1>3, <1>4

LEMMA FrontIs ==
    ASSUME NEW S, NEW s \in Seq(S), s # <<>>
    PROVE  /\ Front(s) \in Seq(S) /\ Last(s) \in Range(s) /\ Len(Front(s)) = Len(s) - 1
           /\ Range(s) = Range(Front(s)) \cup {Last(s)}
           /\ \A k \in 1..(Len(s) - 1) : Front(s)[k] = s[k]
<1>1. PICK n \in Nat : n = Len(s) - 1 /\ Len(s) = n + 1
  <2>1. /\ Len(s) \in Nat /\ Len(s) # 0
    BY LenProperties, EmptySeq
  <2>2. QED
    BY <2>1
<1>2. /\ Len(s) \in Nat /\ Len(s) # 0 /\ DOMAIN s = 1..Len(s)
  BY LenProperties, EmptySeq
<1>3. Len(s) \in Nat /\ Len(s) >= 1
  BY <1>2
<1>4. 1 \in 1..(Len(s) + 1) /\ Len(s) - 1 \in 0..Len(s) /\ Len(s) \in 1..Len(s)
  BY <1>2
<1>5. Front(s) = SubSeq(s, 1, Len(s) - 1) /\ Last(s) = s[Len(s)]
  BY DEF Front, Last
<1>6. /\ Front(s) \in Seq(S)
      /\ Len(Front(s)) = IF 1 <= Len(s) - 1 THEN Len(s) - 1 - 1 + 1 ELSE 0
      /\ \A k \in 1..(Len(s) - 1 - 1 + 1) : Front(s)[k] = s[1 + k - 1]
  BY <1>4, <1>5, Part
<1> DEFINE f == Front(s)
<1> HIDE DEF f
<1>7. /\ Len(f) = Len(s) - 1 /\ \A k \in 1..(Len(s) - 1) : f[k] = s[k]
  <2>1. /\ Len(f) = IF 1 <= Len(s) - 1 THEN Len(s) - 1 - 1 + 1 ELSE 0
        /\ \A k \in 1..(Len(s) - 1 - 1 + 1) : f[k] = s[1 + k - 1]
    BY <1>6 DEF f
  <2>2. Len(f) = Len(s) - 1
    <3>1. Len(f) = IF 1 <= n THEN n - 1 + 1 ELSE 0
      BY <1>1, <2>1
    <3>2. Len(f) = n
      BY <3>1
    <3>3. QED
      BY <1>1, <3>2
  <2>3. ASSUME NEW k \in 1..(Len(s) - 1) PROVE f[k] = s[k]
    <3>1. k \in 1..(Len(s) - 1 - 1 + 1) /\ 1 + k - 1 = k
      BY <1>2
    <3>2. QED
      BY <2>1, <3>1
  <2>4. QED
    BY <2>2, <2>3
<1>8. DOMAIN f = 1..(Len(s) - 1)
  BY <1>6, <1>7, LenProperties DEF f
<1>9. \A k \in 1..Len(s) : k \in 1..(Len(s) - 1) \/ k = Len(s)
  BY <1>3
<1>10. 1..(Len(s) - 1) \subseteq 1..Len(s)
  BY <1>2
<1>11. Range(s) = Range(f) \cup {Last(s)} /\ Last(s) \in Range(s)
  BY <1>2, <1>4, <1>5, <1>7, <1>8, <1>9, <1>10 DEF Range
<1>12. QED
  BY <1>6, <1>7, <1>11 DEF f

----------------------------------------------------------------------------
(* The entries that go into the queue.                                     *)
LEMMA PlacesOfInsert ==
    ASSUME BreakInv, NEW i \in InsertPlaces
    PROVE  /\ i \in 1..(Len(mpd.queue) + 1)
           /\ after # NoSong \/ mpd.at # 0 => i # 1
<1>1. Sane(mpd) /\ Len(mpd.queue) \in Nat /\ mpd.at \in 0..Len(mpd.queue)
  BY SaneIs, SaneNow
<1>2. CASE after = NoSong
  <2>1. i = mpd.at + 1
    BY <1>2 DEF InsertPlaces
  <2>2. QED
    BY <1>1, <1>2, <2>1
<1>3. CASE after # NoSong
  <2>1. PICK k \in PlacesOf(after) \ {0} : i = k + 1
    BY <1>3 DEF InsertPlaces
  <2>2. k \in 0..Len(mpd.queue)
    BY <1>1, <2>1, PlacesIn
  <2>3. QED
    BY <1>1, <2>1, <2>2
<1>4. QED
  BY <1>2, <1>3

LEMMA NewEntry ==
    ASSUME BreakInv, pc = "insert", ready # <<>>
    PROVE  /\ Entry(Head(ready)) \in [file : Files, process : Nat] /\ Entry(Head(ready)) \in Songs
           /\ Entry(Head(ready)).process = process /\ Entry(Head(ready)).file = Head(ready)
           /\ Entry(Head(ready)) \notin Range(mpd.queue) /\ Entry(Head(ready)) # NoSong
           /\ IsAnnouncement(Entry(Head(ready)))
           /\ Tail(ready) \in Seq(Files) /\ IsInjective(Tail(ready))
           /\ Range(Tail(ready)) \subseteq Range(ready) \ {Head(ready)}
           /\ Head(ready) \notin coming \cup Range(waiting) \cup Range(Tail(ready))
<1>1. /\ Head(ready) \in Files /\ Head(ready) \in Range(ready)
      /\ Tail(ready) \in Seq(Files) /\ IsInjective(Tail(ready))
      /\ Range(Tail(ready)) \subseteq Range(ready) \ {Head(ready)}
  <2>1. ready \in Seq(Files) /\ IsInjective(ready)
    BY DEF BreakInv, TypesInv, Fresh
  <2>2. QED
    BY <2>1, TailIs
<1>2. process \in Nat
  BY DEF BreakInv, TypesInv
<1>3. Entry(Head(ready)).process = process /\ Entry(Head(ready)).file = Head(ready)
  BY DEF Entry
<1>4. Entry(Head(ready)) \in [file : Files, process : Nat] /\ Entry(Head(ready)) \in Songs
  BY <1>1, <1>2 DEF Entry, Songs
<1>5. Head(ready) \in Pending
  BY <1>1 DEF Pending
<1>6. Entry(Head(ready)) \notin Range(mpd.queue)
  BY <1>3, <1>5 DEF BreakInv, Fresh
<1>7. Entry(Head(ready)) # NoSong
  <2>1. NoSong.file = ""
    BY DEF NoSong
  <2>2. QED
    BY <1>1, <1>3, <2>1, NoFileAssumption
<1>8. Head(ready) \notin coming \cup Range(waiting) \cup Range(Tail(ready))
  BY <1>1 DEF BreakInv, Fresh
<1>9. IsAnnouncement(Entry(Head(ready)))
  BY <1>1, <1>3 DEF IsAnnouncement
<1>10. QED
  BY <1>1, <1>3, <1>4, <1>6, <1>7, <1>8, <1>9

LEMMA InsertStep ==
    ASSUME BreakInv, Insert
    PROVE  BreakInv'
<1> DEFINE e == Entry(Head(ready))
<1>1. /\ pc = "insert" /\ pc' = "insert" /\ ready # <<>> /\ ready' = Tail(ready)
      /\ UNCHANGED <<process, coming, waiting, before, seen>>
  BY DEF Insert, Elsewhere
<1>2. /\ e \in [file : Files, process : Nat] /\ e \in Songs
      /\ e.process = process /\ e.file = Head(ready)
      /\ e \notin Range(mpd.queue) /\ e # NoSong /\ IsAnnouncement(e)
      /\ Tail(ready) \in Seq(Files) /\ IsInjective(Tail(ready))
      /\ Range(Tail(ready)) \subseteq Range(ready) \ {Head(ready)}
      /\ Head(ready) \notin coming \cup Range(waiting) \cup Range(Tail(ready))
  BY <1>1, NewEntry
<1> HIDE DEF e
<1>3. Pending' \subseteq Pending /\ Head(ready) \notin Pending'
  BY <1>1, <1>2 DEF Pending
<1>4. /\ IsInjective(waiting') /\ IsInjective(ready')
      /\ coming' \cap Range(waiting') = {} /\ coming' \cap Range(ready') = {}
      /\ Range(waiting') \cap Range(ready') = {}
  BY <1>1, <1>2 DEF BreakInv, Fresh
<1>5. Sane(mpd) /\ queued \in Seq([file : Files, process : Nat])
  BY DEF BreakInv, TypesInv
<1>6. Stages'
  BY <1>1 DEF Stages, Playing, Returning
<1>7. ASSUME UNCHANGED <<mpd, queued, after>>, (InsertPlaces = {} /\ Fine) \/ Fault
      PROVE  BreakInv'
  <2>1. /\ faults' \in Nat /\ restarts' = restarts /\ touched' \in BOOLEAN
        /\ \/ faults' = faults /\ touched' = touched
           \/ faults' # faults /\ faults' # 0 /\ touched' = TRUE
    BY <1>7, WorksIs DEF BreakInv, Works
  <2>2. TypesInv'
    BY <1>1, <1>2, <1>7, <2>1 DEF BreakInv, TypesInv
  <2>3. Fresh'
    BY <1>1, <1>3, <1>4, <1>7 DEF BreakInv, Fresh
  <2>4. Known'
    BY <1>1, <1>7, <2>1, KnownKept DEF BreakInv
  <2>5. ASSUME touched' = touched PROVE Kept'
    BY <1>1, <1>7, <2>5 DEF BreakInv, Kept, Returning
  <2>6. ASSUME touched' = touched, faults' = faults PROVE OnTop'
    BY <1>1, <1>7, <2>1, <2>6 DEF BreakInv, OnTop, IsAnnouncement
  <2>7. touched' = TRUE => Kept' /\ OnTop'
    BY DEF Kept, OnTop
  <2>8. QED
    BY <1>6, <2>1, <2>2, <2>3, <2>4, <2>5, <2>6, <2>7 DEF BreakInv
<1>8. ASSUME NEW i \in InsertPlaces, Fine, mpd' = AddAt(mpd, i, e), after' = e, queued' = Append(queued, e)
      PROVE  BreakInv'
  <2>1. faults' \in Nat /\ faults' = faults /\ restarts' = restarts /\ touched' = touched /\ touched' \in BOOLEAN
    BY <1>8, FineIs DEF BreakInv
  <2>2. i \in 1..(Len(mpd.queue) + 1) /\ (after # NoSong \/ mpd.at # 0 => i # 1)
    BY PlacesOfInsert
  <2>3. /\ Sane(mpd') /\ Range(mpd'.queue) = Range(mpd.queue) \cup {e}
        /\ mpd'.queue[1] = (IF i = 1 THEN e ELSE mpd.queue[1])
        /\ mpd'.repeat = mpd.repeat
    <3>1. /\ Sane(mpd) /\ e \in Songs /\ e \notin Range(mpd.queue)
          /\ i \in 1..(Len(mpd.queue) + 1)
      BY <1>2, <1>5, <2>2
    <3>2. /\ Sane(AddAt(mpd, i, e)) /\ Range(AddAt(mpd, i, e).queue) = Range(mpd.queue) \cup {e}
          /\ AddAt(mpd, i, e).queue[1] = (IF i = 1 THEN e ELSE mpd.queue[1])
          /\ AddAt(mpd, i, e).repeat = mpd.repeat
      <4> DEFINE n == AddAt(mpd, i, e)
      <4>1. Sane(n)
        BY <3>1, AddAtIs
      <4>2. Range(n.queue) = Range(mpd.queue) \cup {e}
        BY <3>1, AddAtIs
      <4>3. n.queue[1] = (IF i = 1 THEN e ELSE mpd.queue[1])
        BY <3>1, AddAtIs
      <4>4. n.repeat = mpd.repeat
        BY <3>1, AddAtIs
      <4>5. QED
        BY <4>1, <4>2, <4>3, <4>4
    <3>3. QED
      BY <1>8, <3>2
  <2>4. queued' \in Seq([file : Files, process : Nat]) /\ Range(queued') = Range(queued) \cup {e}
    <3> DEFINE A == [file : Files, process : Nat]
    <3>1. e \in A /\ queued \in Seq(A)
      BY <1>2, <1>5
    <3> HIDE DEF A
    <3>2. Append(queued, e) \in Seq(A) /\ Range(Append(queued, e)) = Range(queued) \cup {e}
      BY <3>1, AppendIs
    <3>3. QED
      BY <1>8, <3>2 DEF A
  <2>5. TypesInv'
    BY <1>1, <1>2, <2>1, <2>3, <2>4 DEF BreakInv, TypesInv
  <2>6. Fresh'
    <3>1. \A x \in Range(mpd'.queue) : x.process = process' /\ x.file \notin Pending'
      BY <1>1, <1>2, <1>3, <2>3 DEF BreakInv, Fresh
    <3>2. QED
      BY <1>4, <3>1 DEF Fresh
  <2>7. Known'
    BY <1>1, <1>2, <2>1, <2>3, <2>4 DEF BreakInv, Known, IsAnnouncement
  <2>8. ASSUME ~touched PROVE Kept'
    <3>1. /\ \A x \in Range(queued) : x.process = process
          /\ IF before.song = NoSong THEN before.state = "stop"
             ELSE before.song \in Range(mpd.queue) \ Range(queued)
          /\ ~before.repeat => ~mpd.repeat
      BY <1>1, <2>8 DEF BreakInv, Kept
    <3>2. \A x \in Range(queued') : x.process = process'
      BY <1>1, <1>2, <2>4, <3>1
    <3>3. before.song # NoSong => before.song \in Range(mpd'.queue) \ Range(queued')
      BY <1>2, <2>3, <2>4, <3>1
    <3>4. before' = before /\ mpd'.repeat = mpd.repeat /\ pc' = "insert"
      BY <1>1, <2>3
    <3>5. QED
      BY <3>1, <3>2, <3>3, <3>4 DEF Kept, Returning
  <2>9. OnTop'
    <3>1. SUFFICES ASSUME ~touched, restarts = 0, faults = 0, before.song # NoSong
                   PROVE  ~IsAnnouncement(mpd'.queue[1])
      BY <1>1, <1>2, <1>8, <2>1 DEF OnTop, IsAnnouncement
    <3>2. ~IsAnnouncement(mpd.queue[1]) /\ (after = NoSong => mpd.at # 0)
      BY <1>1, <3>1 DEF BreakInv, OnTop
    <3>3. QED
      BY <2>2, <2>3, <3>2
  <2>10. touched => Kept'
    BY <2>1 DEF Kept
  <2>11. QED
    BY <1>6, <2>5, <2>6, <2>7, <2>8, <2>9, <2>10 DEF BreakInv
<1>9. QED
  <2>1. \/ UNCHANGED <<mpd, queued, after>> /\ ((InsertPlaces = {} /\ Fine) \/ Fault)
        \/ \E i \in InsertPlaces : /\ Fine /\ mpd' = AddAt(mpd, i, e)
                                   /\ after' = e /\ queued' = Append(queued, e)
    BY DEF Insert, e
  <2>2. QED
    BY <1>7, <1>8, <2>1

----------------------------------------------------------------------------
(* While the group plays.                                                  *)
LEMMA PlayingStep ==
    ASSUME BreakInv, Works, pc \in Playing, pc' \in (Playing \cup {"restore"}) \ {"join"},
           Sane(mpd'), mpd'.queue = mpd.queue, mpd'.repeat = mpd.repeat,
           UNCHANGED <<process, coming, waiting, ready, queued, before>>
    PROVE  BreakInv'
<1>1. /\ faults' \in Nat /\ restarts' = restarts /\ touched' \in BOOLEAN
      /\ \/ faults' = faults /\ touched' = touched
         \/ faults' # faults /\ faults' # 0 /\ touched' = TRUE
  BY WorksIs DEF BreakInv
<1>2. pc \notin {"idle", "status"} /\ pc' \notin {"insert", "join"} /\ pc' \in Pcs
      /\ pc' \notin {"idle", "status", "remove"} \cup Returning
  BY DEF Playing, Returning, Pcs
<1>3. Stages'
  BY <1>2 DEF BreakInv, Stages, Playing
<1>4. ASSUME faults' = faults PROVE Kept' /\ OnTop'
  <2>1. OnTop'
    BY <1>1, <1>2, <1>4, OnTopKept DEF BreakInv
  <2>2. Kept'
    BY <1>1, <1>2, <1>4 DEF BreakInv, Kept, Returning
  <2>3. QED
    BY <2>1, <2>2
<1>5. faults' = faults \/ (faults' # 0 /\ touched')
  BY <1>1
<1>6. QED
  BY <1>1, <1>2, <1>3, <1>4, <1>5, SameQueue

LEMMA PlayEntryIs ==
    ASSUME BreakInv, NEW e, NEW next, PlayEntryOf(e, next)
    PROVE  /\ Works /\ Sane(mpd') /\ mpd'.queue = mpd.queue /\ mpd'.repeat = mpd.repeat
           /\ next \/ pc' = "restore"
<1>1. CASE \E i \in PlacesOf(e) \ {0} : Fine /\ mpd' = StartAt(mpd, i) /\ next
  <2>1. PICK i \in PlacesOf(e) \ {0} : Fine /\ mpd' = StartAt(mpd, i) /\ next
    BY <1>1
  <2>2. Sane(mpd) /\ i \in 1..Len(mpd.queue)
    BY SaneIs, SaneNow, PlacesIn
  <2>3. Sane(mpd') /\ mpd'.queue = mpd.queue /\ mpd'.repeat = mpd.repeat
    BY <2>1, <2>2, StartAtIs
  <2>4. QED
    BY <2>1, <2>3 DEF Works
<1>2. CASE /\ (0 \in PlacesOf(e) /\ Fine) \/ Fault
           /\ UNCHANGED <<mpd, started, late>> /\ GoTo("restore")
  BY <1>2, SaneNow DEF Works, GoTo
<1>3. QED
  BY <1>1, <1>2 DEF PlayEntryOf

LEMMA PlayFirstStep ==
    ASSUME BreakInv, PlayFirst
    PROVE  BreakInv'
<1>1. /\ pc = "first" /\ UNCHANGED <<process, coming, waiting, ready, queued, before>>
      /\ PlayEntryOf(queued[1], GoTo("wait") /\ started' = 1 /\ late' = FALSE)
  BY DEF PlayFirst, Elsewhere
<1>2. /\ Works /\ Sane(mpd') /\ mpd'.queue = mpd.queue /\ mpd'.repeat = mpd.repeat
      /\ pc' \in {"wait", "restore"}
  BY <1>1, PlayEntryIs DEF GoTo
<1>3. QED
  BY <1>1, <1>2, PlayingStep DEF Playing

LEMMA NextOneStep ==
    ASSUME BreakInv, NextOne
    PROVE  BreakInv'
<1>1. pc = "next" /\ UNCHANGED <<process, coming, waiting, ready, queued, before>>
  BY DEF NextOne, Elsewhere
<1>2. /\ Works /\ Sane(mpd') /\ mpd'.queue = mpd.queue /\ mpd'.repeat = mpd.repeat
      /\ pc' \in {"wait", "restore"}
  <2>1. CASE Fine /\ mpd' = mpd /\ (GoTo("wait") \/ GoTo("restore"))
    BY <2>1, SaneNow DEF Works, GoTo
  <2>2. CASE PlayEntryOf(queued[started + 1], GoTo("wait") /\ started' = started + 1 /\ late' = FALSE)
    BY <2>2, PlayEntryIs DEF GoTo
  <2>3. CASE GoTo("wait") /\ Fine /\ mpd' = [mpd EXCEPT !.level = "announcement"]
    <3>1. Sane(mpd') /\ mpd'.queue = mpd.queue /\ mpd'.repeat = mpd.repeat
      BY <2>3, LevelIs, SaneNow DEF Alike
    <3>2. QED
      BY <2>3, <3>1 DEF Works, GoTo
  <2>4. \/ Fine /\ mpd' = mpd /\ (GoTo("wait") \/ GoTo("restore"))
        \/ PlayEntryOf(queued[started + 1], GoTo("wait") /\ started' = started + 1 /\ late' = FALSE)
        \/ GoTo("wait") /\ Fine /\ mpd' = [mpd EXCEPT !.level = "announcement"]
    BY DEF NextOne
  <2>5. QED
    BY <2>1, <2>2, <2>3, <2>4
<1>3. QED
  BY <1>1, <1>2, PlayingStep DEF Playing

(* A poll that sees none of the group on the current place sees a track.   *)
LEMMA PollStep ==
    ASSUME BreakInv, Poll
    PROVE  BreakInv'
<1>1. /\ pc = "wait" /\ pc' \in {"restore", "join"} /\ Works
      /\ UNCHANGED <<mpd, process, coming, waiting, ready, queued, before>>
  BY DEF Poll, Elsewhere, GoTo, Works
<1>2. Sane(mpd)
  BY SaneNow
<1>3. CASE pc' = "restore"
  BY <1>1, <1>2, <1>3, PlayingStep DEF Playing
<1>4. CASE pc' = "join"
  <2> DEFINE own == {i \in DOMAIN queued : mpd.at \in PlacesOf(queued[i]) \ {0}}
             stale == \E i \in DOMAIN queued : queued[i].process # process
  <2>1. /\ Fine /\ mpd.at # 0
        /\ seen' \in IF own = {} \/ stale THEN own \cup {0} ELSE own
    BY <1>4 DEF Poll, GoTo
  <2>2. faults' \in Nat /\ faults' = faults /\ restarts' = restarts /\ touched' = touched /\ touched' \in BOOLEAN
    BY <2>1, FineIs DEF BreakInv
  <2>3. Stages'
    BY <1>1, <1>4 DEF BreakInv, Stages, Playing, Returning
  <2>4. Kept'
    BY <1>1, <1>4, <2>2 DEF BreakInv, Kept, Returning
  <2>5. ASSUME ~touched, ~(seen' > 0)
        PROVE  mpd.queue[mpd.at] \notin Range(queued)
    <3>1. \A e \in Range(queued) : e.process = process
      BY <1>1, <2>5 DEF BreakInv, Kept
    <3>2. ~stale
      BY <3>1 DEF Range
    <3>3. DOMAIN queued = 1..Len(queued) /\ Len(queued) \in Nat
      BY LenProperties DEF BreakInv, TypesInv
    <3>4. own = {}
      <4>1. own \subseteq 1..Len(queued)
        BY <3>3
      <4>2. ASSUME own # {} PROVE FALSE
        <5>1. seen' \in own
          BY <2>1, <3>2, <4>2
        <5>2. seen' \in 1..Len(queued)
          BY <4>1, <5>1
        <5>3. QED
          BY <2>5, <3>3, <5>2
      <4>3. QED
        BY <4>2
    <3>5. SUFFICES ASSUME NEW i \in DOMAIN queued, mpd.queue[mpd.at] = queued[i] PROVE FALSE
      BY DEF Range
    <3>6. queued[i].process = process
      BY <3>1 DEF Range
    <3>7. PlacesOf(queued[i]) = {PlaceOf(mpd, queued[i])}
      BY <3>6 DEF PlacesOf
    <3>8. PlaceOf(mpd, queued[i]) = mpd.at
      <4>1. mpd.at \in 1..Len(mpd.queue)
        BY <1>2, <2>1, SaneIs
      <4>2. QED
        BY <1>2, <3>5, <4>1, PlaceIs
    <3>9. i \in own
      BY <2>1, <3>7, <3>8
    <3>10. QED
      BY <3>4, <3>9
  <2> HIDE DEF own, stale
  <2>6. OnTop'
    <3>1. UNCHANGED <<mpd, queued, before, restarts, faults, touched>>
      BY <1>1, <2>2
    <3>2. QED
      BY <1>1, <1>4, <2>1, <2>5, <3>1 DEF BreakInv, OnTop, IsAnnouncement
  <2>7. pc' \in Pcs
    BY <1>4 DEF Pcs
  <2>8. QED
    BY <1>1, <1>2, <2>2, <2>3, <2>4, <2>6, <2>7, SameQueue
<1>5. QED
  BY <1>1, <1>3, <1>4

LEMMA JoinStep ==
    ASSUME BreakInv, Join
    PROVE  BreakInv'
<1>1. /\ pc = "join" /\ pc' = "insert" /\ ready' = waiting /\ waiting' = <<>>
      /\ after' = (IF seen > 0 THEN Last(queued) ELSE NoSong)
      /\ Fine /\ UNCHANGED <<mpd, process, coming, queued, before, seen>>
  BY DEF Join, Elsewhere, GoTo
<1>2. faults' \in Nat /\ faults' = faults /\ restarts' = restarts /\ touched' = touched /\ touched' \in BOOLEAN
  BY <1>1, FineIs DEF BreakInv
<1>3. TypesInv'
  <2>1. waiting' \in Seq(Files) /\ ready' \in Seq(Files)
    BY <1>1, EmptySeq DEF BreakInv, TypesInv
  <2>2. pc' \in Pcs
    BY <1>1 DEF Pcs
  <2>3. QED
    BY <1>1, <1>2, <2>1, <2>2 DEF BreakInv, TypesInv
<1>4. Fresh'
  <2>1. Range(mpd'.queue) \subseteq Range(mpd.queue)
    BY <1>1
  <2>2. QED
    BY <1>1, <2>1, FreshKept DEF BreakInv
<1>5. Known'
  BY <1>1, <1>2, KnownKept DEF BreakInv
<1>6. Stages'
  BY <1>1 DEF Stages, Playing, Returning
<1>7. Kept'
  BY <1>1, <1>2 DEF BreakInv, Kept, Returning
<1>8. OnTop'
  <2>1. Last(queued) # NoSong
    <3> DEFINE A == [file : Files, process : Nat]
    <3>1. queued \in Seq(A) /\ queued # <<>>
      BY <1>1 DEF BreakInv, TypesInv, Stages, Playing
    <3>2. \A e \in A : e.file \in Files
      OBVIOUS
    <3> HIDE DEF A
    <3>3. Last(queued) \in A
      BY <3>1, FrontIs, RangeOfSeq
    <3>4. NoSong.file = ""
      BY DEF NoSong
    <3>5. QED
      BY <3>2, <3>3, <3>4, NoFileAssumption
  <2>2. after' = NoSong => ~(seen > 0)
    BY <1>1, <2>1
  <2>3. UNCHANGED <<mpd, queued, before, restarts, faults, touched>>
    BY <1>1, <1>2
  <2>4. QED
    BY <1>1, <2>2, <2>3 DEF BreakInv, OnTop, IsAnnouncement
<1>9. QED
  BY <1>3, <1>4, <1>5, <1>6, <1>7, <1>8 DEF BreakInv

----------------------------------------------------------------------------
(* The restore, command by command.                                        *)
LEMMA RepeatOnStep ==
    ASSUME BreakInv, RepeatOn
    PROVE  BreakInv'
<1> DEFINE m == IF before.repeat THEN [mpd EXCEPT !.repeat = TRUE] ELSE mpd
<1>1. Command("restore", "remove", m)
  BY DEF RepeatOn
<1>2. /\ Sane(m) /\ m.queue = mpd.queue
      /\ (before.repeat => m.repeat) /\ (~before.repeat => m.repeat = mpd.repeat)
  BY SaneNow, RepeatIs DEF Alike
<1> HIDE DEF m
<1>3. ASSUME ~touched' PROVE Kept'
  <2>1. /\ pc' = "remove" /\ Found /\ (~before.repeat => ~mpd.repeat)
        /\ mpd' = m /\ UNCHANGED <<before, queued, process>>
    BY <1>1, <1>3, Undisturbed
  <2>2. Found'
    BY <1>2, <2>1, FoundKept
  <2>3. m.repeat = before.repeat
    <3>1. m.repeat \in BOOLEAN /\ before.repeat \in BOOLEAN
      BY <1>2, SaneIs, SaneNow
    <3>2. m.repeat <=> before.repeat
      BY <1>2, <2>1
    <3>3. QED
      BY <3>1, <3>2
  <2>4. QED
    BY <2>1, <2>2, <2>3 DEF Found, Kept, Returning
<1>4. Stages'
  BY <1>1 DEF Command, GoTo, BreakInv, Stages, Playing, Returning
<1>5. "restore" \in Pcs \ {"idle", "status"} /\ "remove" \in Pcs \ {"idle", "status", "insert", "join"}
  BY DEF Pcs
<1>6. QED
  BY <1>1, <1>2, <1>3, <1>4, <1>5, CommandStep

(* The same for the commands after the removal, when none is queued.       *)
LEMMA ReturnStep ==
    ASSUME BreakInv, NEW from \in {"remove"} \cup Returning, NEW to \in Returning, NEW m,
           Command(from, to, m), queued = <<>>,
           Sane(m), m.queue = mpd.queue, m.repeat = mpd.repeat,
           ~touched' =>
             /\ to \in {"look", "track", "seek", "settle"} => before.song # NoSong /\ before.state # "stop"
             /\ to = "track" /\ seen = 1 => OnSong'
             /\ to \in {"seek", "settle"} => OnSong' /\ m.state = "play"
             /\ to = "settle" => m.point
             /\ to \in {"volume", "done"} => m.state = before.state /\ (m.state # "stop" => OnSong' /\ m.point)
             /\ to = "done" => m.level = "music"
    PROVE  BreakInv'
<1>1. ASSUME ~touched' PROVE Kept'
  <2>1. from \notin {"idle", "status"}
    BY DEF Returning
  <2>2. /\ pc = from /\ pc' = to /\ ~touched /\ Found /\ (~before.repeat => ~mpd.repeat)
        /\ mpd' = m /\ UNCHANGED <<before, queued, process, seen>>
    BY <1>1, <2>1, Undisturbed
  <2>3. Found'
    BY <2>2, FoundKept
  <2>4. mpd.repeat = before.repeat
    BY <2>2 DEF BreakInv, Kept, Returning
  <2>5. mpd'.repeat = before'.repeat /\ (~before'.repeat => ~mpd'.repeat)
    BY <2>2, <2>4
  <2>6. QED
    BY <1>1, <2>2, <2>3, <2>5 DEF Found, Kept
<1>2. Stages'
  BY DEF Command, GoTo, Stages, Playing, Returning
<1>3. from \in Pcs \ {"idle", "status"} /\ to \in Pcs \ {"idle", "status", "insert", "join"}
  BY DEF Pcs, Returning
<1>4. QED
  BY <1>1, <1>2, <1>3, CommandStep

(* Where the current entry is the track of before, it is so afterwards.    *)
LEMMA OnSongKept ==
    ASSUME OnSong, Alike(mpd', mpd), before' = before
    PROVE  OnSong'
BY DEF OnSong, Alike

LEMMA StopAgainStep ==
    ASSUME BreakInv, StopAgain
    PROVE  BreakInv'
<1>1. /\ queued = <<>> /\ (before.song = NoSong \/ before.state = "stop")
      /\ Command("remove", "volume", Stopped(mpd))
  BY DEF StopAgain
<1>2. /\ Sane(Stopped(mpd)) /\ Stopped(mpd).queue = mpd.queue /\ Stopped(mpd).repeat = mpd.repeat
      /\ Stopped(mpd).state = "stop"
  BY SaneNow, StoppedIs DEF Alike
<1>3. ASSUME ~touched' PROVE before.state = "stop"
  <2>1. Found
    BY <1>1, <1>3, Undisturbed
  <2>2. QED
    BY <1>1, <2>1 DEF Found
<1>4. "volume" \in Returning
  BY DEF Returning
<1>5. QED
  BY <1>1, <1>2, <1>3, <1>4, ReturnStep

LEMMA QuietenStep ==
    ASSUME BreakInv, Quieten
    PROVE  BreakInv'
<1>1. PICK quiet \in {"zero", "music"} : Command("remove", "look", [mpd EXCEPT !.level = quiet])
  BY DEF Quieten
<1>2. queued = <<>> /\ before.song # NoSong /\ before.state # "stop"
  BY DEF Quieten
<1> DEFINE m == [mpd EXCEPT !.level = quiet]
<1>3. Sane(m) /\ m.queue = mpd.queue /\ m.repeat = mpd.repeat
  BY SaneNow, LevelIs DEF Alike
<1>4. "look" \in Returning
  BY DEF Returning
<1> HIDE DEF m
<1>5. Command("remove", "look", m)
  BY <1>1 DEF m
<1>6. QED
  BY <1>2, <1>3, <1>4, <1>5, ReturnStep

LEMMA SeekStep ==
    ASSUME BreakInv, Seek
    PROVE  BreakInv'
<1> DEFINE p == mpd.at # 0
           m == [mpd EXCEPT !.point = p]
<1>1. pc = "seek" /\ Command("seek", "settle", m)
  BY DEF Seek, Command
<1>2. p \in BOOLEAN
  OBVIOUS
<1> HIDE DEF p
<1>3. /\ Sane(m) /\ m.queue = mpd.queue /\ m.at = mpd.at /\ m.repeat = mpd.repeat
      /\ m.state = mpd.state /\ m.point = p
  BY <1>2, SaneNow, PointIs DEF Alike
<1> HIDE DEF m
<1>4. ASSUME ~touched'
      PROVE  /\ before.song # NoSong /\ before.state # "stop"
             /\ OnSong' /\ m.state = "play" /\ m.point
  <2>1. ~touched /\ mpd' = m /\ before' = before
    BY <1>1, <1>4, Undisturbed
  <2>2. before.song # NoSong /\ before.state # "stop" /\ OnSong /\ mpd.state = "play"
    BY <1>1, <2>1 DEF BreakInv, Kept, Returning
  <2>3. OnSong'
    BY <1>3, <2>1, <2>2, OnSongKept DEF Alike
  <2>4. p
    BY <2>2 DEF OnSong, p
  <2>5. QED
    BY <1>3, <2>2, <2>3, <2>4
<1>5. "seek" \in Returning /\ "settle" \in Returning /\ queued = <<>>
  BY <1>1 DEF Returning, BreakInv, Stages
<1>6. QED
  BY <1>1, <1>3, <1>4, <1>5, ReturnStep

LEMMA SettleStep ==
    ASSUME BreakInv, Settle
    PROVE  BreakInv'
<1> DEFINE m == IF before.state = "pause" THEN Paused(mpd) ELSE mpd
<1>1. pc = "settle" /\ Command("settle", "volume", m)
  BY DEF Settle, Command
<1>2. /\ Sane(m) /\ m.queue = mpd.queue /\ m.at = mpd.at /\ m.repeat = mpd.repeat /\ m.point = mpd.point
      /\ m.state = (IF before.state = "pause" /\ mpd.state = "play" THEN "pause" ELSE mpd.state)
  BY SaneNow, PausedIs DEF Alike
<1> HIDE DEF m
<1>3. ASSUME ~touched'
      PROVE  OnSong' /\ m.state = before.state /\ m.point
  <2>1. ~touched /\ mpd' = m /\ before' = before
    BY <1>1, <1>3, Undisturbed
  <2>2. before.song # NoSong /\ before.state # "stop" /\ OnSong /\ mpd.state = "play" /\ mpd.point
    BY <1>1, <2>1 DEF BreakInv, Kept, Returning
  <2>3. OnSong'
    BY <1>2, <2>1, <2>2, OnSongKept DEF Alike
  <2>4. before.state \in {"play", "pause"}
    BY <2>2, SaneNow DEF States
  <2>5. QED
    BY <1>2, <2>2, <2>3, <2>4
<1>4. "settle" \in Returning /\ "volume" \in Returning /\ queued = <<>>
  BY <1>1 DEF Returning, BreakInv, Stages
<1>5. QED
  BY <1>1, <1>2, <1>3, <1>4, ReturnStep

LEMMA VolumeStep ==
    ASSUME BreakInv, Volume
    PROVE  BreakInv'
<1> DEFINE m == [mpd EXCEPT !.level = "music"]
<1>1. pc = "volume" /\ Command("volume", "done", m)
  BY DEF Volume, Command
<1>2. /\ Sane(m) /\ m.queue = mpd.queue /\ m.at = mpd.at /\ m.repeat = mpd.repeat /\ m.point = mpd.point
      /\ m.state = mpd.state /\ m.level = "music"
  BY SaneNow, LevelIs DEF Alike
<1> HIDE DEF m
<1>3. ASSUME ~touched'
      PROVE  m.state = before.state /\ (m.state # "stop" => OnSong' /\ m.point)
  <2>1. ~touched /\ mpd' = m /\ before' = before
    BY <1>1, <1>3, Undisturbed
  <2>2. mpd.state = before.state /\ (mpd.state # "stop" => OnSong /\ mpd.point)
    BY <1>1, <2>1 DEF BreakInv, Kept, Returning
  <2>3. OnSong => OnSong'
    BY <1>2, <2>1, OnSongKept DEF Alike
  <2>4. QED
    BY <1>2, <2>2, <2>3
<1>4. "volume" \in Returning /\ "done" \in Returning /\ queued = <<>>
  BY <1>1 DEF Returning, BreakInv, Stages
<1>5. QED
  BY <1>1, <1>2, <1>3, <1>4, ReturnStep

(* The place of the track of before, while nobody touched the queue.       *)
LEMMA SongIsThere ==
    ASSUME BreakInv, pc \notin {"idle", "status"}, ~touched, before.song # NoSong
    PROVE  /\ PlacesOf(before.song) = {PlaceOf(mpd, before.song)}
           /\ PlaceOf(mpd, before.song) \in 1..Len(mpd.queue)
           /\ mpd.queue[PlaceOf(mpd, before.song)] = before.song
<1>1. before.song \in Range(mpd.queue) /\ Sane(mpd)
  BY SaneNow DEF BreakInv, Kept
<1>2. before.song.process = process
  BY <1>1 DEF BreakInv, Fresh
<1>3. PlacesOf(before.song) = {PlaceOf(mpd, before.song)}
  BY <1>2 DEF PlacesOf
<1>4. /\ PlaceOf(mpd, before.song) \in 0..Len(mpd.queue)
      /\ PlaceOf(mpd, before.song) # 0
      /\ mpd.queue[PlaceOf(mpd, before.song)] = before.song
  BY <1>1, PlaceIs
<1>5. QED
  BY <1>3, <1>4

(* A step of the restore that only finds out or starts the track.          *)
LEMMA TrackingStep ==
    ASSUME BreakInv, Works, pc \in {"look", "track"}, pc' \in {"track", "seek", "settle"},
           Sane(mpd'), mpd'.queue = mpd.queue, mpd'.repeat = mpd.repeat,
           UNCHANGED <<process, coming, waiting, ready, queued, before>>,
           ~touched' => /\ pc' = "track" /\ seen' = 1 => OnSong'
                        /\ pc' \in {"seek", "settle"} => OnSong' /\ mpd'.state = "play"
                        /\ pc' = "settle" => mpd'.point
    PROVE  BreakInv'
<1>1. /\ faults' \in Nat /\ restarts' = restarts /\ touched' \in BOOLEAN
      /\ \/ faults' = faults /\ touched' = touched
         \/ faults' # faults /\ faults' # 0 /\ touched' = TRUE
  BY WorksIs DEF BreakInv
<1>2. queued = <<>> /\ pc \in Returning /\ pc' \in Returning
  BY DEF BreakInv, Stages, Returning
<1>3. Stages'
  BY <1>2 DEF Stages, Playing, Returning
<1>4. pc' \in Pcs
  BY DEF Pcs
<1>5. ASSUME faults' = faults PROVE Kept' /\ OnTop'
  <2>1. OnTop'
    BY <1>1, <1>5, OnTopKept DEF BreakInv
  <2>2. CASE ~touched
    <3>1. /\ Found /\ before.song # NoSong /\ before.state # "stop"
          /\ (~before.repeat => ~mpd.repeat) /\ mpd.repeat = before.repeat
      BY <1>2, <2>2 DEF BreakInv, Kept, Found
    <3>2. Found'
      BY <3>1, FoundKept
    <3>3. ~touched'
      BY <1>1, <1>5, <2>2
    <3>4. /\ before'.song # NoSong /\ before'.state # "stop"
          /\ (~before'.repeat => ~mpd'.repeat) /\ mpd'.repeat = before'.repeat
      BY <3>1
    <3>5. QED
      BY <2>1, <3>2, <3>3, <3>4 DEF Kept, Found
  <2>3. CASE touched
    BY <1>1, <1>5, <2>1, <2>3 DEF Kept
  <2>4. QED
    BY <2>2, <2>3
<1>6. faults' = faults \/ (faults' # 0 /\ touched')
  BY <1>1
<1>7. QED
  BY <1>1, <1>3, <1>4, <1>5, <1>6, SameQueue

LEMMA LookStep ==
    ASSUME BreakInv, Look
    PROVE  BreakInv'
<1>1. /\ pc = "look" /\ pc' = "track" /\ Works
      /\ UNCHANGED <<mpd, process, coming, waiting, ready, queued, before>>
  BY DEF Look, Elsewhere, GoTo
<1>2. PICK i \in PlacesOf(before.song) : seen' = IF Worked /\ i # 0 /\ i = mpd.at THEN 1 ELSE 0
  BY DEF Look
<1>3. ASSUME ~touched', seen' = 1 PROVE OnSong'
  <2>1. i # 0 /\ i = mpd.at
    BY <1>2, <1>3
  <2>2. ~touched
    <3>1. \/ faults' = faults /\ touched' = touched
          \/ faults' # faults /\ faults' # 0 /\ touched' = TRUE
      BY <1>1, WorksIs DEF BreakInv
    <3>2. QED
      BY <1>3, <3>1
  <2>3. before.song # NoSong
    BY <1>1, <2>2 DEF BreakInv, Kept, Returning
  <2>4. mpd.queue[mpd.at] = before.song
    BY <1>1, <1>2, <2>1, <2>2, <2>3, SongIsThere
  <2>5. OnSong
    BY <2>1, <2>4 DEF OnSong
  <2>6. QED
    BY <1>1, <2>5 DEF OnSong
<1>4. Sane(mpd') /\ mpd'.queue = mpd.queue /\ mpd'.repeat = mpd.repeat
  BY <1>1, SaneNow
<1>5. QED
  BY <1>1, <1>3, <1>4, TrackingStep

LEMMA TrackStep ==
    ASSUME BreakInv, Track
    PROVE  BreakInv'
<1>1. pc = "track" /\ UNCHANGED <<process, coming, waiting, ready, queued, before>>
  BY DEF Track, Elsewhere
<1>2. Sane(mpd)
  BY SaneNow
<1>3. CASE Fine /\ seen = 1 /\ mpd' = Played(mpd) /\ GoTo("seek")
  <2>1. /\ Sane(mpd') /\ mpd'.queue = mpd.queue /\ mpd'.repeat = mpd.repeat
        /\ mpd.at # 0 => mpd'.at = mpd.at /\ mpd'.state = "play"
    BY <1>2, <1>3, PlayedIs
  <2>2. ASSUME ~touched' PROVE OnSong' /\ mpd'.state = "play"
    <3>1. touched' = touched
      BY <1>3, FineIs DEF BreakInv
    <3>2. OnSong
      BY <1>1, <1>3, <2>2, <3>1 DEF BreakInv, Kept
    <3>3. QED
      BY <1>1, <2>1, <3>2 DEF OnSong
  <2>3. pc' = "seek" /\ Works
    BY <1>3 DEF GoTo, Works
  <2>4. QED
    BY <1>1, <2>1, <2>2, <2>3, TrackingStep
<1>4. ASSUME NEW i \in PlacesOf(before.song) \ {0}, Fine, seen = 0, mpd' = StartAt(mpd, i), GoTo("seek")
      PROVE  BreakInv'
  <2>1. i \in 1..Len(mpd.queue)
    BY <1>2, PlacesIn, SaneIs
  <2>2. /\ Sane(mpd') /\ mpd'.queue = mpd.queue /\ mpd'.repeat = mpd.repeat
        /\ mpd'.at = i /\ mpd'.state = "play"
    BY <1>2, <1>4, <2>1, StartAtIs
  <2>3. ASSUME ~touched' PROVE OnSong'
    <3>1. touched' = touched
      BY <1>4, FineIs DEF BreakInv
    <3>2. before.song # NoSong
      BY <1>1, <2>3, <3>1 DEF BreakInv, Kept, Returning
    <3>3. mpd.queue[i] = before.song
      BY <1>1, <1>4, <2>3, <3>1, <3>2, SongIsThere
    <3>4. QED
      BY <1>1, <1>4, <2>2, <3>3 DEF OnSong
  <2>4. pc' = "seek" /\ Works
    BY <1>4 DEF GoTo, Works
  <2>5. QED
    BY <1>1, <2>2, <2>3, <2>4, TrackingStep
<1>5. CASE /\ (Fine /\ seen = 0 /\ 0 \in PlacesOf(before.song)) \/ Fault
           /\ UNCHANGED mpd /\ GoTo("settle")
  <2>1. pc' = "settle" /\ Works /\ Sane(mpd') /\ mpd'.queue = mpd.queue /\ mpd'.repeat = mpd.repeat
    BY <1>2, <1>5 DEF GoTo, Works
  <2>2. ASSUME ~touched' PROVE FALSE
    <3>1. Fine /\ 0 \in PlacesOf(before.song)
      BY <1>5, <2>2, FaultIs DEF BreakInv
    <3>2. ~touched
      BY <2>2, <3>1, FineIs DEF BreakInv
    <3>3. before.song # NoSong
      BY <1>1, <3>2 DEF BreakInv, Kept, Returning
    <3>4. QED
      BY <1>1, <1>2, <3>1, <3>2, <3>3, SongIsThere, SaneIs
  <2>3. QED
    BY <1>1, <2>1, <2>2, TrackingStep
<1>6. QED
  BY <1>3, <1>4, <1>5 DEF Track

(* What the removal of the last one of the group takes out.                *)
LEMMA RemoveOneStep ==
    ASSUME BreakInv, RemoveOne
    PROVE  BreakInv'
<1> DEFINE e == Last(queued)
           A == [file : Files, process : Nat]
<1>1. /\ pc = "remove" /\ pc' = "remove" /\ queued # <<>> /\ queued' = Front(queued) /\ Works
      /\ UNCHANGED <<process, coming, waiting, ready, before, after, seen>>
  BY DEF RemoveOne, Elsewhere
<1>2. PICK i \in PlacesOf(e) : mpd' = IF i # 0 /\ Worked THEN DeleteAt(mpd, i) ELSE mpd
  BY DEF RemoveOne
<1>3. queued \in Seq(A)
  BY DEF BreakInv, TypesInv
<1>4. \A x \in A : IsAnnouncement(x)
  BY DEF IsAnnouncement
<1> HIDE DEF e, A
<1>5. queued' \in Seq(A) /\ Range(queued') \subseteq Range(queued) /\ e \in Range(queued)
      /\ Range(queued) = Range(queued') \cup {e}
  BY <1>1, <1>3, FrontIs DEF e
<1>6. IsAnnouncement(e)
  BY <1>3, <1>4, <1>5, RangeOfSeq
<1>7. /\ faults' \in Nat /\ restarts' = restarts /\ touched' \in BOOLEAN
      /\ \/ faults' = faults /\ touched' = touched
         \/ faults' # faults /\ faults' # 0 /\ touched' = TRUE
  BY <1>1, WorksIs DEF BreakInv
<1>8. Sane(mpd) /\ i \in 0..Len(mpd.queue) /\ Len(mpd.queue) \in Nat
  BY SaneNow, PlacesIn, SaneIs
<1>9. /\ Sane(mpd') /\ mpd'.repeat = mpd.repeat /\ Range(mpd'.queue) \subseteq Range(mpd.queue)
      /\ i # 0 /\ Worked => /\ Range(mpd'.queue) = Range(mpd.queue) \ {mpd.queue[i]}
                            /\ i # 1 => mpd'.queue[1] = mpd.queue[1]
      /\ i = 0 \/ ~Worked => mpd' = mpd
  <2>1. CASE i # 0 /\ Worked
    <3>1. mpd' = DeleteAt(mpd, i) /\ i \in 1..Len(mpd.queue)
      BY <1>2, <1>8, <2>1
    <3>2. /\ Sane(mpd') /\ mpd'.repeat = mpd.repeat
          /\ Range(mpd'.queue) = Range(mpd.queue) \ {mpd.queue[i]}
          /\ i # 1 => mpd'.queue[1] = mpd.queue[1]
      BY <1>8, <3>1, DeleteAtIs
    <3>3. QED
      BY <2>1, <3>2
  <2>2. CASE i = 0 \/ ~Worked
    <3>1. mpd' = mpd
      BY <1>2, <2>2
    <3>2. QED
      BY <1>8, <2>2, <3>1
  <2>3. QED
    BY <2>1, <2>2
<1>10. ASSUME \A x \in Range(queued) : x.process = process
       PROVE  /\ i # 0 => mpd.queue[i] = e
              /\ i = 0 => e \notin Range(mpd.queue)
  <2>1. e.process = process
    BY <1>5, <1>10
  <2>2. i = PlaceOf(mpd, e)
    BY <2>1 DEF PlacesOf
  <2>3. QED
    BY <1>8, <2>2, PlaceIs
<1>11. TypesInv'
  BY <1>1, <1>5, <1>7, <1>9 DEF BreakInv, TypesInv, A
<1>12. Fresh'
  BY <1>1, <1>9, FreshKept DEF BreakInv
<1>13. Stages'
  BY <1>1 DEF Stages, Playing, Returning
<1>14. Known'
  <2>1. SUFFICES ASSUME restarts = 0, faults' = 0
                 PROVE  /\ \A x \in Range(queued') : x.process = process'
                        /\ \A x \in Range(mpd'.queue) : IsAnnouncement(x) => x \in Range(queued')
    BY <1>7 DEF Known, IsAnnouncement
  <2>2. faults = 0 /\ Worked
    BY <1>7, <2>1 DEF Worked
  <2>3. /\ \A x \in Range(queued) : x.process = process
        /\ \A x \in Range(mpd.queue) : IsAnnouncement(x) => x \in Range(queued)
    BY <2>1, <2>2 DEF BreakInv, Known
  <2>4. e \notin Range(mpd'.queue)
    BY <1>9, <1>10, <2>2, <2>3
  <2>5. QED
    BY <1>1, <1>5, <1>9, <2>3, <2>4
<1>15. Kept'
  <2>1. SUFFICES ASSUME ~touched' PROVE Kept'
    BY DEF Kept
  <2>2. ~touched /\ Worked
    BY <1>7, <2>1 DEF Worked
  <2>3. /\ Found /\ (~before.repeat => ~mpd.repeat) /\ mpd.repeat = before.repeat
    BY <1>1, <2>2 DEF BreakInv, Kept, Found
  <2>4. before.song # NoSong => before.song \in Range(mpd'.queue) \ Range(queued')
    <3>1. ASSUME before.song # NoSong PROVE before.song \in Range(mpd.queue) /\ before.song \notin Range(queued)
      BY <2>3, <3>1 DEF Found
    <3>2. before.song # NoSong => before.song # e
      BY <1>5, <3>1
    <3>3. i # 0 => mpd.queue[i] = e
      BY <1>10, <2>3 DEF Found
    <3>4. QED
      BY <1>5, <1>9, <2>2, <3>1, <3>2, <3>3
  <2>5. \A x \in Range(queued') : x.process = process'
    BY <1>1, <1>5, <2>3 DEF Found
  <2>6. QED
    BY <1>1, <1>9, <2>3, <2>4, <2>5 DEF Kept, Found, Returning
<1>16. OnTop'
  <2>1. SUFFICES ASSUME ~touched', restarts' = 0, faults' = 0, before'.song # NoSong
                 PROVE  ~IsAnnouncement(mpd'.queue[1])
    BY <1>1 DEF OnTop, IsAnnouncement
  <2>2. ~touched /\ Worked /\ faults = 0 /\ restarts = 0 /\ before.song # NoSong
    BY <1>1, <1>7, <2>1 DEF Worked
  <2>3. ~IsAnnouncement(mpd.queue[1]) /\ \A x \in Range(queued) : x.process = process
    BY <1>1, <2>2 DEF BreakInv, OnTop, Kept
  <2>4. i # 0 => mpd.queue[i] = e
    BY <1>10, <2>3
  <2>5. i # 1
    BY <1>6, <2>3, <2>4
  <2>6. QED
    BY <1>9, <2>2, <2>3, <2>5
<1>17. QED
  BY <1>11, <1>12, <1>13, <1>14, <1>15, <1>16 DEF BreakInv

----------------------------------------------------------------------------
(* The others.                                                             *)
LEMMA AskStep ==
    ASSUME BreakInv, Ask
    PROVE  BreakInv'
<1>1. PICK f \in coming : coming' = coming \ {f} /\ waiting' = Append(waiting, f)
  BY DEF Ask
<1>2. UNCHANGED <<mpd, process, pc, ready, queued, after, seen, before, touched, restarts, faults>>
  BY DEF Ask, Others, group, bounds
<1>3. f \in Files /\ f \notin Range(waiting) /\ f \notin Range(ready) /\ waiting \in Seq(Files) /\ IsInjective(waiting)
  BY DEF BreakInv, TypesInv, Fresh
<1>4. waiting' \in Seq(Files) /\ Range(waiting') = Range(waiting) \cup {f}
  BY <1>1, <1>3, AppendIs
<1>5. IsInjective(waiting')
  <2>1. /\ Len(waiting') = Len(waiting) + 1 /\ waiting'[Len(waiting) + 1] = f
        /\ \A k \in 1..Len(waiting) : waiting'[k] = waiting[k]
    BY <1>1, <1>3, AppendProperties
  <2>2. Len(waiting) \in Nat /\ DOMAIN waiting = 1..Len(waiting) /\ DOMAIN waiting' = 1..(Len(waiting) + 1)
    BY <1>3, <1>4, <2>1, LenProperties
  <2>3. \A k \in 1..Len(waiting) : waiting[k] # f
    BY <1>3, <2>2 DEF Range
  <2>4. \A k \in 1..(Len(waiting) + 1) : k \in 1..Len(waiting) \/ k = Len(waiting) + 1
    BY <2>2
  <2>5. SUFFICES ASSUME NEW j \in 1..(Len(waiting) + 1), NEW k \in 1..(Len(waiting) + 1),
                        waiting'[j] = waiting'[k]
                 PROVE  j = k
    BY <2>2 DEF IsInjective
  <2>6. QED
    BY <1>3, <2>1, <2>2, <2>3, <2>4, <2>5 DEF IsInjective
<1>6. TypesInv'
  BY <1>1, <1>2, <1>4 DEF BreakInv, TypesInv
<1>7. Fresh'
  <2>1. Pending' = Pending
    BY <1>1, <1>2, <1>4 DEF Pending
  <2>2. \A e \in Range(mpd'.queue) : e.process = process' /\ e.file \notin Pending'
    BY <1>2, <2>1 DEF BreakInv, Fresh
  <2>3. /\ IsInjective(ready') /\ coming' \cap Range(waiting') = {} /\ coming' \cap Range(ready') = {}
        /\ Range(waiting') \cap Range(ready') = {}
    BY <1>1, <1>2, <1>3, <1>4 DEF BreakInv, Fresh
  <2>4. QED
    BY <1>5, <2>2, <2>3 DEF Fresh
<1>8. Stages' /\ Known'
  BY <1>2, KnownKept DEF BreakInv, Stages
<1>9. Kept'
  BY <1>2 DEF BreakInv, Kept, OnSong
<1>10. OnTop'
  BY <1>2 DEF BreakInv, OnTop, IsAnnouncement
<1>11. QED
  BY <1>6, <1>7, <1>8, <1>9, <1>10 DEF BreakInv

(* An announcement that ends is not the end of the music.                  *)
LEMMA EntryEndsStep ==
    ASSUME BreakInv, EntryEnds
    PROVE  BreakInv'
<1>1. /\ mpd.state = "play" /\ mpd' = EndOfEntry(mpd)
      /\ touched' = (touched \/ mpd.queue[mpd.at] \notin Range(queued))
      /\ UNCHANGED <<process, coming, waiting, pc, ready, queued, after, seen, before, restarts, faults>>
  BY DEF EntryEnds, Others, group, bounds
<1>2. Sane(mpd') /\ mpd'.queue = mpd.queue /\ mpd'.repeat = mpd.repeat
  BY <1>1, SaneNow, EndOfEntryIs
<1>3. pc' \in Pcs /\ faults' \in Nat
  BY <1>1 DEF BreakInv, TypesInv
<1>4. Stages'
  BY <1>1 DEF BreakInv, Stages
<1>5. ASSUME ~touched' PROVE Kept' /\ OnTop'
  <2>1. ~touched /\ mpd.queue[mpd.at] \in Range(queued)
    BY <1>1, <1>5
  <2>2. queued # <<>>
    BY <2>1 DEF Range
  <2>3. pc \notin Returning
    BY <2>2 DEF BreakInv, Stages
  <2>4. Kept'
    <3>1. pc \notin {"idle", "status"} =>
            /\ Found /\ (~before.repeat => ~mpd.repeat)
            /\ pc = "remove" => mpd.repeat = before.repeat
      BY <2>1 DEF BreakInv, Kept, Found
    <3>2. pc \notin {"idle", "status"} => Found'
      BY <1>1, <1>2, <3>1, FoundKept
    <3>3. QED
      BY <1>1, <1>2, <2>3, <3>1, <3>2 DEF Kept, Found, Returning
  <2>5. OnTop'
    BY <1>1, <1>2, <2>1 DEF BreakInv, OnTop, IsAnnouncement
  <2>6. QED
    BY <2>4, <2>5
<1>6. touched' \in BOOLEAN /\ (touched' => Kept' /\ OnTop')
  BY <1>1 DEF Kept, OnTop
<1>7. QED
  BY <1>1, <1>2, <1>3, <1>4, <1>5, <1>6, SameQueue

LEMMA UnseenSteps ==
    ASSUME BreakInv, TooLong \/ ShuffleStarts \/ ShuffleChecks
    PROVE  BreakInv'
<1>1. UNCHANGED <<mpd, process, waiting, coming, pc, ready, queued, after, seen, before,
                  touched, restarts, faults>>
  BY DEF TooLong, ShuffleStarts, ShuffleChecks, Others, group, bounds
<1>2. QED
  BY <1>1, UnseenStep

(* A command of a person: what MPD does leaves it sane and brings in no    *)
(* announcement.                                                           *)
LEMMA PersonStep ==
    ASSUME BreakInv, NEW m, Person(m), Sane(m),
           \A e \in Range(m.queue) :
             \/ e \in Range(mpd.queue)
             \/ ~IsAnnouncement(e) /\ e.process = process /\ e.file \notin Files
    PROVE  BreakInv'
<1>1. mpd' = m /\ touched' = TRUE /\ UNCHANGED <<process, coming, waiting, group, restarts, faults>>
  BY DEF Person, Others
<1>2. QED
  BY <1>1, TouchedStep

LEMMA TransportSteps ==
    ASSUME BreakInv, PersonPlays \/ PersonPauses \/ PersonStops \/ PersonSkips
    PROVE  BreakInv'
<1>1. Sane(mpd)
  BY SaneNow
<1>2. CASE PersonPlays
  BY <1>1, <1>2, PlayedIs, PersonStep DEF PersonPlays
<1>3. CASE PersonPauses
  BY <1>1, <1>3, PausedIs, PersonStep DEF PersonPauses, Alike
<1>4. CASE PersonStops
  BY <1>1, <1>4, StoppedIs, PersonStep DEF PersonStops, Alike
<1>5. CASE PersonSkips
  BY <1>1, <1>5, EndOfEntryIs, PersonStep DEF PersonSkips
<1>6. QED
  BY <1>2, <1>3, <1>4, <1>5

LEMMA PersonRemovesStep ==
    ASSUME BreakInv, NEW i \in 1..Len(mpd.queue), PersonRemoves(i)
    PROVE  BreakInv'
<1> DEFINE m == DeleteAt(mpd, i)
<1>1. Sane(m) /\ Range(m.queue) \subseteq Range(mpd.queue)
  BY SaneNow, DeleteAtIs
<1>2. Person(m)
  BY DEF PersonRemoves
<1> HIDE DEF m
<1>3. QED
  BY <1>1, <1>2, PersonStep

LEMMA PlayNowIs ==
    ASSUME BreakInv
    PROVE  /\ Entry(PlayNow) \in Songs /\ Entry(PlayNow).process = process
           /\ Entry(PlayNow).file \notin Files /\ ~IsAnnouncement(Entry(PlayNow))
<1>1. process \in Nat
  BY DEF BreakInv, TypesInv
<1>2. QED
  BY <1>1, FilesAssumption DEF Entry, Songs, IsAnnouncement

LEMMA PersonPlaysNextStep ==
    ASSUME BreakInv, PersonPlaysNext
    PROVE  BreakInv'
<1> DEFINE e == Entry(PlayNow)
           i == mpd.at + 1
           m == AddAt(mpd, i, e)
<1>1. e \notin Range(mpd.queue) /\ Person(m)
  BY DEF PersonPlaysNext
<1>2. /\ e \in Songs /\ e.process = process
      /\ e.file \notin Files /\ ~IsAnnouncement(e)
  BY PlayNowIs
<1> HIDE DEF e
<1>3. Sane(mpd) /\ i \in 1..(Len(mpd.queue) + 1)
  BY SaneNow, SaneIs
<1> HIDE DEF i
<1>4. Sane(m)
  BY <1>1, <1>2, <1>3, AddAtIs
<1>5. Range(m.queue) = Range(mpd.queue) \cup {e}
  BY <1>1, <1>2, <1>3, AddAtIs
<1> HIDE DEF m
<1>6. QED
  BY <1>1, <1>2, <1>4, <1>5, PersonStep

LEMMA PersonPlaysNowStep ==
    ASSUME BreakInv, PersonPlaysNow
    PROVE  BreakInv'
<1> DEFINE e == Entry(PlayNow)
           m == [mpd EXCEPT !.queue = <<e>>, !.at = 1, !.state = "play",
                            !.repeat = FALSE, !.point = FALSE]
<1>1. Person(m)
  BY DEF PersonPlaysNow
<1>2. /\ e \in Songs /\ e.process = process
      /\ e.file \notin Files /\ ~IsAnnouncement(e)
  BY PlayNowIs
<1> HIDE DEF e
<1>3. /\ <<e>> \in Seq(Songs) /\ Len(<<e>>) = 1 /\ DOMAIN <<e>> = {1} /\ <<e>>[1] = e
  BY <1>2
<1>4. IsInjective(<<e>>) /\ Range(<<e>>) = {e}
  BY <1>3 DEF IsInjective, Range
<1>5. mpd \in Players
  BY SaneNow DEF Sane
<1>6. m \in Players /\ m.queue = <<e>> /\ m.at = 1
  BY <1>3, <1>5 DEF Players, States
<1> HIDE DEF m
<1>7. Sane(m)
  BY <1>3, <1>4, <1>6 DEF Sane
<1>8. QED
  BY <1>1, <1>2, <1>4, <1>6, <1>7, PersonStep

(* MPD comes back with the same queue, whose ids are of the new process.   *)
LEMMA RestartStep ==
    ASSUME BreakInv, Restart
    PROVE  BreakInv'
<1> DEFINE q == mpd.queue
           t == [i \in DOMAIN q |-> [q[i] EXCEPT !.process = process + 1]]
           s == IF mpd.state = "play" THEN "pause" ELSE mpd.state
<1>1. /\ restarts' = restarts + 1 /\ process' = process + 1 /\ touched' = TRUE
      /\ UNCHANGED <<coming, waiting, pc, ready, queued, after, seen, before, faults>>
  BY DEF Restart, Others, group
<1>2. mpd' = [mpd EXCEPT !.queue = t, !.state = s]
  BY DEF Restart
<1>3. /\ mpd \in Players /\ q \in Seq(Songs) /\ Len(q) \in Nat /\ DOMAIN q = 1..Len(q) /\ IsInjective(q)
      /\ mpd.at \in 0..Len(q) /\ mpd.state \in States /\ (mpd.at = 0 => mpd.state = "stop")
      /\ process \in Nat /\ restarts \in Nat
  BY SaneIs, SaneNow DEF BreakInv, TypesInv
<1>4. \A e \in Range(q) : e.process = process /\ e.file \notin Pending
  BY DEF BreakInv, Fresh
<1> HIDE DEF q
<1>5. \A i \in 1..Len(q) : /\ q[i] \in Songs /\ q[i].process = process /\ q[i].file \notin Pending
                           /\ t[i] = [q[i] EXCEPT !.process = process + 1]
  <2>1. \A i \in 1..Len(q) : q[i] \in Songs
    BY <1>3, ElementOfSeq
  <2>2. \A i \in 1..Len(q) : q[i] \in Range(q)
    BY <1>3 DEF Range
  <2>3. QED
    BY <1>3, <1>4, <2>1, <2>2
<1>6. \A i \in 1..Len(q) : t[i] \in Songs /\ t[i].process = process + 1 /\ t[i].file = q[i].file
  BY <1>3, <1>5 DEF Songs
<1>7. DOMAIN t = 1..Len(q)
  BY <1>3
<1> HIDE DEF t
<1>8. t \in Seq(Songs) /\ Len(t) = Len(q)
  <2>1. t = [i \in 1..Len(q) |-> t[i]]
    BY <1>3 DEF t
  <2>2. QED
    BY <1>3, <1>6, <2>1, IsASeq
<1>9. IsInjective(t)
  <2>1. SUFFICES ASSUME NEW i \in 1..Len(q), NEW j \in 1..Len(q), t[i] = t[j] PROVE i = j
    BY <1>7 DEF IsInjective
  <2>2. q[i].file = q[j].file /\ q[i].process = q[j].process /\ q[i] \in Songs /\ q[j] \in Songs
    BY <1>5, <1>6, <2>1
  <2>3. q[i] = q[j]
    BY <2>2 DEF Songs
  <2>4. QED
    BY <1>3, <2>3 DEF IsInjective
<1>10. s \in States /\ (mpd.at = 0 => s = "stop")
  BY <1>3 DEF States
<1> HIDE DEF s
<1>11. mpd' \in Players /\ mpd'.queue = t /\ mpd'.at = mpd.at /\ mpd'.state = s
  BY <1>2, <1>3, <1>8, <1>10 DEF Players
<1>12. mpd.at <= Len(t)
  BY <1>3, <1>8
<1>13. Sane(mpd')
  BY <1>9, <1>10, <1>11, <1>12 DEF Sane
<1>14. restarts' \in Nat /\ restarts' # 0 /\ process' \in Nat
  BY <1>1, <1>3
<1>15. TypesInv'
  BY <1>1, <1>13, <1>14 DEF BreakInv, TypesInv
<1>16. Fresh'
  <2>1. Pending' = Pending
    BY <1>1 DEF Pending
  <2>2. \A e \in Range(mpd'.queue) : e.process = process' /\ e.file \notin Pending'
    BY <1>1, <1>5, <1>6, <1>7, <1>11, <2>1 DEF Range
  <2>3. QED
    BY <1>1, <2>2 DEF BreakInv, Fresh
<1>17. Stages'
  BY <1>1 DEF BreakInv, Stages
<1>18. Known' /\ Kept' /\ OnTop'
  BY <1>1, <1>14 DEF Known, Kept, OnTop
<1>19. QED
  BY <1>15, <1>16, <1>17, <1>18 DEF BreakInv

(* A shuffle keeps the entries up to the current one and loses no other.   *)
LEMMA SetsOfSequences ==
    ASSUME NEW S, NEW s \in Seq(S), NEW q \in SetToSeqs(Range(s))
    PROVE  /\ q \in Seq(S) /\ IsInjective(q) /\ Range(q) \subseteq Range(s)
<1> DEFINE R == Range(s)
           c == Cardinality(R)
<1>1. Len(s) \in Nat /\ DOMAIN s = 1..Len(s) /\ R \subseteq S
  BY LenProperties, RangeOfSeq
<1>2. s \in Surjection(1..Len(s), R)
  BY <1>1 DEF Surjection, Range
<1>3. IsFiniteSet(1..Len(s))
  BY <1>1, FS_Interval
<1> HIDE DEF R
<1>4. IsFiniteSet(R)
  BY <1>2, <1>3, FS_Surjection
<1>5. c \in Nat
  BY <1>4, FS_CardinalityType
<1>6. q \in [1..c -> R] /\ \A i, j \in 1..c : i # j => q[i] # q[j]
  BY DEF SetToSeqs, R
<1> HIDE DEF c
<1>7. q \in Seq(R)
  BY <1>5, <1>6
<1>8. q \in Seq(S)
  BY <1>1, <1>5, <1>6
<1>9. IsInjective(q)
  BY <1>6 DEF IsInjective
<1>10. Range(q) \subseteq R
  BY <1>6 DEF Range
<1>11. QED
  BY <1>8, <1>9, <1>10 DEF R

LEMMA ShuffleStep ==
    ASSUME BreakInv, Shuffle
    PROVE  BreakInv'
<1> DEFINE s == mpd.queue
           at == mpd.at
           fixed == SubSeq(s, 1, at)
           rest == SubSeq(s, at + 1, Len(s))
<1>1. PICK q \in SetToSeqs(Range(rest)) : mpd' = [mpd EXCEPT !.queue = fixed \o q]
  BY DEF Shuffle, Reordered
<1>2. touched' = TRUE /\ UNCHANGED <<process, coming, waiting, group, restarts, faults>>
  BY DEF Shuffle, Others, bounds
<1>3. /\ mpd \in Players /\ s \in Seq(Songs) /\ Len(s) \in Nat /\ DOMAIN s = 1..Len(s) /\ IsInjective(s)
      /\ at \in 0..Len(s) /\ (at = 0 => mpd.state = "stop")
  BY SaneIs, SaneNow
<1>4. mpd.at = at
  OBVIOUS
<1> HIDE DEF s, at
<1>5. /\ fixed \in Seq(Songs) /\ Len(fixed) = at
      /\ \A k \in 1..at : fixed[k] = s[k]
  <2>1. 1 \in 1..(Len(s) + 1) /\ at \in 0..Len(s)
    BY <1>3
  <2>2. /\ fixed \in Seq(Songs) /\ Len(fixed) = IF 1 <= at THEN at - 1 + 1 ELSE 0
        /\ \A k \in 1..(at - 1 + 1) : fixed[k] = s[1 + k - 1]
    BY <1>3, <2>1, Part
  <2> HIDE DEF fixed
  <2>3. QED
    BY <1>3, <2>2
<1>6. /\ rest \in Seq(Songs) /\ Len(rest) = Len(s) - at
      /\ \A k \in 1..(Len(s) - at) : rest[k] = s[at + k]
  <2>1. at + 1 \in 1..(Len(s) + 1) /\ Len(s) \in 0..Len(s)
    BY <1>3
  <2>2. /\ rest \in Seq(Songs) /\ Len(rest) = IF at + 1 <= Len(s) THEN Len(s) - (at + 1) + 1 ELSE 0
        /\ \A k \in 1..(Len(s) - (at + 1) + 1) : rest[k] = s[at + 1 + k - 1]
    BY <1>3, <2>1, Part
  <2> HIDE DEF rest
  <2>3. Len(rest) = Len(s) - at
    <3>1. (IF at + 1 <= Len(s) THEN Len(s) - (at + 1) + 1 ELSE 0) = Len(s) - at
      <4>1. Len(s) \in Nat /\ at \in 0..Len(s)
        BY <1>3
      <4>2. QED
        BY <4>1
    <3>2. QED
      BY <2>2, <3>1
  <2>4. ASSUME NEW k \in 1..(Len(s) - at) PROVE rest[k] = s[at + k]
    <3>1. k \in 1..(Len(s) - (at + 1) + 1) /\ at + 1 + k - 1 = at + k
      BY <1>3
    <3>2. QED
      BY <2>2, <3>1
  <2>5. QED
    BY <2>2, <2>3, <2>4
<1> HIDE DEF fixed, rest
<1>7. q \in Seq(Songs) /\ IsInjective(q) /\ Range(q) \subseteq Range(rest)
  BY <1>1, <1>6, SetsOfSequences
<1> DEFINE t == fixed \o q
<1>8. Len(q) \in Nat /\ DOMAIN q = 1..Len(q)
  BY <1>7, LenProperties
<1>9. /\ t \in Seq(Songs) /\ Len(t) = at + Len(q)
      /\ \A k \in 1..(at + Len(q)) : t[k] = IF k <= at THEN fixed[k] ELSE q[k - at]
  BY <1>5, <1>7, ConcatProperties
<1>10. mpd' = [mpd EXCEPT !.queue = t]
  BY <1>1
<1>11. DOMAIN t = 1..(at + Len(q))
  BY <1>9, LenProperties
<1> HIDE DEF t
<1>12. \A k \in 1..at : k \in 1..Len(s) /\ t[k] = s[k]
  BY <1>3, <1>5, <1>8, <1>9
<1>13. ASSUME NEW k \in 1..Len(q) PROVE \E x \in (at + 1)..Len(s) : q[k] = s[x]
  <2>1. q[k] \in Range(rest)
    BY <1>7, <1>8 DEF Range
  <2>2. DOMAIN rest = 1..(Len(s) - at)
    BY <1>6, LenProperties
  <2>3. PICK y \in 1..(Len(s) - at) : rest[y] = q[k]
    BY <2>1, <2>2 DEF Range
  <2>4. at + y \in (at + 1)..Len(s) /\ q[k] = s[at + y]
    BY <1>3, <1>6, <2>3
  <2>5. QED
    BY <2>4
<1>14. ASSUME NEW k \in 1..(at + Len(q)), k > at
       PROVE  k - at \in 1..Len(q) /\ t[k] = q[k - at] /\ \E x \in (at + 1)..Len(s) : t[k] = s[x]
  <2>1. k - at \in 1..Len(q)
    BY <1>3, <1>8, <1>14
  <2>2. t[k] = q[k - at]
    BY <1>3, <1>9, <1>14
  <2>3. QED
    BY <1>13, <2>1, <2>2
<1>15. \A k \in 1..(at + Len(q)) : k \in 1..at \/ k > at
  BY <1>3, <1>8
<1>16. ASSUME NEW j \in 1..at, NEW k \in 1..(at + Len(q)), k > at PROVE t[j] # t[k]
  <2>1. PICK x \in (at + 1)..Len(s) : t[k] = s[x]
    BY <1>14, <1>16
  <2>2. t[j] = s[j] /\ j \in 1..Len(s) /\ x \in 1..Len(s) /\ j # x
    BY <1>3, <1>12, <2>1
  <2>3. QED
    BY <1>3, <2>1, <2>2 DEF IsInjective
<1>17. IsInjective(t)
  <2>1. SUFFICES ASSUME NEW j \in 1..(at + Len(q)), NEW k \in 1..(at + Len(q)), t[j] = t[k] PROVE j = k
    BY <1>11 DEF IsInjective
  <2>2. CASE j \in 1..at /\ k \in 1..at
    BY <1>3, <1>12, <2>1, <2>2 DEF IsInjective
  <2>3. CASE j > at /\ k > at
    <3>1. q[j - at] = q[k - at] /\ j - at \in 1..Len(q) /\ k - at \in 1..Len(q)
      BY <1>14, <2>1, <2>3
    <3>2. j - at = k - at
      BY <1>7, <1>8, <3>1 DEF IsInjective
    <3>3. QED
      BY <1>3, <3>2
  <2>4. CASE (j \in 1..at /\ k > at) \/ (k \in 1..at /\ j > at)
    BY <1>16, <2>1, <2>4
  <2>5. QED
    BY <1>15, <2>2, <2>3, <2>4
<1>18. Range(t) \subseteq Range(s)
  <2>1. SUFFICES ASSUME NEW k \in 1..(at + Len(q)) PROVE \E x \in 1..Len(s) : t[k] = s[x]
    BY <1>3, <1>11 DEF Range
  <2>2. CASE k \in 1..at
    BY <1>12, <2>2
  <2>3. CASE k > at
    <3>1. PICK x \in (at + 1)..Len(s) : t[k] = s[x]
      BY <1>14, <2>3
    <3>2. x \in 1..Len(s)
      BY <1>3
    <3>3. QED
      BY <3>1, <3>2
  <2>4. QED
    BY <1>15, <2>2, <2>3
<1>19. /\ mpd' \in Players /\ mpd'.queue = t /\ mpd'.at = at /\ mpd'.state = mpd.state
  BY <1>3, <1>4, <1>9, <1>10 DEF Players
<1>20. at <= Len(t)
  BY <1>3, <1>8, <1>9
<1>21. Sane(mpd')
  BY <1>3, <1>17, <1>19, <1>20 DEF Sane
<1>22. \A e \in Range(mpd'.queue) : e \in Range(mpd.queue)
  BY <1>18, <1>19 DEF s
<1>23. process' = process
  BY <1>2
<1>24. QED
  BY <1>2, <1>21, <1>22, <1>23, TouchedStep

----------------------------------------------------------------------------
LEMMA StartsSo ==
    ASSUME Init
    PROVE  BreakInv
<1> DEFINE q == [k \in DOMAIN Music |-> [file |-> Music[k], process |-> 0]]
<1>1. PICK i \in 0..Len(Music), s \in {"play", "pause", "stop"}, r \in BOOLEAN :
        mpd = [queue |-> q, at |-> i, state |-> s, repeat |-> r, level |-> "music", point |-> TRUE]
  BY DEF Init
<1>2. /\ mpd.at = 0 => mpd.state = "stop"
      /\ process = 0 /\ coming = Files /\ waiting = <<>>
      /\ pc = "idle" /\ ready = <<>> /\ queued = <<>> /\ before = Unknown
      /\ touched = FALSE /\ restarts = 0 /\ faults = 0
  BY DEF Init
<1>3. Len(Music) \in Nat /\ DOMAIN Music = 1..Len(Music) /\ IsInjective(Music)
  BY MusicAssumption, LenProperties
<1>4. \A k \in 1..Len(Music) : Music[k] \in Range(Music)
  BY <1>3 DEF Range
<1>5. \A k \in 1..Len(Music) : [file |-> Music[k], process |-> 0] \in Songs
  BY <1>4 DEF Songs
<1>6. DOMAIN q = 1..Len(Music) /\ \A k \in 1..Len(Music) : q[k] = [file |-> Music[k], process |-> 0]
  BY <1>3
<1>7. q \in Seq(Songs) /\ Len(q) = Len(Music)
  BY <1>3, <1>5
<1>8. \A k \in 1..Len(Music) : q[k].file = Music[k] /\ q[k].process = 0
  BY <1>6
<1> HIDE DEF q
<1>9. IsInjective(q)
  BY <1>3, <1>6, <1>8 DEF IsInjective
<1>10. mpd \in Players /\ mpd.queue = q /\ mpd.at = i
  BY <1>1, <1>7 DEF Players, States
<1>11. Sane(mpd)
  BY <1>2, <1>3, <1>7, <1>9, <1>10 DEF Sane
<1>12. IsInjective(<<>>) /\ Range(<<>>) = {}
  BY DEF IsInjective, Range
<1>13. TypesInv
  <2>1. Unknown \in Statuses
    BY DEF Unknown, Statuses, States
  <2>2. pc \in Pcs
    BY <1>2 DEF Pcs
  <2>3. /\ coming \subseteq Files /\ waiting \in Seq(Files) /\ ready \in Seq(Files)
        /\ before \in Statuses
    BY <1>2, <2>1, EmptySeq
  <2>4. queued \in Seq([file : Files, process : Nat])
    BY <1>2, EmptySeq
  <2>5. touched \in BOOLEAN /\ process \in Nat /\ restarts \in Nat /\ faults \in Nat
    BY <1>2
  <2>6. QED
    BY <1>2, <1>11, <2>2, <2>3, <2>4, <2>5 DEF TypesInv
<1>14. \A e \in Range(mpd.queue) : e.process = 0 /\ e.file \in Range(Music)
  BY <1>4, <1>6, <1>8, <1>10 DEF Range
<1>15. \A e \in Range(mpd.queue) : e.file \notin Files
  BY <1>14, MusicAssumption
<1>16. Fresh
  <2>1. Pending = Files
    BY <1>2, <1>12 DEF Pending
  <2>2. QED
    BY <1>2, <1>12, <1>14, <1>15, <2>1 DEF Fresh
<1>17. Stages
  BY <1>2 DEF Stages, Playing
<1>18. Known
  BY <1>2, <1>12, <1>15 DEF Known, IsAnnouncement
<1>19. Kept /\ OnTop
  BY <1>2 DEF Kept, OnTop
<1>20. QED
  BY <1>13, <1>16, <1>17, <1>18, <1>19 DEF BreakInv

LEMMA StepKeeps ==
    ASSUME BreakInv, [Next]_vars
    PROVE  BreakInv'
<1>1. CASE UNCHANGED vars
  <2>1. UNCHANGED <<mpd, process, waiting, coming, pc, ready, queued, after, seen, before,
                    touched, restarts, faults>>
    BY <1>1 DEF vars, group, bounds
  <2>2. QED
    BY <2>1, UnseenStep
<1>2. CASE Group
  <2>1. CASE Begin
    BY <2>1, BeginStep
  <2>2. CASE ReadBefore
    BY <2>2, ReadBeforeStep
  <2>3. CASE Insert
    BY <2>3, InsertStep
  <2>4. CASE Inserted
    BY <2>4, InsertedStep
  <2>5. CASE RepeatOff
    BY <2>5, RepeatOffStep
  <2>6. CASE FadeOut \/ Pause \/ Level
    BY <2>6, HoldStep
  <2>7. CASE PlayFirst
    BY <2>7, PlayFirstStep
  <2>8. CASE Poll
    BY <2>8, PollStep
  <2>9. CASE Join
    BY <2>9, JoinStep
  <2>10. CASE NextOne
    BY <2>10, NextOneStep
  <2>11. CASE RepeatOn
    BY <2>11, RepeatOnStep
  <2>12. CASE RemoveOne
    BY <2>12, RemoveOneStep
  <2>13. CASE StopAgain
    BY <2>13, StopAgainStep
  <2>14. CASE Quieten
    BY <2>14, QuietenStep
  <2>15. CASE Look
    BY <2>15, LookStep
  <2>16. CASE Track
    BY <2>16, TrackStep
  <2>17. CASE Seek
    BY <2>17, SeekStep
  <2>18. CASE Settle
    BY <2>18, SettleStep
  <2>19. CASE Volume
    BY <2>19, VolumeStep
  <2>20. CASE Done
    BY <2>20, DoneStep
  <2>21. QED
    BY <1>2, <2>1, <2>2, <2>3, <2>4, <2>5, <2>6, <2>7, <2>8, <2>9, <2>10, <2>11, <2>12,
       <2>13, <2>14, <2>15, <2>16, <2>17, <2>18, <2>19, <2>20, Zenon DEF Group
<1>3. CASE People
  <2>1. CASE PersonPlays \/ PersonPauses \/ PersonStops \/ PersonSkips
    BY <2>1, TransportSteps
  <2>2. CASE PersonPlaysNext
    BY <2>2, PersonPlaysNextStep
  <2>3. CASE PersonPlaysNow
    BY <2>3, PersonPlaysNowStep
  <2>4. CASE ShuffleStarts
    BY <2>4, UnseenSteps
  <2>5. CASE \E i \in 1..Len(mpd.queue) : PersonRemoves(i)
    BY <2>5, PersonRemovesStep
  <2>6. QED
    BY <1>3, <2>1, <2>2, <2>3, <2>4, <2>5, Zenon DEF People
<1>4. CASE ShuffleChecks \/ TooLong
  BY <1>4, UnseenSteps
<1>5. CASE Shuffle
  BY <1>5, ShuffleStep
<1>6. CASE EntryEnds
  BY <1>6, EntryEndsStep
<1>7. CASE Restart
  BY <1>7, RestartStep
<1>8. CASE Ask
  BY <1>8, AskStep
<1>9. QED
  BY <1>1, <1>2, <1>3, <1>4, <1>5, <1>6, <1>7, <1>8, Zenon DEF Next

LEMMA AlwaysSo == Spec => []BreakInv
<1>1. Init => BreakInv
  BY StartsSo
<1>2. BreakInv /\ [Next]_vars => BreakInv'
  BY StepKeeps
<1>3. QED
  BY <1>1, <1>2, PTL DEF Spec

----------------------------------------------------------------------------
(* However many announcements a break has, whenever they join it and        *)
(* whatever people do to the queue in the meantime, none of them stays in   *)
(* the queue: the restore knows each of them by its id, as long as MPD is   *)
(* the same process and no command failed.                                  *)
THEOREM NoneBehind == Spec => []NoneLeftBehind
<1>1. BreakInv => NoneLeftBehind
  <2>1. SUFFICES ASSUME BreakInv, pc = "idle", restarts = 0, faults = 0, NEW i \in DOMAIN mpd.queue
                 PROVE  ~IsAnnouncement(mpd.queue[i])
    BY DEF NoneLeftBehind
  <2>2. Range(queued) = {}
    BY <2>1 DEF BreakInv, Stages, Range
  <2>3. mpd.queue[i] \in Range(mpd.queue)
    BY DEF Range
  <2>4. QED
    BY <2>1, <2>2, <2>3 DEF BreakInv, Known
<1>2. QED
  BY <1>1, AlwaysSo, PTL

(* The music comes back as it was before the break (at its point, with its  *)
(* state, its repeat and its level) unless someone touched it or a command  *)
(* failed, for every number of announcements and every queue.               *)
THEOREM MusicBack == Spec => MusicComesBack
<1> DEFINE Back == pc = "done" /\ ~touched =>
                     /\ mpd.state = before.state
                     /\ mpd.state # "stop" => Current(mpd) = {before.song} /\ mpd.point
                     /\ mpd.repeat = before.repeat
                     /\ mpd.level = "music"
<1>1. BreakInv => Back
  <2>1. SUFFICES ASSUME BreakInv, pc = "done", ~touched PROVE Back
    OBVIOUS
  <2>2. /\ mpd.state = before.state
        /\ mpd.state # "stop" => OnSong /\ mpd.point
        /\ mpd.repeat = before.repeat
        /\ mpd.level = "music"
    BY <2>1 DEF BreakInv, Kept, Returning
  <2>3. OnSong => Current(mpd) = {before.song}
    BY DEF OnSong, Current
  <2>4. QED
    BY <2>2, <2>3
<1>2. []BreakInv => [][Back]_vars
  <2> HIDE DEF Back
  <2>1. BreakInv => [Back]_vars
    BY <1>1
  <2>2. QED
    BY <2>1, PTL
<1>3. QED
  BY <1>2, AlwaysSo DEF MusicComesBack

(* While the restore takes a group that is in order out of the queue, none  *)
(* of it starts: MPD goes on to the entry after the one that goes out,      *)
(* which is a track, as the last of the group goes first; and where it      *)
(* wraps, the first entry of the queue is a track too.                      *)
THEOREM NoneStarts == Spec => NoneStartsInRestore
<1> DEFINE Quiet == pc = "remove" /\ pc' = "remove" /\ Len(queued') < Len(queued) /\ before.song # NoSong
                    /\ InOrder /\ ~touched' /\ restarts = 0 /\ faults = 0 =>
                      \A e \in Current(mpd') \ Current(mpd) : ~IsAnnouncement(e)
<1>1. ASSUME BreakInv, Next, pc = "remove", pc' = "remove", queued' # queued PROVE RemoveOne
  <2>1. ~(People \/ ShuffleChecks \/ Shuffle \/ EntryEnds \/ TooLong \/ Restart \/ Ask)
    <3>1. People => UNCHANGED group
      BY Zenon DEF People, PersonPlays, PersonPauses, PersonStops, PersonSkips, PersonPlaysNext,
                   PersonPlaysNow, PersonRemoves, Person, ShuffleStarts, Others
    <3>2. ShuffleChecks \/ Shuffle \/ EntryEnds \/ Restart \/ Ask => UNCHANGED group
      BY DEF ShuffleChecks, Shuffle, EntryEnds, Restart, Ask, Others
    <3>3. TooLong => queued' = queued
      BY DEF TooLong
    <3>4. QED
      BY <1>1, <3>1, <3>2, <3>3 DEF group
  <2>2. Group
    BY <1>1, <2>1 DEF Next
  <2>3. pc' # "remove" \/ pc # "remove" \/ RemoveOne
    <3>1. RepeatOff \/ FadeOut \/ Pause \/ Level \/ RepeatOn \/ StopAgain \/ Quieten \/ Seek \/ Settle \/ Volume
            => pc # "remove" \/ pc' # "remove"
      BY DEF RepeatOff, FadeOut, Pause, Level, RepeatOn, StopAgain, Quieten, Seek, Settle, Volume, Command, GoTo
    <3>2. Begin \/ ReadBefore \/ Insert \/ Inserted \/ PlayFirst \/ Poll \/ Join \/ NextOne \/ Look \/ Track \/ Done
            => pc # "remove"
      BY DEF Begin, ReadBefore, Insert, Inserted, PlayFirst, Poll, Join, NextOne, Look, Track, Done
    <3>3. QED
      BY <2>2, <3>1, <3>2 DEF Group
  <2>4. QED
    BY <1>1, <2>3
<1>2. ASSUME BreakInv, RemoveOne, before.song # NoSong, InOrder, ~touched', restarts = 0, faults = 0,
             NEW x \in Current(mpd') \ Current(mpd), IsAnnouncement(x)
      PROVE  FALSE
  <2> DEFINE e == Last(queued)
             n == Len(queued)
  <2>1. /\ pc = "remove" /\ queued # <<>> /\ Works
    BY <1>2 DEF RemoveOne
  <2>2. PICK i \in PlacesOf(e) : mpd' = IF i # 0 /\ Worked THEN DeleteAt(mpd, i) ELSE mpd
    BY <1>2 DEF RemoveOne
  <2>3. ~touched
    <3>1. \/ faults' = faults /\ touched' = touched
          \/ faults' # faults /\ faults' # 0 /\ touched' = TRUE
      BY <1>2, <2>1, WorksIs DEF BreakInv
    <3>2. QED
      BY <1>2, <3>1
  <2>4. /\ \A y \in Range(queued) : y.process = process
        /\ \A y \in Range(mpd.queue) : IsAnnouncement(y) => y \in Range(queued)
        /\ ~IsAnnouncement(mpd.queue[1])
    BY <1>2, <2>1, <2>3 DEF BreakInv, Known, OnTop
  <2>5. n \in Nat /\ n # 0 /\ DOMAIN queued = 1..n /\ e = queued[n]
    BY <1>2, <2>1, LenProperties, EmptySeq DEF BreakInv, TypesInv, Last
  <2>6. i = PlaceOf(mpd, e)
    <3>1. e \in Range(queued)
      BY <2>5 DEF Range
    <3>2. QED
      BY <2>4, <3>1 DEF PlacesOf
  <2>7. i # 0 /\ mpd' = DeleteAt(mpd, i)
    BY <1>2, <2>2
  <2>8. Sane(mpd) /\ i \in 1..Len(mpd.queue) /\ Len(mpd.queue) \in Nat /\ mpd.at \in 0..Len(mpd.queue)
        /\ DOMAIN mpd.queue = 1..Len(mpd.queue)
    BY <1>2, <2>2, <2>7, SaneNow, SaneIs, PlacesIn
  <2> HIDE DEF e, n
  <2>9. mpd.at = i /\ Successor(mpd) \notin {0, i} /\ x = mpd.queue[Successor(mpd)]
    BY <1>2, <2>7, <2>8, DeleteAtIs
  <2>10. Successor(mpd) \in 1..Len(mpd.queue) /\ (Successor(mpd) = i + 1 \/ Successor(mpd) = 1)
    BY <2>7, <2>8, <2>9, SuccessorIs
  <2>11. Successor(mpd) = i + 1
    BY <1>2, <2>4, <2>9, <2>10
  <2>12. x \in Range(mpd.queue)
    BY <2>8, <2>9, <2>10 DEF Range
  <2>13. PICK j \in 1..n : queued[j] = x
    BY <1>2, <2>4, <2>5, <2>12 DEF Range
  <2>14. PlaceOf(mpd, x) = i + 1
    BY <2>8, <2>9, <2>10, <2>11, PlaceIs
  <2>15. j # n
    BY <2>5, <2>6, <2>8, <2>13, <2>14
  <2>16. j < n
    BY <2>5, <2>15
  <2>17. PlaceOf(mpd, queued[j]) < PlaceOf(mpd, queued[n])
    BY <1>2, <2>5, <2>16 DEF InOrder
  <2>18. i + 1 < i
    BY <2>5, <2>6, <2>13, <2>14, <2>17
  <2>19. QED
    BY <2>8, <2>18
<1>3. BreakInv /\ [Next]_vars => [Quiet]_vars
  <2>1. SUFFICES ASSUME BreakInv, Next, pc = "remove", pc' = "remove", Len(queued') < Len(queued), before.song # NoSong,
                        InOrder, ~touched', restarts = 0, faults = 0,
                        NEW x \in Current(mpd') \ Current(mpd), IsAnnouncement(x)
                 PROVE  FALSE
    OBVIOUS
  <2>2. queued' # queued
    <3>1. Len(queued) \in Nat
      BY <2>1, LenProperties DEF BreakInv, TypesInv
    <3>2. QED
      BY <2>1, <3>1
  <2>3. RemoveOne
    BY <1>1, <2>1, <2>2
  <2>4. QED
    BY <1>2, <2>1, <2>3
<1>4. QED
  <2> HIDE DEF Quiet
  <2>1. Spec => [][Quiet]_vars
    BY <1>3, AlwaysSo, PTL DEF Spec
  <2>2. QED
    BY <2>1 DEF NoneStartsInRestore, Quiet
=============================================================================
