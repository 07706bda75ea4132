--------------------------- MODULE ReferencesProofs ---------------------------
(****************************************************************************)
(* For any files, playlists, moves and deletes, whatever requests run at    *)
(* once and however their writes fail: a playlist has its file and a file   *)
(* its playlist, an inspection names all that a change of files touches,    *)
(* references follow the files they name, and no append is lost.            *)
(****************************************************************************)
EXTENDS References, SequenceTheorems, TLAPS

Held == {"created", "renamed", "appending", "deleted"}
Changing == {"remove", "list", "rewrite", "bans", "sources"}
Pcs == Held \cup Changing \cup {"idle", "update", "delete", "move"}
Change == [old : Paths, new : Paths \cup {<<>>}]

(* What a request knows at each of its steps.                              *)
Creating == [pc : Pcs, id : Ids, name : Names, set : SUBSET FilePaths]
Changes == [pc : Pcs, id : Ids, name : Names, to : Names \cup {NoName},
            set : (SUBSET FilePaths) \cup {Same}, append : SUBSET FilePaths]
Appending == [pc : Pcs, id : Ids, name : Names, append : SUBSET FilePaths, read : SUBSET Refs]
Deleting == [pc : Pcs, id : Ids, name : Names]

Asked(r) ==
  /\ r.pc \in Pcs
  /\ r.pc = "created" => r \in Creating
  /\ r.pc \in {"update", "renamed"} => r \in Changes /\ r.to # r.name
  /\ r.pc = "renamed" => r.to \in Names
  /\ r.pc = "appending" => r \in Appending
  /\ r.pc \in {"delete", "deleted"} => r \in Deleting
  /\ r.pc = "move" => r.from \in Paths /\ r.to \in Paths
  /\ r.pc \in Changing => r.changes \subseteq Change

TypesInv ==
  /\ disk \in [Paths -> Things \cup {Gone}]
  /\ rows \in [Ids -> Names \cup {NoName}]
  /\ m3u \in [Names -> (SUBSET Refs) \cup {NoFile}]
  /\ req = [q \in Clients |-> req[q]]
  /\ \A q \in Clients : Asked(req[q])
  /\ lastId \in 1..(requests + 1) /\ requests \in 0..MaxRequests

(* A name is the name of one row, and rows to come have none.              *)
RowsUnique ==
  /\ \A id \in Ids : id > lastId => rows[id] = NoName
  /\ \A i, j \in Ids : rows[i] = rows[j] /\ rows[i] # NoName => i = j

(* The mutex is held exactly by who is in the middle of a change.          *)
OneHolder ==
  /\ mu \in Clients \cup {Nobody}
  /\ \A q \in Clients : mu = q <=> req[q].pc \in Held

(* What row and file are in the middle of a change.                        *)
Midway(q) ==
  LET r == req[q]
  IN  /\ At(q, "created") => rows[r.id] = r.name /\ m3u[r.name] = NoFile
      /\ At(q, "renamed") =>
           /\ m3u[r.to] = NoFile /\ rows[r.id] \in {r.to, NoName}
           /\ \/ {r.name, r.to} \subseteq stray
              \/ rows[r.id] = r.to /\ m3u[r.name] # NoFile /\ ~HasName(r.name)
      /\ At(q, "deleted") =>
           /\ m3u[r.name] = NoFile
           /\ {r.name, rows[r.id]} \subseteq stray \cup {NoName} \/ rows[r.id] = r.name

Between(q, n) ==
  \/ At(q, "created") /\ n = req[q].name
  \/ At(q, "renamed") /\ n \in {req[q].name, req[q].to}
  \/ At(q, "deleted") /\ n = req[q].name

(* Between changes, and for every name no change is about, file and row go *)
(* together.                                                               *)
Agrees(n) == m3u[n] # NoFile <=> HasName(n)
Matched == \A n \in Names \ stray : Agrees(n) \/ \E q \in Clients : Between(q, n)

RowsInv == TypesInv /\ RowsUnique /\ OneHolder /\ (\A q \in Clients : Midway(q)) /\ Matched

----------------------------------------------------------------------------
(* A set of references is not a missing file.                              *)
LEMMA ListIsFile == ASSUME NEW refs \in SUBSET Refs PROVE refs # NoFile
BY GoneIsNoReference DEF NoFile

LEMMA RefsAreRefs ==
    ASSUME disk \in [Paths -> Things \cup {Gone}], NEW paths \in SUBSET FilePaths
    PROVE  RefsTo(paths) \in SUBSET Refs
<1>1. ASSUME NEW p \in paths PROVE Ref(p) \in Refs
  <2>1. p \in Seq(PathNames) /\ disk[p] \in Things \cup {Gone}
    BY PathAssumption DEF FilePaths
  <2>2. QED
    BY <2>1 DEF Ref, Refs
<1>2. QED
  BY <1>1 DEF RefsTo

LEMMA EntriesAreRefs ==
    ASSUME m3u \in [Names -> (SUBSET Refs) \cup {NoFile}], NEW n \in Names
    PROVE  Entries(n) \in SUBSET Refs
BY DEF Entries

(* What a change makes of references are references, and of none none.     *)
LEMMA RewrittenAreRefs ==
    ASSUME NEW changes \in SUBSET Change, NEW refs \in SUBSET Refs
    PROVE  Rewritten(refs, changes) \in SUBSET Refs
<1>1. ASSUME NEW c \in changes, c.new # <<>>, NEW r \in refs PROVE [r EXCEPT !.path = Moved(c, r.path)] \in Refs
  <2>1. /\ r \in [path : Seq(PathNames), means : Things \cup {Gone}]
        /\ c.old \in Paths /\ c.new \in Paths
    BY <1>1 DEF Refs, Change
  <2>2. c.old \in Seq(PathNames) /\ c.new \in Seq(PathNames) /\ r.path \in Seq(PathNames)
    BY <2>1, PathAssumption
  <2>3. Len(c.old) \in Nat /\ Len(r.path) \in Nat
    BY <2>2, LenProperties
  <2>4. SubSeq(r.path, Len(c.old) + 1, Len(r.path)) \in Seq(PathNames)
    BY <2>2, <2>3, SubSeqProperties
  <2>5. Moved(c, r.path) \in Seq(PathNames)
    BY <2>2, <2>4, ConcatProperties DEF Moved
  <2>6. QED
    BY <2>1, <2>5 DEF Refs
<1>2. QED
  BY <1>1 DEF Rewritten

LEMMA NothingToRewrite == ASSUME NEW changes PROVE Rewritten({}, changes) = {}
BY DEF Rewritten

----------------------------------------------------------------------------
(* One request changes; who holds the mutex is alone in the middle.        *)
LEMMA OneAsks ==
    ASSUME TypesInv, NEW q \in Clients, NEW r, Asked(r), req' = [req EXCEPT ![q] = r]
    PROVE  /\ req' = [w \in Clients |-> req'[w]]
           /\ req'[q] = r
           /\ \A w \in Clients \ {q} : req'[w] = req[w]
           /\ \A w \in Clients : Asked(req'[w])
<1>1. /\ req' = [w \in Clients |-> IF w = q THEN r ELSE req[w]]
  BY DEF TypesInv
<1>2. /\ req' = [w \in Clients |-> req'[w]]
      /\ req'[q] = r
      /\ \A w \in Clients \ {q} : req'[w] = req[w]
  BY <1>1
<1>3. ASSUME NEW w \in Clients PROVE Asked(req'[w])
  <2>1. CASE w = q
    BY <1>2, <2>1
  <2>2. CASE w # q
    <3>1. req'[w] = req[w] /\ Asked(req[w])
      BY <1>2, <2>2 DEF TypesInv
    <3>2. QED
      BY <3>1
  <2>3. QED
    BY <2>1, <2>2
<1>4. QED
  BY <1>2, <1>3

LEMMA IdleIsAsked == Asked(Idle) /\ Idle.pc = "idle"
BY DEF Asked, Idle, Pcs, Held, Changing

LEMMA Alone ==
    ASSUME RowsInv, NEW q \in Clients, mu \in {q, Nobody}
    PROVE  \A w \in Clients \ {q} : req[w].pc \notin Held
BY ClientsAssumption DEF RowsInv, OneHolder

(* Where no change of rows and files is halfway, they agree.               *)
LEMMA Resting ==
    ASSUME RowsInv, NEW q \in Clients, mu \in {q, Nobody},
           req[q].pc \notin {"created", "renamed", "deleted"}
    PROVE  \A n \in Names \ stray : Agrees(n)
<1>1. \A w \in Clients \ {q} : req[w].pc \notin Held
  BY Alone
<1>2. \A w \in Clients : req[w].pc \notin {"created", "renamed", "deleted"}
  BY <1>1 DEF Held
<1>3. \A w \in Clients, n \in Names : ~Between(w, n)
  BY <1>2 DEF Between, At
<1>4. QED
  BY <1>3 DEF RowsInv, Matched

LEMMA Outside ==
    ASSUME RowsInv, NEW q \in Clients, mu = q
    PROVE  \A n \in Names \ stray : Agrees(n) \/ Between(q, n)
<1>1. \A w \in Clients \ {q} : req[w].pc \notin Held
  BY Alone
<1>2. \A w \in Clients \ {q}, n \in Names : ~Between(w, n)
  BY <1>1 DEF Between, At, Held
<1>3. QED
  BY <1>2 DEF RowsInv, Matched

(* The name of one row changes to a free one, or to none.                  *)
LEMMA SetRow ==
    ASSUME TypesInv, RowsUnique, NEW id \in Ids, NEW x \in Names \cup {NoName},
           x = NoName \/ ~HasName(x), lastId' \in Int, lastId' >= lastId,
           x # NoName => id <= lastId',
           rows' = [rows EXCEPT ![id] = x]
    PROVE  /\ rows' \in [Ids -> Names \cup {NoName}]
           /\ RowsUnique'
           /\ \A n \in Names : HasName(n)' <=> n = x \/ (HasName(n) /\ n # rows[id])
<1>1. /\ rows \in [Ids -> Names \cup {NoName}] /\ Ids \subseteq Int /\ lastId \in Int
  BY BoundAssumption DEF TypesInv, Ids
<1>2. rows' \in [Ids -> Names \cup {NoName}] /\ rows'[id] = x /\ \A i \in Ids \ {id} : rows'[i] = rows[i]
  BY <1>1
<1>3. ASSUME NEW i \in Ids, i > lastId' PROVE rows'[i] = NoName
  <2>1. i > lastId
    BY <1>1, <1>3
  <2>2. QED
    BY <1>1, <1>2, <1>3, <2>1 DEF RowsUnique
<1>4. \A i, j \in Ids : rows'[i] = rows'[j] /\ rows'[i] # NoName => i = j
  BY <1>2 DEF RowsUnique, HasName
<1>5. ASSUME NEW n \in Names PROVE HasName(n)' <=> n = x \/ (HasName(n) /\ n # rows[id])
  <2>1. n # NoName
    BY NamesAssumption
  <2>2. QED
    BY <1>2, <2>1 DEF HasName, RowsUnique
<1>6. QED
  BY <1>2, <1>3, <1>4, <1>5 DEF RowsUnique

----------------------------------------------------------------------------
(* The kinds of steps.  A step that ends with nobody holding the mutex.    *)
LEMMA LetsGo ==
    ASSUME RowsInv, NEW q \in Clients, mu \in {q, Nobody}, mu' = Nobody,
           NEW r, Asked(r), r.pc \notin Held, req' = [req EXCEPT ![q] = r],
           disk' \in [Paths -> Things \cup {Gone}],
           rows' \in [Ids -> Names \cup {NoName}], RowsUnique',
           m3u' \in [Names -> (SUBSET Refs) \cup {NoFile}],
           lastId' = lastId, requests' = requests,
           \A n \in Names \ stray' : Agrees(n)'
    PROVE  RowsInv'
<1>1. /\ req' = [w \in Clients |-> req'[w]]
      /\ req'[q] = r
      /\ \A w \in Clients \ {q} : req'[w] = req[w]
      /\ \A w \in Clients : Asked(req'[w])
  BY OneAsks DEF RowsInv
<1>2. TypesInv'
  BY <1>1 DEF RowsInv, TypesInv
<1>3. \A w \in Clients : req'[w].pc \notin Held
  BY <1>1, Alone
<1>4. OneHolder'
  BY <1>3, ClientsAssumption DEF OneHolder
<1>5. \A w \in Clients : Midway(w)'
  BY <1>3 DEF Midway, At, Held
<1>6. Matched'
  BY DEF Matched
<1>7. QED
  BY <1>2, <1>4, <1>5, <1>6 DEF RowsInv

(* A step that takes the mutex and leaves a change halfway.                *)
LEMMA GoesHalfway ==
    ASSUME RowsInv, NEW q \in Clients, mu = Nobody, mu' = q,
           NEW r, Asked(r), r.pc \in Held, req' = [req EXCEPT ![q] = r],
           disk' = disk,
           rows' \in [Ids -> Names \cup {NoName}], RowsUnique',
           m3u' \in [Names -> (SUBSET Refs) \cup {NoFile}],
           lastId' \in 1..(requests' + 1), requests' \in 0..MaxRequests,
           Midway(q)',
           \A n \in Names \ stray' : Agrees(n)' \/ Between(q, n)'
    PROVE  RowsInv'
<1>1. /\ req' = [w \in Clients |-> req'[w]]
      /\ req'[q] = r
      /\ \A w \in Clients \ {q} : req'[w] = req[w]
      /\ \A w \in Clients : Asked(req'[w])
  BY OneAsks DEF RowsInv
<1>2. TypesInv'
  BY <1>1 DEF RowsInv, TypesInv
<1>3. \A w \in Clients \ {q} : req'[w].pc \notin Held
  BY <1>1, Alone
<1>4. OneHolder'
  BY <1>1, <1>3, ClientsAssumption DEF OneHolder
<1>5. \A w \in Clients : Midway(w)'
  BY <1>3 DEF Midway, At, Held
<1>6. Matched'
  BY DEF Matched
<1>7. QED
  BY <1>2, <1>4, <1>5, <1>6 DEF RowsInv

(* A step that leaves rows, playlist files and the mutex alone.            *)
LEMMA Apart ==
    ASSUME RowsInv, UNCHANGED <<tables, stray>>,
           req' = [w \in Clients |-> req'[w]],
           \A w \in Clients :
             \/ req'[w] = req[w]
             \/ Asked(req'[w]) /\ req'[w].pc \notin Held /\ req[w].pc \notin Held,
           disk' \in [Paths -> Things \cup {Gone}],
           requests' \in requests..MaxRequests
    PROVE  RowsInv'
<1>1. UNCHANGED <<rows, lastId, m3u, mu, stray>>
  BY DEF tables
<1>2. requests \in Int /\ lastId \in Int /\ requests' \in Int /\ MaxRequests \in Int
  BY BoundAssumption DEF RowsInv, TypesInv
<1>3. lastId' \in 1..(requests' + 1) /\ requests' \in 0..MaxRequests
  BY <1>1, <1>2 DEF RowsInv, TypesInv
<1>4. \A w \in Clients : Asked(req'[w])
  <2>1. SUFFICES ASSUME NEW w \in Clients, req'[w] = req[w] PROVE Asked(req'[w])
    OBVIOUS
  <2>2. Asked(req[w])
    BY DEF RowsInv, TypesInv
  <2>3. QED
    BY <2>1, <2>2
<1>5. TypesInv'
  BY <1>1, <1>3, <1>4 DEF RowsInv, TypesInv
<1>6. RowsUnique'
  BY <1>1 DEF RowsInv, RowsUnique
<1>7. OneHolder'
  BY <1>1 DEF RowsInv, OneHolder
<1>8. ASSUME NEW w \in Clients PROVE Midway(w)'
  <2>1. CASE req'[w] = req[w]
    BY <1>1, <2>1 DEF RowsInv, Midway, At, HasName
  <2>2. CASE req'[w].pc \notin Held
    BY <2>2 DEF Midway, At, Held
  <2>3. QED
    BY <2>1, <2>2
<1>9. ASSUME NEW n \in Names \ stray PROVE Agrees(n)' \/ \E w \in Clients : Between(w, n)'
  <2>1. Agrees(n)' <=> Agrees(n)
    BY <1>1 DEF Agrees, HasName
  <2>2. ASSUME NEW w \in Clients, Between(w, n) PROVE Between(w, n)'
    BY <2>2 DEF Between, At, Held
  <2>3. QED
    BY <2>1, <2>2 DEF RowsInv, Matched
<1>10. QED
  BY <1>1, <1>5, <1>6, <1>7, <1>8, <1>9 DEF RowsInv, Matched

LEMMA AsksApart ==
    ASSUME RowsInv, UNCHANGED <<tables, stray>>, NEW q \in Clients, req[q].pc \notin Held,
           NEW r, Asked(r), r.pc \notin Held, req' = [req EXCEPT ![q] = r],
           disk' \in [Paths -> Things \cup {Gone}],
           requests' \in requests..MaxRequests
    PROVE  RowsInv'
<1>1. /\ req' = [w \in Clients |-> req'[w]]
      /\ req'[q] = r
      /\ \A w \in Clients \ {q} : req'[w] = req[w]
  BY OneAsks DEF RowsInv
<1>2. QED
  BY <1>1, Apart

----------------------------------------------------------------------------
(* Requests that ask, that end without a change, and those for files.      *)
LEMMA AsksMore ==
    ASSUME RowsInv, NEW q \in Clients, NEW r, Asks(q, r)
    PROVE  /\ req[q].pc \notin Held /\ req' = [req EXCEPT ![q] = r]
           /\ requests' = requests + 1
           /\ requests' \in requests..MaxRequests /\ requests' \in 0..MaxRequests
           /\ requests \in Nat
<1>1. requests \in 0..MaxRequests /\ MaxRequests \in Nat
  BY BoundAssumption DEF RowsInv, TypesInv
<1>2. req[q].pc = "idle" /\ requests < MaxRequests /\ requests' = requests + 1
  BY DEF Asks, At
<1>3. QED
  BY <1>1, <1>2 DEF Asks, Becomes, Held

LEMMA KeepsCount ==
    ASSUME RowsInv, requests' = requests
    PROVE  requests' \in requests..MaxRequests
BY BoundAssumption DEF RowsInv, TypesInv

LEMMA EndsStep ==
    ASSUME RowsInv, NEW q \in Clients, req[q].pc \notin Held, Becomes(q, Idle),
           UNCHANGED <<tables, stray, requests>>,
           disk' \in [Paths -> Things \cup {Gone}]
    PROVE  RowsInv'
<1>1. Asked(Idle) /\ Idle.pc \notin Held
  BY IdleIsAsked DEF Held
<1>2. req' = [req EXCEPT ![q] = Idle] /\ UNCHANGED <<tables, stray>> /\ requests' = requests
  BY DEF Becomes
<1>3. requests' \in requests..MaxRequests
  BY <1>2, KeepsCount
<1>4. QED
  BY <1>1, <1>2, <1>3, AsksApart

LEMMA UpdateStep ==
    ASSUME RowsInv, NEW q \in Clients, NEW id \in Ids, NEW u \in Updates, Update(q, id, u)
    PROVE  RowsInv'
<1> DEFINE r == [pc |-> "update", id |-> id, name |-> GetPlaylist(id),
                 to |-> IF u.to = GetPlaylist(id) THEN NoName ELSE u.to, set |-> u.set, append |-> u.append]
<1>1. Asks(q, r) /\ UNCHANGED <<disk, tables, stray>> /\ GetPlaylist(id) # NoName
  BY DEF Update
<1>2. /\ u.to \in Names \cup {NoName} /\ u.append \in SUBSET FilePaths
      /\ u.set \in (SUBSET FilePaths) \cup {Same}
  BY UpdateAssumption DEF FilePaths
<1>3. GetPlaylist(id) \in Names
  BY <1>1 DEF RowsInv, TypesInv, GetPlaylist
<1>4. /\ r \in Changes /\ r.to # r.name /\ r.pc = "update"
  BY <1>2, <1>3, NamesAssumption DEF Changes, Pcs
<1> HIDE DEF r
<1>5. Asked(r) /\ r.pc \notin Held
  BY <1>4 DEF Asked, Pcs, Held, Changing
<1>6. /\ req[q].pc \notin Held /\ req' = [req EXCEPT ![q] = r]
      /\ requests' \in requests..MaxRequests
  BY <1>1, AsksMore
<1>7. disk' \in [Paths -> Things \cup {Gone}] /\ UNCHANGED <<tables, stray>>
  BY <1>1 DEF RowsInv, TypesInv
<1>8. QED
  BY <1>5, <1>6, <1>7, AsksApart

LEMMA DeletePlaylistStep ==
    ASSUME RowsInv, NEW q \in Clients, NEW id \in Ids, DeletePlaylist(q, id)
    PROVE  RowsInv'
<1> DEFINE r == [pc |-> "delete", id |-> id, name |-> GetPlaylist(id)]
<1>1. Asks(q, r) /\ UNCHANGED <<disk, tables, stray>> /\ GetPlaylist(id) # NoName
  BY DEF DeletePlaylist
<1>2. GetPlaylist(id) \in Names
  BY <1>1 DEF RowsInv, TypesInv, GetPlaylist
<1>3. /\ r \in Deleting /\ r.pc = "delete"
  BY <1>2 DEF Deleting, Pcs
<1> HIDE DEF r
<1>4. Asked(r) /\ r.pc \notin Held
  BY <1>3 DEF Asked, Pcs, Held, Changing
<1>5. /\ req[q].pc \notin Held /\ req' = [req EXCEPT ![q] = r]
      /\ requests' \in requests..MaxRequests
  BY <1>1, AsksMore
<1>6. disk' \in [Paths -> Things \cup {Gone}] /\ UNCHANGED <<tables, stray>>
  BY <1>1 DEF RowsInv, TypesInv
<1>7. QED
  BY <1>4, <1>5, <1>6, AsksApart

LEMMA RefusedStep ==
    ASSUME RowsInv, NEW q \in Clients, RenameRefused(q) \/ SetFails(q) \/ DeleteRefused(q) \/ MoveFails(q)
    PROVE  RowsInv'
<1>1. req[q].pc \in {"update", "delete", "move"} /\ Becomes(q, Idle) /\ UNCHANGED <<disk, tables, stray, requests>>
  BY DEF RenameRefused, SetFails, DeleteRefused, MoveFails, At
<1>2. disk' \in [Paths -> Things \cup {Gone}] /\ UNCHANGED <<tables, stray, requests>> /\ req[q].pc \notin Held
  BY <1>1 DEF RowsInv, TypesInv, Held
<1>3. QED
  BY <1>1, <1>2, EndsStep

LEMMA MoveChecksStep ==
    ASSUME RowsInv, NEW q \in Clients, NEW from \in Paths, NEW to \in Paths, MoveChecks(q, from, to)
    PROVE  RowsInv'
<1> DEFINE r == [pc |-> "move", from |-> from, to |-> to]
<1>1. Asks(q, r) /\ UNCHANGED <<disk, tables, stray>>
  BY DEF MoveChecks
<1>2. Asked(r) /\ r.pc \notin Held
  BY DEF Asked, Pcs, Held, Changing
<1> HIDE DEF r
<1>3. /\ req[q].pc \notin Held /\ req' = [req EXCEPT ![q] = r]
      /\ requests' \in requests..MaxRequests
  BY <1>1, AsksMore
<1>4. disk' \in [Paths -> Things \cup {Gone}] /\ UNCHANGED <<tables, stray>>
  BY <1>1 DEF RowsInv, TypesInv
<1>5. QED
  BY <1>2, <1>3, <1>4, AsksApart

(* A change of files goes on: it has changes of paths.                     *)
LEMMA ChangesOn ==
    ASSUME RowsInv, UNCHANGED <<tables, stray, requests>>, NEW q \in Clients, req[q].pc \notin Held,
           NEW r, r.pc \in Changing, r.changes \subseteq Change, Becomes(q, r),
           disk' \in [Paths -> Things \cup {Gone}]
    PROVE  RowsInv'
<1>1. Asked(r) /\ r.pc \notin Held
  BY DEF Asked, Pcs, Held, Changing
<1>2. req' = [req EXCEPT ![q] = r] /\ UNCHANGED <<tables, stray>> /\ requests' = requests
  BY DEF Becomes
<1>3. requests' \in requests..MaxRequests
  BY <1>2, KeepsCount
<1>4. QED
  BY <1>1, <1>2, <1>3, AsksApart

LEMMA MoveRenamesStep ==
    ASSUME RowsInv, NEW q \in Clients, MoveRenames(q)
    PROVE  RowsInv'
<1> DEFINE from == req[q].from
           to == req[q].to
           r == [pc |-> "list", changes |-> {[old |-> from, new |-> to]}, moved |-> Takings(from)]
<1>1. req[q].pc = "move" /\ Becomes(q, r) /\ UNCHANGED <<tables, stray, requests>>
  BY DEF MoveRenames, At
<1>2. from \in Paths /\ to \in Paths
  BY <1>1 DEF RowsInv, TypesInv, Asked
<1>3. disk \in [Paths -> Things \cup {Gone}] /\ Made \in Things \cup {Gone}
  BY DEF RowsInv, TypesInv, Things
<1>4. disk' = [p \in Paths |->
            IF Below(p, to) THEN LET o == from \o SubSeq(p, Len(to) + 1, Len(p))
                                 IN  IF o \in Paths THEN disk[o] ELSE Gone
            ELSE IF Below(p, from) THEN Gone
            ELSE IF Below(to, p) /\ disk[p] = Gone THEN Made
            ELSE disk[p]]
  BY DEF MoveRenames
<1>5. disk' \in [Paths -> Things \cup {Gone}]
  BY <1>3, <1>4
<1>6. r.pc \in Changing /\ r.changes \subseteq Change
  BY <1>2 DEF Changing, Change
<1>7. req[q].pc \notin Held
  BY <1>1 DEF Held
<1> HIDE DEF r
<1>8. QED
  BY <1>1, <1>5, <1>6, <1>7, ChangesOn

LEMMA DeletePathsStep ==
    ASSUME RowsInv, NEW q \in Clients, NEW paths, DeletePaths(q, paths)
    PROVE  RowsInv'
<1> DEFINE r == [pc |-> "remove", targets |-> {p \in paths : disk[p] # Gone}, changes |-> {}, moved |-> {}]
<1>1. Asks(q, r) /\ UNCHANGED <<disk, tables, stray>>
  BY DEF DeletePaths
<1>2. Asked(r) /\ r.pc \notin Held
  BY DEF Asked, Pcs, Held, Changing
<1> HIDE DEF r
<1>3. /\ req[q].pc \notin Held /\ req' = [req EXCEPT ![q] = r]
      /\ requests' \in requests..MaxRequests
  BY <1>1, AsksMore
<1>4. disk' \in [Paths -> Things \cup {Gone}] /\ UNCHANGED <<tables, stray>>
  BY <1>1 DEF RowsInv, TypesInv
<1>5. QED
  BY <1>2, <1>3, <1>4, AsksApart

LEMMA RemoveOneStep ==
    ASSUME RowsInv, NEW q \in Clients, NEW path \in Paths, RemoveOne(q, path)
    PROVE  RowsInv'
<1> DEFINE left == req[q].targets \ {path}
           r == [pc |-> IF left = {} THEN "list" ELSE "remove", targets |-> left,
                 changes |-> req[q].changes \cup {[old |-> path, new |-> <<>>]},
                 moved |-> req[q].moved \cup Takings(path)]
<1>1. req[q].pc = "remove" /\ Becomes(q, r) /\ UNCHANGED <<tables, stray, requests>>
  BY DEF RemoveOne, At
<1>2. disk' = [p \in Paths |-> IF Below(p, path) THEN Gone ELSE disk[p]]
  BY DEF RemoveOne
<1>3. disk' \in [Paths -> Things \cup {Gone}]
  BY <1>2 DEF RowsInv, TypesInv
<1>4. req[q].changes \subseteq Change /\ req[q].pc \notin Held
  BY <1>1 DEF RowsInv, TypesInv, Asked, Changing, Held
<1>5. r.pc \in Changing /\ r.changes \subseteq Change
  BY <1>4 DEF Changing, Change
<1> HIDE DEF r
<1>6. QED
  BY <1>1, <1>3, <1>4, <1>5, ChangesOn

LEMMA RemoveFailsStep ==
    ASSUME RowsInv, NEW q \in Clients, NEW path, NEW part, RemoveFails(q, path, part)
    PROVE  RowsInv'
<1> DEFINE r == [pc |-> "list", changes |-> req[q].changes, moved |-> req[q].moved]
<1>1. /\ req[q].pc = "remove" /\ UNCHANGED <<tables, stray, requests>>
      /\ Becomes(q, IF req[q].changes = {} THEN Idle ELSE r)
      /\ disk' = [p \in Paths |-> IF p \in part THEN Gone ELSE disk[p]]
  BY DEF RemoveFails, At
<1>2. disk' \in [Paths -> Things \cup {Gone}]
  BY <1>1 DEF RowsInv, TypesInv
<1>3. req[q].changes \subseteq Change /\ req[q].pc \notin Held
  BY <1>1 DEF RowsInv, TypesInv, Asked, Changing, Held
<1>4. r.pc \in Changing /\ r.changes \subseteq Change
  BY <1>3 DEF Changing
<1> HIDE DEF r
<1>5. CASE req[q].changes = {}
  BY <1>1, <1>2, <1>3, <1>5, EndsStep
<1>6. CASE req[q].changes # {}
  BY <1>1, <1>2, <1>3, <1>4, <1>6, ChangesOn
<1>7. QED
  BY <1>5, <1>6

LEMMA UpdateFilesStep ==
    ASSUME RowsInv, NEW q \in Clients, List(q) \/ Bans(q) \/ Sources(q)
    PROVE  RowsInv'
<1>1. req[q].pc \in Changing /\ UNCHANGED <<disk, tables, stray, requests>>
  BY DEF List, Bans, Sources, At, Changing
<1>2. req[q].changes \subseteq Change /\ req[q].pc \notin Held
  BY <1>1 DEF RowsInv, TypesInv, Asked, Changing, Held
<1>3. disk' \in [Paths -> Things \cup {Gone}] /\ UNCHANGED <<tables, stray, requests>>
  BY <1>1 DEF RowsInv, TypesInv
<1>4. CASE List(q)
  <2> DEFINE r == [pc |-> "rewrite", changes |-> req[q].changes, moved |-> req[q].moved, listed |-> rows]
  <2>1. Becomes(q, r) /\ r.pc \in Changing /\ r.changes \subseteq Change
    BY <1>2, <1>4 DEF List, Changing
  <2> HIDE DEF r
  <2>2. QED
    BY <1>2, <1>3, <2>1, ChangesOn
<1>5. CASE Bans(q)
  <2> DEFINE r == [pc |-> "sources", changes |-> req[q].changes, moved |-> req[q].moved]
  <2>1. Becomes(q, r) /\ r.pc \in Changing /\ r.changes \subseteq Change
    BY <1>2, <1>5 DEF Bans, Changing
  <2> HIDE DEF r
  <2>2. QED
    BY <1>2, <1>3, <2>1, ChangesOn
<1>6. CASE Sources(q)
  <2>1. Becomes(q, Idle)
    BY <1>6 DEF Sources
  <2>2. QED
    BY <1>2, <1>3, <2>1, EndsStep
<1>7. QED
  BY <1>4, <1>5, <1>6

(* Bans and arrivals are no steps of a request that runs.                  *)
LEMMA AtOnceStep ==
    ASSUME RowsInv, UNCHANGED <<tables, stray, req>>, disk' \in [Paths -> Things \cup {Gone}],
           requests < MaxRequests, requests' = requests + 1
    PROVE  RowsInv'
<1>1. requests' \in requests..MaxRequests
  BY BoundAssumption DEF RowsInv, TypesInv
<1>2. req' = [w \in Clients |-> req'[w]] /\ \A w \in Clients : req'[w] = req[w]
  BY DEF RowsInv, TypesInv
<1>3. QED
  BY <1>1, <1>2, Apart

----------------------------------------------------------------------------
(* The changes of playlists.                                               *)
LEMMA HolderIs ==
    ASSUME RowsInv, NEW q \in Clients, req[q].pc \in Held
    PROVE  mu = q
BY DEF RowsInv, OneHolder

LEMMA CreateStep ==
    ASSUME RowsInv, NEW q \in Clients, NEW name \in Names, NEW paths \in SUBSET FilePaths, Create(q, name, paths)
    PROVE  RowsInv'
<1> DEFINE r == [pc |-> "created", id |-> lastId + 1, name |-> name, set |-> paths]
<1>1. /\ m3u[name] = NoFile /\ ~HasName(name) /\ lastId' = lastId + 1
      /\ rows' = [rows EXCEPT ![lastId + 1] = name]
      /\ Asks(q, r) /\ mu = Nobody /\ mu' = q /\ UNCHANGED <<disk, m3u, stray>>
  BY DEF Create, CreatePlaylist, Takes
<1>2. /\ req' = [req EXCEPT ![q] = r] /\ requests' \in 0..MaxRequests /\ requests' = requests + 1
      /\ requests \in Nat
  BY <1>1, AsksMore
<1>3. lastId \in 1..(requests + 1) /\ MaxRequests \in Nat
  BY BoundAssumption DEF RowsInv, TypesInv
<1>4. lastId + 1 \in Ids /\ lastId' \in 1..(requests' + 1) /\ lastId' \in Int /\ lastId' >= lastId /\ lastId \in Int
      /\ lastId + 1 <= lastId'
  BY <1>1, <1>2, <1>3 DEF Ids
<1>5. rows[lastId + 1] = NoName
  <2>1. lastId + 1 > lastId
    BY <1>4
  <2>2. QED
    BY <1>4, <2>1 DEF RowsInv, RowsUnique
<1>6. /\ rows' \in [Ids -> Names \cup {NoName}]
      /\ RowsUnique'
      /\ \A n \in Names : HasName(n)' <=> n = name \/ (HasName(n) /\ n # NoName)
  BY <1>1, <1>4, <1>5, SetRow DEF RowsInv
<1>7. r \in Creating /\ r.pc = "created" /\ r.id = lastId + 1 /\ r.name = name
  BY <1>4 DEF Creating, Pcs, Held
<1> HIDE DEF r
<1>8. Asked(r) /\ r.pc \in Held
  BY <1>7 DEF Asked, Pcs, Held, Changing
<1>9. req'[q] = r
  BY <1>2, <1>8, OneAsks DEF RowsInv
<1>10. rows'[r.id] = name
  BY <1>1, <1>4, <1>7 DEF RowsInv, TypesInv
<1>11. Midway(q)'
  BY <1>1, <1>7, <1>9, <1>10 DEF Midway, At
<1>12. ASSUME NEW n \in Names \ stray PROVE Agrees(n)' \/ Between(q, n)'
  <2>1. CASE n = name
    BY <1>7, <1>9, <2>1 DEF Between, At
  <2>2. CASE n # name
    <3>1. Agrees(n)
      BY <1>1, Resting, AsksMore DEF Held
    <3>2. QED
      BY <1>1, <1>6, <2>2, <3>1, NamesAssumption DEF Agrees
  <2>3. QED
    BY <2>1, <2>2
<1>13. m3u' \in [Names -> (SUBSET Refs) \cup {NoFile}] /\ disk' = disk /\ stray' = stray
  BY <1>1 DEF RowsInv, TypesInv
<1>14. QED
  BY <1>1, <1>2, <1>4, <1>6, <1>8, <1>11, <1>12, <1>13, GoesHalfway

LEMMA CreateWritesStep ==
    ASSUME RowsInv, NEW q \in Clients, CreateWrites(q)
    PROVE  RowsInv'
<1> DEFINE name == req[q].name
<1>1. /\ req[q].pc = "created" /\ m3u' = [m3u EXCEPT ![name] = RefsTo(req[q].set)]
      /\ mu' = Nobody /\ req' = [req EXCEPT ![q] = Idle]
      /\ UNCHANGED <<disk, rows, lastId, requests, stray>>
  BY DEF CreateWrites, At, Becomes
<1>2. mu = q
  BY <1>1, HolderIs DEF Held
<1>3. req[q] \in Creating /\ rows[req[q].id] = name
  BY <1>1 DEF RowsInv, TypesInv, Asked, Midway, At
<1>4. name \in Names /\ req[q].id \in Ids /\ req[q].set \in SUBSET FilePaths
  BY <1>3 DEF Creating
<1>5. RefsTo(req[q].set) \in SUBSET Refs
  BY <1>4, RefsAreRefs DEF RowsInv, TypesInv
<1>6. m3u' \in [Names -> (SUBSET Refs) \cup {NoFile}] /\ m3u'[name] # NoFile
  BY <1>1, <1>4, <1>5, ListIsFile DEF RowsInv, TypesInv
<1>7. ASSUME NEW n \in Names \ stray PROVE Agrees(n)'
  <2>1. CASE n = name
    BY <1>1, <1>3, <1>4, <1>6, <2>1 DEF Agrees, HasName
  <2>2. CASE n # name
    <3>1. Agrees(n)
      BY <1>1, <1>2, <2>2, Outside DEF Between, At
    <3>2. m3u'[n] = m3u[n]
      BY <1>1, <2>2 DEF RowsInv, TypesInv
    <3>3. QED
      BY <1>1, <3>1, <3>2 DEF Agrees, HasName
  <2>3. QED
    BY <2>1, <2>2
<1>8. /\ rows' \in [Ids -> Names \cup {NoName}] /\ RowsUnique' /\ disk' \in [Paths -> Things \cup {Gone}]
      /\ lastId' = lastId /\ requests' = requests /\ stray' = stray
  BY <1>1 DEF RowsInv, TypesInv, RowsUnique
<1>9. Asked(Idle) /\ Idle.pc \notin Held
  BY IdleIsAsked DEF Held
<1>10. QED
  BY <1>1, <1>2, <1>6, <1>7, <1>8, <1>9, LetsGo

LEMMA CreateFailsStep ==
    ASSUME RowsInv, NEW q \in Clients, CreateFails(q)
    PROVE  RowsInv'
<1> DEFINE name == req[q].name
           id == req[q].id
<1>1. /\ req[q].pc = "created" /\ rows' = [rows EXCEPT ![id] = NoName]
      /\ mu' = Nobody /\ req' = [req EXCEPT ![q] = Idle]
      /\ UNCHANGED <<disk, m3u, lastId, requests, stray>>
  BY DEF CreateFails, At, Becomes
<1>2. mu = q
  BY <1>1, HolderIs DEF Held
<1>3. req[q] \in Creating /\ rows[id] = name /\ m3u[name] = NoFile
  BY <1>1 DEF RowsInv, TypesInv, Asked, Midway, At
<1>4. name \in Names /\ id \in Ids
  BY <1>3 DEF Creating
<1>5. lastId' \in Int /\ lastId' >= lastId
  BY <1>1 DEF RowsInv, TypesInv
<1>6. /\ rows' \in [Ids -> Names \cup {NoName}]
      /\ RowsUnique'
      /\ \A n \in Names : HasName(n)' <=> n = NoName \/ (HasName(n) /\ n # name)
  BY <1>1, <1>3, <1>4, <1>5, SetRow DEF RowsInv
<1>7. ASSUME NEW n \in Names \ stray PROVE Agrees(n)'
  <2>1. CASE n = name
    BY <1>1, <1>3, <1>6, <2>1, NamesAssumption DEF Agrees
  <2>2. CASE n # name
    <3>1. Agrees(n)
      BY <1>1, <1>2, <2>2, Outside DEF Between, At
    <3>2. QED
      BY <1>1, <1>6, <2>2, <3>1, NamesAssumption DEF Agrees
  <2>3. QED
    BY <2>1, <2>2
<1>8. /\ m3u' \in [Names -> (SUBSET Refs) \cup {NoFile}] /\ disk' \in [Paths -> Things \cup {Gone}]
      /\ lastId' = lastId /\ requests' = requests /\ stray' = stray
  BY <1>1 DEF RowsInv, TypesInv
<1>9. Asked(Idle) /\ Idle.pc \notin Held
  BY IdleIsAsked DEF Held
<1>10. QED
  BY <1>1, <1>2, <1>6, <1>7, <1>8, <1>9, LetsGo

LEMMA RenameRowStep ==
    ASSUME RowsInv, NEW q \in Clients, RenameRow(q)
    PROVE  RowsInv'
<1> DEFINE name == req[q].name
           to == req[q].to
           id == req[q].id
           r == [req[q] EXCEPT !.pc = "renamed"]
<1>1. /\ req[q].pc = "update" /\ to # NoName /\ m3u[to] = NoFile /\ ~HasName(to)
      /\ mu = Nobody /\ mu' = q
      /\ rows' = IF rows[id] = NoName \/ HasName(to) THEN rows ELSE [rows EXCEPT ![id] = to]
      /\ stray' = IF rows[id] # name \/ m3u[name] = NoFile
                  THEN stray \cup ({name, to, rows[id]} \ {NoName}) ELSE stray
      /\ req' = [req EXCEPT ![q].pc = "renamed"]
      /\ UNCHANGED <<disk, m3u, lastId, requests>>
  BY DEF RenameRow, At, Takes, Taken, RenamePlaylist, Stale, GetPlaylist
<1>2. req[q] \in Changes /\ to # name
  BY <1>1 DEF RowsInv, TypesInv, Asked
<1>3. name \in Names /\ to \in Names /\ id \in Ids /\ name # NoName
  BY <1>1, <1>2, NamesAssumption DEF Changes
<1>4. /\ r \in Changes /\ r.pc = "renamed" /\ r.name = name /\ r.to = to /\ r.id = id
      /\ req' = [req EXCEPT ![q] = r]
  BY <1>1, <1>2 DEF Changes, Pcs, Held
<1> HIDE DEF r
<1>5. Asked(r) /\ r.pc \in Held
  BY <1>2, <1>3, <1>4 DEF Asked, Pcs, Held, Changing
<1>6. req'[q] = r
  BY <1>4, <1>5, OneAsks DEF RowsInv
<1>7. lastId' \in Int /\ lastId' >= lastId /\ lastId \in Int /\ Ids \subseteq Int
  BY <1>1, BoundAssumption DEF RowsInv, TypesInv, Ids
<1>8. /\ rows' \in [Ids -> Names \cup {NoName}]
      /\ RowsUnique'
      /\ rows[id] = NoName => rows' = rows
      /\ rows[id] # NoName =>
           /\ rows'[id] = to
           /\ \A n \in Names : HasName(n)' <=> n = to \/ (HasName(n) /\ n # rows[id])
  <2>1. CASE rows[id] = NoName
    BY <1>1, <2>1 DEF RowsInv, TypesInv, RowsUnique
  <2>2. CASE rows[id] # NoName
    <3>1. rows' = [rows EXCEPT ![id] = to]
      BY <1>1, <2>2
    <3>2. id <= lastId'
      BY <1>1, <1>3, <1>7, <2>2 DEF RowsInv, RowsUnique
    <3>3. rows'[id] = to
      BY <1>3, <3>1 DEF RowsInv, TypesInv
    <3>4. QED
      BY <1>1, <1>3, <1>7, <2>2, <3>1, <3>2, <3>3, SetRow DEF RowsInv
  <2>3. QED
    BY <2>1, <2>2
<1>9. /\ m3u'[to] = NoFile /\ rows'[id] \in {to, NoName}
  BY <1>1, <1>8
<1>10. \/ {name, to} \subseteq stray'
       \/ rows'[id] = to /\ m3u'[name] # NoFile /\ ~HasName(name)'
  <2>1. CASE rows[id] # name \/ m3u[name] = NoFile
    BY <1>1, <1>3, <2>1, NamesAssumption
  <2>2. CASE rows[id] = name /\ m3u[name] # NoFile
    BY <1>1, <1>2, <1>3, <1>8, <2>2
  <2>3. QED
    BY <2>1, <2>2
<1>11. Midway(q)'
  BY <1>4, <1>6, <1>9, <1>10 DEF Midway, At
<1>12. ASSUME NEW n \in Names \ stray' PROVE Agrees(n)' \/ Between(q, n)'
  <2>1. CASE n \in {name, to}
    BY <1>4, <1>6, <2>1 DEF Between, At
  <2>2. CASE n \notin {name, to}
    <3>1. Agrees(n) /\ n # NoName
      <4>1. n \notin stray
        BY <1>1, <1>12
      <4>2. QED
        BY <1>1, <4>1, Resting, NamesAssumption
    <3>2. n # rows[id]
      BY <1>1, <1>12, <2>2, NamesAssumption
    <3>3. HasName(n)' <=> HasName(n)
      BY <1>8, <2>2, <3>2 DEF HasName
    <3>4. QED
      BY <1>1, <3>1, <3>3 DEF Agrees
  <2>3. QED
    BY <2>1, <2>2
<1>13. /\ m3u' \in [Names -> (SUBSET Refs) \cup {NoFile}] /\ disk' = disk
       /\ lastId' \in 1..(requests' + 1) /\ requests' \in 0..MaxRequests
  BY <1>1 DEF RowsInv, TypesInv
<1>14. QED
  BY <1>1, <1>4, <1>5, <1>8, <1>11, <1>12, <1>13, GoesHalfway

(* Where the handler goes on is something it may be asked.                 *)
LEMMA RestIsAsked ==
    ASSUME NEW r \in Changes, r.to # r.name, r.pc = "update"
    PROVE  Asked(Rest(r)) /\ Rest(r).pc \notin Held
<1>1. Asked(r) /\ r.pc \notin Held
  BY DEF Asked, Pcs, Held, Changing
<1>2. Asked(Idle) /\ Idle.pc \notin Held
  BY IdleIsAsked DEF Held
<1>3. QED
  BY <1>1, <1>2 DEF Rest

LEMMA RenameFileStep ==
    ASSUME RowsInv, NEW q \in Clients, RenameFile(q)
    PROVE  RowsInv'
<1> DEFINE name == req[q].name
           to == req[q].to
           id == req[q].id
           r == [req[q] EXCEPT !.pc = "update", !.name = to, !.to = NoName]
<1>1. /\ req[q].pc = "renamed"
      /\ m3u' = IF m3u[name] = NoFile THEN m3u
                ELSE [m3u EXCEPT ![to] = m3u[name], ![name] = NoFile]
      /\ mu' = Nobody
      /\ req' = [req EXCEPT ![q] = Rest(r)]
      /\ UNCHANGED <<disk, rows, lastId, requests, stray>>
  BY DEF RenameFile, At, Becomes
<1>2. mu = q
  BY <1>1, HolderIs DEF Held
<1>3. req[q] \in Changes /\ to \in Names /\ to # name
  BY <1>1 DEF RowsInv, TypesInv, Asked
<1>4. name \in Names /\ id \in Ids
  BY <1>3 DEF Changes
<1>5. /\ r \in Changes /\ r.pc = "update" /\ r.name = to /\ r.to = NoName
  BY <1>3 DEF Changes, Pcs
<1> HIDE DEF r
<1>6. Asked(Rest(r)) /\ Rest(r).pc \notin Held
  BY <1>3, <1>5, NamesAssumption, RestIsAsked
<1>7. /\ m3u[to] = NoFile
      /\ \/ {name, to} \subseteq stray
         \/ rows[id] = to /\ m3u[name] # NoFile /\ ~HasName(name)
  BY <1>1 DEF RowsInv, Midway, At
<1>8. /\ m3u' \in [Names -> (SUBSET Refs) \cup {NoFile}]
      /\ \A n \in Names \ {name, to} : m3u'[n] = m3u[n]
      /\ m3u[name] # NoFile => m3u'[to] = m3u[name] /\ m3u'[name] = NoFile
  BY <1>1, <1>3, <1>4 DEF RowsInv, TypesInv
<1>9. ASSUME NEW n \in Names \ stray PROVE Agrees(n)'
  <2>1. CASE n \notin {name, to}
    <3>1. Agrees(n)
      BY <1>1, <1>2, <2>1, Outside DEF Between, At
    <3>2. QED
      BY <1>1, <1>8, <2>1, <3>1 DEF Agrees, HasName
  <2>2. CASE n = name
    <3>1. m3u[name] # NoFile /\ ~HasName(name)
      BY <1>7, <2>2
    <3>2. QED
      BY <1>1, <1>8, <2>2, <3>1 DEF Agrees, HasName
  <2>3. CASE n = to
    <3>1. rows[id] = to /\ m3u[name] # NoFile
      BY <1>7, <2>3
    <3>2. QED
      BY <1>1, <1>4, <1>8, <2>3, <3>1 DEF Agrees, HasName
  <2>4. QED
    BY <2>1, <2>2, <2>3
<1>10. /\ rows' \in [Ids -> Names \cup {NoName}] /\ RowsUnique' /\ disk' \in [Paths -> Things \cup {Gone}]
       /\ lastId' = lastId /\ requests' = requests /\ stray' = stray
  BY <1>1 DEF RowsInv, TypesInv, RowsUnique
<1>11. QED
  BY <1>1, <1>2, <1>6, <1>8, <1>9, <1>10, LetsGo

LEMMA RenameFailsStep ==
    ASSUME RowsInv, NEW q \in Clients, RenameFails(q)
    PROVE  RowsInv'
<1> DEFINE name == req[q].name
           to == req[q].to
           id == req[q].id
<1>1. /\ req[q].pc = "renamed"
      /\ rows' = IF rows[id] = NoName \/ HasName(name) THEN rows ELSE [rows EXCEPT ![id] = name]
      /\ mu' = Nobody /\ req' = [req EXCEPT ![q] = Idle]
      /\ UNCHANGED <<disk, m3u, lastId, requests, stray>>
  BY DEF RenameFails, At, Becomes, RenamePlaylist
<1>2. mu = q
  BY <1>1, HolderIs DEF Held
<1>3. req[q] \in Changes /\ to \in Names /\ to # name
  BY <1>1 DEF RowsInv, TypesInv, Asked
<1>4. name \in Names /\ id \in Ids /\ to # NoName /\ name # NoName
  BY <1>3, NamesAssumption DEF Changes
<1>5. /\ m3u[to] = NoFile /\ rows[id] \in {to, NoName}
      /\ \/ {name, to} \subseteq stray
         \/ rows[id] = to /\ m3u[name] # NoFile /\ ~HasName(name)
  BY <1>1 DEF RowsInv, Midway, At
<1>6. lastId' \in Int /\ lastId' >= lastId /\ lastId \in Int /\ Ids \subseteq Int
  BY <1>1, BoundAssumption DEF RowsInv, TypesInv, Ids
<1>7. /\ rows' \in [Ids -> Names \cup {NoName}]
      /\ RowsUnique'
      /\ \/ rows' = rows /\ (rows[id] = NoName \/ HasName(name))
         \/ \A n \in Names : HasName(n)' <=> n = name \/ (HasName(n) /\ n # to)
  <2>1. CASE rows[id] = NoName \/ HasName(name)
    BY <1>1, <2>1 DEF RowsInv, TypesInv, RowsUnique
  <2>2. CASE rows[id] # NoName /\ ~HasName(name)
    <3>1. rows' = [rows EXCEPT ![id] = name] /\ rows[id] = to
      BY <1>1, <1>5, <2>2
    <3>2. id <= lastId'
      <4>1. ~(id > lastId)
        BY <1>4, <2>2 DEF RowsInv, RowsUnique
      <4>2. id \in Int /\ lastId' = lastId
        BY <1>1, <1>4, <1>6
      <4>3. QED
        BY <1>6, <4>1, <4>2
    <3>3. QED
      BY <1>4, <1>6, <2>2, <3>1, <3>2, SetRow DEF RowsInv
  <2>3. QED
    BY <2>1, <2>2
<1>8. ASSUME NEW n \in Names \ stray PROVE Agrees(n)'
  <2>1. CASE n \notin {name, to}
    <3>1. Agrees(n)
      BY <1>1, <1>2, <2>1, Outside DEF Between, At
    <3>2. HasName(n)' <=> HasName(n)
      BY <1>7, <2>1 DEF HasName
    <3>3. QED
      BY <1>1, <3>1, <3>2 DEF Agrees
  <2>2. CASE n \in {name, to}
    <3>1. rows[id] = to /\ m3u[name] # NoFile /\ ~HasName(name) /\ m3u[to] = NoFile
      BY <1>5, <2>2
    <3>2. HasName(n)' <=> n = name
      BY <1>3, <1>4, <1>7, <2>2, <3>1
    <3>3. QED
      BY <1>1, <1>3, <2>2, <3>1, <3>2 DEF Agrees
  <2>3. QED
    BY <2>1, <2>2
<1>9. /\ m3u' \in [Names -> (SUBSET Refs) \cup {NoFile}] /\ disk' \in [Paths -> Things \cup {Gone}]
      /\ lastId' = lastId /\ requests' = requests /\ stray' = stray
  BY <1>1 DEF RowsInv, TypesInv
<1>10. Asked(Idle) /\ Idle.pc \notin Held
  BY IdleIsAsked DEF Held
<1>11. QED
  BY <1>1, <1>2, <1>7, <1>8, <1>9, <1>10, LetsGo

LEMMA SetEntriesStep ==
    ASSUME RowsInv, NEW q \in Clients, SetEntries(q)
    PROVE  RowsInv'
<1> DEFINE name == req[q].name
           id == req[q].id
           r == [req[q] EXCEPT !.set = Same]
<1>1. /\ req[q].pc = "update" /\ req[q].to = NoName /\ req[q].set # Same /\ mu = Nobody
      /\ m3u' = [m3u EXCEPT ![name] = RefsTo(req[q].set)]
      /\ stray' = IF rows[id] # name THEN stray \cup {name} ELSE stray
      /\ req' = [req EXCEPT ![q] = Rest(r)]
      /\ UNCHANGED <<disk, rows, lastId, mu, requests>>
  BY DEF SetEntries, At, Becomes, Stale, GetPlaylist
<1>2. req[q] \in Changes /\ req[q].to # name
  BY <1>1 DEF RowsInv, TypesInv, Asked
<1>3. name \in Names /\ id \in Ids /\ req[q].set \in SUBSET FilePaths
  BY <1>1, <1>2 DEF Changes
<1>4. /\ r \in Changes /\ r.pc = "update" /\ r.name = name /\ r.to = req[q].to
  BY <1>1, <1>2 DEF Changes
<1> HIDE DEF r
<1>5. Asked(Rest(r)) /\ Rest(r).pc \notin Held
  BY <1>2, <1>4, RestIsAsked
<1>6. RefsTo(req[q].set) \in SUBSET Refs
  BY <1>3, RefsAreRefs DEF RowsInv, TypesInv
<1>7. /\ m3u' \in [Names -> (SUBSET Refs) \cup {NoFile}] /\ m3u'[name] # NoFile
      /\ \A n \in Names \ {name} : m3u'[n] = m3u[n]
  BY <1>1, <1>3, <1>6, ListIsFile DEF RowsInv, TypesInv
<1>8. ASSUME NEW n \in Names \ stray' PROVE Agrees(n)'
  <2>1. CASE n = name
    <3>1. rows[id] = name
      BY <1>1, <1>8, <2>1
    <3>2. QED
      BY <1>1, <1>3, <1>7, <2>1, <3>1 DEF Agrees, HasName
  <2>2. CASE n # name
    <3>1. Agrees(n)
      <4>1. n \notin stray
        BY <1>1, <1>8
      <4>2. QED
        BY <1>1, <4>1, Resting
    <3>2. QED
      BY <1>1, <1>7, <2>2, <3>1 DEF Agrees, HasName
  <2>3. QED
    BY <2>1, <2>2
<1>9. /\ rows' \in [Ids -> Names \cup {NoName}] /\ RowsUnique' /\ disk' \in [Paths -> Things \cup {Gone}]
      /\ lastId' = lastId /\ requests' = requests /\ mu' = Nobody
  BY <1>1 DEF RowsInv, TypesInv, RowsUnique
<1>10. QED
  BY <1>1, <1>5, <1>7, <1>8, <1>9, LetsGo

LEMMA AppendReadsStep ==
    ASSUME RowsInv, NEW q \in Clients, AppendReads(q)
    PROVE  RowsInv'
<1> DEFINE r == [pc |-> "appending", id |-> req[q].id, name |-> req[q].name,
                 append |-> req[q].append, read |-> Entries(req[q].name)]
<1>1. /\ req[q].pc = "update" /\ mu = Nobody /\ mu' = q
      /\ req' = [req EXCEPT ![q] = r]
      /\ UNCHANGED <<disk, rows, lastId, m3u, requests, stray>>
  BY DEF AppendReads, AppendMay, At, Becomes, Takes
<1>2. req[q] \in Changes
  BY <1>1 DEF RowsInv, TypesInv, Asked
<1>3. req[q].name \in Names /\ req[q].id \in Ids /\ req[q].append \in SUBSET FilePaths
  BY <1>2 DEF Changes
<1>4. Entries(req[q].name) \in SUBSET Refs
  BY <1>3, EntriesAreRefs DEF RowsInv, TypesInv
<1>5. r \in Appending /\ r.pc = "appending"
  BY <1>3, <1>4 DEF Appending, Pcs, Held
<1> HIDE DEF r
<1>6. Asked(r) /\ r.pc \in Held
  BY <1>5 DEF Asked, Pcs, Held, Changing
<1>7. req'[q] = r
  BY <1>1, <1>6, OneAsks DEF RowsInv
<1>8. Midway(q)'
  BY <1>5, <1>7 DEF Midway, At
<1>9. ASSUME NEW n \in Names \ stray' PROVE Agrees(n)' \/ Between(q, n)'
  <2>1. Agrees(n)
    BY <1>1, <1>9, Resting
  <2>2. QED
    BY <1>1, <2>1 DEF Agrees, HasName
<1>10. /\ rows' \in [Ids -> Names \cup {NoName}] /\ RowsUnique'
       /\ m3u' \in [Names -> (SUBSET Refs) \cup {NoFile}] /\ disk' = disk
       /\ lastId' \in 1..(requests' + 1) /\ requests' \in 0..MaxRequests
  BY <1>1 DEF RowsInv, TypesInv, RowsUnique
<1>11. QED
  BY <1>1, <1>6, <1>8, <1>9, <1>10, GoesHalfway

LEMMA AppendEndsStep ==
    ASSUME RowsInv, NEW q \in Clients, AppendWrites(q) \/ AppendFails(q)
    PROVE  RowsInv'
<1> DEFINE name == req[q].name
           id == req[q].id
           list == req[q].read \cup RefsTo(req[q].append)
<1>1. /\ req[q].pc = "appending" /\ mu' = Nobody
      /\ \/ /\ m3u' = [m3u EXCEPT ![name] = list]
            /\ stray' = IF rows[id] # name THEN stray \cup {name} ELSE stray
         \/ m3u' = m3u /\ stray' = stray
      /\ req' = [req EXCEPT ![q] = Idle]
      /\ UNCHANGED <<disk, rows, lastId, requests>>
  BY DEF AppendWrites, AppendFails, At, Becomes, Stale, GetPlaylist
<1>2. mu = q
  BY <1>1, HolderIs DEF Held
<1>3. req[q] \in Appending
  BY <1>1 DEF RowsInv, TypesInv, Asked
<1>4. name \in Names /\ id \in Ids /\ req[q].append \in SUBSET FilePaths /\ req[q].read \in SUBSET Refs
  BY <1>3 DEF Appending
<1>5. list \in SUBSET Refs
  BY <1>4, RefsAreRefs DEF RowsInv, TypesInv
<1>6. /\ m3u' \in [Names -> (SUBSET Refs) \cup {NoFile}]
      /\ \A n \in Names \ {name} : m3u'[n] = m3u[n]
      /\ \/ m3u'[name] = list
         \/ m3u'[name] = m3u[name] /\ stray' = stray
  <2>1. m3u \in [Names -> (SUBSET Refs) \cup {NoFile}]
    BY DEF RowsInv, TypesInv
  <2>2. \/ m3u' = [m3u EXCEPT ![name] = list]
        \/ m3u' = m3u /\ stray' = stray
    BY <1>1
  <2> HIDE DEF list
  <2>3. QED
    BY <1>4, <1>5, <2>1, <2>2
<1> HIDE DEF list
<1>7. \A n \in Names \ stray : Agrees(n)
  BY <1>1, <1>2, Resting
<1>8. ASSUME NEW n \in Names \ stray' PROVE Agrees(n)'
  <2>1. n \notin stray
    BY <1>1, <1>8
  <2>2. CASE n # name \/ m3u'[name] = m3u[name]
    BY <1>1, <1>6, <1>7, <2>1, <2>2 DEF Agrees, HasName
  <2>3. CASE n = name /\ m3u'[name] # m3u[name]
    <3>1. rows[id] = name
      BY <1>1, <1>8, <2>3
    <3>2. m3u'[name] # NoFile
      BY <1>5, <1>6, <2>3, ListIsFile
    <3>3. QED
      BY <1>1, <1>4, <2>3, <3>1, <3>2 DEF Agrees, HasName
  <2>4. QED
    BY <2>2, <2>3
<1>9. /\ rows' \in [Ids -> Names \cup {NoName}] /\ RowsUnique' /\ disk' \in [Paths -> Things \cup {Gone}]
      /\ lastId' = lastId /\ requests' = requests
  BY <1>1 DEF RowsInv, TypesInv, RowsUnique
<1>10. Asked(Idle) /\ Idle.pc \notin Held
  BY IdleIsAsked DEF Held
<1>11. QED
  BY <1>1, <1>2, <1>6, <1>8, <1>9, <1>10, LetsGo

LEMMA DeleteFileStep ==
    ASSUME RowsInv, NEW q \in Clients, DeleteFile(q)
    PROVE  RowsInv'
<1> DEFINE name == req[q].name
           id == req[q].id
           r == [req[q] EXCEPT !.pc = "deleted"]
<1>1. /\ req[q].pc = "delete" /\ mu = Nobody /\ mu' = q
      /\ m3u' = [m3u EXCEPT ![name] = NoFile]
      /\ stray' = IF rows[id] # name THEN stray \cup ({name, rows[id]} \ {NoName}) ELSE stray
      /\ req' = [req EXCEPT ![q].pc = "deleted"]
      /\ UNCHANGED <<disk, rows, lastId, requests>>
  BY DEF DeleteFile, At, Takes, Stale, GetPlaylist
<1>2. req[q] \in Deleting
  BY <1>1 DEF RowsInv, TypesInv, Asked
<1>3. name \in Names /\ id \in Ids
  BY <1>2 DEF Deleting
<1>4. /\ r \in Deleting /\ r.pc = "deleted" /\ r.name = name /\ r.id = id
      /\ req' = [req EXCEPT ![q] = r]
  BY <1>1, <1>2 DEF Deleting, Pcs, Held
<1> HIDE DEF r
<1>5. Asked(r) /\ r.pc \in Held
  BY <1>4 DEF Asked, Pcs, Held, Changing
<1>6. req'[q] = r
  BY <1>4, <1>5, OneAsks DEF RowsInv
<1>7. /\ m3u' \in [Names -> (SUBSET Refs) \cup {NoFile}] /\ m3u'[name] = NoFile
      /\ \A n \in Names \ {name} : m3u'[n] = m3u[n]
  BY <1>1, <1>3 DEF RowsInv, TypesInv
<1>8. {name, rows'[id]} \subseteq stray' \cup {NoName} \/ rows'[id] = name
  BY <1>1
<1>9. Midway(q)'
  BY <1>4, <1>6, <1>7, <1>8 DEF Midway, At
<1>10. ASSUME NEW n \in Names \ stray' PROVE Agrees(n)' \/ Between(q, n)'
  <2>1. CASE n = name
    BY <1>4, <1>6, <2>1 DEF Between, At
  <2>2. CASE n # name
    <3>1. Agrees(n)
      <4>1. n \notin stray
        BY <1>1, <1>10
      <4>2. QED
        BY <1>1, <4>1, Resting
    <3>2. QED
      BY <1>1, <1>7, <2>2, <3>1 DEF Agrees, HasName
  <2>3. QED
    BY <2>1, <2>2
<1>11. /\ rows' \in [Ids -> Names \cup {NoName}] /\ RowsUnique' /\ disk' = disk
       /\ lastId' \in 1..(requests' + 1) /\ requests' \in 0..MaxRequests
  BY <1>1 DEF RowsInv, TypesInv, RowsUnique
<1>12. QED
  BY <1>1, <1>4, <1>5, <1>7, <1>9, <1>10, <1>11, GoesHalfway

LEMMA DeleteRowStep ==
    ASSUME RowsInv, NEW q \in Clients, DeleteRow(q)
    PROVE  RowsInv'
<1> DEFINE name == req[q].name
           id == req[q].id
<1>1. /\ req[q].pc = "deleted" /\ rows' = [rows EXCEPT ![id] = NoName]
      /\ mu' = Nobody /\ req' = [req EXCEPT ![q] = Idle]
      /\ UNCHANGED <<disk, m3u, lastId, requests, stray>>
  BY DEF DeleteRow, At, Becomes
<1>2. mu = q
  BY <1>1, HolderIs DEF Held
<1>3. /\ req[q] \in Deleting /\ m3u[name] = NoFile
      /\ {name, rows[id]} \subseteq stray \cup {NoName} \/ rows[id] = name
  BY <1>1 DEF RowsInv, TypesInv, Asked, Midway, At
<1>4. name \in Names /\ id \in Ids
  BY <1>3 DEF Deleting
<1>5. lastId' \in Int /\ lastId' >= lastId
  BY <1>1 DEF RowsInv, TypesInv
<1>6. /\ rows' \in [Ids -> Names \cup {NoName}]
      /\ RowsUnique'
      /\ \A n \in Names : HasName(n)' <=> n = NoName \/ (HasName(n) /\ n # rows[id])
  BY <1>1, <1>4, <1>5, SetRow DEF RowsInv
<1>7. ASSUME NEW n \in Names \ stray PROVE Agrees(n)'
  <2>1. n # NoName
    BY NamesAssumption
  <2>2. CASE n = name
    <3>1. ~(HasName(n)')
      BY <1>3, <1>6, <2>1, <2>2
    <3>2. QED
      BY <1>1, <1>3, <2>2, <3>1 DEF Agrees
  <2>3. CASE n # name
    <3>1. Agrees(n)
      BY <1>1, <1>2, <2>3, Outside DEF Between, At
    <3>2. n # rows[id]
      BY <1>3, <2>1, <2>3
    <3>3. QED
      BY <1>1, <1>6, <2>1, <3>1, <3>2 DEF Agrees
  <2>4. QED
    BY <2>2, <2>3
<1>8. /\ m3u' \in [Names -> (SUBSET Refs) \cup {NoFile}] /\ disk' \in [Paths -> Things \cup {Gone}]
      /\ lastId' = lastId /\ requests' = requests /\ stray' = stray
  BY <1>1 DEF RowsInv, TypesInv
<1>9. Asked(Idle) /\ Idle.pc \notin Held
  BY IdleIsAsked DEF Held
<1>10. QED
  BY <1>1, <1>2, <1>6, <1>7, <1>8, <1>9, LetsGo

LEMMA DeleteRowFailsStep ==
    ASSUME RowsInv, NEW q \in Clients, DeleteRowFails(q)
    PROVE  RowsInv'
<1> DEFINE name == req[q].name
<1>1. /\ req[q].pc = "deleted" /\ stray' = stray \cup {name}
      /\ mu' = Nobody /\ req' = [req EXCEPT ![q] = Idle]
      /\ UNCHANGED <<disk, rows, m3u, lastId, requests>>
  BY DEF DeleteRowFails, At, Becomes
<1>2. mu = q
  BY <1>1, HolderIs DEF Held
<1>3. ASSUME NEW n \in Names \ stray' PROVE Agrees(n)'
  <2>1. n \notin stray /\ n # name
    BY <1>1, <1>3
  <2>2. Agrees(n)
    BY <1>1, <1>2, <2>1, Outside DEF Between, At
  <2>3. QED
    BY <1>1, <2>2 DEF Agrees, HasName
<1>4. /\ rows' \in [Ids -> Names \cup {NoName}] /\ RowsUnique'
      /\ m3u' \in [Names -> (SUBSET Refs) \cup {NoFile}] /\ disk' \in [Paths -> Things \cup {Gone}]
      /\ lastId' = lastId /\ requests' = requests
  BY <1>1 DEF RowsInv, TypesInv, RowsUnique
<1>5. Asked(Idle) /\ Idle.pc \notin Held
  BY IdleIsAsked DEF Held
<1>6. QED
  BY <1>1, <1>2, <1>3, <1>4, <1>5, LetsGo

(* Rewriting leaves every file a file, and makes none.                     *)
LEMMA RewriteStep ==
    ASSUME RowsInv, NEW q \in Clients, NEW failed, Rewrite(q, failed)
    PROVE  RowsInv'
<1> DEFINE changes == req[q].changes
           listed == Range(req[q].listed) \ {NoName}
           hit == {n \in listed : Rewritten(Entries(n), changes) # Entries(n)}
           r == [pc |-> "bans", changes |-> changes, moved |-> req[q].moved]
<1>1. /\ req[q].pc = "rewrite" /\ mu = Nobody /\ mu' = Nobody
      /\ m3u' = [n \in Names |-> IF n \in hit \ failed THEN Rewritten(m3u[n], changes) ELSE m3u[n]]
      /\ req' = [req EXCEPT ![q] = r]
      /\ UNCHANGED <<disk, rows, lastId, requests, stray>>
  BY Zenon DEF Rewrite, At, Becomes
<1>2. changes \in SUBSET Change
  BY <1>1 DEF RowsInv, TypesInv, Asked, Changing
<1>3. ASSUME NEW n \in Names
      PROVE  /\ m3u'[n] \in (SUBSET Refs) \cup {NoFile}
             /\ m3u'[n] # NoFile <=> m3u[n] # NoFile
  <2>1. m3u[n] \in (SUBSET Refs) \cup {NoFile}
    BY DEF RowsInv, TypesInv
  <2>2. CASE n \in hit \ failed
    <3>1. Entries(n) # {}
      <4>1. Rewritten(Entries(n), changes) # Entries(n)
        BY <2>2
      <4>2. QED
        BY <4>1, NothingToRewrite
    <3>2. m3u[n] \in SUBSET Refs /\ m3u[n] # NoFile
      BY <2>1, <3>1 DEF Entries
    <3>3. m3u'[n] = Rewritten(m3u[n], changes)
      BY <1>1, <2>2
    <3>4. m3u'[n] \in SUBSET Refs
      BY <1>2, <3>2, <3>3, RewrittenAreRefs
    <3>5. QED
      BY <3>2, <3>4, ListIsFile
  <2>3. CASE n \notin hit \ failed
    BY <1>1, <2>1, <2>3
  <2>4. QED
    BY <2>2, <2>3
<1> HIDE DEF hit
<1>4. m3u' \in [Names -> (SUBSET Refs) \cup {NoFile}]
  BY <1>1, <1>3
<1>5. Asked(r) /\ r.pc \notin Held
  BY <1>2 DEF Asked, Pcs, Held, Changing
<1> HIDE DEF r
<1>6. ASSUME NEW n \in Names \ stray' PROVE Agrees(n)'
  <2>1. Agrees(n)
    BY <1>1, <1>6, Resting
  <2>2. QED
    BY <1>1, <1>3, <2>1 DEF Agrees, HasName
<1>7. /\ rows' \in [Ids -> Names \cup {NoName}] /\ RowsUnique'
      /\ disk' \in [Paths -> Things \cup {Gone}]
      /\ lastId' = lastId /\ requests' = requests
  BY <1>1 DEF RowsInv, TypesInv, RowsUnique
<1>8. QED
  BY <1>1, <1>4, <1>5, <1>6, <1>7, LetsGo

(* A kill ends every request, and what was halfway is separated.           *)
LEMMA KillStep ==
    ASSUME RowsInv, Kill
    PROVE  RowsInv'
<1>1. /\ mu' = Nobody /\ req' = [q \in Clients |-> Idle]
      /\ UNCHANGED <<disk, rows, lastId, m3u, requests>>
  BY DEF Kill
<1>2. /\ stray \subseteq stray'
      /\ \A q \in Clients : /\ req[q].pc \in {"created", "renamed", "deleted"} => req[q].name \in stray'
                            /\ req[q].pc = "renamed" => req[q].to \in stray'
  BY DEF Kill, At
<1>3. ASSUME NEW n \in Names \ stray' PROVE Agrees(n)'
  <2>1. n \in Names \ stray
    BY <1>2, <1>3
  <2>2. \A q \in Clients : ~Between(q, n)
    BY <1>2, <1>3 DEF Between, At
  <2>3. Agrees(n)
    BY <2>1, <2>2 DEF RowsInv, Matched
  <2>4. QED
    BY <1>1, <2>3 DEF Agrees, HasName
<1>4. \A q \in Clients : req'[q] = Idle
  BY <1>1
<1>5. TypesInv'
  <2>1. /\ req' = [q \in Clients |-> req'[q]]
        /\ \A q \in Clients : Asked(req'[q])
    BY <1>1, <1>4, IdleIsAsked
  <2>2. QED
    BY <1>1, <2>1 DEF RowsInv, TypesInv
<1>6. RowsUnique'
  BY <1>1 DEF RowsInv, RowsUnique
<1>7. OneHolder'
  BY <1>1, <1>4, IdleIsAsked, ClientsAssumption DEF OneHolder, Held
<1>8. \A q \in Clients : Midway(q)'
  BY <1>4, IdleIsAsked DEF Midway, At
<1>9. Matched'
  BY <1>3 DEF Matched
<1>10. QED
  BY <1>5, <1>6, <1>7, <1>8, <1>9 DEF RowsInv

(* Bans and uploads are one step each, and leave the playlists alone.      *)
LEMMA BanStep ==
    ASSUME RowsInv, NEW q \in Clients, NEW x, Ban(q, x) \/ Allow(q, x)
    PROVE  RowsInv'
<1>1. /\ UNCHANGED <<disk, tables, stray, req>>
      /\ requests < MaxRequests /\ requests' = requests + 1
  BY DEF Ban, Allow
<1>2. disk' \in [Paths -> Things \cup {Gone}]
  BY <1>1 DEF RowsInv, TypesInv
<1>3. QED
  BY <1>1, <1>2, AtOnceStep

LEMMA ArrivesStep ==
    ASSUME RowsInv, NEW path \in Paths, Arrives(path)
    PROVE  RowsInv'
<1>1. /\ UNCHANGED <<tables, stray, req>>
      /\ requests < MaxRequests /\ requests' = requests + 1
      /\ disk' = [disk EXCEPT ![path] = Newcomer] /\ Newcomer \in Things \cup {Gone}
  BY DEF Arrives, Things
<1>2. disk' \in [Paths -> Things \cup {Gone}]
  BY <1>1 DEF RowsInv, TypesInv
<1>3. QED
  BY <1>1, <1>2, AtOnceStep

----------------------------------------------------------------------------
(* All steps, and the start.                                               *)
LEMMA AsksPlaylistStep ==
    ASSUME RowsInv, NEW q \in Clients, AsksPlaylist(q)
    PROVE  RowsInv'
<1>1. ASSUME NEW n \in Names, NEW p \in FilePaths, Create(q, n, {p}) PROVE RowsInv'
  <2>1. {p} \in SUBSET FilePaths
    BY DEF FilePaths
  <2>2. QED
    BY <1>1, <2>1, CreateStep
<1>2. ASSUME NEW id \in Ids, DeletePlaylist(q, id) PROVE RowsInv'
  BY <1>2, DeletePlaylistStep
<1>3. ASSUME NEW id \in Ids, NEW u \in Updates, Update(q, id, u) PROVE RowsInv'
  BY <1>3, UpdateStep
<1>4. QED
  BY <1>1, <1>2, <1>3, Zenon DEF AsksPlaylist

LEMMA ChangesPlaylistStep ==
    ASSUME RowsInv, NEW q \in Clients, ChangesPlaylist(q)
    PROVE  RowsInv'
BY CreateWritesStep, CreateFailsStep, RenameRowStep, RenameFileStep, RenameFailsStep, RefusedStep,
   SetEntriesStep, AppendReadsStep, AppendEndsStep, DeleteFileStep, DeleteRowStep, DeleteRowFailsStep,
   Zenon DEF ChangesPlaylist

LEMMA FileOperationStep ==
    ASSUME RowsInv, NEW q \in Clients, FileOperation(q)
    PROVE  RowsInv'
<1>1. ASSUME NEW m \in Moves, MoveChecks(q, m[1], m[2]) PROVE RowsInv'
  <2>1. m[1] \in Paths /\ m[2] \in Paths
    BY PathAssumption
  <2>2. QED
    BY <1>1, <2>1, MoveChecksStep
<1>2. ASSUME NEW ps \in Deletes, DeletePaths(q, ps) PROVE RowsInv'
  BY <1>2, DeletePathsStep
<1>3. ASSUME NEW p \in UNION Deletes, RemoveOne(q, p) PROVE RowsInv'
  <2>1. p \in Paths
    BY PathAssumption
  <2>2. QED
    BY <1>3, <2>1, RemoveOneStep
<1>4. ASSUME NEW p \in UNION Deletes, NEW part \in SUBSET FilePaths, RemoveFails(q, p, part) PROVE RowsInv'
  BY <1>4, RemoveFailsStep
<1>5. ASSUME NEW failed \in SUBSET Names, Rewrite(q, failed) PROVE RowsInv'
  BY <1>5, RewriteStep
<1>6. ASSUME NEW x, Ban(q, x) \/ Allow(q, x) PROVE RowsInv'
  BY <1>6, BanStep
<1>7. MoveRenames(q) \/ MoveFails(q) \/ List(q) \/ Bans(q) \/ Sources(q) => RowsInv'
  BY MoveRenamesStep, RefusedStep, UpdateFilesStep
<1>8. QED
  BY <1>1, <1>2, <1>3, <1>4, <1>5, <1>6, <1>7, Zenon DEF FileOperation

LEMMA StutterStep ==
    ASSUME RowsInv, UNCHANGED vars
    PROVE  RowsInv'
<1>1. UNCHANGED <<disk, tables, req, requests, stray>>
  BY DEF vars
<1>2. /\ disk' \in [Paths -> Things \cup {Gone}]
      /\ req' = [w \in Clients |-> req'[w]]
      /\ \A w \in Clients : req'[w] = req[w]
      /\ requests' = requests /\ UNCHANGED <<tables, stray>>
  BY <1>1 DEF RowsInv, TypesInv
<1>3. requests' \in requests..MaxRequests
  BY <1>2, KeepsCount
<1>4. QED
  BY <1>2, <1>3, Apart

LEMMA EveryStep ==
    ASSUME RowsInv, [Next]_vars
    PROVE  RowsInv'
<1>1. ASSUME NEW q \in Clients, AsksPlaylist(q) \/ ChangesPlaylist(q) \/ FileOperation(q) PROVE RowsInv'
  BY <1>1, AsksPlaylistStep, ChangesPlaylistStep, FileOperationStep
<1>2. ASSUME NEW p \in FilePaths, Arrives(p) PROVE RowsInv'
  BY <1>2, ArrivesStep DEF FilePaths
<1>3. QED
  BY <1>1, <1>2, KillStep, StutterStep, Zenon DEF Next

LEMMA InitRows == Init => RowsInv
<1> SUFFICES ASSUME Init PROVE RowsInv
  OBVIOUS
<1> DEFINE first == CHOOSE n \in Names : TRUE
           files == {r \in {[path |-> p, means |-> Start[p]] : p \in {p \in Paths : Start[p] # Gone}} : ~Folder(r.path)}
<1>1. first \in Names
  BY NamesAssumption
<1>2. /\ disk = Start /\ lastId = 1 /\ mu = Nobody /\ requests = 0 /\ stray = {}
      /\ rows = [id \in Ids |-> IF id = 1 THEN first ELSE NoName]
      /\ m3u = [n \in Names |-> IF n = first THEN files ELSE NoFile]
      /\ req = [q \in Clients |-> Idle]
  BY Zenon DEF Init
<1>3. files \in SUBSET Refs
  <2>1. ASSUME NEW p \in Paths, Start[p] # Gone PROVE [path |-> p, means |-> Start[p]] \in Refs
    BY PathAssumption, StartAssumption DEF Refs
  <2>2. QED
    BY <2>1
<1>4. files # NoFile
  BY <1>3, ListIsFile
<1> HIDE DEF first, files
<1>5. \A q \in Clients : req[q] = Idle
  BY <1>2
<1>6. 1 \in Ids /\ Ids \subseteq Int
  BY BoundAssumption DEF Ids
<1>7. TypesInv
  <2>1. /\ req = [q \in Clients |-> req[q]] /\ \A q \in Clients : Asked(req[q])
    BY <1>2, <1>5, IdleIsAsked
  <2>2. /\ disk \in [Paths -> Things \cup {Gone}]
        /\ lastId \in 1..(requests + 1) /\ requests \in 0..MaxRequests
    BY <1>2, StartAssumption, BoundAssumption
  <2>3. rows \in [Ids -> Names \cup {NoName}] /\ m3u \in [Names -> (SUBSET Refs) \cup {NoFile}]
    BY <1>1, <1>2, <1>3
  <2>4. QED
    BY <2>1, <2>2, <2>3 DEF TypesInv
<1>8. RowsUnique
  BY <1>2, <1>6 DEF RowsUnique
<1>9. OneHolder
  BY <1>2, <1>5, IdleIsAsked, ClientsAssumption DEF OneHolder, Held
<1>10. \A q \in Clients : Midway(q)
  BY <1>5, IdleIsAsked DEF Midway, At
<1>11. Matched
  <2>1. ASSUME NEW n \in Names PROVE Agrees(n)
    BY <1>1, <1>2, <1>4, <1>6, NamesAssumption DEF Agrees, HasName
  <2>2. QED
    BY <2>1 DEF Matched
<1>12. QED
  BY <1>7, <1>8, <1>9, <1>10, <1>11 DEF RowsInv

(* Whenever no request runs, a playlist has its .m3u file and a file its    *)
(* row (library/playlists.go): whatever requests create, rename, rewrite,   *)
(* append to and delete at once and however their writes fail, the two part *)
(* only for a name a request of a stale name, a failed delete of a row or a *)
(* kill has touched.                                                        *)
THEOREM RowsMatchFiles == Spec => []RowsHaveFiles
<1>1. RowsInv /\ [Next]_vars => RowsInv'
  BY EveryStep
<1>2. RowsInv => RowsHaveFiles
  <2>1. SUFFICES ASSUME RowsInv, AtRest, NEW n \in Names \ stray PROVE Agrees(n)
    BY DEF RowsHaveFiles, Agrees
  <2>2. \A q \in Clients : ~Between(q, n)
    BY <2>1 DEF AtRest, Between, At
  <2>3. QED
    BY <2>1, <2>2 DEF RowsInv, Matched
<1>3. QED
  BY InitRows, <1>1, <1>2, PTL DEF Spec

----------------------------------------------------------------------------
(* What an inspection names.  References that no change applies to stay as  *)
(* they are.                                                               *)
LEMMA UntouchedStay ==
    ASSUME NEW refs, NEW changes, \A r \in refs, c \in changes : ~Applies(c, r.path)
    PROVE  Rewritten(refs, changes) = refs
BY DEF Rewritten

LEMMA TouchedAreNamed ==
    ASSUME NEW n \in Names, NEW changes, Rewritten(Entries(n), changes) # Entries(n)
    PROVE  n \in Referencing({c.old : c \in changes})
<1>1. PICK r \in Entries(n), c \in changes : Applies(c, r.path)
  BY UntouchedStay
<1>2. QED
  BY <1>1 DEF Referencing, Applies

LEMMA MovedAreNamed ==
    ASSUME NEW changes, NEW olds, \A c \in changes : c.old \in olds
    PROVE  sources \ Rewritten(sources, changes) \subseteq DirectoryReferences(olds)
<1>1. SUFFICES ASSUME NEW r \in sources, r \notin Rewritten(sources, changes)
               PROVE  r \in DirectoryReferences(olds)
  OBVIOUS
<1>2. PICK c \in changes : Applies(c, r.path)
  BY <1>1 DEF Rewritten
<1>3. QED
  BY <1>2 DEF DirectoryReferences, Applies

(* Paths that are not there name nothing, and nothing happens to them.      *)
LEMMA InspectionTells == ASSUME NEW changes PROVE Told(changes)
<1> DEFINE there == {p \in {c.old : c \in changes} : disk[p] # Gone}
           real == {c \in changes : disk[c.old] # Gone}
           moves == {c \in real : c.new # <<>> /\ Folder(c.old)}
<1>1. there = {c.old : c \in real}
  OBVIOUS
<1>2. \A c \in moves : c.old \in there
  BY <1>1
<1> HIDE DEF there, real, moves
<1>3. {n \in Names : Rewritten(Entries(n), real) # Entries(n)} \subseteq Referencing(there)
  BY <1>1, TouchedAreNamed
<1>4. sources \ Rewritten(sources, moves) \subseteq DirectoryReferences(there)
  BY <1>2, MovedAreNamed
<1>5. QED
  BY <1>3, <1>4, Zenon DEF Told, Inspect, there, real, moves

(* A request moves by its own steps, or is killed.                         *)
LEMMA OwnStep ==
    ASSUME TypesInv, NEW q \in Clients, NEW w \in Clients, q # w,
           AsksPlaylist(w) \/ ChangesPlaylist(w) \/ FileOperation(w)
    PROVE  req'[q] = req[q]
<1>1. ASSUME NEW r, Becomes(w, r) PROVE req'[q] = req[q]
  BY <1>1 DEF Becomes, TypesInv
<1>2. ASSUME NEW r, Asks(w, r) PROVE req'[q] = req[q]
  BY <1>1, <1>2 DEF Asks
<1>3. AsksPlaylist(w) => req'[q] = req[q]
  BY <1>2 DEF AsksPlaylist, Create, DeletePlaylist, Update
<1>4. ChangesPlaylist(w) => req'[q] = req[q]
  <2>1. RenameRow(w) \/ DeleteFile(w) => req'[q] = req[q]
    BY DEF RenameRow, DeleteFile, TypesInv
  <2>2. QED
    BY <1>1, <2>1, Zenon DEF ChangesPlaylist, CreateWrites, CreateFails, RenameFile, RenameFails, RenameRefused,
       SetEntries, SetFails, AppendReads, AppendWrites, AppendFails, DeleteRefused, DeleteRow, DeleteRowFails
<1>5. FileOperation(w) => req'[q] = req[q]
  BY <1>1, <1>2, Zenon DEF FileOperation, MoveChecks, MoveRenames, MoveFails, DeletePaths, RemoveOne, RemoveFails,
     List, Rewrite, Bans, Sources, Ban, Allow
<1>6. QED
  BY <1>3, <1>4, <1>5

(* Nobody else brings an update on to the bans, or past the sources.       *)
LEMMA OnlyRewrites ==
    ASSUME TypesInv, Next, NEW q \in Clients, At(q, "rewrite"), req'[q].pc = "bans"
    PROVE  \E failed \in SUBSET Names : Rewrite(q, failed)
<1>1. ~Kill
  BY DEF Kill, Idle
<1>2. ~\E p \in FilePaths : Arrives(p)
  BY DEF Arrives, At
<1>3. PICK w \in Clients : AsksPlaylist(w) \/ ChangesPlaylist(w) \/ FileOperation(w)
  BY <1>1, <1>2 DEF Next
<1>4. w = q
  BY <1>3, OwnStep DEF At
<1>5. ~AsksPlaylist(q)
  BY DEF AsksPlaylist, Create, DeletePlaylist, Update, Asks, At
<1>6. ~ChangesPlaylist(q)
  BY DEF ChangesPlaylist, CreateWrites, CreateFails, RenameRow, RenameFile, RenameFails, RenameRefused,
     SetEntries, SetFails, AppendMay, AppendReads, AppendWrites, AppendFails, DeleteFile, DeleteRefused,
     DeleteRow, DeleteRowFails, At
<1>7. FileOperation(q) => \E failed \in SUBSET Names : Rewrite(q, failed)
  BY DEF FileOperation, MoveChecks, MoveRenames, MoveFails, DeletePaths, RemoveOne, RemoveFails, List, Bans,
     Sources, Ban, Allow, Asks, At
<1>8. QED
  BY <1>3, <1>4, <1>5, <1>6, <1>7

LEMMA OnlySources ==
    ASSUME TypesInv, Next, NEW q \in Clients, At(q, "sources"), req'[q].pc # "sources"
    PROVE  Sources(q) \/ sources' = sources
<1>1. Kill => sources' = sources
  BY DEF Kill
<1>2. ~\E p \in FilePaths : Arrives(p)
  BY DEF Arrives, At
<1>3. ASSUME NEW w \in Clients, AsksPlaylist(w) \/ ChangesPlaylist(w) \/ FileOperation(w) PROVE Sources(q)
  <2>1. w = q
    BY <1>3, OwnStep DEF At
  <2>2. ~AsksPlaylist(q)
    BY DEF AsksPlaylist, Create, DeletePlaylist, Update, Asks, At
  <2>3. ~ChangesPlaylist(q)
    BY DEF ChangesPlaylist, CreateWrites, CreateFails, RenameRow, RenameFile, RenameFails, RenameRefused,
       SetEntries, SetFails, AppendMay, AppendReads, AppendWrites, AppendFails, DeleteFile, DeleteRefused,
       DeleteRow, DeleteRowFails, At
  <2>4. FileOperation(q) => Sources(q)
    BY DEF FileOperation, MoveChecks, MoveRenames, MoveFails, DeletePaths, RemoveOne, RemoveFails, List, Rewrite,
       Bans, Ban, Allow, Asks, At
  <2>5. QED
    BY <1>3, <2>1, <2>2, <2>3, <2>4
<1>4. QED
  BY <1>1, <1>2, <1>3 DEF Next

LEMMA RewriteTouchesNamed ==
    ASSUME NEW q, NEW failed, Rewrite(q, failed), NEW n \in Names, m3u'[n] # m3u[n]
    PROVE  n \in Referencing({c.old : c \in req[q].changes})
<1>1. Rewritten(Entries(n), req[q].changes) # Entries(n)
  BY DEF Rewrite
<1>2. QED
  BY <1>1, TouchedAreNamed

LEMMA SourcesTouchesNamed ==
    ASSUME NEW q, Sources(q)
    PROVE  sources \ sources' \subseteq DirectoryReferences({c.old : c \in req[q].changes})
<1> DEFINE moves == {c \in req[q].changes : c.new # <<>> /\ Folder(c.old)}
<1>1. sources' = Rewritten(sources, moves) \/ sources' = sources
  BY DEF Sources
<1>2. \A c \in moves : c.old \in {d.old : d \in req[q].changes}
  OBVIOUS
<1>3. QED
  BY <1>1, <1>2, MovedAreNamed

(* Inspect (library/fileops.go) names every playlist and every source that  *)
(* a move or a delete would change, and updateReferences, which runs after  *)
(* it, changes none that points anywhere else, whatever other requests,     *)
(* failures and kills come in between.                                      *)
THEOREM InspectionIsComplete == Spec => InspectTells
<1>1. RowsInv /\ [Next]_vars => RowsInv'
  BY EveryStep
<1>2. RowsInv /\ [Next]_vars =>
        [\A q \in Clients :
           /\ At(q, "move") /\ req'[q].pc = "list" => Told(req'[q].changes)
           /\ At(q, "remove") /\ req'[q].pc # "idle" => Told(req'[q].changes \ req[q].changes)
           /\ Updating(q) =>
                LET olds == {c.old : c \in req[q].changes}
                IN  /\ (At(q, "rewrite") /\ req'[q].pc = "bans") =>
                          \A n \in Names : m3u'[n] # m3u[n] => n \in Referencing(olds)
                    /\ (At(q, "sources") /\ req'[q].pc # "sources") =>
                          sources \ sources' \subseteq DirectoryReferences(olds)]_vars
  <2>1. SUFFICES ASSUME TypesInv, Next, NEW q \in Clients
                 PROVE  /\ At(q, "rewrite") /\ req'[q].pc = "bans" =>
                             \A n \in Names : m3u'[n] # m3u[n] => n \in Referencing({c.old : c \in req[q].changes})
                        /\ At(q, "sources") /\ req'[q].pc # "sources" =>
                             sources \ sources' \subseteq DirectoryReferences({c.old : c \in req[q].changes})
    BY InspectionTells DEF RowsInv
  <2>2. ASSUME At(q, "rewrite"), req'[q].pc = "bans", NEW n \in Names, m3u'[n] # m3u[n]
        PROVE  n \in Referencing({c.old : c \in req[q].changes})
    BY <2>1, <2>2, OnlyRewrites, RewriteTouchesNamed
  <2>3. ASSUME At(q, "sources"), req'[q].pc # "sources"
        PROVE  sources \ sources' \subseteq DirectoryReferences({c.old : c \in req[q].changes})
    BY <2>1, <2>3, OnlySources, SourcesTouchesNamed
  <2>4. QED
    BY <2>2, <2>3
<1>3. QED
  BY InitRows, <1>1, <1>2, PTL DEF Spec, InspectTells

----------------------------------------------------------------------------
(* Paths below paths.                                                      *)
LEMMA PathFacts ==
    ASSUME NEW p \in Paths
    PROVE  p \in Seq(PathNames) /\ Len(p) \in {1, 2} /\ p # <<>>
<1>1. p \in Seq(PathNames) /\ Len(p) \in {1, 2}
  BY PathAssumption
<1>2. Len(<<>>) = 0
  OBVIOUS
<1>3. QED
  BY <1>1, <1>2

LEMMA BelowStarts ==
    ASSUME NEW p \in Seq(PathNames), NEW a \in Seq(PathNames)
    PROVE  Below(p, a) <=> Len(a) <= Len(p) /\ \A i \in 1..Len(a) : p[i] = a[i]
<1>1. Len(a) \in Nat /\ Len(p) \in Nat
  BY LenProperties
<1>2. SubSeq(a, 1, Len(a)) = [i \in 1..Len(a) |-> a[i]]
  BY <1>1
<1>3. Len(a) <= Len(p) => SubSeq(p, 1, Len(a)) = [i \in 1..Len(a) |-> p[i]]
  BY <1>1
<1>4. QED
  BY <1>1, <1>2, <1>3 DEF Below, IsPrefix

LEMMA BelowIsLonger ==
    ASSUME NEW p \in Seq(PathNames), NEW a \in Seq(PathNames), Below(p, a)
    PROVE  Len(a) <= Len(p)
BY BelowStarts

LEMMA SamePrefix ==
    ASSUME NEW p \in Seq(PathNames), NEW a \in Seq(PathNames), NEW b \in Seq(PathNames),
           Below(p, a), Below(p, b), Len(a) = Len(b)
    PROVE  a = b
<1>1. \A i \in 1..Len(a) : a[i] = b[i]
  BY BelowStarts
<1>2. QED
  BY <1>1, SeqEqual

LEMMA BelowItself == ASSUME NEW p \in Seq(PathNames) PROVE Below(p, p)
<1>1. Len(p) \in Nat
  BY LenProperties
<1>2. QED
  BY <1>1, BelowStarts

(* What is below one path goes below another of the same length, and back. *)
Carried(p, from, to) == to \o SubSeq(p, Len(from) + 1, Len(p))

LEMMA CarriedThere ==
    ASSUME NEW p \in Seq(PathNames), NEW from \in Seq(PathNames), NEW to \in Seq(PathNames),
           Below(p, from), Len(from) = Len(to)
    PROVE  /\ Carried(p, from, to) \in Seq(PathNames)
           /\ Len(Carried(p, from, to)) = Len(p)
           /\ Below(Carried(p, from, to), to)
           /\ Carried(Carried(p, from, to), to, from) = p
<1> DEFINE k == Len(from)
           n == Len(p)
           rest == SubSeq(p, k + 1, n)
           o == to \o rest
<1>1. k \in Nat /\ n \in Nat /\ k <= n /\ Len(to) = k /\ \A i \in 1..k : p[i] = from[i]
  BY BelowStarts, LenProperties
<1>2. rest \in Seq(PathNames) /\ Len(rest) = n - k /\ \A i \in 1..(n - k) : rest[i] = p[k + i]
  BY <1>1
<1>3. /\ o \in Seq(PathNames) /\ Len(o) = n
      /\ \A i \in 1..n : o[i] = IF i <= k THEN to[i] ELSE rest[i - k]
  BY <1>1, <1>2
<1> HIDE DEF rest, o
<1>4. Below(o, to)
  BY <1>1, <1>3, BelowStarts
<1>5. /\ SubSeq(o, k + 1, n) \in Seq(PathNames) /\ Len(SubSeq(o, k + 1, n)) = n - k
      /\ \A i \in 1..(n - k) : SubSeq(o, k + 1, n)[i] = o[k + i]
  BY <1>1, <1>3
<1>6. ASSUME NEW i \in 1..(n - k) PROVE o[k + i] = p[k + i]
  BY <1>1, <1>2, <1>3
<1> DEFINE last == SubSeq(o, k + 1, n)
           b == from \o last
<1>7. last \in Seq(PathNames) /\ Len(last) = n - k /\ \A i \in 1..(n - k) : last[i] = p[k + i]
  BY <1>5, <1>6
<1> HIDE DEF last
<1>8. /\ b \in Seq(PathNames) /\ Len(b) = n
      /\ \A i \in 1..n : b[i] = IF i <= k THEN from[i] ELSE last[i - k]
  BY <1>1, <1>7
<1>9. ASSUME NEW i \in 1..n PROVE b[i] = p[i]
  <2>1. CASE i <= k
    BY <1>1, <1>8, <2>1
  <2>2. CASE ~(i <= k)
    <3>1. i - k \in 1..(n - k) /\ k + (i - k) = i
      BY <1>1, <2>2
    <3>2. last[i - k] = p[k + (i - k)]
      BY <1>7, <3>1
    <3>3. QED
      BY <1>1, <1>8, <2>2, <3>1, <3>2
  <2>3. QED
    BY <2>1, <2>2
<1>10. b = p
  BY <1>8, <1>9, SeqEqual
<1>11. Carried(p, from, to) = o /\ Carried(o, to, from) = b
  BY <1>1, <1>3, Zenon DEF Carried, o, rest, last, b
<1>12. QED
  BY <1>3, <1>4, <1>10, <1>11

----------------------------------------------------------------------------
(* What the references rest on.  A change of files deletes paths, or moves  *)
(* one; what moved on its own is known to have.                            *)
Deletion(changes) == \A c \in changes : c.new = <<>>
Relocation(changes) ==
  \E m \in Moves : changes = {[old |-> m[1], new |-> m[2]]} /\ ~Below(m[2], m[1])

Started(r) ==
  /\ r.pc = "move" => \E m \in Moves : r.from = m[1] /\ r.to = m[2] /\ ~Below(m[2], m[1])
  /\ r.pc \in Changing =>
       /\ r.pc # "remove" => r.changes # {}
       /\ r.changes = {} => r.moved = {}
       /\ Deletion(r.changes) \/ (r.pc # "remove" /\ Relocation(r.changes))
       /\ \A c \in r.changes : c.new # <<>> /\ ~Folder(c.old) => r.moved \subseteq alone

(* Nothing but folders made on the way lies at two places, or is in the    *)
(* way of a file.                                                          *)
DiskOK ==
  /\ \A p, o \in Paths : disk[p] = disk[o] /\ disk[p] \notin {Gone, Made} => p = o
  /\ \A p \in Paths : disk[p] = Made => Folder(p)

(* Two updates at once excuse what they moved, and what has come since to   *)
(* a path that an update left.                                             *)
Overlapped ==
  \A q, w \in Clients : q # w /\ Updating(q) /\ Updating(w) => req[q].moved \subseteq excused
Vacated(q) ==
  Updating(q) => \A c \in req[q].changes : \A p \in Paths :
                   Applies(c, p) => disk[p] \in excused \cup {Gone, Made}

UpdatesInv == DiskOK /\ (\A q \in Clients : Started(req[q]) /\ Vacated(q)) /\ Overlapped

(* A reference names what it named, or is excused, or an update that will   *)
(* come to it is under way.                                                *)
Filing == {"remove", "list", "rewrite"}
Banning == Filing \cup {"bans"}
Settled(r) == r.means \in excused \cup {Gone} \/ disk[r.path] = r.means
Pending(q, r, pcs) ==
  /\ Updating(q) /\ req[q].pc \in pcs /\ r.means \in req[q].moved
  /\ \E c \in req[q].changes :
       /\ Applies(c, r.path)
       /\ c.new = <<>> => r.means \notin Range(disk)
       /\ c.new # <<>> => disk[Moved(c, r.path)] = r.means
Followed(r, pcs) == Settled(r) \/ \E q \in Clients : Pending(q, r, pcs)
IsFile(r) == r \in Refs /\ r.path \in FilePaths /\ r.means # Made

FilesFollow == \A n \in Names : \A r \in Entries(n) : IsFile(r) /\ Followed(r, Filing)
BansFollow == \A r \in banned : IsFile(r) /\ Followed(r, Banning)
SourcesFollow == \A r \in sources :
  /\ r \in Refs /\ r.path \in Paths /\ r.means \in Range(Start) \ {Gone}
  /\ r.means \in Range(disk) \ alone => Followed(r, Changing)

(* What an append has read is still in the file.                           *)
Reads == \A q \in Clients : At(q, "appending") => req[q].read = Entries(req[q].name)

FollowsInv == RowsInv /\ UpdatesInv /\ Reads /\ FilesFollow /\ BansFollow /\ SourcesFollow

----------------------------------------------------------------------------
(* Steps that leave the disk alone.                                        *)
LEMMA StartedStays == ASSUME NEW r, Started(r), alone \subseteq alone' PROVE Started(r)'
BY DEF Started

LEMMA UpdatesStay ==
    ASSUME UpdatesInv, UNCHANGED disk, excused \subseteq excused', alone \subseteq alone',
           \A w \in Clients :
             \/ req'[w] = req[w]
             \/ ~Updating(w)' /\ Started(req[w])'
             \/ /\ Updating(w) /\ Started(req[w])'
                /\ req'[w].changes = req[w].changes /\ req'[w].moved = req[w].moved
    PROVE  UpdatesInv'
<1>1. DiskOK'
  BY DEF UpdatesInv, DiskOK
<1>2. ASSUME NEW w \in Clients, Updating(w)'
      PROVE  Updating(w) /\ req'[w].changes = req[w].changes /\ req'[w].moved = req[w].moved
  BY <1>2 DEF Updating
<1>3. ASSUME NEW w \in Clients PROVE Started(req[w])'
  <2>1. CASE req'[w] = req[w]
    <3>1. PICK r : r = req[w]
      OBVIOUS
    <3>2. Started(r)
      BY <3>1 DEF UpdatesInv
    <3>3. Started(r)'
      BY <3>2, StartedStays
    <3>4. r = req'[w]
      BY <2>1, <3>1
    <3>5. QED
      BY <3>3, <3>4 DEF Started
  <2>2. QED
    BY <2>1
<1>4. ASSUME NEW w \in Clients PROVE Vacated(w)'
  <2>1. Vacated(w)
    BY DEF UpdatesInv
  <2>2. QED
    BY <1>2, <2>1 DEF Vacated
<1>5. ASSUME NEW w \in Clients, NEW q \in Clients, w # q, Updating(w)', Updating(q)'
      PROVE  req'[w].moved \subseteq excused'
  <2>1. Updating(w) /\ Updating(q) /\ req'[w].moved = req[w].moved
    BY <1>2, <1>5
  <2>2. req[w].moved \subseteq excused
    BY <1>5, <2>1 DEF UpdatesInv, Overlapped
  <2>3. QED
    BY <2>1, <2>2
<1>6. Overlapped'
  BY <1>5 DEF Overlapped
<1>7. QED
  BY <1>1, <1>3, <1>4, <1>6 DEF UpdatesInv

LEMMA ReadsStay ==
    ASSUME RowsInv',
           \/ mu' = Nobody
           \/ \E q \in Clients : mu' = q /\ ~At(q, "appending")'
           \/ /\ Reads /\ UNCHANGED m3u
              /\ \A w \in Clients : At(w, "appending")' => req'[w] = req[w]
    PROVE  Reads'
<1>1. ASSUME NEW w \in Clients, At(w, "appending")' PROVE mu' = w
  BY <1>1 DEF RowsInv, OneHolder, At, Held
<1>2. CASE mu' = Nobody
  BY <1>1, <1>2, ClientsAssumption DEF Reads
<1>3. CASE \E q \in Clients : mu' = q /\ ~At(q, "appending")'
  BY <1>1, <1>3 DEF Reads
<1>4. CASE Reads /\ UNCHANGED m3u /\ \A w \in Clients : At(w, "appending")' => req'[w] = req[w]
  BY <1>4 DEF Reads, At, Entries
<1>5. QED
  BY <1>2, <1>3, <1>4

LEMMA StillFollowed ==
    ASSUME UNCHANGED disk, excused \subseteq excused', NEW pcs, pcs \subseteq Changing,
           \A w \in Clients : Updating(w) /\ req[w].pc \in pcs =>
             \/ req[w].moved \subseteq excused'
             \/ req'[w].changes = req[w].changes /\ req'[w].moved = req[w].moved /\ req'[w].pc \in pcs,
           NEW r, Followed(r, pcs)
    PROVE  Followed(r, pcs)'
<1>1. Settled(r) => Settled(r)'
  BY DEF Settled
<1>2. ASSUME NEW w \in Clients, Pending(w, r, pcs) PROVE Settled(r)' \/ Pending(w, r, pcs)'
  <2>1. CASE req[w].moved \subseteq excused'
    BY <1>2, <2>1 DEF Pending, Settled
  <2>2. CASE req'[w].changes = req[w].changes /\ req'[w].moved = req[w].moved /\ req'[w].pc \in pcs
    BY <1>2, <2>2 DEF Pending, Updating, Changing
  <2>3. QED
    BY <1>2, <2>1, <2>2 DEF Pending
<1>3. QED
  BY <1>1, <1>2 DEF Followed

LEMMA FilesAreSettled ==
    ASSUME TypesInv, UpdatesInv, NEW p \in FilePaths
    PROVE  IsFile(Ref(p)) /\ Settled(Ref(p))
<1>1. RefsTo({p}) \in SUBSET Refs
  BY RefsAreRefs DEF TypesInv
<1>2. Ref(p) \in Refs
  BY <1>1 DEF RefsTo
<1>3. QED
  BY <1>2 DEF UpdatesInv, DiskOK, IsFile, Settled, Ref, FilePaths

(* A step that writes files or bans and leaves updates alone.              *)
LEMMA Quiet ==
    ASSUME FollowsInv, RowsInv', UNCHANGED <<disk, sources, excused, alone>>, Reads',
           \A w \in Clients :
             \/ req'[w] = req[w]
             \/ ~Updating(w) /\ ~Updating(w)' /\ Started(req[w])',
           \A n \in Names : \A r \in Entries(n)' :
             (\E o \in Names : r \in Entries(o)) \/ (\E p \in FilePaths : r = Ref(p)),
           \A r \in banned' : r \in banned \/ \E p \in FilePaths : r = Ref(p)
    PROVE  FollowsInv'
<1>1. UpdatesInv'
  BY UpdatesStay DEF FollowsInv
<1>2. ASSUME NEW pcs, pcs \subseteq Changing, NEW r, Followed(r, pcs) PROVE Followed(r, pcs)'
  BY <1>2, StillFollowed
<1>3. ASSUME NEW p \in FilePaths, NEW pcs, pcs \subseteq Changing
      PROVE  IsFile(Ref(p)) /\ Followed(Ref(p), pcs)
  BY FilesAreSettled DEF FollowsInv, RowsInv, Followed
<1>4. Filing \subseteq Changing /\ Banning \subseteq Changing
  BY DEF Filing, Banning, Changing
<1>5. FilesFollow'
  <2>1. SUFFICES ASSUME NEW n \in Names, NEW r \in Entries(n)'
                 PROVE  IsFile(r) /\ Followed(r, Filing)'
    BY DEF FilesFollow, IsFile
  <2>2. IsFile(r) /\ Followed(r, Filing)
    BY <1>3, <1>4 DEF FollowsInv, FilesFollow
  <2>3. QED
    BY <1>2, <1>4, <2>2
<1>6. BansFollow'
  <2>1. SUFFICES ASSUME NEW r \in banned' PROVE IsFile(r) /\ Followed(r, Banning)'
    BY DEF BansFollow, IsFile
  <2>2. IsFile(r) /\ Followed(r, Banning)
    BY <1>3, <1>4 DEF FollowsInv, BansFollow
  <2>3. QED
    BY <1>2, <1>4, <2>2
<1>7. SourcesFollow'
  BY <1>2 DEF FollowsInv, SourcesFollow
<1>8. QED
  BY <1>1, <1>5, <1>6, <1>7 DEF FollowsInv

----------------------------------------------------------------------------
(* The requests for playlists: they are no update of references.           *)
LEMMA RestStays ==
    ASSUME NEW r, r.pc = "update"
    PROVE  Rest(r).pc \in {"idle", "update"}
BY DEF Rest, Idle

LEMMA PlaylistMoves ==
    ASSUME TypesInv, NEW q \in Clients, AsksPlaylist(q) \/ ChangesPlaylist(q)
    PROVE  /\ req[q].pc \notin Changing
           /\ req'[q].pc \notin Changing \cup {"move"}
           /\ req'[q].pc = "appending" => AppendReads(q)
<1> DEFINE Goes == /\ req[q].pc \notin Changing
                   /\ req'[q].pc \notin Changing \cup {"move", "appending"}
<1>1. ASSUME NEW r, Becomes(q, r) PROVE req'[q] = r
  BY <1>1 DEF Becomes, TypesInv
<1>2. ASSUME NEW r, Asks(q, r), r.pc \in {"created", "update", "delete"} PROVE Goes
  BY <1>1, <1>2 DEF Asks, At, Changing
<1>3. AsksPlaylist(q) => Goes
  BY <1>2 DEF AsksPlaylist, Create, DeletePlaylist, Update
<1>4. ASSUME req[q].pc \in Held \cup {"update", "delete"}, Becomes(q, Idle) PROVE Goes
  BY <1>1, <1>4 DEF Idle, Held, Changing
<1>5. /\ CreateWrites(q) \/ CreateFails(q) \/ RenameFails(q) \/ RenameRefused(q) \/ SetFails(q) => Goes
      /\ AppendWrites(q) \/ AppendFails(q) \/ DeleteRefused(q) \/ DeleteRow(q) \/ DeleteRowFails(q) => Goes
  BY <1>4, Zenon DEF CreateWrites, CreateFails, RenameFails, RenameRefused, SetFails,
     AppendWrites, AppendFails, DeleteRefused, DeleteRow, DeleteRowFails, At, Held
<1>6. ASSUME At(q, "renamed") \/ At(q, "update") PROVE req[q] \in Changes
  BY <1>6 DEF TypesInv, Asked, At
<1>7. RenameRow(q) => Goes
  <2>1. SUFFICES ASSUME RenameRow(q) PROVE Goes
    OBVIOUS
  <2>2. At(q, "update") /\ req' = [req EXCEPT ![q].pc = "renamed"]
    BY <2>1 DEF RenameRow
  <2>3. req'[q] = [req[q] EXCEPT !.pc = "renamed"]
    BY <2>2 DEF TypesInv
  <2>4. req'[q].pc = "renamed"
    BY <1>6, <2>2, <2>3 DEF Changes
  <2>5. QED
    BY <2>2, <2>4 DEF At, Changing
<1>8. DeleteFile(q) => Goes
  <2>1. SUFFICES ASSUME DeleteFile(q) PROVE Goes
    OBVIOUS
  <2>2. At(q, "delete") /\ req' = [req EXCEPT ![q].pc = "deleted"]
    BY <2>1 DEF DeleteFile
  <2>3. req'[q] = [req[q] EXCEPT !.pc = "deleted"] /\ req[q] \in Deleting
    BY <2>2 DEF TypesInv, Asked, At
  <2>4. QED
    BY <2>2, <2>3 DEF Deleting, At, Changing
<1>9. RenameFile(q) => Goes
  <2>1. SUFFICES ASSUME RenameFile(q) PROVE Goes
    OBVIOUS
  <2>2. PICK r : r = [req[q] EXCEPT !.pc = "update", !.name = req[q].to, !.to = NoName]
    OBVIOUS
  <2>3. At(q, "renamed") /\ Becomes(q, Rest(r))
    BY <2>1, <2>2 DEF RenameFile
  <2>4. r.pc = "update"
    BY <1>6, <2>2, <2>3 DEF Changes
  <2>5. req'[q] = Rest(r)
    BY <1>1, <2>3
  <2>6. QED
    BY <2>3, <2>4, <2>5, RestStays DEF At, Changing
<1>10. SetEntries(q) => Goes
  <2>1. SUFFICES ASSUME SetEntries(q) PROVE Goes
    OBVIOUS
  <2>2. PICK r : r = [req[q] EXCEPT !.set = Same]
    OBVIOUS
  <2>3. At(q, "update") /\ Becomes(q, Rest(r))
    BY <2>1, <2>2 DEF SetEntries
  <2>4. r.pc = "update"
    BY <1>6, <2>2, <2>3 DEF Changes, At
  <2>5. req'[q] = Rest(r)
    BY <1>1, <2>3
  <2>6. QED
    BY <2>3, <2>4, <2>5, RestStays DEF At, Changing
<1>11. AppendReads(q) => /\ req[q].pc \notin Changing
                         /\ req'[q].pc \notin Changing \cup {"move"}
  BY <1>1 DEF AppendReads, AppendMay, At, Changing
<1>12. QED
  BY <1>3, <1>5, <1>7, <1>8, <1>9, <1>10, <1>11, Zenon DEF ChangesPlaylist

(* What a playlist holds after the step was in a playlist before, or names  *)
(* a file there.                                                           *)
LEMMA PlaylistEntries ==
    ASSUME FollowsInv, NEW q \in Clients, AsksPlaylist(q) \/ ChangesPlaylist(q),
           NEW n \in Names, NEW r \in Entries(n)'
    PROVE  (\E o \in Names : r \in Entries(o)) \/ (\E p \in FilePaths : r = Ref(p))
<1> DEFINE Known == (\E o \in Names : r \in Entries(o)) \/ (\E p \in FilePaths : r = Ref(p))
<1>1. m3u \in [Names -> (SUBSET Refs) \cup {NoFile}]
  BY DEF FollowsInv, RowsInv, TypesInv
<1>2. m3u' = m3u => Known
  BY DEF Entries
<1>3. ASSUME NEW refs, m3u'[n] = refs \/ m3u'[n] = m3u[n] PROVE r \in refs \/ Known
  BY <1>3 DEF Entries
<1>4. ASSUME NEW refs, NEW name, m3u' = [m3u EXCEPT ![name] = refs] PROVE r \in refs \/ Known
  BY <1>1, <1>3, <1>4
<1>5. ASSUME NEW paths \in SUBSET FilePaths, r \in RefsTo(paths) PROVE Known
  BY <1>5 DEF RefsTo
<1>6. CreateWrites(q) => Known
  <2>1. CreateWrites(q) => req[q].set \in SUBSET FilePaths
    BY DEF CreateWrites, At, FollowsInv, RowsInv, TypesInv, Asked, Creating
  <2>2. QED
    BY <1>4, <1>5, <2>1 DEF CreateWrites
<1>7. SetEntries(q) => Known
  <2>1. SetEntries(q) => req[q].set \in SUBSET FilePaths
    BY DEF SetEntries, At, FollowsInv, RowsInv, TypesInv, Asked, Changes
  <2>2. QED
    BY <1>4, <1>5, <2>1 DEF SetEntries
<1>8. AppendWrites(q) => Known
  <2>1. SUFFICES ASSUME AppendWrites(q) PROVE Known
    OBVIOUS
  <2>2. req[q] \in Appending /\ req[q].read = Entries(req[q].name)
    BY <2>1 DEF AppendWrites, At, FollowsInv, RowsInv, TypesInv, Asked, Reads
  <2>3. req[q].append \in SUBSET FilePaths /\ req[q].name \in Names
    BY <2>2 DEF Appending
  <2>4. r \in req[q].read \cup RefsTo(req[q].append) \/ Known
    BY <1>4, <2>1 DEF AppendWrites
  <2>5. QED
    BY <1>5, <2>2, <2>3, <2>4
<1>9. DeleteFile(q) => Known
  <2>1. SUFFICES ASSUME DeleteFile(q) PROVE Known
    OBVIOUS
  <2>2. m3u'[n] = NoFile \/ m3u'[n] = m3u[n]
    BY <1>1, <2>1 DEF DeleteFile
  <2>3. QED
    BY <2>2 DEF Entries
<1>10. RenameFile(q) => Known
  <2>1. SUFFICES ASSUME RenameFile(q) PROVE Known
    OBVIOUS
  <2>2. req[q].name \in Names
    BY <2>1 DEF RenameFile, At, FollowsInv, RowsInv, TypesInv, Asked, Changes
  <2>3. m3u'[n] = NoFile \/ \E o \in Names : m3u'[n] = m3u[o]
    BY <1>1, <2>1, <2>2 DEF RenameFile
  <2>4. QED
    BY <2>3 DEF Entries
<1>11. AsksPlaylist(q) => Known
  BY <1>2 DEF AsksPlaylist, Create, DeletePlaylist, Update, tables
<1>12. QED
  BY <1>2, <1>6, <1>7, <1>8, <1>9, <1>10, <1>11 DEF ChangesPlaylist, CreateFails, RenameRow, RenameFails,
     RenameRefused, SetFails, AppendReads, AppendFails, DeleteRefused, DeleteRow, DeleteRowFails, tables

LEMMA PlaylistReads ==
    ASSUME FollowsInv, RowsInv', NEW q \in Clients, AsksPlaylist(q) \/ ChangesPlaylist(q)
    PROVE  Reads'
<1>1. CASE AppendReads(q)
  <2>1. /\ mu' = q /\ m3u' = m3u /\ req[q].pc = "update"
        /\ Becomes(q, [pc |-> "appending", id |-> req[q].id, name |-> req[q].name,
                       append |-> req[q].append, read |-> Entries(req[q].name)])
    BY <1>1 DEF AppendReads, AppendMay, Takes, At
  <2>2. req'[q].read = Entries(req[q].name) /\ req'[q].name = req[q].name
    BY <2>1 DEF Becomes, FollowsInv, RowsInv, TypesInv
  <2>3. ASSUME NEW w \in Clients, At(w, "appending")' PROVE w = q
    BY <2>1, <2>3 DEF RowsInv, OneHolder, At, Held
  <2>4. QED
    BY <2>1, <2>2, <2>3 DEF Reads, Entries
<1>2. CASE ~AppendReads(q)
  <2>1. ~At(q, "appending")'
    BY <1>2, PlaylistMoves DEF FollowsInv, RowsInv, At
  <2>2. \A w \in Clients : At(w, "appending")' => req'[w] = req[w]
    BY <2>1, OwnStep DEF FollowsInv, RowsInv
  <2>3. mu' = Nobody \/ mu' = q \/ UNCHANGED m3u
    BY DEF AsksPlaylist, Create, DeletePlaylist, Update, ChangesPlaylist, CreateWrites, CreateFails, RenameRow,
       RenameFile, RenameFails, RenameRefused, SetEntries, SetFails, AppendReads, AppendWrites, AppendFails,
       DeleteFile, DeleteRefused, DeleteRow, DeleteRowFails, tables, Takes
  <2>4. QED
    BY <2>1, <2>2, <2>3, ReadsStay DEF FollowsInv
<1>3. QED
  BY <1>1, <1>2

LEMMA PlaylistFollows ==
    ASSUME FollowsInv, RowsInv', NEW q \in Clients, AsksPlaylist(q) \/ ChangesPlaylist(q)
    PROVE  FollowsInv'
<1>1. UNCHANGED <<disk, banned, sources, excused, alone>>
  BY DEF AsksPlaylist, Create, DeletePlaylist, Update, ChangesPlaylist, CreateWrites, CreateFails, RenameRow,
     RenameFile, RenameFails, RenameRefused, SetEntries, SetFails, AppendReads, AppendWrites, AppendFails,
     DeleteFile, DeleteRefused, DeleteRow, DeleteRowFails
<1>2. Reads'
  BY PlaylistReads
<1>3. ASSUME NEW w \in Clients
      PROVE  \/ req'[w] = req[w]
             \/ ~Updating(w) /\ ~Updating(w)' /\ Started(req[w])'
  <2>1. CASE w = q
    <3>1. req[q].pc \notin Changing /\ req'[q].pc \notin Changing \cup {"move"}
      BY PlaylistMoves DEF FollowsInv, RowsInv
    <3>2. QED
      BY <2>1, <3>1 DEF Updating, Started, Changing
  <2>2. CASE w # q
    BY <2>2, OwnStep DEF FollowsInv, RowsInv
  <2>3. QED
    BY <2>1, <2>2
<1>4. \A n \in Names : \A r \in Entries(n)' :
        (\E o \in Names : r \in Entries(o)) \/ (\E p \in FilePaths : r = Ref(p))
  BY PlaylistEntries
<1>5. QED
  BY <1>1, <1>2, <1>3, <1>4, Quiet

----------------------------------------------------------------------------
(* The requests that move and delete, before they touch a file, and bans.   *)
LEMMA OthersStay ==
    ASSUME TypesInv, NEW q \in Clients, NEW r, Becomes(q, r)
    PROVE  req'[q] = r /\ \A w \in Clients \ {q} : req'[w] = req[w]
BY DEF Becomes, TypesInv

LEMMA SameEntries == ASSUME UNCHANGED m3u, NEW n PROVE Entries(n)' = Entries(n)
BY DEF Entries

LEMMA AsksFollow ==
    ASSUME FollowsInv, RowsInv', NEW q \in Clients, NEW r, Becomes(q, r),
           UNCHANGED <<disk, tables, banned, sources, excused, alone>>,
           req[q].pc \notin Changing \/ req[q].changes = {}, r.pc # "appending",
           r.pc \notin Changing \/ r.changes = {}, Started(r)
    PROVE  FollowsInv'
<1>1. req'[q] = r /\ \A w \in Clients \ {q} : req'[w] = req[w]
  BY OthersStay DEF FollowsInv, RowsInv
<1>2. UNCHANGED m3u
  BY DEF tables
<1>3. Started(r)'
  BY StartedStays
<1>4. ~Updating(q) /\ ~Updating(q)' /\ Started(req[q])'
  BY <1>1, <1>3 DEF Updating, Changing, Started
<1>5. \A w \in Clients : At(w, "appending")' => req'[w] = req[w]
  BY <1>1 DEF At
<1>6. Reads'
  BY <1>2, <1>5, ReadsStay DEF FollowsInv
<1>7. \A n \in Names : Entries(n)' = Entries(n)
  BY <1>2, SameEntries
<1>8. QED
  BY <1>1, <1>4, <1>6, <1>7, Quiet

LEMMA MoveChecksFollows ==
    ASSUME FollowsInv, RowsInv', NEW q \in Clients, NEW m \in Moves, MoveChecks(q, m[1], m[2])
    PROVE  FollowsInv'
<1> DEFINE r == [pc |-> "move", from |-> m[1], to |-> m[2]]
<1>1. Becomes(q, r) /\ req[q].pc = "idle" /\ UNCHANGED <<disk, tables, banned, sources, excused, alone>>
  BY DEF MoveChecks, Asks, At
<1>2. Started(r) /\ r.pc \notin Changing /\ r.pc # "appending"
  BY DEF Started, Changing, MoveChecks
<1> HIDE DEF r
<1>3. QED
  BY <1>1, <1>2, AsksFollow DEF Changing

LEMMA DeletePathsFollows ==
    ASSUME FollowsInv, RowsInv', NEW q \in Clients, NEW paths, DeletePaths(q, paths)
    PROVE  FollowsInv'
<1> DEFINE r == [pc |-> "remove", targets |-> {p \in paths : disk[p] # Gone}, changes |-> {}, moved |-> {}]
<1>1. Becomes(q, r) /\ req[q].pc = "idle" /\ UNCHANGED <<disk, tables, banned, sources, excused, alone>>
  BY DEF DeletePaths, Asks, At
<1>2. Started(r) /\ r.changes = {} /\ r.pc # "appending"
  BY DEF Started, Changing, Deletion
<1> HIDE DEF r
<1>3. QED
  BY <1>1, <1>2, AsksFollow DEF Changing

LEMMA IdleStarted == Started(Idle) /\ Idle.pc \notin Changing /\ Idle.pc # "appending"
BY DEF Started, Idle, Changing

LEMMA MoveFailsFollows ==
    ASSUME FollowsInv, RowsInv', NEW q \in Clients, MoveFails(q)
    PROVE  FollowsInv'
<1>1. Becomes(q, Idle) /\ req[q].pc = "move" /\ UNCHANGED <<disk, tables, banned, sources, excused, alone>>
  BY DEF MoveFails, At
<1>2. QED
  BY <1>1, IdleStarted, AsksFollow DEF Changing

LEMMA BanFollows ==
    ASSUME FollowsInv, RowsInv', NEW q \in Clients,
           (\E p \in FilePaths : Ban(q, p)) \/ (\E b \in banned : Allow(q, b))
    PROVE  FollowsInv'
<1>1. UNCHANGED <<disk, sources, excused, alone, m3u, req>>
  BY DEF Ban, Allow, tables
<1>2. \A r \in banned' : r \in banned \/ \E p \in FilePaths : r = Ref(p)
  BY DEF Ban, Allow
<1>3. Reads'
  BY <1>1, ReadsStay DEF FollowsInv
<1>4. \A n \in Names : Entries(n)' = Entries(n)
  BY <1>1, SameEntries
<1>5. QED
  BY <1>1, <1>2, <1>3, <1>4, Quiet

----------------------------------------------------------------------------
(* updateReferences, which leaves the disk alone.                          *)
LEMMA MovedPath ==
    ASSUME NEW m \in Moves, NEW c, c = [old |-> m[1], new |-> m[2]], NEW p \in Paths, Applies(c, p)
    PROVE  /\ Moved(c, p) = Carried(p, m[1], m[2])
           /\ Moved(c, p) \in Paths /\ Len(Moved(c, p)) = Len(p)
           /\ Below(Moved(c, p), m[2])
<1>1. m[1] \in Paths /\ m[2] \in Paths /\ Len(m[1]) = Len(m[2])
  BY PathAssumption
<1>2. p \in Seq(PathNames) /\ m[1] \in Seq(PathNames) /\ m[2] \in Seq(PathNames)
  BY <1>1, PathFacts
<1>3. Below(p, m[1]) /\ Moved(c, p) = Carried(p, m[1], m[2])
  BY DEF Applies, Moved, Carried
<1>4. Carried(p, m[1], m[2]) \in Paths
  BY <1>3, PathAssumption DEF Below, Carried
<1>5. QED
  BY <1>1, <1>2, <1>3, <1>4, CarriedThere

LEMMA OneMove ==
    ASSUME FollowsInv, NEW q \in Clients, Updating(q), NEW c \in req[q].changes, c.new # <<>>
    PROVE  \E m \in Moves : /\ c = [old |-> m[1], new |-> m[2]] /\ req[q].changes = {c}
                            /\ ~Below(m[2], m[1])
<1>1. Relocation(req[q].changes)
  BY DEF FollowsInv, UpdatesInv, Started, Updating, Changing, Deletion
<1>2. QED
  BY <1>1 DEF Relocation

LEMMA OthersExcused ==
    ASSUME FollowsInv, NEW q \in Clients, Updating(q), NEW w \in Clients, w # q,
           NEW pcs, NEW r, Pending(w, r, pcs)
    PROVE  Settled(r)
BY DEF FollowsInv, UpdatesInv, Overlapped, Pending, Settled

(* What an update has rewritten is settled.                                *)
LEMMA RewrittenSettle ==
    ASSUME FollowsInv, NEW q \in Clients, Updating(q), NEW pcs,
           NEW refs, \A r \in refs : r \in Refs /\ r.path \in Paths /\ r.means # Made,
           NEW x \in Rewritten(refs, req[q].changes)
    PROVE  \E s \in refs : /\ x \in Refs /\ x.means = s.means
                           /\ x.path \in Paths /\ Len(x.path) = Len(s.path)
                           /\ Followed(s, pcs) => Settled(x)
<1> DEFINE changes == req[q].changes
<1>1. x \in Refs
  <2>1. changes \in SUBSET Change
    BY DEF FollowsInv, RowsInv, TypesInv, Asked, Updating, Changing
  <2>2. refs \in SUBSET Refs
    OBVIOUS
  <2>3. QED
    BY <2>1, <2>2, RewrittenAreRefs
<1>2. CASE x \in refs /\ \A c \in changes : ~Applies(c, x.path)
  <2>1. \A w \in Clients : Pending(w, x, pcs) => w # q
    BY <1>2 DEF Pending
  <2>2. Followed(x, pcs) => Settled(x)
    BY <2>1, OthersExcused DEF Followed
  <2>3. QED
    BY <1>1, <1>2, <2>2
<1>3. CASE \E c \in changes, s \in refs : c.new # <<>> /\ Applies(c, s.path) /\ x = [s EXCEPT !.path = Moved(c, s.path)]
  <2>1. PICK c \in changes, s \in refs :
          c.new # <<>> /\ Applies(c, s.path) /\ x = [s EXCEPT !.path = Moved(c, s.path)]
    BY <1>3
  <2>2. s \in [path : Seq(PathNames), means : Things \cup {Gone}] /\ s.path \in Paths /\ s.means # Made
    BY DEF Refs
  <2>3. x.means = s.means /\ x.path = Moved(c, s.path)
    BY <2>1, <2>2
  <2>4. PICK m \in Moves : c = [old |-> m[1], new |-> m[2]] /\ changes = {c}
    BY <2>1, OneMove
  <2>5. x.path \in Paths /\ Len(x.path) = Len(s.path)
    BY <2>1, <2>2, <2>3, <2>4, MovedPath
  <2>6. Settled(s) => Settled(x)
    <3>1. disk[s.path] \in excused \cup {Gone, Made}
      BY <2>1, <2>2 DEF FollowsInv, UpdatesInv, Vacated
    <3>2. QED
      BY <2>2, <2>3, <3>1 DEF Settled
  <2>7. ASSUME NEW w \in Clients, Pending(w, s, pcs) PROVE Settled(x)
    <3>1. CASE w = q
      BY <2>1, <2>3, <2>4, <2>7, <3>1 DEF Pending, Settled
    <3>2. CASE w # q
      BY <2>6, <2>7, <3>2, OthersExcused
    <3>3. QED
      BY <3>1, <3>2
  <2>8. QED
    BY <1>1, <2>3, <2>5, <2>6, <2>7 DEF Followed
<1>4. QED
  BY <1>2, <1>3 DEF Rewritten

(* And nothing it holds is where the change was.                           *)
LEMMA NoneLeftThere ==
    ASSUME FollowsInv, NEW q \in Clients, Updating(q),
           NEW refs, \A r \in refs : r \in Refs /\ r.path \in Paths,
           NEW x \in Rewritten(refs, req[q].changes), NEW c \in req[q].changes
    PROVE  ~Applies(c, x.path)
<1>1. SUFFICES ASSUME Applies(c, x.path) PROVE FALSE
  OBVIOUS
<1>2. PICK d \in req[q].changes, s \in refs :
        d.new # <<>> /\ Applies(d, s.path) /\ x = [s EXCEPT !.path = Moved(d, s.path)]
  BY <1>1 DEF Rewritten
<1>3. s \in [path : Seq(PathNames), means : Things \cup {Gone}] /\ s.path \in Paths
  BY DEF Refs
<1>4. x.path = Moved(d, s.path)
  BY <1>2, <1>3
<1>5. PICK m \in Moves : d = [old |-> m[1], new |-> m[2]] /\ req[q].changes = {d} /\ ~Below(m[2], m[1])
  BY <1>2, OneMove
<1>6. x.path \in Paths /\ Below(x.path, m[2]) /\ Below(x.path, m[1])
  BY <1>1, <1>2, <1>3, <1>4, <1>5, MovedPath DEF Applies
<1>7. /\ x.path \in Seq(PathNames) /\ m[1] \in Seq(PathNames) /\ m[2] \in Seq(PathNames)
      /\ Len(m[1]) = Len(m[2])
  BY <1>6, PathAssumption
<1>8. m[1] = m[2]
  BY <1>6, <1>7, SamePrefix
<1>9. QED
  BY <1>5, <1>7, <1>8, BelowItself

LEMMA UpdatesGoOn ==
    ASSUME FollowsInv, NEW q \in Clients, Updating(q), NEW r, Becomes(q, r), UNCHANGED disk,
           excused \subseteq excused', alone \subseteq alone', Started(r),
           r.pc \notin Changing \/ (r.changes = req[q].changes /\ r.moved = req[q].moved)
    PROVE  /\ UpdatesInv'
           /\ req'[q] = r /\ \A w \in Clients \ {q} : req'[w] = req[w]
<1>1. req'[q] = r /\ \A w \in Clients \ {q} : req'[w] = req[w]
  BY OthersStay DEF FollowsInv, RowsInv
<1>2. Started(r)'
  BY StartedStays
<1>3. Started(req[q])'
  BY <1>1, <1>2 DEF Started
<1>4. r.pc \notin Changing => ~Updating(q)'
  BY <1>1 DEF Updating, Changing
<1>5. QED
  BY <1>1, <1>3, <1>4, UpdatesStay DEF FollowsInv

(* An update that goes on from one step to the next.                       *)
LEMMA NextStage ==
    ASSUME FollowsInv, NEW q \in Clients, req[q].pc \in Changing \ {"remove"}, NEW r,
           r.pc \in {"rewrite", "bans", "sources"}, r.changes = req[q].changes, r.moved = req[q].moved
    PROVE  Updating(q) /\ Started(r) /\ r.pc # "appending"
<1>1. Started(req[q])
  BY DEF FollowsInv, UpdatesInv
<1>2. QED
  BY <1>1 DEF Started, Updating, Changing

LEMMA EntriesAreFiles ==
    ASSUME FollowsInv, NEW n \in Names
    PROVE  \A r \in Entries(n) : r \in Refs /\ r.path \in Paths /\ r.path \in FilePaths /\ r.means # Made
BY DEF FollowsInv, FilesFollow, IsFile, FilePaths

LEMMA ListFollows ==
    ASSUME FollowsInv, RowsInv', NEW q \in Clients, List(q)
    PROVE  FollowsInv'
<1> DEFINE r == [pc |-> "rewrite", changes |-> req[q].changes, moved |-> req[q].moved, listed |-> rows]
<1>1. /\ req[q].pc = "list" /\ Becomes(q, r)
      /\ UNCHANGED <<disk, m3u, banned, sources, excused, alone>>
  BY DEF List, At, tables
<1>2. r.pc = "rewrite" /\ r.changes = req[q].changes /\ r.moved = req[q].moved
  OBVIOUS
<1> HIDE DEF r
<1>3. Updating(q) /\ Started(r) /\ r.pc # "appending"
  BY <1>1, <1>2, NextStage DEF Changing
<1>4. UpdatesInv' /\ req'[q] = r /\ \A w \in Clients \ {q} : req'[w] = req[w]
  BY <1>1, <1>2, <1>3, UpdatesGoOn
<1>5. ASSUME NEW pcs, pcs \subseteq Changing, "rewrite" \in pcs, NEW x, Followed(x, pcs)
      PROVE  Followed(x, pcs)'
  BY <1>1, <1>2, <1>4, <1>5, StillFollowed
<1>6. \A n \in Names : Entries(n)' = Entries(n)
  BY <1>1, SameEntries
<1>7. FilesFollow' /\ BansFollow' /\ SourcesFollow'
  <2>1. FilesFollow'
    BY <1>5, <1>6 DEF FollowsInv, FilesFollow, IsFile, Filing, Changing
  <2>2. BansFollow'
    BY <1>1, <1>5 DEF FollowsInv, BansFollow, IsFile, Filing, Banning, Changing
  <2>3. SourcesFollow'
    BY <1>1, <1>5 DEF FollowsInv, SourcesFollow, Changing
  <2>4. QED
    BY <2>1, <2>2, <2>3
<1>8. Reads'
  <2>1. \A w \in Clients : At(w, "appending")' => req'[w] = req[w]
    BY <1>2, <1>4 DEF At
  <2>2. QED
    BY <1>1, <2>1, ReadsStay DEF FollowsInv
<1>9. QED
  BY <1>4, <1>7, <1>8 DEF FollowsInv

(* The entries of a name that Rewrite writes, and of one that it leaves.    *)
LEMMA RewrittenFile ==
    ASSUME FollowsInv, NEW q \in Clients, NEW failed, Rewrite(q, failed), Updating(q), NEW n \in Names,
           NEW x \in Entries(n)', m3u'[n] # m3u[n]
    PROVE  IsFile(x) /\ Settled(x)'
<1> DEFINE changes == req[q].changes
<1>1. m3u'[n] = Rewritten(m3u[n], changes) /\ Rewritten(Entries(n), changes) # Entries(n)
  BY DEF Rewrite
<1>2. m3u[n] = Entries(n)
  BY <1>1, NothingToRewrite DEF Entries
<1>3. x \in Rewritten(Entries(n), changes)
  BY <1>1, <1>2 DEF Entries
<1>4. PICK s \in Entries(n) : /\ x \in Refs /\ x.means = s.means
                              /\ x.path \in Paths /\ Len(x.path) = Len(s.path)
                              /\ Followed(s, Filing) => Settled(x)
  BY <1>3, EntriesAreFiles, RewrittenSettle
<1>5. IsFile(s) /\ Followed(s, Filing)
  BY DEF FollowsInv, FilesFollow
<1>6. disk' = disk /\ excused \subseteq excused'
  BY DEF Rewrite
<1>7. QED
  BY <1>4, <1>5, <1>6 DEF IsFile, Settled, FilePaths, Folder

LEMMA LeftFile ==
    ASSUME FollowsInv, NEW q \in Clients, NEW failed, Rewrite(q, failed), Updating(q), NEW n \in Names,
           NEW x \in Entries(n), m3u'[n] = m3u[n]
    PROVE  Settled(x)'
<1> DEFINE changes == req[q].changes
           listed == Range(req[q].listed) \ {NoName}
           hit == {k \in listed : Rewritten(Entries(k), changes) # Entries(k)}
           left == (UNION {{e.means : e \in {i \in Entries(k) : \E c \in changes : Applies(c, i.path)}} :
                            k \in Names \ listed}) \ {Gone}
<1>1. /\ disk' = disk /\ failed \subseteq hit
      /\ excused' = excused \cup left \cup (IF failed = {} THEN {} ELSE req[q].moved)
      /\ m3u' = [k \in Names |-> IF k \in hit \ failed THEN Rewritten(m3u[k], changes) ELSE m3u[k]]
  BY Zenon DEF Rewrite
<1>2. Settled(x) => Settled(x)'
  BY <1>1 DEF Settled
<1>3. ASSUME NEW w \in Clients, w # q, Pending(w, x, Filing) PROVE Settled(x)'
  BY <1>2, <1>3, OthersExcused
<1>4. ASSUME Pending(q, x, Filing), x.means # Gone PROVE Settled(x)'
  <2>1. PICK c \in changes : Applies(c, x.path)
    BY <1>4 DEF Pending
  <2>2. CASE n \notin listed
    <3>1. x.means \in left
      BY <1>4, <2>1, <2>2
    <3>2. QED
      BY <1>1, <3>1 DEF Settled
  <2>3. CASE failed # {}
    BY <1>1, <1>4, <2>3 DEF Settled, Pending
  <2>4. CASE n \in listed /\ failed = {}
    <3>1. x \notin Rewritten(Entries(n), changes)
      BY <2>1, EntriesAreFiles, NoneLeftThere
    <3>2. n \in hit \ failed
      BY <2>4, <3>1
    <3>3. m3u[n] = Entries(n)
      <4>1. Entries(n) # {}
        OBVIOUS
      <4>2. QED
        BY <4>1, Zenon DEF Entries
    <3>4. m3u'[n] = Rewritten(m3u[n], changes)
      BY <1>1, <3>2
    <3>5. QED
      BY <3>1, <3>3, <3>4
  <2>5. QED
    BY <2>2, <2>3, <2>4
<1>5. Followed(x, Filing)
  BY DEF FollowsInv, FilesFollow
<1>6. x.means = Gone => Settled(x)
  BY DEF Settled
<1>7. QED
  BY <1>2, <1>3, <1>4, <1>5, <1>6 DEF Followed

LEMMA RewriteFollows ==
    ASSUME FollowsInv, RowsInv', NEW q \in Clients, NEW failed, Rewrite(q, failed)
    PROVE  FollowsInv'
<1> DEFINE r == [pc |-> "bans", changes |-> req[q].changes, moved |-> req[q].moved]
<1>1. /\ req[q].pc = "rewrite" /\ mu' = Nobody /\ Becomes(q, r)
      /\ UNCHANGED <<disk, banned, sources, alone>> /\ excused \subseteq excused'
  BY DEF Rewrite, At
<1>2. r.pc = "bans" /\ r.changes = req[q].changes /\ r.moved = req[q].moved
  OBVIOUS
<1> HIDE DEF r
<1>3. Updating(q) /\ Started(r)
  BY <1>1, <1>2, NextStage DEF Changing
<1>4. UpdatesInv' /\ req'[q] = r /\ \A w \in Clients \ {q} : req'[w] = req[w]
  BY <1>1, <1>2, <1>3, UpdatesGoOn
<1>5. ASSUME NEW pcs, pcs \subseteq Changing, "bans" \in pcs, NEW x, Followed(x, pcs)
      PROVE  Followed(x, pcs)'
  BY <1>1, <1>2, <1>4, <1>5, StillFollowed
<1>6. FilesFollow'
  <2>1. SUFFICES ASSUME NEW n \in Names, NEW x \in Entries(n)' PROVE IsFile(x) /\ Settled(x)'
    BY DEF FilesFollow, Followed, IsFile
  <2>2. CASE m3u'[n] = m3u[n]
    <3>1. x \in Entries(n)
      BY <2>2 DEF Entries
    <3>2. IsFile(x)
      BY <3>1 DEF FollowsInv, FilesFollow
    <3>3. Settled(x)'
      BY <1>3, <2>2, <3>1, LeftFile
    <3>4. QED
      BY <3>2, <3>3
  <2>3. CASE m3u'[n] # m3u[n]
    BY <1>3, <2>3, RewrittenFile
  <2>4. QED
    BY <2>2, <2>3
<1>7. BansFollow'
  BY <1>1, <1>5 DEF FollowsInv, BansFollow, IsFile, Filing, Banning, Changing
<1>8. SourcesFollow'
  BY <1>1, <1>5 DEF FollowsInv, SourcesFollow, Changing
<1>9. Reads'
  BY <1>1, ReadsStay
<1>10. QED
  BY <1>4, <1>6, <1>7, <1>8, <1>9 DEF FollowsInv

LEMMA BansFollows ==
    ASSUME FollowsInv, RowsInv', NEW q \in Clients, Bans(q)
    PROVE  FollowsInv'
<1> DEFINE r == [pc |-> "sources", changes |-> req[q].changes, moved |-> req[q].moved]
<1>1. /\ req[q].pc = "bans" /\ Becomes(q, r)
      /\ UNCHANGED <<disk, m3u, sources, alone>> /\ excused \subseteq excused'
      /\ \/ banned' = banned /\ req[q].moved \subseteq excused'
         \/ banned' = Rewritten(banned, req[q].changes)
  BY DEF Bans, At, tables
<1>2. r.pc = "sources" /\ r.changes = req[q].changes /\ r.moved = req[q].moved
  OBVIOUS
<1> HIDE DEF r
<1>3. Updating(q) /\ Started(r) /\ r.pc # "appending"
  BY <1>1, <1>2, NextStage DEF Changing
<1>4. UpdatesInv' /\ req'[q] = r /\ \A w \in Clients \ {q} : req'[w] = req[w]
  BY <1>1, <1>2, <1>3, UpdatesGoOn
<1>5. ASSUME NEW pcs, pcs \subseteq Changing, "sources" \in pcs \/ "bans" \notin pcs \/ req[q].moved \subseteq excused',
             NEW x, Followed(x, pcs)
      PROVE  Followed(x, pcs)'
  BY <1>1, <1>2, <1>4, <1>5, StillFollowed
<1>6. FilesFollow'
  <2>1. \A n \in Names : Entries(n)' = Entries(n)
    BY <1>1, SameEntries
  <2>2. QED
    BY <1>5, <2>1 DEF FollowsInv, FilesFollow, IsFile, Filing, Changing
<1>7. BansFollow'
  <2>1. CASE banned' = banned /\ req[q].moved \subseteq excused'
    BY <1>5, <2>1 DEF FollowsInv, BansFollow, IsFile, Filing, Banning, Changing
  <2>2. CASE banned' = Rewritten(banned, req[q].changes)
    <3>1. SUFFICES ASSUME NEW x \in Rewritten(banned, req[q].changes) PROVE IsFile(x) /\ Settled(x)'
      BY <2>2 DEF BansFollow, Followed, IsFile
    <3>2. \A s \in banned : IsFile(s) /\ Followed(s, Banning)
      BY DEF FollowsInv, BansFollow
    <3>3. \A s \in banned : s \in Refs /\ s.path \in Paths /\ s.means # Made
      BY <3>2 DEF IsFile, FilePaths
    <3>4. PICK s \in banned : /\ x \in Refs /\ x.means = s.means
                              /\ x.path \in Paths /\ Len(x.path) = Len(s.path)
                              /\ Followed(s, Banning) => Settled(x)
      BY <1>3, <3>3, RewrittenSettle
    <3>5. QED
      BY <1>1, <3>2, <3>4 DEF IsFile, Settled, FilePaths, Folder
  <2>3. QED
    BY <1>1, <2>1, <2>2
<1>8. SourcesFollow'
  BY <1>1, <1>5 DEF FollowsInv, SourcesFollow, Changing
<1>9. Reads'
  <2>1. \A w \in Clients : At(w, "appending")' => req'[w] = req[w]
    BY <1>3, <1>4 DEF At
  <2>2. QED
    BY <1>1, <2>1, ReadsStay DEF FollowsInv
<1>10. QED
  BY <1>4, <1>6, <1>7, <1>8, <1>9 DEF FollowsInv

(* What is no folder that moved has no source to change.                   *)
LEMMA NoSourceLeft ==
    ASSUME FollowsInv, NEW q \in Clients, Updating(q),
           {c \in req[q].changes : c.new # <<>> /\ Folder(c.old)} = {},
           NEW x, x.means \in Range(disk) \ alone, Followed(x, Changing)
    PROVE  Settled(x)
<1>1. ~Pending(q, x, Changing)
  <2>1. SUFFICES ASSUME NEW c \in req[q].changes, x.means \in req[q].moved, c.new # <<>> PROVE FALSE
    BY DEF Pending
  <2>2. req[q].moved \subseteq alone
    BY <2>1 DEF FollowsInv, UpdatesInv, Started, Updating, Changing
  <2>3. QED
    BY <2>1, <2>2
<1>2. QED
  BY <1>1, OthersExcused DEF Followed

LEMMA SourcesFollows ==
    ASSUME FollowsInv, RowsInv', NEW q \in Clients, Sources(q)
    PROVE  FollowsInv'
<1> DEFINE moves == {c \in req[q].changes : c.new # <<>> /\ Folder(c.old)}
<1>1. /\ req[q].pc = "sources" /\ Becomes(q, Idle)
      /\ UNCHANGED <<disk, m3u, banned, alone>> /\ excused \subseteq excused'
      /\ \/ sources' = sources /\ req[q].moved \subseteq excused'
         \/ sources' = Rewritten(sources, moves)
  BY DEF Sources, At, tables
<1>2. Updating(q)
  BY <1>1 DEF FollowsInv, UpdatesInv, Started, Updating, Changing
<1>3. UpdatesInv' /\ req'[q] = Idle /\ \A w \in Clients \ {q} : req'[w] = req[w]
  BY <1>1, <1>2, IdleStarted, UpdatesGoOn
<1>4. ASSUME NEW pcs, pcs \subseteq Changing, "sources" \notin pcs \/ req[q].moved \subseteq excused',
             NEW x, Followed(x, pcs)
      PROVE  Followed(x, pcs)'
  BY <1>1, <1>3, <1>4, StillFollowed
<1>5. FilesFollow'
  <2>1. \A n \in Names : Entries(n)' = Entries(n)
    BY <1>1, SameEntries
  <2>2. QED
    BY <1>4, <2>1 DEF FollowsInv, FilesFollow, IsFile, Filing, Changing
<1>6. BansFollow'
  BY <1>1, <1>4 DEF FollowsInv, BansFollow, IsFile, Filing, Banning, Changing
<1>7. SourcesFollow'
  <2>1. CASE sources' = sources /\ req[q].moved \subseteq excused'
    BY <1>1, <1>4, <2>1 DEF FollowsInv, SourcesFollow, Changing
  <2>2. CASE sources' = Rewritten(sources, moves)
    <3>1. SUFFICES ASSUME NEW x \in Rewritten(sources, moves)
                   PROVE  /\ x \in Refs /\ x.path \in Paths /\ x.means \in Range(Start) \ {Gone}
                          /\ x.means \in Range(disk) \ alone => Settled(x)
      BY <1>1, <2>2 DEF SourcesFollow, Followed, Settled
    <3>2. CASE moves = {}
      <4>1. x \in sources
        BY <3>2, UntouchedStay
      <4>2. x.means \in Range(disk) \ alone => Settled(x)
        BY <1>2, <3>2, <4>1, NoSourceLeft DEF FollowsInv, SourcesFollow
      <4>3. QED
        BY <4>1, <4>2 DEF FollowsInv, SourcesFollow
    <3>3. CASE moves # {}
      <4>1. moves = req[q].changes
        BY <1>2, <3>3, OneMove
      <4>2. \A s \in sources : s \in Refs /\ s.path \in Paths /\ s.means # Made
        BY StartAssumption DEF FollowsInv, SourcesFollow
      <4>3. PICK s \in sources : /\ x \in Refs /\ x.means = s.means /\ x.path \in Paths
                                 /\ Followed(s, Changing) => Settled(x)
        BY <1>2, <4>1, <4>2, RewrittenSettle
      <4>4. QED
        BY <4>3 DEF FollowsInv, SourcesFollow
    <3>4. QED
      BY <3>2, <3>3
  <2>3. QED
    BY <1>1, <2>1, <2>2
<1>8. Reads'
  <2>1. \A w \in Clients : At(w, "appending")' => req'[w] = req[w]
    BY <1>3, IdleStarted DEF At
  <2>2. QED
    BY <1>1, <2>1, ReadsStay DEF FollowsInv
<1>9. QED
  BY <1>3, <1>5, <1>6, <1>7, <1>8 DEF FollowsInv

LEMMA KillFollows ==
    ASSUME FollowsInv, RowsInv', Kill
    PROVE  FollowsInv'
<1>1. /\ mu' = Nobody /\ excused \subseteq excused'
      /\ \A w \in Clients : req'[w] = Idle
      /\ \A w \in Clients : Updating(w) => req[w].moved \subseteq excused'
      /\ UNCHANGED <<disk, m3u, banned, sources, alone>>
  BY DEF Kill
<1>2. UpdatesInv'
  <2>1. ASSUME NEW w \in Clients PROVE ~Updating(w)' /\ Started(req[w])'
    BY <1>1, IdleStarted DEF Updating, Started, Changing, Idle
  <2>2. QED
    BY <1>1, <2>1, UpdatesStay DEF FollowsInv
<1>3. ASSUME NEW pcs, pcs \subseteq Changing, NEW x, Followed(x, pcs) PROVE Followed(x, pcs)'
  BY <1>1, <1>3, StillFollowed
<1>4. FilesFollow'
  <2>1. \A n \in Names : Entries(n)' = Entries(n)
    BY <1>1, SameEntries
  <2>2. QED
    BY <1>3, <2>1 DEF FollowsInv, FilesFollow, IsFile, Filing, Changing
<1>5. BansFollow'
  BY <1>1, <1>3 DEF FollowsInv, BansFollow, IsFile, Filing, Banning, Changing
<1>6. SourcesFollow'
  BY <1>1, <1>3 DEF FollowsInv, SourcesFollow
<1>7. Reads'
  BY <1>1, ReadsStay
<1>8. QED
  BY <1>2, <1>4, <1>5, <1>6, <1>7 DEF FollowsInv

----------------------------------------------------------------------------
(* Steps that change the disk.                                             *)
AllRefs == (UNION {Entries(n) : n \in Names}) \cup banned \cup sources

LEMMA AllRefsAre ==
    ASSUME FollowsInv, NEW x \in AllRefs
    PROVE  x \in Refs /\ x.path \in Paths /\ x.means # Made
<1>1. CASE x \in sources
  BY <1>1, StartAssumption DEF FollowsInv, SourcesFollow
<1>2. CASE x \in banned
  BY <1>2 DEF FollowsInv, BansFollow, IsFile, FilePaths
<1>3. CASE \E n \in Names : x \in Entries(n)
  BY <1>3, EntriesAreFiles
<1>4. QED
  BY <1>1, <1>2, <1>3 DEF AllRefs

LEMMA DiskChanges ==
    ASSUME FollowsInv, RowsInv', UpdatesInv', Reads',
           UNCHANGED <<m3u, banned, sources>>, alone \subseteq alone',
           \A pcs \in SUBSET Changing : {"remove", "list"} \subseteq pcs =>
             \A x \in AllRefs : Followed(x, pcs) => Followed(x, pcs)',
           \A t \in Range(Start) \ {Gone} : t \in Range(disk') => t \in Range(disk)
    PROVE  FollowsInv'
<1>1. \A n \in Names : Entries(n)' = Entries(n)
  BY SameEntries
<1>2. FilesFollow'
  <2>1. SUFFICES ASSUME NEW n \in Names, NEW x \in Entries(n) PROVE IsFile(x) /\ Followed(x, Filing)'
    BY <1>1 DEF FilesFollow, IsFile
  <2>2. x \in AllRefs /\ IsFile(x) /\ Followed(x, Filing)
    BY DEF AllRefs, FollowsInv, FilesFollow
  <2>3. Filing \in SUBSET Changing /\ {"remove", "list"} \subseteq Filing
    BY DEF Filing, Changing
  <2>4. QED
    BY <2>2, <2>3
<1>3. BansFollow'
  <2>1. SUFFICES ASSUME NEW x \in banned PROVE IsFile(x) /\ Followed(x, Banning)'
    BY DEF BansFollow, IsFile
  <2>2. x \in AllRefs /\ IsFile(x) /\ Followed(x, Banning)
    BY DEF AllRefs, FollowsInv, BansFollow
  <2>3. Banning \in SUBSET Changing /\ {"remove", "list"} \subseteq Banning
    BY DEF Banning, Filing, Changing
  <2>4. QED
    BY <2>2, <2>3
<1>4. SourcesFollow'
  <2>1. SUFFICES ASSUME NEW x \in sources
                 PROVE  /\ x \in Refs /\ x.path \in Paths /\ x.means \in Range(Start) \ {Gone}
                        /\ x.means \in Range(disk') \ alone' => Followed(x, Changing)'
    BY DEF SourcesFollow
  <2>2. /\ x \in AllRefs /\ x \in Refs /\ x.path \in Paths /\ x.means \in Range(Start) \ {Gone}
        /\ x.means \in Range(disk) \ alone => Followed(x, Changing)
    BY DEF AllRefs, FollowsInv, SourcesFollow
  <2>3. Changing \in SUBSET Changing /\ {"remove", "list"} \subseteq Changing
    BY DEF Changing
  <2>4. QED
    BY <2>2, <2>3
<1>5. QED
  BY <1>2, <1>3, <1>4 DEF FollowsInv

LEMMA OverlapExcuses ==
    ASSUME NEW q \in Clients, NEW w \in Clients, w # q, Updating(w), NEW things
    PROVE  things \subseteq Overlaps(q, things) /\ req[w].moved \subseteq Overlaps(q, things)
BY DEF Overlaps

(* Updates across a change of the disk by one of them.                     *)
LEMMA UpdatesAcross ==
    ASSUME FollowsInv, DiskOK', NEW q \in Clients, NEW r, NEW things,
           req'[q] = r, \A w \in Clients \ {q} : req'[w] = req[w],
           alone \subseteq alone', excused \cup Overlaps(q, things) \subseteq excused',
           Started(r)', r.pc \in Changing => r.moved \subseteq (IF Updating(q) THEN req[q].moved ELSE {}) \cup things,
           Vacated(q)',
           \A p \in Paths : disk'[p] \in {disk[p], Gone, Made} \cup things
    PROVE  UpdatesInv'
<1>1. ASSUME NEW w \in Clients, w # q PROVE Started(req[w])' /\ (Updating(w)' <=> Updating(w)) /\ req'[w] = req[w]
  <2>1. PICK s : s = req[w]
    OBVIOUS
  <2>2. Started(s)'
    BY <2>1, StartedStays DEF FollowsInv, UpdatesInv
  <2>3. req'[w] = s
    BY <1>1, <2>1
  <2>4. QED
    BY <2>1, <2>2, <2>3 DEF Started, Updating
<1>2. ASSUME NEW w \in Clients, w # q, Updating(w)
      PROVE  things \subseteq excused' /\ req[w].moved \subseteq excused' /\ (Updating(q)' => r.moved \subseteq excused')
  <2>1. things \subseteq excused' /\ req[w].moved \subseteq excused'
    BY <1>2, OverlapExcuses
  <2>2. Updating(q) => req[q].moved \subseteq excused'
    BY <1>2 DEF FollowsInv, UpdatesInv, Overlapped
  <2>3. QED
    BY <2>1, <2>2 DEF Updating, Changing
<1>3. Overlapped'
  <2>1. SUFFICES ASSUME NEW w \in Clients, NEW o \in Clients, w # o, Updating(w)', Updating(o)'
                 PROVE  req'[w].moved \subseteq excused'
    BY DEF Overlapped
  <2>2. CASE w = q
    BY <1>1, <1>2, <2>1, <2>2
  <2>3. CASE w # q /\ o = q
    BY <1>1, <1>2, <2>1, <2>3
  <2>4. CASE w # q /\ o # q
    <3>1. req[w].moved \subseteq excused
      BY <1>1, <2>1, <2>4 DEF FollowsInv, UpdatesInv, Overlapped
    <3>2. QED
      BY <1>1, <2>4, <3>1
  <2>5. QED
    BY <2>2, <2>3, <2>4
<1>4. ASSUME NEW w \in Clients, w # q PROVE Vacated(w)'
  <2>1. SUFFICES ASSUME Updating(w), NEW c \in req[w].changes, NEW p \in Paths, Applies(c, p)
                 PROVE  disk'[p] \in excused' \cup {Gone, Made}
    BY <1>1, <1>4 DEF Vacated, Applies
  <2>2. disk[p] \in excused \cup {Gone, Made}
    BY <2>1 DEF FollowsInv, UpdatesInv, Vacated
  <2>3. QED
    BY <1>2, <1>4, <2>1, <2>2
<1>5. Started(req[q])'
  BY DEF Started
<1>6. QED
  BY <1>1, <1>3, <1>4, <1>5 DEF UpdatesInv

(* And references: those of another update are excused.                    *)
LEMMA RefsAcross ==
    ASSUME FollowsInv, NEW q \in Clients, NEW things, excused \cup Overlaps(q, things) \subseteq excused',
           NEW pcs \in SUBSET Changing, NEW x, Followed(x, pcs),
           Pending(q, x, pcs) /\ x.means # Gone => Followed(x, pcs)',
           disk[x.path] = x.means /\ x.means \notin excused' \cup {Gone} => Followed(x, pcs)'
    PROVE  Followed(x, pcs)'
<1>1. ASSUME NEW w \in Clients, w # q, Pending(w, x, pcs) PROVE Settled(x)'
  BY <1>1, OverlapExcuses DEF Pending, Settled
<1>2. x.means \in excused' \cup {Gone} => Settled(x)'
  BY DEF Settled
<1>3. QED
  BY <1>1, <1>2 DEF Followed, Settled

LEMMA RangeOfDisk ==
    ASSUME TypesInv
    PROVE  /\ \A p \in Paths : disk[p] \in Range(disk)
           /\ \A t \in Range(disk) : \E p \in Paths : t = disk[p]
BY DEF TypesInv, Range

(* RemoveAll, of a path and of a part of what is below it.                 *)
LEMMA RemovedDisk ==
    ASSUME FollowsInv, RowsInv', \A p \in Paths : disk'[p] \in {disk[p], Gone}
    PROVE  DiskOK' /\ \A t : t # Gone /\ t \in Range(disk') => t \in Range(disk)
<1>1. DiskOK'
  <2>1. \A p \in Paths : disk'[p] = disk[p] \/ disk'[p] = Gone
    OBVIOUS
  <2>2. DiskOK
    BY DEF FollowsInv, UpdatesInv
  <2>3. QED
    BY <2>1, <2>2, StartAssumption DEF DiskOK
<1>2. ASSUME NEW t, t # Gone, t \in Range(disk') PROVE t \in Range(disk)
  <2>1. PICK p \in Paths : t = disk'[p]
    BY <1>2 DEF RowsInv, TypesInv, Range
  <2>2. t = disk[p]
    BY <1>2, <2>1
  <2>3. QED
    BY <2>2, RangeOfDisk DEF FollowsInv, RowsInv
<1>3. QED
  BY <1>1, <1>2

LEMMA RemoveOneFollows ==
    ASSUME FollowsInv, RowsInv', NEW q \in Clients, NEW path \in Paths, RemoveOne(q, path)
    PROVE  FollowsInv'
<1> DEFINE left == req[q].targets \ {path}
           c == [old |-> path, new |-> <<>>]
<1>1. PICK r : r = [pc |-> IF left = {} THEN "list" ELSE "remove", targets |-> left,
                    changes |-> req[q].changes \cup {c}, moved |-> req[q].moved \cup Takings(path)]
  OBVIOUS
<1>2. /\ req[q].pc = "remove" /\ Becomes(q, r)
      /\ disk' = [p \in Paths |-> IF Below(p, path) THEN Gone ELSE disk[p]]
      /\ excused' = excused \cup Overlaps(q, Takings(path))
      /\ UNCHANGED <<m3u, banned, sources, alone>>
  BY <1>1 DEF RemoveOne, At, tables
<1>3. /\ r.pc \in {"remove", "list"} /\ r.changes = req[q].changes \cup {c}
      /\ r.moved = req[q].moved \cup Takings(path) /\ c.old = path /\ c.new = <<>>
  BY <1>1
<1> HIDE DEF c
<1>4. req'[q] = r /\ \A w \in Clients \ {q} : req'[w] = req[w]
  BY <1>2, OthersStay DEF FollowsInv, RowsInv
<1>5. /\ Started(req[q]) /\ Deletion(req[q].changes)
      /\ ~Updating(q) => req[q].changes = {} /\ req[q].moved = {}
  BY <1>2 DEF FollowsInv, UpdatesInv, Started, Changing, Updating
<1>6. Started(r)
  BY <1>3, <1>5 DEF Started, Deletion, Changing
<1>7. Started(r)'
  BY <1>2, <1>6, StartedStays
<1>8. DiskOK' /\ \A t : t # Gone /\ t \in Range(disk') => t \in Range(disk)
  BY <1>2, RemovedDisk
<1>9. Vacated(q)'
  <2>1. SUFFICES ASSUME NEW d \in r.changes, NEW p \in Paths, Applies(d, p)
                 PROVE  disk'[p] \in excused' \cup {Gone, Made}
    BY <1>4 DEF Vacated, Applies
  <2>2. CASE d = c
    BY <1>2, <1>3, <2>1, <2>2 DEF Applies
  <2>3. CASE d \in req[q].changes
    <3>1. Updating(q)
      BY <1>2, <2>3 DEF Updating
    <3>2. disk[p] \in excused \cup {Gone, Made}
      BY <2>1, <2>3, <3>1 DEF FollowsInv, UpdatesInv, Vacated
    <3>3. QED
      BY <1>2, <3>2
  <2>4. QED
    BY <1>3, <2>2, <2>3
<1>10. UpdatesInv'
  <2>1. r.moved \subseteq (IF Updating(q) THEN req[q].moved ELSE {}) \cup Takings(path)
    BY <1>3, <1>5
  <2>2. \A p \in Paths : disk'[p] \in {disk[p], Gone, Made} \cup Takings(path)
    BY <1>2
  <2>3. QED
    BY <1>2, <1>4, <1>7, <1>8, <1>9, <2>1, <2>2, UpdatesAcross
<1>11. Reads'
  BY <1>2, <1>3, <1>4, ReadsStay DEF FollowsInv, At
<1>12. Updating(q)'
  BY <1>3, <1>4 DEF Updating
<1>13. ASSUME NEW pcs \in SUBSET Changing, {"remove", "list"} \subseteq pcs, NEW x \in AllRefs, Followed(x, pcs)
       PROVE  Followed(x, pcs)'
  <2>1. ASSUME Pending(q, x, pcs), x.means # Gone PROVE Pending(q, x, pcs)'
    <3>1. PICK d \in req[q].changes : Applies(d, x.path) /\ (d.new = <<>> => x.means \notin Range(disk))
      BY <2>1 DEF Pending
    <3>2. d.new = <<>> /\ x.means \notin Range(disk')
      BY <1>5, <1>8, <2>1, <3>1 DEF Deletion
    <3>3. d \in req'[q].changes /\ x.means \in req'[q].moved /\ req'[q].pc \in pcs
      BY <1>3, <1>4, <1>13, <2>1 DEF Pending
    <3>4. QED
      BY <1>12, <3>1, <3>2, <3>3 DEF Pending, Applies
  <2>2. ASSUME disk[x.path] = x.means, x.means \notin excused' \cup {Gone} PROVE Followed(x, pcs)'
    <3>1. x.path \in Paths /\ x.means # Made
      BY AllRefsAre
    <3>2. CASE Below(x.path, path)
      <4>1. x.means \in Takings(path)
        BY <2>2, <3>1, <3>2 DEF Takings
      <4>2. ASSUME NEW p \in Paths PROVE disk'[p] # x.means
        BY <1>2, <2>2, <3>1, <3>2 DEF FollowsInv, UpdatesInv, DiskOK
      <4>3. x.means \notin Range(disk')
        BY <4>2 DEF RowsInv, TypesInv, Range
      <4>4. c \in req'[q].changes /\ x.means \in req'[q].moved /\ req'[q].pc \in pcs
        BY <1>3, <1>4, <1>13, <4>1
      <4>5. QED
        BY <1>3, <1>12, <3>2, <4>3, <4>4 DEF Followed, Pending, Applies
    <3>3. CASE ~Below(x.path, path)
      BY <1>2, <2>2, <3>1, <3>3 DEF Followed, Settled
    <3>4. QED
      BY <3>2, <3>3
  <2>3. QED
    BY <1>2, <1>13, <2>1, <2>2, RefsAcross DEF Followed
<1>14. QED
  BY <1>2, <1>8, <1>10, <1>11, <1>13, DiskChanges

LEMMA RemoveFailsFollows ==
    ASSUME FollowsInv, RowsInv', NEW q \in Clients, NEW path, NEW part, RemoveFails(q, path, part)
    PROVE  FollowsInv'
<1> DEFINE lost == {disk[p] : p \in part} \ {Gone}
<1>1. PICK r : r = IF req[q].changes = {} THEN Idle
                   ELSE [pc |-> "list", changes |-> req[q].changes, moved |-> req[q].moved]
  OBVIOUS
<1>2. /\ req[q].pc = "remove" /\ Becomes(q, r)
      /\ disk' = [p \in Paths |-> IF p \in part THEN Gone ELSE disk[p]]
      /\ excused' = excused \cup lost \cup Overlaps(q, lost)
      /\ UNCHANGED <<m3u, banned, sources, alone>>
  BY <1>1 DEF RemoveFails, At, tables
<1>3. \/ req[q].changes = {} /\ r.pc = "idle"
      \/ r.pc = "list" /\ r.changes = req[q].changes /\ r.moved = req[q].moved /\ r.changes # {}
  BY <1>1 DEF Idle
<1>4. Started(req[q]) /\ Deletion(req[q].changes)
  BY <1>2 DEF FollowsInv, UpdatesInv, Started, Changing, Updating
<1>5. Started(r)
  <2>1. CASE req[q].changes = {}
    BY <1>1, <2>1, IdleStarted
  <2>2. CASE req[q].changes # {}
    BY <1>3, <1>4, <2>2 DEF Started, Deletion, Changing
  <2>3. QED
    BY <2>1, <2>2
<1>6. req'[q] = r /\ \A w \in Clients \ {q} : req'[w] = req[w]
  BY <1>2, OthersStay DEF FollowsInv, RowsInv
<1>7. Started(r)'
  BY <1>2, <1>5, StartedStays
<1>8. DiskOK' /\ \A t : t # Gone /\ t \in Range(disk') => t \in Range(disk)
  BY <1>2, RemovedDisk
<1>9. Updating(q) => r.pc = "list"
  BY <1>3 DEF Updating
<1>10. Vacated(q)'
  <2>1. SUFFICES ASSUME Updating(q)', NEW d \in r.changes, NEW p \in Paths, Applies(d, p)
                 PROVE  disk'[p] \in excused' \cup {Gone, Made}
    BY <1>6 DEF Vacated, Applies
  <2>2. Updating(q) /\ d \in req[q].changes
    BY <1>2, <1>3, <1>6, <2>1 DEF Updating
  <2>3. disk[p] \in excused \cup {Gone, Made}
    BY <2>1, <2>2 DEF FollowsInv, UpdatesInv, Vacated
  <2>4. QED
    BY <1>2, <2>3
<1>11. UpdatesInv'
  <2>1. r.pc \in Changing => r.moved \subseteq (IF Updating(q) THEN req[q].moved ELSE {}) \cup lost
    BY <1>2, <1>3 DEF Updating, Changing
  <2>2. \A p \in Paths : disk'[p] \in {disk[p], Gone, Made} \cup lost
    BY <1>2
  <2>3. QED
    BY <1>2, <1>6, <1>7, <1>8, <1>10, <2>1, <2>2, UpdatesAcross
<1>12. Reads'
  BY <1>2, <1>3, <1>6, ReadsStay DEF FollowsInv, At
<1>13. ASSUME NEW pcs \in SUBSET Changing, {"remove", "list"} \subseteq pcs, NEW x \in AllRefs, Followed(x, pcs)
       PROVE  Followed(x, pcs)'
  <2>1. ASSUME Pending(q, x, pcs), x.means # Gone PROVE Pending(q, x, pcs)'
    <3>1. PICK d \in req[q].changes : Applies(d, x.path) /\ (d.new = <<>> => x.means \notin Range(disk))
      BY <2>1 DEF Pending
    <3>2. d.new = <<>> /\ x.means \notin Range(disk')
      BY <1>4, <1>8, <2>1, <3>1 DEF Deletion
    <3>3. d \in req'[q].changes /\ x.means \in req'[q].moved /\ req'[q].pc \in pcs /\ Updating(q)'
      BY <1>3, <1>6, <1>9, <1>13, <2>1 DEF Pending, Updating
    <3>4. QED
      BY <3>1, <3>2, <3>3 DEF Pending, Applies
  <2>2. ASSUME disk[x.path] = x.means, x.means \notin excused' \cup {Gone} PROVE Followed(x, pcs)'
    <3>1. x.path \in Paths
      BY AllRefsAre
    <3>2. x.path \notin part
      BY <1>2, <2>2
    <3>3. QED
      BY <1>2, <2>2, <3>1, <3>2 DEF Followed, Settled
  <2>3. QED
    BY <1>2, <1>13, <2>1, <2>2, RefsAcross DEF Followed
<1>14. QED
  BY <1>2, <1>8, <1>11, <1>12, <1>13, DiskChanges

(* A file that arrives is named by no reference yet.                       *)
LEMMA ArrivesFollows ==
    ASSUME FollowsInv, RowsInv', NEW path \in Paths, ~Folder(path), Arrives(path)
    PROVE  FollowsInv'
<1>1. /\ Newcomer \notin Range(disk) /\ disk[path] = Gone
      /\ disk' = [disk EXCEPT ![path] = Newcomer]
      /\ excused \subseteq excused'
      /\ (\E q \in Clients : Updating(q) /\ \E c \in req[q].changes : Applies(c, path)) => Newcomer \in excused'
      /\ UNCHANGED <<m3u, banned, sources, alone, req>>
  BY DEF Arrives, tables
<1>2. /\ disk \in [Paths -> Things \cup {Gone}]
      /\ Newcomer \notin {Gone, Made} /\ Gone # Made
  BY StartAssumption DEF FollowsInv, RowsInv, TypesInv
<1>3. disk'[path] = Newcomer /\ \A p \in Paths : p # path => disk'[p] = disk[p]
  BY <1>1, <1>2
<1>4. \A p \in Paths : disk[p] # Newcomer
  BY <1>1, <1>2 DEF Range
<1>5. ASSUME NEW t, t # Newcomer, t \in Range(disk') PROVE t \in Range(disk)
  <2>1. PICK p \in Paths : t = disk'[p]
    BY <1>5 DEF RowsInv, TypesInv, Range
  <2>2. t = disk[p]
    BY <1>3, <1>5, <2>1
  <2>3. QED
    BY <2>2, RangeOfDisk DEF FollowsInv, RowsInv
<1>6. DiskOK'
  <2>1. DiskOK
    BY DEF FollowsInv, UpdatesInv
  <2>2. ASSUME NEW p \in Paths, NEW o \in Paths, disk'[p] = disk'[o], disk'[p] \notin {Gone, Made} PROVE p = o
    BY <1>3, <1>4, <2>1, <2>2 DEF DiskOK
  <2>3. ASSUME NEW p \in Paths, disk'[p] = Made PROVE Folder(p)
    BY <1>2, <1>3, <2>1, <2>3 DEF DiskOK
  <2>4. QED
    BY <2>2, <2>3 DEF DiskOK
<1>7. UpdatesInv'
  <2>1. ASSUME NEW w \in Clients PROVE Started(req[w])'
    BY <1>1 DEF FollowsInv, UpdatesInv, Started
  <2>2. ASSUME NEW w \in Clients PROVE Vacated(w)'
    <3>1. SUFFICES ASSUME Updating(w), NEW c \in req[w].changes, NEW p \in Paths, Applies(c, p)
                   PROVE  disk'[p] \in excused' \cup {Gone, Made}
      BY <1>1 DEF Vacated, Updating, Applies
    <3>2. disk[p] \in excused \cup {Gone, Made}
      BY <3>1 DEF FollowsInv, UpdatesInv, Vacated
    <3>3. CASE p = path
      BY <1>1, <1>3, <3>1, <3>3
    <3>4. CASE p # path
      BY <1>1, <1>3, <3>2, <3>4
    <3>5. QED
      BY <3>3, <3>4
  <2>3. Overlapped'
    BY <1>1 DEF FollowsInv, UpdatesInv, Overlapped, Updating
  <2>4. QED
    BY <1>6, <2>1, <2>2, <2>3 DEF UpdatesInv
<1>8. ASSUME NEW x \in AllRefs PROVE x.means # Newcomer
  <2>1. CASE x \in sources
    BY <2>1, StartAssumption DEF FollowsInv, SourcesFollow
  <2>2. CASE x \in banned
    BY <2>2 DEF Arrives
  <2>3. CASE \E n \in Names : x \in Entries(n)
    BY <2>3 DEF Arrives
  <2>4. QED
    BY <2>1, <2>2, <2>3 DEF AllRefs
<1>9. ASSUME NEW pcs \in SUBSET Changing, NEW x \in AllRefs, Followed(x, pcs) PROVE Followed(x, pcs)'
  <2>1. x.path \in Paths /\ x.means # Made /\ x.means # Newcomer
    BY <1>8, AllRefsAre
  <2>2. Settled(x) => Settled(x)'
    BY <1>1, <1>3, <2>1 DEF Settled
  <2>3. ASSUME NEW w \in Clients, Pending(w, x, pcs), x.means # Gone PROVE Pending(w, x, pcs)'
    <3>1. PICK c \in req[w].changes : /\ Applies(c, x.path)
                                      /\ c.new = <<>> => x.means \notin Range(disk)
                                      /\ c.new # <<>> => disk[Moved(c, x.path)] = x.means
      BY <2>3 DEF Pending
    <3>2. c.new = <<>> => x.means \notin Range(disk')
      BY <1>5, <2>1, <3>1
    <3>3. c.new # <<>> => disk'[Moved(c, x.path)] = x.means
      <4>1. SUFFICES ASSUME c.new # <<>> PROVE disk'[Moved(c, x.path)] = x.means
        OBVIOUS
      <4>2. \E m \in Moves : c = [old |-> m[1], new |-> m[2]]
        BY <2>3, <4>1, OneMove DEF Pending
      <4>3. Moved(c, x.path) \in Paths
        BY <2>1, <3>1, <4>2, MovedPath
      <4>4. QED
        BY <1>1, <1>3, <2>3, <3>1, <4>1, <4>3
    <3>4. QED
      BY <1>1, <2>3, <3>1, <3>2, <3>3 DEF Pending, Updating, Applies, Moved
  <2>4. x.means = Gone => Settled(x)'
    BY DEF Settled
  <2>5. QED
    BY <1>9, <2>2, <2>3, <2>4 DEF Followed
<1>10. Reads'
  BY <1>1, ReadsStay DEF FollowsInv
<1>11. ASSUME NEW t \in Range(Start) \ {Gone}, t \in Range(disk') PROVE t \in Range(disk)
  BY <1>5, <1>11, StartAssumption
<1>12. QED
  BY <1>1, <1>7, <1>9, <1>10, <1>11, DiskChanges

----------------------------------------------------------------------------
(* os.Rename: what lies where after it.                                    *)
Renamed(from, to) ==
  disk' = [p \in Paths |->
     IF Below(p, to) THEN IF Carried(p, to, from) \in Paths THEN disk[Carried(p, to, from)] ELSE Gone
     ELSE IF Below(p, from) THEN Gone
     ELSE IF Below(to, p) /\ disk[p] = Gone THEN Made
     ELSE disk[p]]

LEMMA RenamedDisk ==
    ASSUME NEW m \in Moves, ~Below(m[2], m[1]), Renamed(m[1], m[2])
    PROVE  /\ \A p \in Paths : Below(p, m[1]) =>
                /\ Carried(p, m[1], m[2]) \in Paths
                /\ disk'[Carried(p, m[1], m[2])] = disk[p]
                /\ disk'[p] = Gone
           /\ \A p \in Paths : ~Below(p, m[1]) /\ ~Below(p, m[2]) =>
                disk'[p] = disk[p] \/ (disk[p] = Gone /\ disk'[p] = Made /\ Folder(p))
           /\ \A p \in Paths : Below(p, m[2]) =>
                \/ disk'[p] = Gone
                \/ \E o \in Paths : /\ Below(o, m[1]) /\ p = Carried(o, m[1], m[2]) /\ Len(o) = Len(p)
                                    /\ disk'[p] = disk[o]
<1> DEFINE from == m[1]
           to == m[2]
<1>1. /\ from \in Paths /\ to \in Paths /\ Len(from) = Len(to)
      /\ from \in Seq(PathNames) /\ to \in Seq(PathNames)
  BY PathAssumption
<1>2. \A p \in Paths : p \in Seq(PathNames)
  BY PathFacts
<1>3. ASSUME NEW p \in Paths, Below(p, from) PROVE ~Below(p, to)
  <2>1. SUFFICES ASSUME Below(p, to) PROVE FALSE
    OBVIOUS
  <2>2. from = to
    BY <1>1, <1>2, <1>3, <2>1, SamePrefix
  <2>3. QED
    BY <1>1, <2>2, BelowItself
<1>4. ASSUME NEW p \in Paths, Below(p, from)
      PROVE  /\ Carried(p, from, to) \in Paths
             /\ disk'[Carried(p, from, to)] = disk[p]
             /\ disk'[p] = Gone
  <2>1. Carried(p, from, to) \in Paths
    BY <1>4, PathAssumption DEF Below, Carried
  <2>2. Below(Carried(p, from, to), to) /\ Carried(Carried(p, from, to), to, from) = p
    BY <1>1, <1>2, <1>4, CarriedThere
  <2>3. disk'[Carried(p, from, to)] = disk[p]
    BY <2>1, <2>2 DEF Renamed
  <2>4. disk'[p] = Gone
    BY <1>3, <1>4 DEF Renamed
  <2>5. QED
    BY <2>1, <2>3, <2>4
<1>5. ASSUME NEW p \in Paths, ~Below(p, from), ~Below(p, to)
      PROVE  disk'[p] = disk[p] \/ (disk[p] = Gone /\ disk'[p] = Made /\ Folder(p))
  <2>1. CASE ~(Below(to, p) /\ disk[p] = Gone)
    BY <1>5, <2>1 DEF Renamed
  <2>2. CASE Below(to, p) /\ disk[p] = Gone
    <3>1. disk'[p] = Made
      BY <1>5, <2>2 DEF Renamed
    <3>2. Len(p) <= Len(to) /\ Len(p) \in {1, 2} /\ Len(to) \in {1, 2}
      <4>1. p \in Seq(PathNames) /\ to \in Seq(PathNames) /\ Below(to, p)
        BY <1>1, <1>2, <2>2
      <4>2. Len(p) <= Len(to)
        BY <4>1, BelowIsLonger
      <4>3. Len(p) \in {1, 2} /\ Len(to) \in {1, 2}
        BY <1>1, PathFacts
      <4>4. QED
        BY <4>2, <4>3
    <3>3. Len(p) # Len(to)
      <4>1. SUFFICES ASSUME Len(p) = Len(to) PROVE FALSE
        OBVIOUS
      <4>2. Below(to, to)
        BY <1>1, BelowItself
      <4>3. p = to
        BY <1>1, <1>2, <2>2, <4>1, <4>2, SamePrefix
      <4>4. QED
        BY <1>5, <4>2, <4>3
    <3>4. Len(p) = 1
      BY ONLY <3>2, <3>3
    <3>5. QED
      BY <2>2, <3>1, <3>4 DEF Folder
  <2>3. QED
    BY <2>1, <2>2
<1>6. ASSUME NEW p \in Paths, Below(p, to)
      PROVE  \/ disk'[p] = Gone
             \/ \E o \in Paths : /\ Below(o, from) /\ p = Carried(o, from, to) /\ Len(o) = Len(p)
                                 /\ disk'[p] = disk[o]
  <2>1. CASE Carried(p, to, from) \notin Paths
    BY <1>6, <2>1 DEF Renamed
  <2>2. CASE Carried(p, to, from) \in Paths
    <3>1. /\ Len(Carried(p, to, from)) = Len(p) /\ Below(Carried(p, to, from), from)
          /\ Carried(Carried(p, to, from), from, to) = p
      BY <1>1, <1>2, <1>6, CarriedThere
    <3>2. disk'[p] = disk[Carried(p, to, from)]
      BY <1>6, <2>2 DEF Renamed
    <3>3. QED
      BY <2>2, <3>1, <3>2
  <2>3. QED
    BY <2>1, <2>2
<1>7. QED
  BY <1>4, <1>5, <1>6

LEMMA RenamedIsOK ==
    ASSUME FollowsInv, RowsInv', NEW m \in Moves, ~Below(m[2], m[1]), Renamed(m[1], m[2])
    PROVE  DiskOK' /\ \A t : t \notin {Gone, Made} /\ t \in Range(disk') => t \in Range(disk)
<1> DEFINE from == m[1]
           to == m[2]
           Stays(p) == ~Below(p, from) /\ disk'[p] = disk[p]
           CameFrom(p, o) == Below(o, from) /\ p = Carried(o, from, to) /\ Len(o) = Len(p) /\ disk'[p] = disk[o]
<1>1. ASSUME NEW p \in Paths
      PROVE  \/ disk'[p] = Gone
             \/ disk'[p] = Made /\ Folder(p)
             \/ Stays(p)
             \/ \E o \in Paths : CameFrom(p, o)
  BY RenamedDisk
<1>2. DiskOK
  BY DEF FollowsInv, UpdatesInv
<1>3. ASSUME NEW p \in Paths, NEW o \in Paths, disk'[p] = disk'[o], disk'[p] \notin {Gone, Made} PROVE p = o
  <2>1. CASE Stays(p) /\ Stays(o)
    BY <1>2, <1>3, <2>1 DEF DiskOK
  <2>2. CASE \E a, b \in Paths : CameFrom(p, a) /\ CameFrom(o, b)
    BY <1>2, <1>3, <2>2 DEF DiskOK
  <2>3. ASSUME NEW a \in Paths, NEW b \in Paths, NEW c \in Paths, Stays(a), CameFrom(b, c),
               disk'[a] = disk'[b], disk'[a] \notin {Gone, Made}
        PROVE  FALSE
    <3>1. a = c
      BY <1>2, <2>3 DEF DiskOK
    <3>2. QED
      BY <2>3, <3>1
  <2>4. QED
    BY <1>1, <1>3, <2>1, <2>2, <2>3
<1>4. ASSUME NEW p \in Paths, disk'[p] = Made PROVE Folder(p)
  <2>1. CASE Stays(p)
    BY <1>2, <1>4, <2>1 DEF DiskOK
  <2>2. ASSUME NEW o \in Paths, CameFrom(p, o) PROVE Folder(p)
    BY <1>2, <1>4, <2>2 DEF DiskOK, Folder
  <2>3. QED
    BY <1>1, <1>4, <2>1, <2>2, StartAssumption
<1>5. ASSUME NEW t, t \notin {Gone, Made}, t \in Range(disk') PROVE t \in Range(disk)
  <2>1. PICK p \in Paths : t = disk'[p]
    BY <1>5 DEF RowsInv, TypesInv, Range
  <2>2. \E o \in Paths : t = disk[o]
    BY <1>1, <1>5, <2>1
  <2>3. QED
    BY <2>2, RangeOfDisk DEF FollowsInv, RowsInv
<1> HIDE DEF Stays, CameFrom
<1>6. DiskOK'
  BY <1>3, <1>4 DEF DiskOK
<1>7. QED
  BY <1>5, <1>6

LEMMA MoveRenamesFollows ==
    ASSUME FollowsInv, RowsInv', NEW q \in Clients, MoveRenames(q)
    PROVE  FollowsInv'
<1>1. PICK m \in Moves : req[q].from = m[1] /\ req[q].to = m[2] /\ ~Below(m[2], m[1])
  BY DEF MoveRenames, At, FollowsInv, UpdatesInv, Started
<1>2. PICK c : c = [old |-> m[1], new |-> m[2]]
  OBVIOUS
<1>3. PICK things : things = Takings(m[1])
  OBVIOUS
<1>4. PICK r : r = [pc |-> "list", changes |-> {c}, moved |-> things]
  OBVIOUS
<1>5. /\ req[q].pc = "move" /\ Becomes(q, r) /\ Renamed(m[1], m[2])
      /\ excused' = excused \cup Overlaps(q, things) \cup Takings(m[2])
      /\ alone' = IF Folder(m[1]) THEN alone ELSE alone \cup things
      /\ UNCHANGED <<m3u, banned, sources>>
  BY <1>1, <1>2, <1>3, <1>4 DEF MoveRenames, At, tables, Renamed, Carried
<1>6. r.pc = "list" /\ r.changes = {c} /\ r.moved = things /\ c.old = m[1] /\ c.new = m[2]
  BY <1>2, <1>4
<1>7. m[1] \in Paths /\ m[2] \in Paths /\ c.new # <<>>
  BY <1>6, PathAssumption, PathFacts
<1>8. req'[q] = r /\ \A w \in Clients \ {q} : req'[w] = req[w]
  BY <1>5, OthersStay DEF FollowsInv, RowsInv
<1>9. /\ \A p \in Paths : Below(p, m[1]) =>
           /\ Carried(p, m[1], m[2]) \in Paths
           /\ disk'[Carried(p, m[1], m[2])] = disk[p]
           /\ disk'[p] = Gone
      /\ \A p \in Paths : ~Below(p, m[1]) /\ ~Below(p, m[2]) =>
           disk'[p] = disk[p] \/ (disk[p] = Gone /\ disk'[p] = Made /\ Folder(p))
      /\ \A p \in Paths : Below(p, m[2]) =>
           \/ disk'[p] = Gone
           \/ \E o \in Paths : /\ Below(o, m[1]) /\ p = Carried(o, m[1], m[2]) /\ Len(o) = Len(p)
                               /\ disk'[p] = disk[o]
  BY <1>1, <1>5, RenamedDisk
<1>10. DiskOK' /\ \A t : t \notin {Gone, Made} /\ t \in Range(disk') => t \in Range(disk)
  BY <1>1, <1>5, RenamedIsOK
<1>11. \A p \in Paths : Below(p, m[1]) /\ disk[p] # Gone => disk[p] \in things
  BY <1>3 DEF Takings
<1>12. Started(r)'
  <2>1. Relocation(r.changes)
    BY <1>1, <1>2, <1>6 DEF Relocation
  <2>2. \A d \in r.changes : d.new # <<>> /\ ~Folder(d.old) => r.moved \subseteq alone'
    BY <1>5, <1>6
  <2>3. QED
    BY <1>6, <2>1, <2>2 DEF Started, Relocation
<1>13. Vacated(q)'
  BY <1>6, <1>8, <1>9 DEF Vacated, Applies
<1>14. UpdatesInv'
  <2>1. \A p \in Paths : disk'[p] \in {disk[p], Gone, Made} \cup things
    BY <1>9, <1>11
  <2>2. alone \subseteq alone' /\ excused \cup Overlaps(q, things) \subseteq excused'
    BY <1>5
  <2>3. QED
    BY <1>6, <1>8, <1>10, <1>12, <1>13, <2>1, <2>2, UpdatesAcross
<1>15. Reads'
  BY <1>5, <1>6, <1>8, ReadsStay DEF FollowsInv, At
<1>16. Updating(q)' /\ ~Updating(q)
  BY <1>5, <1>6, <1>8 DEF Updating
<1>17. ASSUME NEW pcs \in SUBSET Changing, {"remove", "list"} \subseteq pcs, NEW x \in AllRefs, Followed(x, pcs)
       PROVE  Followed(x, pcs)'
  <2>1. ~Pending(q, x, pcs)
    BY <1>16 DEF Pending
  <2>2. ASSUME disk[x.path] = x.means, x.means \notin excused' \cup {Gone} PROVE Followed(x, pcs)'
    <3>1. x.path \in Paths /\ x.means # Made
      BY AllRefsAre
    <3>2. CASE Below(x.path, m[1])
      <4>1. disk'[Moved(c, x.path)] = x.means
        BY <1>6, <1>9, <2>2, <3>1, <3>2 DEF Moved, Carried
      <4>2. c \in req'[q].changes /\ x.means \in req'[q].moved /\ req'[q].pc \in pcs
        BY <1>6, <1>8, <1>11, <1>17, <2>2, <3>1, <3>2
      <4>3. QED
        BY <1>6, <1>7, <1>16, <3>2, <4>1, <4>2 DEF Followed, Pending, Applies, Moved
    <3>3. CASE Below(x.path, m[2])
      BY <1>5, <2>2, <3>1, <3>3 DEF Takings
    <3>4. CASE ~Below(x.path, m[1]) /\ ~Below(x.path, m[2])
      BY <1>9, <2>2, <3>1, <3>4 DEF Followed, Settled
    <3>5. QED
      BY <3>2, <3>3, <3>4
  <2>3. QED
    BY <1>5, <1>17, <2>1, <2>2, RefsAcross
<1>18. ASSUME NEW t \in Range(Start) \ {Gone}, t \in Range(disk') PROVE t \in Range(disk)
  BY <1>10, <1>18, StartAssumption
<1>19. alone \subseteq alone'
  BY <1>5
<1>20. QED
  BY <1>5, <1>14, <1>15, <1>17, <1>18, <1>19, DiskChanges

----------------------------------------------------------------------------
(* All steps, and the start.                                               *)
LEMMA EveryFollows ==
    ASSUME FollowsInv, [Next]_vars
    PROVE  FollowsInv'
<1>1. RowsInv'
  BY EveryStep DEF FollowsInv
<1>2. ASSUME NEW q \in Clients, AsksPlaylist(q) \/ ChangesPlaylist(q) PROVE FollowsInv'
  BY <1>1, <1>2, PlaylistFollows
<1>3. ASSUME NEW q \in Clients, FileOperation(q) PROVE FollowsInv'
  <2>1. ASSUME NEW m \in Moves, MoveChecks(q, m[1], m[2]) PROVE FollowsInv'
    BY <1>1, <2>1, MoveChecksFollows
  <2>2. ASSUME NEW ps \in Deletes, DeletePaths(q, ps) PROVE FollowsInv'
    BY <1>1, <2>2, DeletePathsFollows
  <2>3. UNION Deletes \subseteq Paths
    BY PathAssumption
  <2>4. ASSUME NEW p \in UNION Deletes, RemoveOne(q, p) PROVE FollowsInv'
    BY <1>1, <2>3, <2>4, RemoveOneFollows
  <2>5. ASSUME NEW p \in UNION Deletes, NEW part \in SUBSET FilePaths, RemoveFails(q, p, part) PROVE FollowsInv'
    BY <1>1, <2>3, <2>5, RemoveFailsFollows
  <2>6. ASSUME NEW failed \in SUBSET Names, Rewrite(q, failed) PROVE FollowsInv'
    BY <1>1, <2>6, RewriteFollows
  <2>7. (\E p \in FilePaths : Ban(q, p)) \/ (\E b \in banned : Allow(q, b)) => FollowsInv'
    BY <1>1, BanFollows
  <2>8. MoveRenames(q) \/ MoveFails(q) \/ List(q) \/ Bans(q) \/ Sources(q) => FollowsInv'
    BY <1>1, MoveRenamesFollows, MoveFailsFollows, ListFollows, BansFollows, SourcesFollows
  <2>9. QED
    BY <1>3, <2>1, <2>2, <2>4, <2>5, <2>6, <2>7, <2>8, Zenon DEF FileOperation
<1>4. ASSUME NEW p \in FilePaths, Arrives(p) PROVE FollowsInv'
  BY <1>1, <1>4, ArrivesFollows DEF FilePaths
<1>5. ASSUME UNCHANGED vars PROVE FollowsInv'
  <2>1. /\ UNCHANGED <<disk, sources, excused, alone, m3u, banned, req>>
    BY <1>5 DEF vars, tables
  <2>2. Reads'
    BY <1>1, <2>1, ReadsStay DEF FollowsInv
  <2>3. \A n \in Names : Entries(n)' = Entries(n)
    BY <2>1, SameEntries
  <2>4. QED
    BY <1>1, <2>1, <2>2, <2>3, Quiet
<1>6. QED
  BY <1>1, <1>2, <1>3, <1>4, <1>5, KillFollows, Zenon DEF Next

LEMMA InitFollows == Init => FollowsInv
<1> SUFFICES ASSUME Init PROVE FollowsInv
  OBVIOUS
<1> DEFINE refs == {[path |-> p, means |-> Start[p]] : p \in {p \in Paths : Start[p] # Gone}}
           files == {r \in refs : ~Folder(r.path)}
<1>1. /\ disk = Start /\ banned = files /\ sources = refs
      /\ \E first : m3u = [n \in Names |-> IF n = first THEN files ELSE NoFile]
      /\ req = [q \in Clients |-> Idle]
      /\ excused = {} /\ alone = {}
  BY Zenon DEF Init
<1>2. ASSUME NEW r \in refs
      PROVE  /\ r \in Refs /\ r.path \in Paths /\ r.means \in Range(Start) \ {Gone, Made}
             /\ Settled(r)
  <2>1. PICK p \in Paths : Start[p] # Gone /\ r = [path |-> p, means |-> Start[p]]
    OBVIOUS
  <2>2. Start[p] \in Range(Start) /\ p \in Seq(PathNames)
    BY PathAssumption, StartAssumption DEF Range
  <2>3. Start[p] # Made
    BY <2>2, StartAssumption
  <2>4. r.path = p /\ r.means = Start[p]
    BY <2>1
  <2>5. r \in Refs
    BY <2>1, <2>2, StartAssumption DEF Refs
  <2>6. Settled(r)
    BY <1>1, <2>4 DEF Settled
  <2>7. QED
    BY <2>1, <2>2, <2>3, <2>4, <2>5, <2>6
<1>3. ASSUME NEW r \in files PROVE IsFile(r) /\ Settled(r)
  BY <1>2 DEF IsFile, FilePaths
<1> HIDE DEF refs, files
<1>4. \A q \in Clients : req[q] = Idle
  BY <1>1
<1>5. RowsInv
  BY InitRows
<1>6. UpdatesInv
  <2>1. DiskOK
    BY <1>1, StartAssumption DEF DiskOK, Range
  <2>2. \A q \in Clients : ~Updating(q) /\ Started(req[q])
    BY <1>4, IdleStarted DEF Updating, Changing
  <2>3. QED
    BY <2>1, <2>2 DEF UpdatesInv, Vacated, Overlapped
<1>7. Reads
  BY <1>4, IdleStarted DEF Reads, At
<1>8. FilesFollow
  <2>1. ASSUME NEW n \in Names, NEW r \in Entries(n) PROVE r \in files
    BY <1>1, <2>1 DEF Entries
  <2>2. QED
    BY <1>3, <2>1 DEF FilesFollow, Followed
<1>9. BansFollow
  BY <1>1, <1>3 DEF BansFollow, Followed
<1>10. SourcesFollow
  BY <1>1, <1>2 DEF SourcesFollow, Followed
<1>11. QED
  BY <1>5, <1>6, <1>7, <1>8, <1>9, <1>10 DEF FollowsInv

(* Whenever no request runs, every entry of a playlist, every ban and every *)
(* source still names what it named when it was written, wherever that was  *)
(* moved since (library/fileops.go, store/refs.go): a reference that does   *)
(* not is excused by an overlapping change of files, a failure or a kill,   *)
(* for else an update that will come to it is still under way.              *)
THEOREM ReferencesAreFollowed == Spec => []ReferencesFollow
<1>1. FollowsInv /\ [Next]_vars => FollowsInv'
  BY EveryFollows
<1>2. FollowsInv => ReferencesFollow
  <2>1. SUFFICES ASSUME FollowsInv, AtRest PROVE ReferencesFollow
    BY DEF ReferencesFollow
  <2>2. ASSUME NEW r, NEW pcs, Followed(r, pcs) PROVE Settled(r)
    BY <2>1, <2>2 DEF AtRest, At, Followed, Pending, Updating
  <2>3. ASSUME NEW id \in Ids, rows[id] # NoName, NEW r \in Entries(rows[id]) PROVE Settled(r)
    <3>1. rows[id] \in Names
      BY <2>1, <2>3 DEF FollowsInv, RowsInv, TypesInv
    <3>2. QED
      BY <2>1, <2>2, <2>3, <3>1 DEF FollowsInv, FilesFollow
  <2>4. \A r \in banned : Settled(r)
    BY <2>1, <2>2 DEF FollowsInv, BansFollow
  <2>5. \A r \in sources : r.means \in Range(disk) \ alone => Settled(r)
    BY <2>1, <2>2 DEF FollowsInv, SourcesFollow
  <2>6. QED
    BY <2>3, <2>4, <2>5 DEF ReferencesFollow, Settled
<1>3. QED
  BY InitFollows, <1>1, <1>2, PTL DEF Spec

----------------------------------------------------------------------------
(* What a write of a playlist keeps.                                       *)
Keeps(n, x) == m3u'[n] = NoFile \/ \E y \in m3u'[n] : y.means = x.means

LEMMA PlaylistKeeps ==
    ASSUME FollowsInv, NEW q \in Clients, ChangesPlaylist(q) \/ AsksPlaylist(q),
           NEW n \in Names, m3u[n] # NoFile, NEW x \in m3u[n]
    PROVE  Keeps(n, x) \/ (SetEntries(q) /\ req[q].name = n)
<1>1. m3u \in [Names -> (SUBSET Refs) \cup {NoFile}] /\ Asked(req[q]) /\ Midway(q)
  BY DEF FollowsInv, RowsInv, TypesInv
<1>2. ASSUME m3u'[n] = m3u[n] PROVE Keeps(n, x)
  BY <1>2 DEF Keeps
<1>3. CreateWrites(q) => Keeps(n, x)
  BY <1>1, <1>2 DEF CreateWrites, Midway
<1>4. DeleteFile(q) => Keeps(n, x)
  BY <1>1, <1>2 DEF DeleteFile, Keeps
<1>5. RenameFile(q) => Keeps(n, x)
  <2>1. SUFFICES ASSUME RenameFile(q), n # req[q].to PROVE Keeps(n, x)
    BY <1>1 DEF RenameFile, Midway
  <2>2. req[q] \in Changes
    BY <1>1, <2>1 DEF RenameFile, At, Asked
  <2>3. m3u'[n] \in {m3u[n], NoFile}
    BY <1>1, <2>1, <2>2 DEF RenameFile, Changes
  <2>4. QED
    BY <1>2, <2>3 DEF Keeps
<1>6. AppendWrites(q) => Keeps(n, x)
  <2>1. SUFFICES ASSUME AppendWrites(q), n = req[q].name PROVE Keeps(n, x)
    BY <1>1, <1>2 DEF AppendWrites
  <2>2. req[q].read = m3u[n]
    BY <2>1 DEF AppendWrites, FollowsInv, Reads, Entries
  <2>3. x \in m3u'[n]
    BY <1>1, <2>1, <2>2 DEF AppendWrites
  <2>4. QED
    BY <2>3 DEF Keeps
<1>7. SetEntries(q) => Keeps(n, x) \/ req[q].name = n
  BY <1>1, <1>2 DEF SetEntries
<1>8. m3u' = m3u => Keeps(n, x)
  BY <1>2
<1>9. QED
  BY <1>3, <1>4, <1>5, <1>6, <1>7, <1>8 DEF ChangesPlaylist, AsksPlaylist, Create, DeletePlaylist, Update,
     CreateFails, RenameRow, RenameFails, RenameRefused, SetFails, AppendReads, AppendFails, DeleteRefused,
     DeleteRow, DeleteRowFails, tables

LEMMA RewrittenCarries ==
    ASSUME NEW refs, NEW changes, NEW c \in changes, c.new # <<>>, NEW x \in refs, Applies(c, x.path)
    PROVE  [x EXCEPT !.path = Moved(c, x.path)] \in Rewritten(refs, changes)
<1> DEFINE Carries(d) == {[r EXCEPT !.path = Moved(d, r.path)] : r \in {s \in refs : Applies(d, s.path)}}
<1>1. [x EXCEPT !.path = Moved(c, x.path)] \in Carries(c)
  OBVIOUS
<1>2. c \in {d \in changes : d.new # <<>>}
  OBVIOUS
<1> HIDE DEF Carries
<1>3. [x EXCEPT !.path = Moved(c, x.path)] \in UNION {Carries(d) : d \in {d \in changes : d.new # <<>>}}
  BY <1>1, <1>2
<1>4. QED
  BY <1>3 DEF Rewritten, Carries

(* An update drops what it deleted, and nothing that is there.             *)
LEMMA RewriteKeeps ==
    ASSUME FollowsInv, NEW q \in Clients, NEW failed, Rewrite(q, failed),
           NEW n \in Names, m3u[n] # NoFile, NEW x \in m3u[n], x.means \in Range(disk) \ (excused \cup {Gone})
    PROVE  Keeps(n, x)
<1> DEFINE changes == req[q].changes
<1>1. m3u'[n] = m3u[n] \/ m3u'[n] = Rewritten(m3u[n], changes)
  BY Zenon DEF Rewrite
<1>2. x \in Entries(n)
  BY DEF Entries
<1>3. IsFile(x) /\ Followed(x, Filing) /\ x.path \in Paths
  BY <1>2 DEF FollowsInv, FilesFollow, IsFile, FilePaths
<1>4. Updating(q)
  <2>1. req[q].pc = "rewrite"
    BY Zenon DEF Rewrite, At
  <2>2. QED
    BY <2>1 DEF FollowsInv, UpdatesInv, Started, Updating, Changing
<1>5. CASE \A c \in changes : ~Applies(c, x.path)
  <2>1. x \in Rewritten(m3u[n], changes)
    BY <1>5 DEF Rewritten
  <2>2. QED
    BY <1>1, <2>1 DEF Keeps
<1>6. ASSUME NEW c \in changes, Applies(c, x.path), c.new # <<>> PROVE Keeps(n, x)
  <2>1. PICK y : y = [x EXCEPT !.path = Moved(c, x.path)]
    OBVIOUS
  <2>2. y \in Rewritten(m3u[n], changes)
    BY <1>6, <2>1, RewrittenCarries
  <2>3. y.means = x.means
    BY <1>3, <2>1 DEF IsFile, Refs
  <2>4. QED
    BY <1>1, <2>2, <2>3 DEF Keeps
<1>7. ASSUME NEW c \in changes, Applies(c, x.path), c.new = <<>> PROVE FALSE
  <2>1. Deletion(changes)
    <3>1. Deletion(changes) \/ Relocation(changes)
      BY <1>4 DEF FollowsInv, UpdatesInv, Started, Updating, Changing
    <3>2. CASE Relocation(changes)
      <4>1. PICK m \in Moves : changes = {[old |-> m[1], new |-> m[2]]}
        BY <3>2 DEF Relocation
      <4>2. m[2] \in Paths /\ c.new = m[2]
        BY <4>1, PathAssumption
      <4>3. QED
        BY <1>7, <4>2, PathFacts
    <3>3. QED
      BY <3>1, <3>2
  <2>2. ~Pending(q, x, Filing)
    BY <2>1 DEF Pending, Deletion
  <2>3. Settled(x)
    BY <1>3, <1>4, <2>2, OthersExcused DEF Followed
  <2>4. disk[x.path] = x.means
    BY <2>3 DEF Settled
  <2>5. disk[x.path] \in excused \cup {Gone, Made}
    BY <1>3, <1>4, <1>7 DEF FollowsInv, UpdatesInv, Vacated
  <2>6. QED
    BY <1>3, <2>4, <2>5 DEF IsFile
<1>8. QED
  BY <1>5, <1>6, <1>7

LEMMA StepKeeps ==
    ASSUME FollowsInv, [Next]_vars,
           NEW n \in Names, m3u[n] # NoFile, NEW x \in m3u[n], x.means \in Range(disk) \ (excused \cup {Gone})
    PROVE  Keeps(n, x) \/ \E q \in Clients : SetEntries(q) /\ req[q].name = n
<1>1. m3u' = m3u => Keeps(n, x)
  BY DEF Keeps
<1>2. ASSUME NEW q \in Clients, FileOperation(q) PROVE Keeps(n, x)
  <2>1. m3u' = m3u \/ \E failed : Rewrite(q, failed)
    BY <1>2 DEF FileOperation, MoveChecks, MoveRenames, MoveFails, DeletePaths, RemoveOne, RemoveFails, List,
       Bans, Sources, Ban, Allow, tables
  <2>2. QED
    BY <1>1, <2>1, RewriteKeeps
<1>3. (\E p \in FilePaths : Arrives(p)) \/ Kill \/ UNCHANGED vars => m3u' = m3u
  BY DEF Arrives, Kill, vars, tables
<1>4. QED
  BY <1>1, <1>2, <1>3, PlaylistKeeps, Zenon DEF Next

(* A write of a playlist that is not a new list of entries keeps what the  *)
(* file held (Append and Rewrite of library/playlists.go): an append reads *)
(* and writes under one hold of the mutex, so what it has read is what is   *)
(* there, and an update drops nothing but what it deleted.                 *)
THEOREM NoAppendLost == Spec => AppendsKept
<1> DEFINE Kept == \A n \in Names : Forgotten(n) \cap (Range(disk) \ (excused \cup {Gone})) # {} =>
                     \E q \in Clients : SetEntries(q) /\ req[q].name = n
<1>1. FollowsInv /\ [Next]_vars => FollowsInv'
  BY EveryFollows
<1>2. FollowsInv /\ [Next]_vars => Kept
  <2>1. SUFFICES ASSUME FollowsInv, [Next]_vars, NEW n \in Names,
                        NEW t \in Forgotten(n), t \in Range(disk) \ (excused \cup {Gone})
                 PROVE  \E q \in Clients : SetEntries(q) /\ req[q].name = n
    OBVIOUS
  <2>2. m3u[n] # NoFile /\ m3u'[n] # NoFile
    BY <2>1 DEF Forgotten
  <2>3. PICK x \in m3u[n] : x.means = t /\ \A y \in m3u'[n] : y.means # t
    BY <2>1, <2>2 DEF Forgotten
  <2>4. ~Keeps(n, x)
    BY <2>2, <2>3 DEF Keeps
  <2>5. QED
    BY <2>1, <2>2, <2>3, <2>4, StepKeeps
<1>3. QED
  BY InitFollows, <1>1, <1>2, PTL DEF Spec, AppendsKept
=============================================================================
