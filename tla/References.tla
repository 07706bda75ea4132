------------------------------ MODULE References ------------------------------
(****************************************************************************)
(* The files of the library and the records that point at them: playlists   *)
(* (library/playlists.go: a row and an .m3u file each), the do-not-play     *)
(* list and the sources of rules and announcements, and the moves and       *)
(* deletes that update them (library/fileops.go, store/refs.go,             *)
(* store/playlists.go).                                                     *)
(*                                                                          *)
(* A path is a sequence of names: a folder has one, a file two.  disk says  *)
(* what lies at a path.  A reference is a path together with what lay there *)
(* when it was written, a history value no action reads.  The order of a    *)
(* playlist and the wording of its file are left out.                       *)
(****************************************************************************)
EXTENDS Integers, FiniteSets, Sequences, SequencesExt, Functions

CONSTANTS
  Clients,        \* the requests that may run at once
  Names,          \* the names of playlists
  Paths,          \* the paths of files and folders people use
  Start,          \* what lies at each path at the start, or Gone
  Updates,        \* the bodies of update-playlist: [to, set, append]
  Moves,          \* the moves people ask for: <<from, to>>
  Deletes,        \* the sets of paths people delete at once
  Newcomer,       \* a file that an upload may bring
  MaxRequests,    \* bound: requests in a behaviour
  MaxFaults       \* bound: writes that fail and kills

CONSTANTS Gone, Made, NoName, Same, Nobody

Ids == 1..MaxRequests + 1
Folder(path) == Len(path) = 1
FilePaths == {p \in Paths : ~Folder(p)}
Things == (Range(Start) \cup {Newcomer, Made}) \ {Gone}

(* A reference is a path and what it means.                                *)
PathNames == UNION {Range(p) : p \in Paths}
Refs == [path : Seq(PathNames), means : Things \cup {Gone}]
NoFile == {Gone}    \* a playlist file that is not there, no set of references

ASSUME NamesAssumption == Names # {} /\ NoName \notin Names
ASSUME ClientsAssumption == Nobody \notin Clients
ASSUME GoneIsNoReference == Gone \notin Refs
ASSUME BoundAssumption == MaxRequests \in Nat
ASSUME StartAssumption ==
  /\ Start \in [Paths -> Things \cup {Gone}]
  /\ Newcomer # Made /\ Newcomer \notin Range(Start) \cup {Gone} /\ Made \notin Range(Start) \cup {Gone}
  /\ \A p, o \in Paths : Start[p] = Start[o] /\ Start[p] # Gone => p = o
ASSUME UpdateAssumption == \A u \in Updates :
  /\ u.to \in Names \cup {NoName} /\ u.append \subseteq FilePaths
  /\ u.set = Same \/ u.set \subseteq FilePaths
ASSUME PathAssumption ==
  /\ Paths \subseteq Seq(PathNames)
  /\ \A p \in Paths : Len(p) \in {1, 2}
  /\ \A m \in Moves :
       /\ {m[1], m[2]} \subseteq Paths /\ Len(m[1]) = Len(m[2])
       /\ \A p \in Paths : IsPrefix(m[1], p) => m[2] \o SubSeq(p, Len(m[1]) + 1, Len(p)) \in Paths
  /\ UNION Deletes \subseteq Paths

VARIABLES
  disk,             \* what lies at each path
  rows, lastId,     \* table playlists: the name of each id; AUTOINCREMENT
  m3u,              \* the playlist files by name: a set of references
  banned,           \* table do_not_play
  sources,          \* what rules, exceptions and announcements play: folders,
                    \* and files of announcements
  mu,               \* Playlists.mu: the client that holds it
  req,              \* what each client is doing
  requests, faults,
  excused,          \* history: what a race, a failure or a kill kept the
                    \* references from following
  alone,            \* history: the files that moved on their own
  stray             \* history: names whose row and file a request with the
                    \* name of before, a failure or a kill has separated

tables == <<rows, lastId, m3u, mu>>
vars == <<disk, tables, banned, sources, req, requests, faults, excused, alone, stray>>

Idle == [pc |-> "idle"]

(* A path at or below another; what a reference written now means.         *)
Below(path, top) == IsPrefix(top, path)
Ref(path) == [path |-> path, means |-> disk[path]]
RefsTo(paths) == {Ref(p) : p \in paths}
HasName(name) == \E id \in Ids : rows[id] = name
Entries(name) == IF m3u[name] = NoFile THEN {} ELSE m3u[name]

TypeOK ==
  /\ disk \in [Paths -> Things \cup {Gone}]
  /\ rows \in [Ids -> Names \cup {NoName}] /\ lastId \in Ids
  /\ \A n \in Names : Entries(n) \subseteq [path : FilePaths, means : Things \cup {Gone}]
  /\ mu \in Clients \cup {Nobody}
  /\ \A q \in Clients : mu = q => req[q].pc \in {"created", "renamed", "appending", "deleted"}
  /\ excused \subseteq Things /\ stray \subseteq Names

(* One playlist with every file that is there, every file on the           *)
(* do-not-play list, a rule or an announcement for everything.             *)
Init ==
  LET first == CHOOSE n \in Names : TRUE
      there == {p \in Paths : Start[p] # Gone}
      refs == {[path |-> p, means |-> Start[p]] : p \in there}
  IN  /\ disk = Start
      /\ rows = [id \in Ids |-> IF id = 1 THEN first ELSE NoName] /\ lastId = 1
      /\ m3u = [n \in Names |-> IF n = first THEN {r \in refs : ~Folder(r.path)} ELSE NoFile]
      /\ banned = {r \in refs : ~Folder(r.path)}
      /\ sources = refs
      /\ mu = Nobody
      /\ req = [q \in Clients |-> Idle]
      /\ requests = 0 /\ faults = 0
      /\ excused = {} /\ alone = {} /\ stray = {}

At(q, pc) == req[q].pc = pc
Becomes(q, r) == req' = [req EXCEPT ![q] = r]
Asks(q, r) ==
  /\ At(q, "idle") /\ requests < MaxRequests
  /\ requests' = requests + 1
  /\ Becomes(q, r)
Fault == faults < MaxFaults /\ faults' = faults + 1
Takes(q) == mu = Nobody /\ mu' = q

----------------------------------------------------------------------------
(* The table of the playlists: its names are unique, an id is never given  *)
(* twice, and an UPDATE of a row that is gone changes nothing.             *)
CreatePlaylist(name) ==
  /\ ~HasName(name)
  /\ lastId' = lastId + 1
  /\ rows' = [rows EXCEPT ![lastId + 1] = name]

GetPlaylist(id) == rows[id]

RenamePlaylist(id, name) ==
  rows' = IF rows[id] = NoName \/ HasName(name) THEN rows ELSE [rows EXCEPT ![id] = name]

----------------------------------------------------------------------------
(* Playlists: every change runs under mu.  The handler reads the row before *)
(* it, so the name it works with may be one of before.                      *)

Stale(q) == GetPlaylist(req[q].id) # req[q].name

(* Create: the name must be free both as a file and as a row.              *)
Create(q, name, paths) ==
  /\ m3u[name] = NoFile /\ CreatePlaylist(name)
  /\ Asks(q, [pc |-> "created", id |-> lastId + 1, name |-> name, set |-> paths])
  /\ Takes(q)
  /\ UNCHANGED <<disk, m3u, banned, sources, faults, excused, alone, stray>>

CreateWrites(q) ==
  /\ At(q, "created")
  /\ m3u' = [m3u EXCEPT ![req[q].name] = RefsTo(req[q].set)]
  /\ mu' = Nobody
  /\ Becomes(q, Idle)
  /\ UNCHANGED <<disk, rows, lastId, banned, sources, requests, faults, excused, alone, stray>>

CreateFails(q) ==
  /\ At(q, "created") /\ Fault
  /\ rows' = [rows EXCEPT ![req[q].id] = NoName]
  /\ mu' = Nobody
  /\ Becomes(q, Idle)
  /\ UNCHANGED <<disk, lastId, m3u, banned, sources, requests, excused, alone, stray>>

(* update-playlist: the new name, then the new entries, then the appended. *)
Update(q, id, u) ==
  /\ GetPlaylist(id) # NoName
  /\ Asks(q, [pc |-> "update", id |-> id, name |-> GetPlaylist(id),
              to |-> IF u.to = GetPlaylist(id) THEN NoName ELSE u.to, set |-> u.set, append |-> u.append])
  /\ UNCHANGED <<disk, tables, banned, sources, faults, excused, alone, stray>>

(* Where the handler goes on after one of them.                            *)
Rest(r) == IF r.to = NoName /\ r.set = Same /\ r.append = {} THEN Idle ELSE r
Taken(q) == m3u[req[q].to] # NoFile \/ HasName(req[q].to)

RenameRow(q) ==
  LET r == req[q]
  IN  /\ At(q, "update") /\ r.to # NoName /\ ~Taken(q)
      /\ Takes(q)
      /\ RenamePlaylist(r.id, r.to)
      /\ stray' = IF Stale(q) \/ m3u[r.name] = NoFile
                  THEN stray \cup ({r.name, r.to, rows[r.id]} \ {NoName}) ELSE stray
      /\ req' = [req EXCEPT ![q].pc = "renamed"]
      /\ UNCHANGED <<disk, lastId, m3u, banned, sources, requests, faults, excused, alone>>

RenameFile(q) ==
  LET r == req[q]
  IN  /\ At(q, "renamed")
      /\ m3u' = IF m3u[r.name] = NoFile THEN m3u
                ELSE [m3u EXCEPT ![r.to] = m3u[r.name], ![r.name] = NoFile]
      /\ mu' = Nobody
      /\ Becomes(q, Rest([r EXCEPT !.pc = "update", !.name = r.to, !.to = NoName]))
      /\ UNCHANGED <<disk, rows, lastId, banned, sources, requests, faults, excused, alone, stray>>

RenameFailsMutant(q) ==
  /\ At(q, "renamed") /\ Fault
  /\ mu' = Nobody
  /\ Becomes(q, Idle)
  /\ UNCHANGED <<disk, rows, lastId, m3u, banned, sources, requests, excused, alone, stray>>

RenameFails(q) ==
  LET r == req[q]
  IN  /\ At(q, "renamed") /\ Fault
      /\ RenamePlaylist(r.id, r.name)
      /\ mu' = Nobody
      /\ Becomes(q, Idle)
      /\ UNCHANGED <<disk, lastId, m3u, banned, sources, requests, excused, alone, stray>>

(* A conflict, or a row that cannot be written, ends the request.          *)
RenameRefused(q) ==
  /\ At(q, "update") /\ req[q].to # NoName /\ mu = Nobody
  /\ \/ Taken(q) /\ UNCHANGED faults
     \/ Fault
  /\ Becomes(q, Idle)
  /\ UNCHANGED <<disk, tables, banned, sources, requests, excused, alone, stray>>

SetEntries(q) ==
  LET r == req[q]
  IN  /\ At(q, "update") /\ r.to = NoName /\ r.set # Same /\ mu = Nobody
      /\ m3u' = [m3u EXCEPT ![r.name] = RefsTo(r.set)]
      /\ stray' = IF Stale(q) THEN stray \cup {r.name} ELSE stray
      /\ Becomes(q, Rest([r EXCEPT !.set = Same]))
      /\ UNCHANGED <<disk, rows, lastId, mu, banned, sources, requests, faults, excused, alone>>

SetFails(q) ==
  /\ At(q, "update") /\ req[q].to = NoName /\ req[q].set # Same /\ mu = Nobody
  /\ Fault
  /\ Becomes(q, Idle)
  /\ UNCHANGED <<disk, tables, banned, sources, requests, excused, alone, stray>>

(* Append reads the file and writes it back under one hold of the mutex.   *)
AppendMay(q) == At(q, "update") /\ req[q].to = NoName /\ req[q].set = Same
AppendReadsMutant(q) ==
  /\ AppendMay(q) /\ mu = Nobody
  /\ Becomes(q, [pc |-> "appending", id |-> req[q].id, name |-> req[q].name,
                 append |-> req[q].append, read |-> Entries(req[q].name)])
  /\ UNCHANGED <<disk, tables, banned, sources, requests, faults, excused, alone, stray>>

AppendReads(q) ==
  /\ AppendMay(q) /\ Takes(q)
  /\ Becomes(q, [pc |-> "appending", id |-> req[q].id, name |-> req[q].name,
                 append |-> req[q].append, read |-> Entries(req[q].name)])
  /\ UNCHANGED <<disk, rows, lastId, m3u, banned, sources, requests, faults, excused, alone, stray>>

AppendWrites(q) ==
  LET r == req[q]
  IN  /\ At(q, "appending")
      /\ m3u' = [m3u EXCEPT ![r.name] = r.read \cup RefsTo(r.append)]
      /\ stray' = IF Stale(q) THEN stray \cup {r.name} ELSE stray
      /\ mu' = Nobody
      /\ Becomes(q, Idle)
      /\ UNCHANGED <<disk, rows, lastId, banned, sources, requests, faults, excused, alone>>

AppendFails(q) ==
  /\ At(q, "appending") /\ Fault
  /\ mu' = Nobody
  /\ Becomes(q, Idle)
  /\ UNCHANGED <<disk, rows, lastId, m3u, banned, sources, requests, excused, alone, stray>>

(* delete-playlist: the file, then the row with the rules that play it.    *)
DeletePlaylist(q, id) ==
  /\ GetPlaylist(id) # NoName
  /\ Asks(q, [pc |-> "delete", id |-> id, name |-> GetPlaylist(id)])
  /\ UNCHANGED <<disk, tables, banned, sources, faults, excused, alone, stray>>

DeleteFile(q) ==
  LET r == req[q]
  IN  /\ At(q, "delete") /\ Takes(q)
      /\ m3u' = [m3u EXCEPT ![r.name] = NoFile]
      /\ stray' = IF Stale(q) THEN stray \cup ({r.name, rows[r.id]} \ {NoName}) ELSE stray
      /\ req' = [req EXCEPT ![q].pc = "deleted"]
      /\ UNCHANGED <<disk, rows, lastId, banned, sources, requests, faults, excused, alone>>

DeleteRefused(q) ==
  /\ At(q, "delete") /\ mu = Nobody /\ Fault
  /\ Becomes(q, Idle)
  /\ UNCHANGED <<disk, tables, banned, sources, requests, excused, alone, stray>>

DeleteRow(q) ==
  /\ At(q, "deleted")
  /\ rows' = [rows EXCEPT ![req[q].id] = NoName]
  /\ mu' = Nobody
  /\ Becomes(q, Idle)
  /\ UNCHANGED <<disk, lastId, m3u, banned, sources, requests, faults, excused, alone, stray>>

DeleteRowFails(q) ==
  /\ At(q, "deleted") /\ Fault
  /\ stray' = stray \cup {req[q].name}
  /\ mu' = Nobody
  /\ Becomes(q, Idle)
  /\ UNCHANGED <<disk, rows, lastId, m3u, banned, sources, requests, excused, alone>>

----------------------------------------------------------------------------
(* Moves and deletes of files.  A change is a path and where it went, <<>>  *)
(* when it was deleted.                                                     *)

AppliesMutant(c, path) == path = c.old
Applies(c, path) == Below(path, c.old)
Moved(c, path) == c.new \o SubSeq(path, Len(c.old) + 1, Len(path))

(* A set of references after the changes: those of deleted paths are       *)
(* dropped.                                                                *)
Rewritten(refs, changes) ==
  {r \in refs : \A c \in changes : ~Applies(c, r.path)}
    \cup UNION {{[r EXCEPT !.path = Moved(c, r.path)] : r \in {s \in refs : Applies(c, s.path)}} :
                  c \in {d \in changes : d.new # <<>>}}

(* What the disk step of a change takes along, and the changes whose       *)
(* references are not updated yet.                                         *)
Takings(path) == {disk[p] : p \in {p \in Paths : Below(p, path)}} \ {Gone}
Updating(q) == req[q].pc \in {"remove", "list", "rewrite", "bans", "sources"} /\ req[q].changes # {}
Overlaps(q, things) ==
  LET others == {o \in Clients \ {q} : Updating(o)}
  IN  IF others = {} THEN {} ELSE things \cup UNION {req[o].moved : o \in others}

(* Move: its checks, and then os.Rename, which replaces a file that came   *)
(* to the destination since.  A folder goes onto an empty one at most.     *)
MoveChecks(q, from, to) ==
  /\ disk[from] # Gone /\ disk[to] = Gone /\ ~Below(to, from)
  /\ Asks(q, [pc |-> "move", from |-> from, to |-> to])
  /\ UNCHANGED <<disk, tables, banned, sources, faults, excused, alone, stray>>

MoveRenames(q) ==
  LET from == req[q].from
      to == req[q].to
  IN  /\ At(q, "move") /\ disk[from] # Gone
      /\ Folder(to) => Takings(to) \subseteq {disk[to]}
      /\ disk' = [p \in Paths |->
            IF Below(p, to) THEN LET o == from \o SubSeq(p, Len(to) + 1, Len(p))
                                 IN  IF o \in Paths THEN disk[o] ELSE Gone
            ELSE IF Below(p, from) THEN Gone
            ELSE IF Below(to, p) /\ disk[p] = Gone THEN Made
            ELSE disk[p]]
      /\ excused' = excused \cup Overlaps(q, Takings(from)) \cup Takings(to)
      /\ alone' = IF Folder(from) THEN alone ELSE alone \cup Takings(from)
      /\ Becomes(q, [pc |-> "list", changes |-> {[old |-> from, new |-> to]}, moved |-> Takings(from)])
      /\ UNCHANGED <<tables, banned, sources, requests, faults, stray>>

MoveFails(q) ==
  /\ At(q, "move")
  /\ \/ disk[req[q].from] = Gone /\ UNCHANGED faults
     \/ Folder(req[q].to) /\ ~(Takings(req[q].to) \subseteq {disk[req[q].to]}) /\ UNCHANGED faults
     \/ Fault
  /\ Becomes(q, Idle)
  /\ UNCHANGED <<disk, tables, banned, sources, requests, excused, alone, stray>>

(* Delete: paths that are not there are passed over.                       *)
DeletePaths(q, paths) ==
  LET there == {p \in paths : disk[p] # Gone}
  IN  /\ there # {}
      /\ Asks(q, [pc |-> "remove", targets |-> there, changes |-> {}, moved |-> {}])
      /\ UNCHANGED <<disk, tables, banned, sources, faults, excused, alone, stray>>

RemoveOne(q, path) ==
  LET r == req[q]
      left == r.targets \ {path}
  IN  /\ At(q, "remove") /\ path \in r.targets
      /\ disk' = [p \in Paths |-> IF Below(p, path) THEN Gone ELSE disk[p]]
      /\ excused' = excused \cup Overlaps(q, Takings(path))
      /\ Becomes(q, [pc |-> IF left = {} THEN "list" ELSE "remove", targets |-> left,
                     changes |-> r.changes \cup {[old |-> path, new |-> <<>>]},
                     moved |-> r.moved \cup Takings(path)])
      /\ UNCHANGED <<tables, banned, sources, requests, faults, alone, stray>>

(* RemoveAll fails with a part of the tree removed: the references are     *)
(* updated for the paths before it.                                        *)
RemoveFails(q, path, part) ==
  LET r == req[q]
  IN  /\ At(q, "remove") /\ path \in r.targets /\ Fault
      /\ part \subseteq {p \in FilePaths : Below(p, path)} \ {path}
      /\ disk' = [p \in Paths |-> IF p \in part THEN Gone ELSE disk[p]]
      /\ excused' = excused \cup ({disk[p] : p \in part} \ {Gone})
                            \cup Overlaps(q, {disk[p] : p \in part} \ {Gone})
      /\ Becomes(q, IF r.changes = {} THEN Idle
                    ELSE [pc |-> "list", changes |-> r.changes, moved |-> r.moved])
      /\ UNCHANGED <<tables, banned, sources, requests, alone, stray>>

(* Inspect: what people are shown before they move or delete.              *)
ReferencingMutant(paths) == {n \in Names : \E r \in Entries(n) : r.path \in paths}
Referencing(paths) == {n \in Names : \E r \in Entries(n), p \in paths : Below(r.path, p)}
DirectoryReferences(paths) == {r \in sources : \E p \in paths : Below(r.path, p)}

(* Paths that are not there are passed over.                               *)
Inspect(paths) ==
  LET there == {p \in paths : disk[p] # Gone}
  IN  [playlists |-> Referencing(there), schedules |-> DirectoryReferences(there)]

(* updateReferences.  Rewrite lists the playlists before it has the mutex. *)
List(q) ==
  /\ At(q, "list")
  /\ Becomes(q, [pc |-> "rewrite", changes |-> req[q].changes, moved |-> req[q].moved, listed |-> rows])
  /\ UNCHANGED <<disk, tables, banned, sources, requests, faults, excused, alone, stray>>

(* Rewrite; failed are the playlists whose file could not be written, left  *)
(* is what the files that are not of the listed names still point at.       *)
Rewrite(q, failed) ==
  LET r == req[q]
      listed == Range(r.listed) \ {NoName}
      hit == {n \in listed : Rewritten(Entries(n), r.changes) # Entries(n)}
      left == (UNION {{e.means : e \in {i \in Entries(n) : \E c \in r.changes : Applies(c, i.path)}} :
                       n \in Names \ listed}) \ {Gone}
  IN  /\ At(q, "rewrite") /\ mu = Nobody
      /\ failed \subseteq hit
      /\ IF failed = {} THEN UNCHANGED faults ELSE Fault
      /\ m3u' = [n \in Names |-> IF n \in hit \ failed THEN Rewritten(m3u[n], r.changes) ELSE m3u[n]]
      /\ excused' = excused \cup left \cup (IF failed = {} THEN {} ELSE r.moved)
      /\ Becomes(q, [pc |-> "bans", changes |-> r.changes, moved |-> r.moved])
      /\ UNCHANGED <<disk, rows, lastId, mu, banned, sources, requests, alone, stray>>

(* MoveDoNotPlay, DeleteDoNotPlayUnder.  file is the key of the table: an  *)
(* UPDATE that meets a row of the new path changes nothing.                *)
Bans(q) ==
  LET r == req[q]
      new == Rewritten(banned, r.changes)
      clash == \E c \in r.changes, b, o \in banned :
                 /\ c.new # <<>> /\ Applies(c, b.path) /\ ~Applies(c, o.path)
                 /\ o.path = Moved(c, b.path)
  IN  /\ At(q, "bans")
      /\ \/ /\ banned' = IF clash THEN banned ELSE new
            /\ excused' = IF clash THEN excused \cup r.moved ELSE excused
            /\ UNCHANGED faults
         \/ /\ Fault
            /\ excused' = excused \cup r.moved
            /\ UNCHANGED banned
      /\ Becomes(q, [pc |-> "sources", changes |-> r.changes, moved |-> r.moved])
      /\ UNCHANGED <<disk, tables, sources, requests, alone, stray>>

(* RepointDirectory, for folders that moved, and not for files.            *)
Sources(q) ==
  LET r == req[q]
      moves == {c \in r.changes : c.new # <<>> /\ Folder(c.old)}
  IN  /\ At(q, "sources")
      /\ \/ /\ sources' = Rewritten(sources, moves)
            /\ UNCHANGED <<faults, excused>>
         \/ /\ moves # {} /\ Fault
            /\ excused' = excused \cup r.moved
            /\ UNCHANGED sources
      /\ Becomes(q, Idle)
      /\ UNCHANGED <<disk, tables, banned, requests, alone, stray>>

(* add-do-not-play and remove-do-not-play.                                 *)
Ban(q, path) ==
  /\ At(q, "idle") /\ requests < MaxRequests
  /\ requests' = requests + 1
  /\ \A b \in banned : b.path # path
  /\ banned' = banned \cup {Ref(path)}
  /\ UNCHANGED <<disk, tables, sources, req, faults, excused, alone, stray>>

Allow(q, b) ==
  /\ At(q, "idle") /\ requests < MaxRequests
  /\ requests' = requests + 1
  /\ b \in banned
  /\ banned' = banned \ {b}
  /\ UNCHANGED <<disk, tables, sources, req, faults, excused, alone, stray>>

----------------------------------------------------------------------------
(* An upload brings a file (files.go).                                     *)
Arrives(path) ==
  LET awaited == \E q \in Clients : Updating(q) /\ \E c \in req[q].changes : Applies(c, path)
  IN  /\ Newcomer \notin Range(disk) /\ Newcomer \notin excused
      /\ disk[path] = Gone /\ disk[SubSeq(path, 1, 1)] # Gone
      /\ \A n \in Names : \A r \in Entries(n) : r.means # Newcomer
      /\ \A r \in banned : r.means # Newcomer
      /\ requests < MaxRequests /\ requests' = requests + 1
      /\ disk' = [disk EXCEPT ![path] = Newcomer]
      /\ excused' = IF awaited THEN excused \cup {Newcomer} ELSE excused
      /\ UNCHANGED <<tables, banned, sources, req, faults, alone, stray>>

(* jukem is killed: what was asked for is gone.                            *)
Kill ==
  LET torn == {q \in Clients : req[q].pc \in {"created", "renamed", "deleted"}}
  IN  /\ Fault
      /\ \E q \in Clients : ~At(q, "idle")
      /\ mu' = Nobody
      /\ req' = [q \in Clients |-> Idle]
      /\ excused' = excused \cup UNION {req[q].moved : q \in {u \in Clients : Updating(u)}}
      /\ stray' = stray \cup {req[q].name : q \in torn}
                        \cup {req[q].to : q \in {t \in torn : At(t, "renamed")}}
      /\ UNCHANGED <<disk, rows, lastId, m3u, banned, sources, requests, alone>>

AsksPlaylist(q) ==
  \/ \E n \in Names, p \in FilePaths : Create(q, n, {p})
  \/ \E id \in Ids : DeletePlaylist(q, id) \/ \E u \in Updates : Update(q, id, u)

ChangesPlaylist(q) ==
  \/ CreateWrites(q) \/ CreateFails(q)
  \/ RenameRow(q) \/ RenameFile(q) \/ RenameFails(q) \/ RenameRefused(q)
  \/ SetEntries(q) \/ SetFails(q)
  \/ AppendReads(q) \/ AppendWrites(q) \/ AppendFails(q)
  \/ DeleteFile(q) \/ DeleteRefused(q) \/ DeleteRow(q) \/ DeleteRowFails(q)

FileOperation(q) ==
  \/ \E m \in Moves : MoveChecks(q, m[1], m[2])
  \/ MoveRenames(q) \/ MoveFails(q)
  \/ \E ps \in Deletes : DeletePaths(q, ps)
  \/ \E p \in UNION Deletes : RemoveOne(q, p) \/ \E part \in SUBSET FilePaths : RemoveFails(q, p, part)
  \/ List(q) \/ (\E failed \in SUBSET Names : Rewrite(q, failed)) \/ Bans(q) \/ Sources(q)
  \/ \E p \in FilePaths : Ban(q, p)
  \/ \E b \in banned : Allow(q, b)

Next ==
  \/ \E q \in Clients : AsksPlaylist(q) \/ ChangesPlaylist(q) \/ FileOperation(q)
  \/ \E p \in FilePaths : Arrives(p)
  \/ Kill

Spec == Init /\ [][Next]_vars

----------------------------------------------------------------------------
AtRest == \A q \in Clients : At(q, "idle")

(* Whenever no request runs, every entry of a playlist, every track kept   *)
(* out of the program and every source of a rule still names what it named *)
(* when it was written, wherever that was moved since, and no entry and no *)
(* ban of a deleted file is left.  Excused is only what an overlapping     *)
(* change of files, a playlist file the update did not find under the      *)
(* names it had listed, a clash of bans, a failed write or a kill kept     *)
(* back, and the announcement of a file that was moved on its own.         *)
ReferencesFollow ==
  LET entries == UNION {Entries(rows[id]) : id \in {i \in Ids : rows[i] # NoName}}
      Follows(r) == r.means \in excused \cup {Gone} \/ disk[r.path] = r.means
  IN  AtRest =>
        /\ \A r \in entries \cup banned : Follows(r)
        /\ \A r \in sources : r.means \in Range(disk) \ alone => Follows(r)

(* Whenever no request runs, a playlist has its file, and no file without  *)
(* a playlist blocks its name: the two part only where a request acted on  *)
(* a name that had changed since it read it, or by a failed delete or kill.*)
RowsHaveFiles ==
  AtRest => \A n \in Names \ stray : m3u[n] # NoFile <=> HasName(n)

(* What the changes of paths that are there would do to playlists and      *)
(* sources now, an inspection of their paths now names.                    *)
Told(changes) ==
  LET seen == Inspect({c.old : c \in changes})
      real == {c \in changes : disk[c.old] # Gone}
      moves == {c \in real : c.new # <<>> /\ Folder(c.old)}
  IN  /\ {n \in Names : Rewritten(Entries(n), real) # Entries(n)} \subseteq seen.playlists
      /\ sources \ Rewritten(sources, moves) \subseteq seen.schedules

(* Inspect tells people what a move or a delete touches: whatever of the   *)
(* playlists and the sources points at or below a path that is moved or    *)
(* removed, an inspection just before has named; and the update that       *)
(* follows changes nothing but what refers to those paths.                 *)
InspectTells ==
  [][\A q \in Clients :
       /\ At(q, "move") /\ req'[q].pc = "list" => Told(req'[q].changes)
       /\ At(q, "remove") /\ req'[q].pc # "idle" => Told(req'[q].changes \ req[q].changes)
       /\ Updating(q) =>
            LET olds == {c.old : c \in req[q].changes}
            IN  /\ (At(q, "rewrite") /\ req'[q].pc = "bans") =>
                      \A n \in Names : m3u'[n] # m3u[n] => n \in Referencing(olds)
                /\ (At(q, "sources") /\ req'[q].pc # "sources") =>
                      sources \ sources' \subseteq DirectoryReferences(olds)]_vars

(* A write of a playlist that is not a new list of entries keeps what the  *)
(* file held at that moment, save what was deleted: no append and no       *)
(* rewrite is lost to another.                                             *)
Forgotten(n) ==
  IF NoFile \in {m3u[n], m3u'[n]} THEN {}
  ELSE {r.means : r \in m3u[n]} \ {r.means : r \in m3u'[n]}
AppendsKept ==
  [][\A n \in Names : Forgotten(n) \cap (Range(disk) \ (excused \cup {Gone})) # {} =>
       \E q \in Clients : SetEntries(q) /\ req[q].name = n]_vars
=============================================================================
