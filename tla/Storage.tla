------------------------------- MODULE Storage -------------------------------
(***************************************************************************)
(* The database file: the one connection that everybody shares (db.py),    *)
(* and the backup and the restore that replace files under it (backup.py). *)
(*                                                                         *)
(* What a database holds is the set of the writes committed in it; some of *)
(* it may be in the write-ahead log beside the file, which the closing of  *)
(* the last connection folds in.  The file operations of a restore and of  *)
(* a backup await nothing: no coroutine runs between them, but the process *)
(* may die there, and the thread of a connection may open its file.        *)
(***************************************************************************)
EXTENDS Integers, FiniteSets

CONSTANTS
  Writers,    \* coroutines that write through get_db
  Backups,    \* calls of create_backup, the loop's and the route's
  Restores,   \* calls of restore_backup
  Retain,     \* settings.backup_retention_count
  MaxSecond,  \* bound on the time of a behaviour, which names the backups
  MaxConns,   \* bound on its connections
  MaxCrashes  \* bound on its crashes

\* A file that does not exist, and one that was cut short.
Absent == {"absent"}
Torn   == {"torn"}
Conns  == 1..MaxConns
Calls  == Writers \cup Backups \cup Restores

\* The calls are different coroutines.  The setting is any int.
ConstantsAssumption ==
  /\ "absent" \notin Writers /\ "torn" \notin Writers
  /\ Writers \cap Restores = {} /\ Backups \cap Restores = {}
  /\ Retain \in Int /\ MaxSecond \in Nat /\ MaxConns \in Nat \ {0}

VARIABLES
  live,    \* the database file: Absent, Torn or the writes in it
  wal,     \* the writes in its write-ahead log only
  aside,   \* the .pre-restore file
  backups, \* *.db.enc: [id, data], the id being the second of its name
  db,      \* db._db: a connection, or 0 for None
  on,      \* what each connection's file is called by now
  pending, \* the writers whose statement the shared connection has not committed
  phase,   \* where each call is
  held,    \* the connection it opens or works with
  src,     \* the backup that each restore was told to restore
  copied,  \* what VACUUM INTO copied for each backup
  \* what happened, for the properties
  saved,   \* what was committed when the last restore closed the database
  spare,   \* some restore closed one connection while another was on the file
  overlap, \* two restores were under way together
  failed,  \* the last restore raised, and none began since: "back" with a database in
           \* place, "stray" with the old one still aside
  crashes

files    == <<live, wal, aside>>
handles  == <<db, on, pending>>
calls    == <<phase, held, src, copied>>
history  == <<saved, spare, overlap, failed>>
vars     == <<files, backups, handles, calls, history, crashes>>

\* A restore or a backup is between two file operations.
Exclusive == {"closed", "clear", "renamed", "bare", "torn", "fresh", "vacuumed", "parted",
              "listed"}

OnLive == {c \in Conns : on[c] = "live"}

Init ==
  /\ live = {} /\ wal = {} /\ aside = Absent
  /\ backups = {[id |-> 1, data |-> {}]}
  /\ db = 1
  /\ on = [c \in Conns |-> IF c = 1 THEN "live" ELSE "unused"]
  /\ pending = {}
  /\ phase = [c \in Calls |-> "idle"] /\ held = [c \in Calls |-> 0]
  /\ src = [r \in Restores |-> 0] /\ copied = [b \in Backups |-> {}]
  /\ saved = {} /\ spare = FALSE /\ overlap = FALSE /\ failed = "no"
  /\ crashes = 0

\* A step of the event loop, on behalf of c.
Step(c, from, to) ==
  /\ phase[c] = from /\ phase' = [phase EXCEPT ![c] = to]
  /\ \A d \in Calls \ {c} : phase[d] \notin Exclusive

Raise(c, from) == Step(c, from, "raised") /\ held' = [held EXCEPT ![c] = 0]

-----------------------------------------------------------------------------
(* get_db.                                                                 *)

\* _db is set: it is returned at once, even while another coroutine closes it.
HasDb(c, from, to) ==
  /\ db # 0
  /\ Step(c, from, to)
  /\ held' = [held EXCEPT ![c] = db]
  /\ UNCHANGED <<files, backups, handles, src, copied, history, crashes>>

\* It is not: aiosqlite.connect, on a thread of its own.
Connect(c, from) ==
  /\ db = 0
  /\ Step(c, from, "connecting")
  /\ \E k \in Conns :
       /\ on[k] = "unused" /\ \A j \in Conns : j < k => on[j] # "unused"
       /\ held' = [held EXCEPT ![c] = k]
       /\ on' = [on EXCEPT ![k] = "opening"]
  /\ UNCHANGED <<files, backups, db, pending, src, copied, history, crashes>>

\* The thread opens the file of that name, at any time, or creates it; a log that was left
\* without its database is dropped.
OpenFile(k) ==
  /\ on[k] = "opening"
  /\ on' = [on EXCEPT ![k] = "live"]
  /\ IF live = Absent THEN live' = {} /\ wal' = {} ELSE UNCHANGED <<live, wal>>
  /\ UNCHANGED <<aside, backups, db, pending, calls, history, crashes>>

\* connect returns: _db is set, over another's if that came first.
Connected(c, to) ==
  /\ held[c] # 0 /\ on[held[c]] # "opening"
  /\ Step(c, "connecting", to)
  /\ db' = held[c]
  /\ UNCHANGED <<files, backups, on, pending, held, src, copied, history, crashes>>

-----------------------------------------------------------------------------
(* A writer: get_db, a statement, its commit.                              *)

WriterOpens(w) == HasDb(w, "idle", "open") \/ Connect(w, "idle")

Usable(c) == held[c] # 0 /\ on[held[c]] \in {"live", "aside", "gone"}

\* The statement runs, in the transaction of its connection.
Insert(w) ==
  /\ Usable(w)
  /\ Step(w, "open", "inserted")
  /\ pending' = pending \cup {w}
  /\ UNCHANGED <<files, backups, db, on, held, src, copied, history, crashes>>

\* The connection was closed under the writer.
WriterRaises(w) ==
  /\ \E from \in {"open", "inserted"} : Raise(w, from)
  /\ ~Usable(w)
  /\ UNCHANGED <<files, backups, handles, src, copied, history, crashes>>

\* commit: everybody's statements on that connection.
Commit(w) ==
  /\ Usable(w)
  /\ Step(w, "inserted", "done")
  /\ held' = [held EXCEPT ![w] = 0]
  /\ LET batch == {v \in pending : held[v] = held[w]}
     IN  /\ pending' = pending \ batch
         /\ CASE on[held[w]] = "live"  -> wal' = wal \cup batch /\ UNCHANGED aside
              [] on[held[w]] = "aside" -> aside' = aside \cup batch /\ UNCHANGED wal
              [] on[held[w]] = "gone"  -> UNCHANGED <<wal, aside>>
  /\ UNCHANGED <<live, backups, db, on, src, copied, history, crashes>>

-----------------------------------------------------------------------------
(* create_backup.                                                          *)

BackupOpens(b) == HasDb(b, "idle", "vacuum") \/ Connect(b, "idle")

\* VACUUM INTO: inside a transaction, or on a closed connection, it raises.
VacuumRaises(b) ==
  /\ ~Usable(b) \/ \E w \in pending : held[w] = held[b]
  /\ Raise(b, "vacuum")
  /\ UNCHANGED <<files, backups, handles, src, copied, history, crashes>>

\* What a connection reads; of a file that has lost its name, anything.
Contents(k) ==
  CASE on[k] = "live"  -> {live \cup wal}
    [] on[k] = "aside" -> {aside}
    [] on[k] = "gone"  -> SUBSET Writers

\* It copies what is committed; the lines from here to the audit await nothing.
Vacuum(b) ==
  /\ Usable(b) /\ \A w \in pending : held[w] # held[b]
  /\ Step(b, "vacuum", "vacuumed")
  /\ \E data \in Contents(held[b]) : copied' = [copied EXCEPT ![b] = data]
  /\ UNCHANGED <<files, backups, handles, held, src, history, crashes>>

\* The names that a backup may get: the clock does not go back.
Names == {i \in 1..MaxSecond : \A q \in backups : q.id <= i}

\* A file of that name, in the place of one that there was.
Listed(id, data) == {q \in backups : q.id # id} \cup {[id |-> id, data |-> data]}

\* Slip: the file is written under the name that the list looks for.
WriteInPlace(b) ==
  /\ Step(b, "vacuumed", "parted")
  /\ \E id \in Names : backups' = Listed(id, Torn)
  /\ UNCHANGED <<files, handles, held, src, copied, history, crashes>>

\* The .part file, which nothing lists and nothing removes.
WritePart(b) ==
  /\ Step(b, "vacuumed", "parted")
  /\ UNCHANGED <<files, backups, handles, held, src, copied, history, crashes>>

\* The rename.
Publish(b) ==
  /\ Step(b, "parted", "listed")
  /\ \E id \in Names : backups' = Listed(id, copied[b])
  /\ copied' = [copied EXCEPT ![b] = {}]
  /\ UNCHANGED <<files, handles, held, src, history, crashes>>

\* The list from the newest on, cut at [retain:]: below zero it counts from the end.
Cut == IF Retain >= 0 THEN Retain ELSE Cardinality(backups) + Retain

\* _prune: what follows the cut is deleted; a file that cannot be is left.
Prune(b) ==
  /\ Step(b, "listed", "done")
  /\ held' = [held EXCEPT ![b] = 0]
  /\ LET old == {r \in backups : Cardinality({q \in backups : q.id > r.id}) >= Cut}
     IN  \E stuck \in SUBSET old : backups' = (backups \ old) \cup stuck
  /\ UNCHANGED <<files, handles, src, copied, history, crashes>>

-----------------------------------------------------------------------------
(* restore_backup.                                                         *)

\* The backup exists; close_db asks the connection, if there is one, to close.
Restore(r) ==
  /\ Step(r, "idle", "closing")
  /\ \E q \in backups : src' = [src EXCEPT ![r] = q.id]
  /\ held' = [held EXCEPT ![r] = db]
  /\ overlap' = (overlap \/ \E q \in Restores \ {r} : phase[q] \notin {"idle", "done", "raised"})
  /\ failed' = "no"
  /\ UNCHANGED <<files, backups, handles, copied, saved, spare, crashes>>

\* The thread closes it: open transactions are lost; the last one out folds the log in.
CloseFile(r) ==
  /\ phase[r] = "closing" /\ held[r] # 0 /\ on[held[r]] # "closed"
  /\ on' = [on EXCEPT ![held[r]] = "closed"]
  /\ pending' = {w \in pending : held[w] # held[r]}
  /\ IF OnLive = {held[r]}
     THEN live' = (IF live = Torn THEN Torn ELSE live \cup wal) /\ wal' = {}
     ELSE UNCHANGED <<live, wal>>
  /\ UNCHANGED <<aside, backups, db, calls, history, crashes>>

\* close_db sets _db to None.
Closed(r) ==
  /\ held[r] # 0 => on[held[r]] = "closed"
  /\ Step(r, "closing", "closed")
  /\ db' = 0
  /\ saved' = IF live = Absent THEN {} ELSE live \cup wal
  /\ spare' = (spare \/ OnLive # {})
  /\ UNCHANGED <<files, backups, on, pending, held, src, copied, overlap, failed, crashes>>

\* What a connection's file is called once it is renamed, or replaced.
Renamed(from, to) == on' = [c \in Conns |-> IF on[c] = from THEN to ELSE on[c]]

\* The aside of an earlier restore is dropped.
DropAside(r) ==
  /\ live # Absent
  /\ Step(r, "closed", "clear")
  /\ aside' = Absent
  /\ Renamed("aside", "gone")
  /\ UNCHANGED <<live, wal, backups, db, pending, held, src, copied, history, crashes>>

\* The unlink or the rename of a file raises, or, when there is no database to put aside,
\* the reading of the backup does: nothing was moved yet.
RestoreRaises(r) ==
  /\ \E from \in {"closed", "clear"} : Raise(r, from)
  /\ failed' = "back"
  /\ UNCHANGED <<files, backups, handles, src, copied, saved, spare, overlap, crashes>>

RenameAside(r) ==
  /\ Step(r, "clear", "renamed")
  /\ aside' = live /\ live' = Absent
  /\ Renamed("live", "aside")
  /\ UNCHANGED <<wal, backups, db, pending, held, src, copied, history, crashes>>

\* The -wal and -shm files are deleted with what is in them.
DropSidecars(r) ==
  /\ Step(r, "renamed", "bare")
  /\ wal' = {}
  /\ UNCHANGED <<live, aside, backups, handles, held, src, copied, history, crashes>>

\* An unlink of them raises, outside the try: the old file stays where it was put.
SidecarRaises(r) ==
  /\ Raise(r, "renamed")
  /\ wal' \in {wal, {}}
  /\ failed' = "stray"
  /\ UNCHANGED <<live, aside, backups, handles, src, copied, saved, spare, overlap, crashes>>

Chosen(r) == {q \in backups : q.id = src[r] /\ q.data # Torn}

\* _decrypt_to: the plain bytes are written; "fresh" when there was no database to put
\* aside.
WriteBegins(r) ==
  /\ \/ Step(r, "bare", "torn")
     \/ Step(r, "closed", "fresh") /\ live = Absent
  /\ Chosen(r) # {}
  /\ live' = Torn
  /\ UNCHANGED <<wal, aside, backups, handles, held, src, copied, history, crashes>>

WriteEnds(r) ==
  /\ \E from \in {"torn", "fresh"} : Step(r, from, "reopening")
  /\ \E q \in Chosen(r) : live' = q.data
  /\ UNCHANGED <<wal, aside, backups, handles, held, src, copied, history, crashes>>

\* Slip: the error passes on, and the old file stays where it was put.
PutBackNothing(r) ==
  /\ Step(r, "bare", "raised")
  /\ failed' = "back"
  /\ UNCHANGED <<files, backups, handles, held, src, copied, saved, spare, overlap, crashes>>

\* The backup was pruned meanwhile, cannot be decrypted, or is not written to the end: the
\* old file is put back, over what there is.
PutBack(r) ==
  /\ \E from \in {"bare", "torn"} : Step(r, from, "raised")
  /\ aside # Absent /\ live' = aside /\ aside' = Absent
  /\ on' = [c \in Conns |-> CASE on[c] = "aside" -> "live" [] on[c] = "live" -> "gone"
                              [] OTHER -> on[c]]
  /\ held' = [held EXCEPT ![r] = 0]
  /\ failed' = "back"
  /\ UNCHANGED <<wal, backups, db, pending, src, copied, saved, spare, overlap, crashes>>

\* get_db, for the audit: it reopens the file.
Reopen(r) == HasDb(r, "reopening", "done") \/ Connect(r, "reopening")

-----------------------------------------------------------------------------

\* The process dies on a torn file, and cannot start again.
CrashTorn ==
  /\ crashes < MaxCrashes /\ crashes' = crashes + 1
  /\ live = Torn
  /\ db' = 0
  /\ on' = [c \in Conns |-> IF on[c] = "unused" THEN "unused" ELSE "closed"]
  /\ pending' = {}
  /\ phase' = [c \in Calls |-> "raised"] /\ held' = [c \in Calls |-> 0]
  /\ UNCHANGED <<files, backups, src, copied, history>>

\* It dies and starts again: get_db opens what it finds.  A log without a database is
\* dropped.
Crash ==
  /\ crashes < MaxCrashes /\ crashes' = crashes + 1
  /\ live # Torn
  /\ live' = IF live = Absent THEN {} ELSE live \cup wal
  /\ wal' = {}
  /\ \E k \in Conns :
       /\ on[k] = "unused" /\ \A j \in Conns : j < k => on[j] # "unused"
       /\ on' = [c \in Conns |-> IF c = k THEN "live"
                                 ELSE IF on[c] = "unused" THEN "unused" ELSE "closed"]
       /\ db' = k
  /\ pending' = {}
  /\ phase' = [c \in Calls |-> IF phase[c] \in {"idle", "done", "raised"} THEN phase[c]
                               ELSE "raised"]
  /\ held' = [c \in Calls |-> 0]
  /\ UNCHANGED <<aside, backups, src, copied, history>>

Next ==
  \/ \E w \in Writers :
       \/ WriterOpens(w) \/ Insert(w) \/ WriterRaises(w) \/ Commit(w)
       \/ Connected(w, "open")
  \/ \E b \in Backups :
       \/ BackupOpens(b) \/ VacuumRaises(b) \/ Vacuum(b) \/ WritePart(b) \/ Publish(b)
       \/ Prune(b) \/ Connected(b, "vacuum")
  \/ \E r \in Restores :
       \/ Restore(r) \/ CloseFile(r) \/ Closed(r) \/ RestoreRaises(r) \/ DropAside(r)
       \/ RenameAside(r) \/ DropSidecars(r) \/ SidecarRaises(r) \/ WriteBegins(r)
       \/ WriteEnds(r) \/ PutBack(r) \/ Reopen(r) \/ Connected(r, "done")
  \/ \E k \in Conns : OpenFile(k)
  \/ Crash \/ CrashTorn

Spec == Init /\ [][Next]_vars

-----------------------------------------------------------------------------
(* Properties.                                                             *)

Holds(file) == IF file \in {Absent, Torn} THEN {} ELSE file

\* backup.py renames the database aside "so the operation is reversible": until another
\* restore closes it, what was committed when a restore closed it is in the file put aside
\* or in the database, and in the database when the restore took it back, whatever dies in
\* between; unless a second connection was on the file, which keeps the log from being
\* folded in before it is deleted, or two restores overlapped.
RestoreIsReversible ==
  ~spare /\ ~overlap =>
    /\ saved \subseteq Holds(aside) \cup Holds(live) \cup wal
    /\ failed = "back" => saved \subseteq Holds(live) \cup wal

\* What the list shows are whole backups, and where any are to be kept, there is one.
ListedIsWhole ==
  /\ \A q \in backups : q.data # Torn
  /\ Retain >= 1 => backups # {}

=============================================================================
