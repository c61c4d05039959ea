------------------------------- MODULE Store --------------------------------
(***************************************************************************)
(* A collection in a browser and its local store (class                    *)
(* IndexedDbCollectionStore and backup() in                                *)
(* packages/client/src/collection.ts): documents in IndexedDB, and the     *)
(* revision they are of in localStorage.  The page closes at any time and  *)
(* starts again from the store; logging out clears it.                     *)
(*                                                                         *)
(* The server is its rows and the order in which it answers: Collection    *)
(* and Sync have it in detail.  Here a connection is lost with its `close` *)
(* event, and a sync is answered when it is asked for.                     *)
(***************************************************************************)
EXTENDS Replica, SequencesExt

CONSTANT NoRev      \* no revision stored

ASSUME NoRevAssumption == NoRev \notin Nat
ASSUME StoreAssumption == IsFiniteSet(Doc)

VARIABLES
    docs, clock,     \* the server's rows, and its revision
    late,            \* sent on connections that are lost, not yet read by the server
    outbox,          \* sent on the present one, not yet read by the server
    inbox,           \* sent by the server, not yet handled
    page,            \* closed, loading, open
    replica,
    loadedRev,       \* while loading: the revision that was stored
    backupQueue,
    backups,         \* backups under way: what is still to be written
    database,        \* does the database exist?
    disk, diskRev,   \* the stored items, and the stored revision
    clearing         \* what clearAll does next

serverVars == <<docs, clock, late>>
netVars    == <<outbox, inbox>>
diskVars   == <<database, disk, diskRev, clearing>>
backupVars == <<backupQueue, backups>>
storeVars  == <<serverVars, netVars, page, replica, loadedRev, backupVars, diskVars>>

NoRow == [rev |-> 0, data |-> Null]

\* An item as it is saved: what is stored of an id that has none is NoItem.
NoItem == [remote |-> Null, local |-> Null]

StoreTypeOK ==
    /\ docs \in [Doc -> [rev: Nat, data: Data]]
    /\ clock \in Nat
    /\ late \in Seq(ClientMessage) /\ outbox \in Seq(ClientMessage)
    /\ inbox \in Seq(ServerMessage)
    /\ page \in {"closed", "loading", "open"}
    /\ replica \in Replica
    /\ loadedRev \in Nat
    /\ backupQueue \subseteq Doc
    /\ backups \in Seq([todo: SUBSET Doc, rev: Nat])
    /\ database \in BOOLEAN
    /\ disk \in [Doc -> [remote: Data, local: Data]]
    /\ diskRev \in {NoRev} \cup Nat
    /\ clearing \in {"none", "database", "revision", "orphan"}

\* A browser without a store, and a server with these rows.
StoreInitWith(rows, rev) ==
    /\ docs = rows /\ clock = rev
    /\ late = <<>> /\ outbox = <<>> /\ inbox = <<>>
    /\ page = "closed" /\ replica = NewReplica /\ loadedRev = 0
    /\ backupQueue = {} /\ backups = <<>>
    /\ database = FALSE /\ disk = [d \in Doc |-> NoItem] /\ diskRev = NoRev
    /\ clearing = "none"

Rows(rev) ==
    {rows \in [Doc -> [rev: 0..rev, data: Data]] :
        \A d \in Doc : rows[d].rev = 0 => rows[d] = NoRow}

StoreInit == \E rev \in Nat : \E rows \in Rows(rev) : StoreInitWith(rows, rev)

Exists(d) == docs[d].rev > 0
Live(d)   == docs[d].data # Null
Deleting  == clearing \in {"database", "orphan"}
Online    == replica.status \in {"connected", "ready"}

-----------------------------------------------------------------------------
(* The server *)

Post(msg) == inbox' = IF Online THEN Append(inbox, msg) ELSE inbox

Apply(op, d, data) ==
    LET merged == IF op = "*" THEN Merge(docs[d].data, data) ELSE data IN
    /\ docs' = [docs EXCEPT ![d] = [rev |-> clock + 1, data |-> merged]]
    /\ clock' = clock + 1
    /\ Post(ServerChange(op, d, merged, clock + 1))

Acceptable(op, d) == IF op = "+" THEN ~Exists(d) ELSE Live(d)

\* Another user, or the application.
OthersChange(op, d, data) ==
    /\ Acceptable(op, d)
    /\ Apply(op, d, data)
    /\ UNCHANGED <<late, outbox, page, replica, loadedRev, backupVars, diskVars>>

\* Each connection has a session of its own; what was sent on one comes in that order.
ReadLate(m) == late # <<>> /\ m = Head(late) /\ late' = Tail(late) /\ UNCHANGED outbox
ReadSent(m) == outbox # <<>> /\ m = Head(outbox) /\ outbox' = Tail(outbox) /\ UNCHANGED late

Read(m) == ReadLate(m) \/ ReadSent(m)

Unread == Range(late) \cup Range(outbox)

ServerAccept ==
    /\ \E m \in Unread :
       /\ Read(m)
       /\ m.kind = "change" /\ Acceptable(m.op, m.id)
       /\ Apply(m.op, m.id, m.data)
    /\ UNCHANGED <<page, replica, loadedRev, backupVars, diskVars>>

\* For lack of permission, or because of what became of the document.  The answer goes
\* to the connection the change came on.
ServerRefuse(code) ==
    /\ \E m \in Unread :
       /\ m.kind = "change"
       /\ code = "forbidden" \/ (code = "unprocessable_content" /\ ~Acceptable(m.op, m.id))
       /\ \/ ReadLate(m) /\ UNCHANGED inbox
          \/ ReadSent(m) /\ Post(ChangeError(m.id, code))
    /\ UNCHANGED <<docs, clock, page, replica, loadedRev, backupVars, diskVars>>

ServerIgnore ==
    /\ \E m \in Unread \cap Garbled : Read(m)
    /\ UNCHANGED <<docs, clock, inbox, page, replica, loadedRev, backupVars, diskVars>>

SyncAnswers(r) ==
    LET missing == IF r = 0 THEN {d \in Doc : Live(d)} ELSE {d \in Doc : docs[d].rev > r} IN
    IF r > clock THEN {<<SyncError("unprocessable_content")>>}
    ELSE {[i \in DOMAIN order |-> DocMessage(order[i], docs[order[i]].data)]
              \o <<SyncComplete(clock)>> : order \in SetToSeqs(missing)}

-----------------------------------------------------------------------------
(* Starting from the store *)

\* The revision is read first: before the database is open, or known to exist.
Open ==
    /\ page = "closed"
    /\ page' = "loading"
    /\ loadedRev' = IF diskRev = NoRev THEN 0 ELSE diskRev
    /\ UNCHANGED <<serverVars, netVars, replica, backupVars, diskVars>>

Changed(item) == item.local = Null \/ item.remote = Null \/ HasChanges(item.local, item.remote)

Loaded(item) ==
    IF item = NoItem THEN Absent
    ELSE [remote |-> item.remote, local |-> item.local,
          state |-> IF Changed(item) THEN "changed" ELSE "synced"]

Unsaved == {d \in Doc : disk[d] # NoItem /\ Changed(disk[d])}

\* Mutant of Load: what is in the store is taken for sent.
LoadSynced ==
    /\ page = "loading" /\ ~Deleting
    /\ page' = "open"
    /\ replica' = [NewReplica EXCEPT !.items = [d \in Doc |-> Loaded(disk[d])],
                                     !.colrev = loadedRev]
    /\ database' = TRUE
    /\ diskRev' = IF database THEN diskRev ELSE 0
    /\ UNCHANGED <<serverVars, netVars, loadedRev, backupVars, disk, clearing>>

\* The database opens, after any deletion of it under way.  If it is new, its
\* revision is stored as 0; the revision that was read before stays.
Load ==
    /\ page = "loading" /\ ~Deleting
    /\ page' = "open"
    /\ replica' = [NewReplica EXCEPT !.items = [d \in Doc |-> Loaded(disk[d])],
                                     !.colrev = loadedRev,
                                     !.flushQueue = Unsaved]
    /\ database' = TRUE
    /\ diskRev' = IF database THEN diskRev ELSE 0
    /\ UNCHANGED <<serverVars, netVars, loadedRev, backupVars, disk, clearing>>

Connect ==
    /\ page = "open" /\ replica.status = "disconnected"
    /\ replica' = [replica EXCEPT !.status = "connected"]
    /\ inbox' \in SyncAnswers(replica.colrev)
    /\ UNCHANGED <<serverVars, outbox, page, loadedRev, backupVars, diskVars>>

-----------------------------------------------------------------------------
(* Backup *)

Backup(queue, rev) ==
    IF queue = {} THEN UNCHANGED backupVars
    ELSE /\ backups' = Append(backups, [todo |-> queue, rev |-> rev])
         /\ backupQueue' = {}

BackupTimer ==
    /\ page = "open" /\ backupQueue # {}
    /\ Backup(backupQueue, replica.colrev)
    /\ UNCHANGED <<serverVars, netVars, page, replica, loadedRev, diskVars>>

\* Mutant of BackupWrite: an item that is no more is left where it is.
BackupWriteKeep(i, d) ==
    /\ d \in backups[i].todo
    /\ disk' = IF Has(replica, d)
               THEN [disk EXCEPT ![d] = [remote |-> replica.items[d].remote,
                                         local |-> replica.items[d].local]]
               ELSE disk
    /\ backups' = [backups EXCEPT ![i].todo = @ \ {d}]
    /\ UNCHANGED <<serverVars, netVars, page, replica, loadedRev, backupQueue,
                   database, diskRev, clearing>>

\* Each item is written as it is by then.
BackupWrite(i, d) ==
    /\ d \in backups[i].todo
    /\ disk' = [disk EXCEPT ![d] = [remote |-> replica.items[d].remote,
                                    local |-> replica.items[d].local]]
    /\ backups' = [backups EXCEPT ![i].todo = @ \ {d}]
    /\ UNCHANGED <<serverVars, netVars, page, replica, loadedRev, backupQueue,
                   database, diskRev, clearing>>

\* Mutant of BackupEnd: the revision of the end is stored, not of the beginning.
BackupEndLate(i) ==
    /\ backups[i].todo = {}
    /\ diskRev' = replica.colrev
    /\ backups' = RemoveAt(backups, i)
    /\ UNCHANGED <<serverVars, netVars, page, replica, loadedRev, backupQueue,
                   database, disk, clearing>>

BackupEnd(i) ==
    /\ backups[i].todo = {}
    /\ diskRev' = backups[i].rev
    /\ backups' = RemoveAt(backups, i)
    /\ UNCHANGED <<serverVars, netVars, page, replica, loadedRev, backupQueue,
                   database, disk, clearing>>

-----------------------------------------------------------------------------
(* Flushing.  `k` is the replica once what triggers the flush is done. *)

FlushFrom(k) ==
    /\ replica' = Flush([k EXCEPT !.flushTimer = FALSE])
    /\ \E order \in SetToSeqs(ToFlush(k)) :
          outbox' = outbox \o
              [i \in DOMAIN order |-> FlushMessage(order[i], k.items[order[i]])]

FlushNow(k) ==
    IF k.status = "ready" THEN FlushFrom(k) ELSE replica' = k /\ UNCHANGED outbox

FlushTimer ==
    /\ replica.flushTimer
    /\ FlushFrom(replica)
    /\ UNCHANGED <<serverVars, inbox, page, loadedRev, backupVars, diskVars>>

-----------------------------------------------------------------------------
(* Messages *)

Enqueue(ds) == backupQueue' = backupQueue \cup ds /\ UNCHANGED backups

\* What a message queues for backup: not a deletion by another user, nor what a
\* refusal restores or removes.
Saves(m) ==
    IF m.kind = "doc" THEN {m.id}
    ELSE IF m.kind # "change" \/ m.op = "-" \/ (m.op = "*" /\ ~CanUpdate(replica, m.id))
    THEN {} ELSE {m.id}

OnMessage ==
    /\ inbox # <<>>
    /\ LET m == Head(inbox) IN
       /\ m.kind \in {"doc", "change", "change_error"}
       /\ replica' = HandleMessage(replica, m)
       /\ outbox' = IF Asks(replica, m) THEN Append(outbox, Get(m.id)) ELSE outbox
       /\ Enqueue(Saves(m))
    /\ inbox' = Tail(inbox)
    /\ UNCHANGED <<serverVars, page, loadedRev, diskVars>>

OnSyncComplete ==
    /\ inbox # <<>> /\ Head(inbox).kind = "sync_complete"
    /\ LET rev == Head(inbox).colrev IN
       /\ FlushFrom([replica EXCEPT !.colrev = rev, !.status = "ready"])
       /\ Backup(backupQueue, rev)
    /\ inbox' = Tail(inbox)
    /\ UNCHANGED <<serverVars, page, loadedRev, diskVars>>

\* A connection ends; the server may still read what was sent on it.
Hangup ==
    /\ inbox' = <<>> /\ outbox' = <<>>
    /\ late' \in {late, late \o outbox}

Lose ==
    /\ Online
    /\ replica' = [replica EXCEPT !.status = "disconnected", !.flushTimer = FALSE]
    /\ Hangup
    /\ UNCHANGED <<docs, clock, page, loadedRev, backupVars, diskVars>>

-----------------------------------------------------------------------------
(* The user *)

UserCreate(d, e) ==
    /\ page = "open" /\ ~Has(replica, d) /\ ~Exists(d)
    /\ FlushNow(Create(replica, d, {e}))
    /\ Enqueue({d})
    /\ UNCHANGED <<serverVars, inbox, page, loadedRev, diskVars>>

UserChange(d, e) ==
    /\ page = "open" /\ CanEdit(replica, d)
    /\ LET k == Edited(replica, d, e) IN
       replica' = [k EXCEPT !.flushTimer = @ \/ k.status = "ready"]
    /\ Enqueue({d})
    /\ UNCHANGED <<serverVars, netVars, page, loadedRev, diskVars>>

\* A document the server never acknowledged is dropped, also from nowhere else.
UserDelete(d) ==
    /\ page = "open" /\ Has(replica, d)
    /\ LET k == Delete(replica, d) IN
       IF Has(k, d) THEN FlushNow(k) /\ Enqueue({d})
                    ELSE replica' = k /\ UNCHANGED <<outbox, backupVars>>
    /\ UNCHANGED <<serverVars, inbox, page, loadedRev, diskVars>>

-----------------------------------------------------------------------------
(* The end of a collection object: destroy(), or the end of the page.  What was *)
(* to be saved, or was about to be, is not.                                    *)

Forget ==
    /\ replica' = NewReplica
    /\ Hangup
    /\ backupQueue' = {} /\ backups' = <<>>
    /\ page' = "closed"

\* The page is closed or reloaded, or the user turns to another space.  With the
\* page, clearAll ends: of it, only a deletion of the database under way is done.
Close ==
    /\ page # "closed" \/ clearing # "none"
    /\ Forget
    /\ clearing' \in {clearing, IF Deleting THEN "orphan" ELSE "none"}
    /\ UNCHANGED <<docs, clock, loadedRev, database, disk, diskRev>>

\* The user logs out; or the server reports a sync_error, and errorHandler does.
\* The collections to clear are those with a revision.
Logout ==
    /\ page # "closed" /\ clearing = "none"
    /\ Forget
    /\ clearing' = IF diskRev = NoRev THEN "none" ELSE "database"
    /\ UNCHANGED <<docs, clock, loadedRev, database, disk, diskRev>>

OnSyncError ==
    /\ inbox # <<>> /\ Head(inbox).kind = "sync_error"
    /\ Logout

ClearDatabase ==
    /\ Deleting
    /\ database' = FALSE
    /\ disk' = [d \in Doc |-> NoItem]
    /\ clearing' = IF clearing = "orphan" THEN "none" ELSE "revision"
    /\ UNCHANGED <<serverVars, netVars, page, replica, loadedRev, backupVars, diskRev>>

ClearRevision ==
    /\ clearing = "revision"
    /\ diskRev' = NoRev
    /\ clearing' = "none"
    /\ UNCHANGED <<serverVars, netVars, page, replica, loadedRev, backupVars,
                   database, disk>>

-----------------------------------------------------------------------------

PageStep == Open \/ Load \/ Connect \/ OnMessage \/ OnSyncComplete \/ FlushTimer

BackupStep ==
    \/ BackupTimer
    \/ \E i \in DOMAIN backups : BackupEnd(i) \/ \E d \in Doc : BackupWrite(i, d)

ServerStep ==
    ServerAccept \/ ServerRefuse("unprocessable_content") \/ ServerIgnore

ClearStep == ClearDatabase \/ ClearRevision

StoreNext ==
    \/ PageStep \/ OnSyncError \/ Lose \/ BackupStep \/ ClearStep \/ Close \/ Logout
    \/ ServerStep \/ ServerRefuse("forbidden")
    \/ \E d \in Doc : \/ UserDelete(d)
                      \/ OthersChange("-", d, Null)
                      \/ \E e \in Edit : \/ UserCreate(d, e) \/ UserChange(d, e)
                                        \/ OthersChange("+", d, {e})
                                        \/ OthersChange("*", d, {e})

StoreSpec == StoreInit /\ [][StoreNext]_storeVars

-----------------------------------------------------------------------------
(* Properties *)

\* No two backups are under way at once, and a revision that was read has the
\* documents it is of.
Orderly == Len(backups) <= 1 /\ ~(page = "loading" /\ loadedRev # 0 /\ ~database)

\* What Feed promises of a running client, across restarts: a client that will ask
\* for what changed after its revision has every document last changed up to it.
ResumeSafe ==
    page = "open" =>
        \A d \in Doc : Live(d) /\ docs[d].rev <= replica.colrev =>
            replica.items[d].remote = docs[d].data

\* And it has no document that was deleted up to it.
NoRevenant(d) ==
    page = "open" /\ Exists(d) /\ ~Live(d) /\ docs[d].rev <= replica.colrev =>
        replica.items[d].remote = Null

Saved(d, e) == disk[d].local # Null /\ e \in disk[d].local

Agree(d) ==
    /\ replica.items[d].local = docs[d].data
    /\ Has(replica, d) => replica.items[d].state = "synced"
=============================================================================
