------------------------------ MODULE Replica -------------------------------
(***************************************************************************)
(* The state of a client's SinkronCollection and what its handlers do to   *)
(* it (packages/client/src/collection.ts).  A handler is an operator from  *)
(* the state before to the state after; what it sends is a second operator *)
(* of the state before.  Modules that put clients in a system share them.  *)
(***************************************************************************)
EXTENDS Protocol, FiniteSets

\* `absent` stands for an id that is not in `items`.
Item == [remote: Data, local: Data,
         state: {"absent", "changed", "sent", "synced"}]

Absent == [remote |-> Null, local |-> Null, state |-> "absent"]

Replica == [items: [Doc -> Item],
            colrev: Nat,
            status: {"disconnected", "connected", "ready", "error"},
            flushQueue: SUBSET Doc,
            flushTimer: BOOLEAN,    \* a debounced flush is due
            stopped: BOOLEAN]       \* it no longer reconnects

NewReplica == [items |-> [d \in Doc |-> Absent],
               colrev |-> 0,
               status |-> "disconnected",
               flushQueue |-> {},
               flushTimer |-> FALSE,
               stopped |-> FALSE]

Has(k, d)       == k.items[d].state # "absent"
Put(k, d, item) == [k EXCEPT !.items[d] = item]
Queue(k, d)     == [k EXCEPT !.flushQueue = @ \cup {d}]
Unqueue(k, d)   == [k EXCEPT !.flushQueue = @ \ {d}]

\* Sent by a client to ask for a document: without `col`, so nothing to the server.
Get(d) == [kind |-> "garbled", id |-> d]

-----------------------------------------------------------------------------
(* Messages *)

Unsent(item) == item.local = Null \/ HasChanges(item.local, item.remote)

\* Mutant of Settle: what was edited meanwhile is taken for sent.
SettleAlways(k, d, remote, local) ==
    Unqueue(Put(k, d, [remote |-> remote, local |-> local, state |-> "synced"]), d)

\* With new replicas, an item is up to date, or has something to send: it is
\* queued, but no flush is scheduled.
Settle(k, d, remote, local) ==
    LET item == [remote |-> remote, local |-> local, state |-> "synced"] IN
    IF Unsent(item)
    THEN Queue(Put(k, d, [item EXCEPT !.state = "changed"]), d)
    ELSE Unqueue(Put(k, d, item), d)

\* Mutants of MergeLocal: the server's data wins over the user's edits, and over
\* the user's deletion.
MergeLocalServer(item, data)  == IF item.local = Null THEN Null ELSE data
MergeLocalRevived(item, data) == IF item.local = Null THEN data ELSE Merge(item.local, data)

MergeLocal(item, data) == IF item.local = Null THEN Null ELSE Merge(item.local, data)

\* A new item leaves the queue as it was.
HandleDoc(k, d, data) ==
    IF data = Null THEN Put(k, d, Absent)
    ELSE IF ~Has(k, d)
    THEN Put(k, d, [remote |-> data, local |-> data, state |-> "synced"])
    ELSE Settle(k, d, data, MergeLocal(k.items[d], data))

CanUpdate(k, d) == k.items[d].remote # Null

HandleUpdate(k, d, data) ==
    IF CanUpdate(k, d)
    THEN Settle(k, d, Merge(k.items[d].remote, data), MergeLocal(k.items[d], data))
    ELSE k

\* Mutant of HandleDelete: a document with edits to send is kept.
HandleDeleteIfSynced(k, d) ==
    IF k.items[d].state = "synced" THEN Unqueue(Put(k, d, Absent), d) ELSE k

HandleDelete(k, d) == IF Has(k, d) THEN Unqueue(Put(k, d, Absent), d) ELSE k

HandleChange(k, m) ==
    LET done == CASE m.op = "+" -> HandleDoc(k, m.id, m.data)
                  [] m.op = "*" -> HandleUpdate(k, m.id, m.data)
                  [] m.op = "-" -> HandleDelete(k, m.id)
    IN  [done EXCEPT !.colrev = m.colrev]

\* Refused for lack of permission: back to what the server is known to have.
Restore(k, d) ==
    LET known == k.items[d].remote IN
    Put(k, d, IF known = Null THEN Absent
              ELSE [remote |-> known, local |-> known, state |-> "synced"])

HandleChangeError(k, d, code) ==
    IF ~Has(k, d) THEN k
    ELSE IF code = "not_found" THEN Queue([k EXCEPT !.items[d].remote = Null], d)
    ELSE IF code = "forbidden" THEN Restore(k, d)
    ELSE k

HandleGetError(k, d, code) ==
    IF code = "not_found" THEN Put(k, d, Absent) ELSE k

HandleMessage(k, m) ==
    CASE m.kind = "doc"          -> HandleDoc(k, m.id, m.data)
      [] m.kind = "change"       -> HandleChange(k, m)
      [] m.kind = "change_error" -> HandleChangeError(k, m.id, m.code)
      [] m.kind = "get_error"    -> HandleGetError(k, m.id, m.code)

\* What HandleMessage sends: the document is asked for when an update cannot be
\* applied, or was not accepted for a reason other than those handled above.
Asks(k, m) ==
    \/ m.kind = "change" /\ m.op = "*" /\ ~CanUpdate(k, m.id)
    \/ /\ m.kind = "change_error" /\ Has(k, m.id)
       /\ m.code \notin {"not_found", "forbidden"}

-----------------------------------------------------------------------------
(* Sending changes *)

\* Mutant of FlushMessage: a deletion is sent as an update.
FlushMessageEmpty(d, item) ==
    CASE item.local # Null /\ item.remote = Null -> Change("+", d, item.local)
      [] item.local = Null /\ item.remote # Null -> Change("*", d, Null)
      [] item.local # Null /\ item.remote # Null ->
            Change("*", d, UpdateSince(item.local, item.remote))
      [] OTHER -> [kind |-> "garbled", id |-> d]

FlushMessage(d, item) ==
    CASE item.local # Null /\ item.remote = Null -> Change("+", d, item.local)
      [] item.local = Null /\ item.remote # Null -> Change("-", d, Null)
      [] item.local # Null /\ item.remote # Null ->
            Change("*", d, UpdateSince(item.local, item.remote))
      [] OTHER -> [kind |-> "garbled", id |-> d]

ToFlush(k) == {d \in k.flushQueue : Has(k, d)}

Flush(k) ==
    [k EXCEPT !.items = [d \in Doc |-> IF d \in ToFlush(k)
                                       THEN [@[d] EXCEPT !.state = "sent"]
                                       ELSE @[d]],
              !.flushQueue = {}]

-----------------------------------------------------------------------------
(* The user's operations, up to the flush they may trigger *)

Create(k, d, data) ==
    Queue(Put(k, d, [remote |-> Null, local |-> data, state |-> "changed"]), d)

CanEdit(k, d) == k.items[d].local # Null

Edited(k, d, e) ==
    Queue(Put(k, d, [k.items[d] EXCEPT !.local = @ \cup {e}, !.state = "changed"]), d)

\* What the server never acknowledged is dropped at once.
Delete(k, d) ==
    IF k.items[d].remote = Null THEN Put(k, d, Absent)
    ELSE Queue(Put(k, d, [k.items[d] EXCEPT !.local = Null, !.state = "changed"]), d)
=============================================================================
