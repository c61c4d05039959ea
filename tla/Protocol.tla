------------------------------ MODULE Protocol ------------------------------
(***************************************************************************)
(* The messages of the sync protocol, as both ends read and write them     *)
(* (sinkron/src/protocol.rs, packages/client/src/protocol.ts), and the     *)
(* document values they carry.                                             *)
(*                                                                         *)
(* A Loro document is the set of edits it contains: importing an update is *)
(* set union and version vectors are compared by inclusion.  Null is the   *)
(* missing document: `data: null` on the wire and in the database, and a   *)
(* `null` local or remote replica in the client.                           *)
(***************************************************************************)
EXTENDS Naturals, Sequences

CONSTANTS
    Doc,    \* document ids
    Edit,   \* identities of single edits
    Null    \* no document

ASSUME NullAssumption == \A v \in SUBSET Edit : v # Null

Version == SUBSET Edit
Data    == {Null} \cup Version

-----------------------------------------------------------------------------
(* loro-crdt *)

\* Everything in either document.
Merge(a, b) == a \cup b

\* Does a have an edit that b lacks (is a ahead of, or concurrent with, b)?
HasChanges(a, b) == ~(a \subseteq b)

\* The edits of a that are not in b.
UpdateSince(a, b) == a \ b

-----------------------------------------------------------------------------
(* Client to server *)

Op == {"+", "*", "-"}      \* create, update, delete

ChangeRequest ==
    {m \in [kind: {"change"}, op: Op, id: Doc, data: Data] :
        m.op = "-" <=> m.data = Null}

GetRequest == [kind: {"get"}, id: Doc]

\* What the server's decoder makes nothing of: a change without an `op`, or a
\* `get` without the `col` that protocol.rs requires.
Garbled == [kind: {"garbled"}, id: Doc]

ClientMessage == ChangeRequest \cup GetRequest \cup Garbled

Change(op, d, data) == [kind |-> "change", op |-> op, id |-> d, data |-> data]

-----------------------------------------------------------------------------
(* Server to client *)

ErrorCode == {"not_found", "forbidden", "unprocessable_content",
              "internal_server_error"}

ServerMessage ==
    [kind: {"doc"}, id: Doc, data: Data]
        \cup [kind: {"change"}, op: Op, id: Doc, data: Data, colrev: Nat]
        \cup [kind: {"sync_complete"}, colrev: Nat]
        \cup [kind: {"sync_error"}, code: ErrorCode]
        \cup [kind: {"get_error", "change_error"}, id: Doc, code: ErrorCode]

DocMessage(d, data) == [kind |-> "doc", id |-> d, data |-> data]

ServerChange(op, d, data, rev) ==
    [kind |-> "change", op |-> op, id |-> d, data |-> data, colrev |-> rev]

SyncComplete(rev) == [kind |-> "sync_complete", colrev |-> rev]
SyncError(c)      == [kind |-> "sync_error", code |-> c]
GetError(d, c)    == [kind |-> "get_error", id |-> d, code |-> c]
ChangeError(d, c) == [kind |-> "change_error", id |-> d, code |-> c]
=============================================================================
