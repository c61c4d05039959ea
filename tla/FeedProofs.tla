----------------------------- MODULE FeedProofs -----------------------------
(***************************************************************************)
(* A client that follows a collection may resume from its cursor, and has  *)
(* nothing that the collection never had: for every set of clients,        *)
(* connections, documents and edits, whatever else the sessions ask for    *)
(* and however often connections are lost and syncs fail.                  *)
(*                                                                         *)
(* The argument is about what is on its way to a session, `Pending`: the   *)
(* documents of a sync before its sync_complete, that before any change,   *)
(* changes by revision, and the last word about a document the true one.   *)
(***************************************************************************)
EXTENDS Feed, CollectionProofs

-----------------------------------------------------------------------------
(* What a session is still to be told *)

Refusals == {"change_error", "get_error"}

\* Refusals say nothing of the documents.
Pending(s) ==
    {m \in Range(wire[s]) \cup Range(mailbox[s]) : m.kind \notin Refusals}

\* The last sync failed: the client gives up when it reads so.
Failed(s) == \E m \in Pending(s) : m.kind = "sync_error"

\* m is about document d.
Says(m, d) == m.kind \in {"doc", "change"} /\ m.id = d

LEMMA PendingTypes ==
    ASSUME TypeOK, NEW s \in Session, NEW m \in Pending(s)
    PROVE  /\ m \in ServerMessage
           /\ m.kind \in {"doc", "change", "sync_complete", "sync_error"}
           /\ m.kind \in {"doc", "change"} => m.id \in Doc /\ m.data \in Data
           /\ m.kind \in {"change", "sync_complete"} => m.colrev \in Nat
           /\ m.kind = "change" => m.op \in Op
<1>1. m \in Range(wire[s]) \/ m \in Range(mailbox[s])
  BY DEF Pending
<1>2. m \in ServerMessage
  BY <1>1, Lengths, ElementOfSeq DEF TypeOK, Range
<1> QED
  BY <1>2 DEF ServerMessage, Pending, Refusals

LEMMA PendingSame ==
    ASSUME NEW s \in Session, Same(s)
    PROVE  Pending(s)' = Pending(s)
BY DEF Same, Pending

LEMMA PendingForwarded ==
    ASSUME TypeOK, NEW s \in Session, Forwarded(s)
    PROVE  Pending(s)' = Pending(s)
<1>1. Range(wire'[s]) \cup Range(mailbox'[s]) \subseteq Range(wire[s]) \cup Range(mailbox[s])
  <2>1. ASSUME NEW i \in DOMAIN wire'[s]
        PROVE  \/ i \in DOMAIN wire[s] /\ wire'[s][i] = wire[s][i]
               \/ 1 \in DOMAIN mailbox[s] /\ wire'[s][i] = mailbox[s][1]
    BY Lengths, ForwardedShape
  <2>2. ASSUME NEW i \in DOMAIN mailbox'[s]
        PROVE  i + 1 \in DOMAIN mailbox[s] /\ mailbox'[s][i] = mailbox[s][i + 1]
    BY Lengths, ForwardedShape
  <2> QED
    BY <2>1, <2>2 DEF Range
<1>2. Range(wire[s]) \cup Range(mailbox[s]) \subseteq Range(wire'[s]) \cup Range(mailbox'[s])
  <2>1. ASSUME NEW i \in DOMAIN wire[s]
        PROVE  i \in DOMAIN wire'[s] /\ wire'[s][i] = wire[s][i]
    BY Lengths, ForwardedShape
  <2>2. ASSUME NEW i \in DOMAIN mailbox[s]
        PROVE  \/ /\ Len(wire[s]) + 1 \in DOMAIN wire'[s]
                  /\ wire'[s][Len(wire[s]) + 1] = mailbox[s][i]
               \/ i - 1 \in DOMAIN mailbox'[s] /\ mailbox'[s][i - 1] = mailbox[s][i]
    BY Lengths, ForwardedShape
  <2> QED
    BY <2>1, <2>2 DEF Range
<1> QED
  BY <1>1, <1>2 DEF Pending

LEMMA PendingReceived ==
    ASSUME TypeOK, NEW s \in Session, Received(s)
    PROVE  /\ wire[s][1] = Head(wire[s]) /\ 1 \in DOMAIN wire[s]
           /\ Head(wire[s]).kind \notin Refusals =>
                  Pending(s) = {Head(wire[s])} \cup Pending(s)'
           /\ Head(wire[s]).kind \in Refusals => Pending(s) = Pending(s)'
<1> DEFINE h == Head(wire[s])
<1>1. h = wire[s][1] /\ 1 \in DOMAIN wire[s]
  BY HeadTailProperties, LenProperties, EmptySeq DEF Received, TypeOK
<1>2. Range(wire[s]) = {h} \cup Range(wire'[s])
  <2>1. ASSUME NEW i \in DOMAIN wire'[s]
        PROVE  i + 1 \in DOMAIN wire[s] /\ wire'[s][i] = wire[s][i + 1]
    BY Lengths, ReceivedShape
  <2>2. ASSUME NEW i \in DOMAIN wire[s], i # 1
        PROVE  i - 1 \in DOMAIN wire'[s] /\ wire'[s][i - 1] = wire[s][i]
    BY <2>2, Lengths, ReceivedShape
  <2> QED
    BY <1>1, <2>1, <2>2 DEF Range
<1> QED
  BY <1>1, <1>2 DEF Pending, Received

LEMMA PendingReplied ==
    ASSUME TypeOK, NEW s \in Session, NEW msgs \in Seq(ServerMessage),
           wire'[s] = wire[s] \o msgs, mailbox'[s] = mailbox[s]
    PROVE  Pending(s)' = Pending(s) \cup {m \in Range(msgs) : m.kind \notin Refusals}
<1>1. Range(wire'[s]) = Range(wire[s]) \cup Range(msgs)
  BY RangeConcatenation DEF TypeOK
<1> QED
  BY <1>1 DEF Pending

LEMMA PendingBroadcast ==
    ASSUME TypeOK, NEW src, NEW m \in ChangeRequest, Accepted(src, m),
           NEW s \in Session, wire'[s] = wire[s]
    PROVE  Pending(s)' =
             IF s \in subscribers /\ stage[s] = "open"
             THEN Pending(s) \cup {ServerChange(m.op, m.id, Outcome(m), colrev + 1)}
             ELSE Pending(s)
<1> DEFINE msg == ServerChange(m.op, m.id, Outcome(m), colrev + 1)
<1>1. msg \in ServerMessage /\ msg.kind \notin Refusals
  BY RequestTypes, OutcomeTypes DEF ServerChange, ServerMessage, TypeOK, Accepted, Refusals
<1>2. mailbox'[s] = IF s \in subscribers /\ stage[s] = "open"
                    THEN Append(mailbox[s], msg) ELSE mailbox[s]
  BY DEF Accepted, Apply, Broadcast
<1>3. Range(Append(mailbox[s], msg)) = Range(mailbox[s]) \cup {msg}
  <2>1. /\ DOMAIN Append(mailbox[s], msg) = 1..(Len(mailbox[s]) + 1)
        /\ \A i \in 1..Len(mailbox[s]) : Append(mailbox[s], msg)[i] = mailbox[s][i]
        /\ Append(mailbox[s], msg)[Len(mailbox[s]) + 1] = msg
    BY <1>1, AppendProperties DEF TypeOK
  <2> QED
    BY <2>1, Lengths DEF Range
<1> QED
  BY <1>1, <1>2, <1>3 DEF Pending
-----------------------------------------------------------------------------
(* What a session is answered *)

\* The documents of a sync: as they are, all that the client may be missing; of the
\* deleted ones too, unless it had nothing.
SyncDocs(s, ds) ==
    /\ ds \in Seq(ServerMessage)
    /\ \A m \in Range(ds) :
          /\ m.kind = "doc" /\ m.id \in Doc
          /\ docs[m.id].rev > 0 /\ m.data = docs[m.id].data
    /\ \A d \in Doc :
          (Live(d) \/ call[s].colrev # 0) /\ docs[d].rev > call[s].colrev =>
              \E m \in Range(ds) : m.id = d

Synced(s) ==
    /\ call[s].kind = "sync" /\ (SubscribeFirst => s \notin joining)
    /\ \E ds : SyncDocs(s, ds) /\ Reply(s, ds \o <<SyncComplete(colrev)>>)
    /\ UNCHANGED <<docs, colrev, links, mailbox>>

SyncFailed(s) ==
    /\ call[s].kind = "sync"
    /\ \E e \in ServerMessage : e.kind = "sync_error" /\ Reply(s, <<e>>)
    /\ UNCHANGED <<docs, colrev, links, mailbox>>

Refused(s) ==
    /\ call[s].kind = "change"
    /\ \E e \in ServerMessage : e.kind \in Refusals /\ Reply(s, <<e>>)
    /\ colrev' \in {colrev, colrev + 1}
    /\ UNCHANGED <<docs, links, mailbox>>

\* Every missing document is in the answer to a Sync.
LEMMA MissingSent ==
    ASSUME TypeOK, RowsOrdered, NEW s \in Session, call[s].kind = "sync",
           NEW order \in SetToSeqs(Missing(call[s].colrev))
    PROVE  SyncDocs(s, [i \in DOMAIN order |-> DocMessage(order[i], docs[order[i]].data)])
<1> DEFINE r  == call[s].colrev
           n  == Cardinality(Missing(r))
           ds == [i \in DOMAIN order |-> DocMessage(order[i], docs[order[i]].data)]
<1>0. r \in Nat
  BY CallTypes
<1>1. Missing(r) \subseteq Doc /\ IsFiniteSet(Missing(r))
  BY CollectionAssumption, FS_Subset DEF Missing
<1>2. n \in Nat
  BY <1>1, FS_CardinalityType
<1>3. /\ order \in [1..n -> Missing(r)]
      /\ \A i, j \in 1..n : i # j => order[i] # order[j]
  BY DEF SetToSeqs
<1>4. \A d \in Missing(r) : \E i \in 1..n : order[i] = d
  <2>1. order \in Injection(1..n, Missing(r))
    BY <1>3 DEF Injection, IsInjective
  <2>2. Cardinality(1..n) = n
    BY <1>2, FS_Interval
  <2>3. order \in Surjection(1..n, Missing(r))
    BY <1>1, <2>1, <2>2, FS_Injection
  <2> QED
    BY <2>3 DEF Surjection
<1>5. \A i \in 1..n : /\ DocMessage(order[i], docs[order[i]].data) \in ServerMessage
                      /\ order[i] \in Doc /\ order[i] \in Missing(r)
  BY <1>1, <1>3 DEF DocMessage, ServerMessage, TypeOK
<1>6. ds \in Seq(ServerMessage) /\ DOMAIN ds = 1..n
  BY <1>2, <1>3, <1>5, IsASeq
<1>7. \A d \in Missing(r) : docs[d].rev > 0
  <2> SUFFICES ASSUME NEW d \in Missing(r) PROVE docs[d].rev > 0
    OBVIOUS
  <2>1. d \in Doc /\ docs[d].rev \in Nat /\ (docs[d].rev = 0 => docs[d].data = Null)
    BY <1>1 DEF TypeOK, RowsOrdered, NoRow
  <2>2. Live(d) \/ docs[d].rev > r
    BY DEF Missing
  <2> QED
    BY <1>0, <2>1, <2>2 DEF Live
<1>8. ASSUME NEW m \in Range(ds)
      PROVE  /\ m.kind = "doc" /\ m.id \in Doc
             /\ docs[m.id].rev > 0 /\ m.data = docs[m.id].data
  <2>1. PICK i \in 1..n : m = DocMessage(order[i], docs[order[i]].data)
    BY <1>3, <1>6 DEF Range
  <2> QED
    BY <1>5, <1>7, <2>1 DEF DocMessage
<1>9. ASSUME NEW d \in Doc, Live(d) \/ r # 0, docs[d].rev > r
      PROVE  \E m \in Range(ds) : m.id = d
  <2>1. d \in Missing(r)
    BY <1>9 DEF Missing
  <2>2. PICK i \in 1..n : order[i] = d
    BY <1>4, <2>1
  <2>3. ds[i] \in Range(ds) /\ ds[i].id = d
    BY <1>3, <1>6, <2>2 DEF Range, DocMessage
  <2> QED
    BY <2>3
<1> QED
  BY <1>6, <1>8, <1>9 DEF SyncDocs

\* No session waits for a `get`; a Sync is of a revision that was given out.
LEMMA ServeKinds ==
    ASSUME TypeOK, RowsOrdered, NEW s \in Session, call[s].kind # "get",
           ServeSync(s) \/ ServeGet(s) \/ ServeChange(s) \/ Fail(s)
    PROVE  \/ Synced(s) \/ SyncFailed(s) \/ Refused(s)
           \/ /\ call[s].kind = "change"
              /\ \E m \in ChangeRequest : Accepted(s, m) /\ Reply(s, <<>>)
<1>1. CASE ServeSync(s)
  <2>1. call[s].colrev \in Nat
    BY <1>1, CallTypes DEF ServeSync
  <2>2. UNCHANGED <<docs, colrev, links, mailbox>>
    BY <1>1 DEF ServeSync, storage
  <2>3. /\ SyncError("forbidden") \in ServerMessage
        /\ SyncError("unprocessable_content") \in ServerMessage
        /\ \A e : SyncError(e).kind = "sync_error"
    BY DEF SyncError, ServerMessage, ErrorCode
  <2>4. CASE s \in Readers /\ call[s].colrev = colrev
             /\ Reply(s, <<SyncComplete(colrev)>>)
    <3>1. <<SyncComplete(colrev)>> = <<>> \o <<SyncComplete(colrev)>>
      BY ConcatEmptySeq
    <3>2. SyncDocs(s, <<>>)
      <4>1. Range(<<>>) = {} /\ <<>> \in Seq(ServerMessage)
        BY EmptySeq DEF Range
      <4>2. ASSUME NEW d \in Doc PROVE ~(docs[d].rev > call[s].colrev)
        <5>1. docs[d].rev \in Nat /\ docs[d].rev <= colrev
          BY DEF RowsOrdered, TypeOK
        <5>2. colrev \in Nat /\ call[s].colrev = colrev
          BY <2>4 DEF TypeOK
        <5> QED
          BY <5>1, <5>2
      <4> QED
        BY <4>1, <4>2 DEF SyncDocs
    <3> QED
      BY <1>1, <2>2, <2>4, <3>1, <3>2 DEF Synced, ServeSync
  <2>5. ASSUME NEW order \in SetToSeqs(Missing(call[s].colrev)),
               Reply(s, [i \in DOMAIN order |-> DocMessage(order[i], docs[order[i]].data)]
                            \o <<SyncComplete(colrev)>>)
        PROVE  Synced(s)
    BY <1>1, <2>2, <2>5, MissingSent DEF Synced, ServeSync
  <2>6. \/ Reply(s, <<SyncError("forbidden")>>)
        \/ Reply(s, <<SyncError("unprocessable_content")>>)
        \/ s \in Readers /\ call[s].colrev = colrev /\ Reply(s, <<SyncComplete(colrev)>>)
        \/ \E order \in SetToSeqs(Missing(call[s].colrev)) :
              Reply(s, [i \in DOMAIN order |-> DocMessage(order[i], docs[order[i]].data)]
                            \o <<SyncComplete(colrev)>>)
    BY <1>1 DEF ServeSync, SyncReply
  <2>7. CASE \/ Reply(s, <<SyncError("forbidden")>>)
             \/ Reply(s, <<SyncError("unprocessable_content")>>)
    BY <1>1, <2>2, <2>3, <2>7 DEF SyncFailed, ServeSync
  <2> QED
    BY <2>4, <2>5, <2>6, <2>7
<1>2. CASE ServeGet(s)
  BY <1>2 DEF ServeGet
<1>3. CASE ServeChange(s)
  <2>1. call[s] \in ChangeRequest
    BY <1>3, CallTypes DEF ServeChange
  <2>2. CASE Refusal(s, call[s]) = NoError /\ Apply(call[s]) /\ Reply(s, <<>>)
    BY <1>3, <2>1, <2>2 DEF Accepted, ServeChange
  <2>3. CASE /\ Refusal(s, call[s]) # NoError
             /\ Reply(s, <<ChangeError(call[s].id, Refusal(s, call[s]))>>)
             /\ UNCHANGED <<storage, links, mailbox>>
    <3>1. /\ ChangeError(call[s].id, Refusal(s, call[s])) \in ServerMessage
          /\ ChangeError(call[s].id, Refusal(s, call[s])).kind \in Refusals
      BY <2>1, <2>3, RefusalTypes, RequestTypes DEF ChangeError, ServerMessage, Refusals
    <3> QED
      BY <1>3, <2>3, <3>1 DEF Refused, storage, ServeChange
  <2> QED
    BY <1>3, <2>2, <2>3 DEF ServeChange
<1>4. CASE Fail(s)
  <2>1. CASE call[s].kind = "sync"
    <3>1. /\ SyncError("internal_server_error") \in ServerMessage
          /\ SyncError("internal_server_error").kind = "sync_error"
      BY DEF SyncError, ServerMessage, ErrorCode
    <3> QED
      BY <1>4, <2>1, <3>1 DEF Fail, SyncFailed
  <2>2. CASE call[s].kind = "change"
    <3>1. call[s].id \in Doc
      BY <2>2, CallTypes, RequestTypes
    <3>2. /\ ChangeError(call[s].id, "internal_server_error") \in ServerMessage
          /\ ChangeError(call[s].id, "internal_server_error").kind \in Refusals
      BY <3>1 DEF ChangeError, ServerMessage, ErrorCode, Refusals
    <3>3. colrev' \in {colrev, colrev + 1}
      BY <1>4 DEF Fail
    <3> QED
      BY <1>4, <2>2, <3>2, <3>3 DEF Fail, Refused
  <2> QED
    BY <1>4, <2>1, <2>2 DEF Fail
<1> QED
  BY <1>1, <1>2, <1>3, <1>4
-----------------------------------------------------------------------------
(* Connections *)

FeedTypeOK ==
    /\ link \in [Client -> Slot \cup {NoSlot}]
    /\ view \in [Client -> [Doc -> Data]]
    /\ cursor \in [Client -> Nat]
    /\ stopped \subseteq Client

\* A client and the server agree on what is open.
Linked == \A c \in Client, n \in Slot : stage[<<c, n>>] = "open" <=> link[c] = n

\* From its connection to its exit a session is about to subscribe or has; it
\* asks for no document by itself, and nothing precedes the answer to its Sync.
Line(s) ==
    /\ stage[s] # "open" => wire[s] = <<>>
    /\ stage[s] = "idle" => s \notin joining \cup subscribers /\ call[s] = NoCall
    /\ stage[s] # "idle" => (s \in joining <=> s \notin subscribers)
    /\ call[s].kind # "get"
    /\ call[s].kind = "sync" => wire[s] = <<>>

Lines == \A s \in Session : Line(s)

\* A step of the feed is a step of the collection.
LEMMA FeedSteps ==
    ASSUME FeedTypeOK, [FeedNext]_feedVars
    PROVE  [Next]_colVars
<1>1. ASSUME NEW c \in Client, Dial(c) \/ Read(c) \/ GiveUp(c) \/ Lose(c) PROVE Next
  <2>1. ASSUME NEW n \in Slot, Connect(<<c, n>>, cursor[c]) PROVE Next
    BY <2>1, FeedAssumption DEF Next, FeedTypeOK
  <2>2. CASE Dial(c)
    BY <2>1, <2>2 DEF Dial
  <2>3. ASSUME link[c] # NoSlot PROVE Conn(c) \in Session
    BY <2>3, FeedAssumption DEF Conn, FeedTypeOK
  <2>4. CASE Read(c)
    BY <2>3, <2>4 DEF Read, Next
  <2>5. CASE GiveUp(c) \/ Lose(c)
    BY <2>3, <2>5 DEF GiveUp, Lose, HangUp, Next
  <2> QED
    BY <1>1, <2>2, <2>4, <2>5
<1>2. ASSUME NEW s \in Session, ServerStep(s) \/ \E m \in Requests : Take(s, m) PROVE Next
  BY <1>2 DEF Next, Requests, ClientMessage
<1>3. CASE (\E m \in ChangeRequest : ApiChange(m)) \/ \E d \in Doc : Lock(d)
  BY <1>3 DEF Next
<1>4. CASE UNCHANGED feedVars
  BY <1>4 DEF feedVars
<1> QED
  BY <1>1, <1>2, <1>3, <1>4 DEF FeedNext

\* What is broadcast of an update is a version of the document, of a deletion
\* nothing.
UpdatesWhole ==
    \A s \in Session : \A m \in Pending(s) :
        m.kind = "change" =>
            (m.op = "*" => m.data \in Version) /\ (m.op = "-" => m.data = Null)

LEMMA UpdatesWholeStep ==
    ASSUME TypeOK, UpdatesWhole, [Next]_colVars
    PROVE  UpdatesWhole'
<1>1. CASE \A t \in Session : Relayed(t)
  <2> SUFFICES ASSUME NEW s \in Session, NEW m \in Pending(s)', m.kind = "change"
               PROVE  m \in Pending(s)
    BY DEF UpdatesWhole
  <2>1. /\ \A i \in DOMAIN wire'[s] :
              \/ wire'[s][i].kind # "change"
              \/ \E j \in DOMAIN wire[s] : wire'[s][i] = wire[s][j]
              \/ \E j \in DOMAIN mailbox[s] : wire'[s][i] = mailbox[s][j]
        /\ \A i \in DOMAIN mailbox'[s] :
              \E j \in DOMAIN mailbox[s] : mailbox'[s][i] = mailbox[s][j]
    BY <1>1, Origin
  <2> QED
    BY <2>1 DEF Pending, Range
<1>2. ASSUME NEW src, NEW r \in ChangeRequest, Accepted(src, r), UNCHANGED wire
      PROVE  UpdatesWhole'
  <2> SUFFICES ASSUME NEW s \in Session, NEW m \in Pending(s)', m.kind = "change"
               PROVE  (m.op = "*" => m.data \in Version) /\ (m.op = "-" => m.data = Null)
    BY DEF UpdatesWhole
  <2>1. \/ m \in Pending(s)
        \/ m = ServerChange(r.op, r.id, Outcome(r), colrev + 1)
    BY <1>2, PendingBroadcast
  <2>2. /\ r.op = "*" => Outcome(r) \in Version
        /\ r.op = "-" => Outcome(r) = Null
    BY <1>2, OutcomeTypes DEF Accepted
  <2> QED
    BY <2>1, <2>2 DEF UpdatesWhole, ServerChange
<1> QED
  BY <1>1, <1>2, FeedStep

LEMMA FeedTypeStep ==
    ASSUME TypeOK, FeedTypeOK, UpdatesWhole, [FeedNext]_feedVars
    PROVE  FeedTypeOK'
<1>1. ASSUME NEW c \in Client, Dial(c) PROVE FeedTypeOK'
  BY <1>1 DEF Dial, FeedTypeOK
<1>2. ASSUME NEW c \in Client, Read(c) PROVE FeedTypeOK'
  <2> DEFINE m == Head(wire[Conn(c)])
  <2>1. Conn(c) \in Session /\ link[c] # NoSlot
    BY <1>2, FeedAssumption DEF Read, Conn, FeedTypeOK
  <2>2. m \in ServerMessage
    BY <1>2, <2>1, HeadTailProperties DEF Read, Receive, TypeOK
  <2>3. CASE ReadData(c)
    <3>1. m.kind \in {"doc", "change"} /\ m.id \in Doc /\ m.data \in Data
      BY <2>2, <2>3 DEF ReadData, ServerMessage
    <3>2. Applied(view[c][m.id], m) \in Data
      <4>1. view[c][m.id] \in Data
        BY <3>1 DEF FeedTypeOK
      <4>2. CASE m.kind = "change" /\ m.op = "*" /\ view[c][m.id] # Null /\ m.data # Null
        BY <3>1, <4>1, <4>2 DEF Applied, Merge, Data, Version
      <4>3. CASE m.kind = "change" /\ m.op = "*" /\ m.data = Null
        <5>1. m \in Pending(Conn(c))
          <6>1. m = wire[Conn(c)][1] /\ 1 \in DOMAIN wire[Conn(c)]
            BY <1>2, <2>1, HeadTailProperties, LenProperties, EmptySeq
               DEF Read, Receive, TypeOK
          <6> QED
            BY <3>1, <6>1 DEF Pending, Range, Refusals
        <5> QED
          BY <2>1, <4>3, <5>1, NullAssumption DEF UpdatesWhole, Version
      <4> QED
        BY <3>1, <4>1, <4>2, <4>3 DEF Applied, Data
    <3>3. m.kind = "change" => m.colrev \in Nat
      BY <2>2 DEF ServerMessage
    <3> QED
      BY <1>2, <2>3, <3>1, <3>2, <3>3 DEF ReadData, Read, FeedTypeOK
  <2>4. CASE ReadSyncComplete(c)
    BY <1>2, <2>2, <2>4 DEF ReadSyncComplete, Read, FeedTypeOK, ServerMessage
  <2>5. CASE ReadRefusal(c)
    BY <1>2, <2>5 DEF ReadRefusal, Read, FeedTypeOK
  <2> QED
    BY <1>2, <2>3, <2>4, <2>5 DEF Read
<1>3. ASSUME NEW c \in Client, GiveUp(c) \/ Lose(c) PROVE FeedTypeOK'
  BY <1>3 DEF GiveUp, Lose, HangUp, FeedTypeOK
<1>4. CASE UNCHANGED followVars
  BY <1>4 DEF followVars, FeedTypeOK
<1> QED
  BY <1>1, <1>2, <1>3, <1>4 DEF FeedNext, feedVars

LEMMA LinkedStep ==
    ASSUME TypeOK, FeedTypeOK, Linked, [FeedNext]_feedVars
    PROVE  Linked'
<1>0. \A c \in Client, n \in Slot : <<c, n>> \in Session
  BY FeedAssumption
<1>1. ASSUME NEW c \in Client, Dial(c) PROVE Linked'
  <2>1. PICK n \in Slot : /\ Connect(<<c, n>>, cursor[c])
                          /\ link' = [link EXCEPT ![c] = n]
    BY <1>1 DEF Dial
  <2>2. link[c] = NoSlot /\ stage' = [stage EXCEPT ![<<c, n>>] = "open"]
    BY <1>1, <2>1 DEF Dial, Connect
  <2> SUFFICES ASSUME NEW e \in Client, NEW k \in Slot
               PROVE  stage'[<<e, k>>] = "open" <=> link'[e] = k
    BY DEF Linked
  <2>3. CASE <<e, k>> = <<c, n>>
    BY <1>0, <2>1, <2>2, <2>3 DEF FeedTypeOK, TypeOK
  <2>4. CASE e = c /\ k # n
    <3>1. stage[<<e, k>>] # "open"
      BY <2>2, <2>4, FeedAssumption DEF Linked
    <3> QED
      BY <1>0, <2>1, <2>2, <2>4, <3>1 DEF FeedTypeOK, TypeOK
  <2>5. CASE e # c
    BY <1>0, <2>1, <2>2, <2>5 DEF FeedTypeOK, TypeOK, Linked
  <2> QED
    BY <2>3, <2>4, <2>5
<1>2. ASSUME NEW c \in Client, GiveUp(c) \/ Lose(c) PROVE Linked'
  <2>1. /\ link[c] # NoSlot /\ link' = [link EXCEPT ![c] = NoSlot]
        /\ stage' = [stage EXCEPT ![<<c, link[c]>>] = "closed"]
    BY <1>2 DEF GiveUp, Lose, HangUp, Close, Conn
  <2> SUFFICES ASSUME NEW e \in Client, NEW k \in Slot
               PROVE  stage'[<<e, k>>] = "open" <=> link'[e] = k
    BY DEF Linked
  <2>2. CASE e = c
    BY <1>0, <2>1, <2>2, FeedAssumption DEF FeedTypeOK, TypeOK, Linked
  <2>3. CASE e # c
    BY <1>0, <2>1, <2>3 DEF FeedTypeOK, TypeOK, Linked
  <2> QED
    BY <2>2, <2>3
<1>3. ASSUME NEW c \in Client, Read(c) PROVE Linked'
  BY <1>3 DEF Read, Receive, links, Linked
<1>4. ASSUME NEW s \in Session, Exit(s), UNCHANGED followVars PROVE Linked'
  BY <1>0, <1>4 DEF Exit, followVars, TypeOK, Linked
<1>5. ASSUME NEW s \in Session, UNCHANGED followVars,
             \/ Subscribe(s) \/ Forward(s) \/ \E m \in Requests : Take(s, m)
      PROVE  Linked'
  BY <1>5 DEF Subscribe, Forward, Take, links, followVars, Linked
<1>6. ASSUME NEW s \in Session, UNCHANGED followVars,
             ServeSync(s) \/ ServeGet(s) \/ ServeChange(s) \/ Fail(s)
      PROVE  Linked'
  <2>1. UNCHANGED stage
    BY <1>6, ServeOutcome DEF Answered, Accepted, Apply, links
  <2> QED
    BY <1>6, <2>1 DEF followVars, Linked
<1>7. CASE /\ (\E m \in ChangeRequest : ApiChange(m)) \/ (\E d \in Doc : Lock(d))
           /\ UNCHANGED followVars
  BY <1>7 DEF ApiChange, Apply, Lock, links, followVars, Linked
<1>8. CASE UNCHANGED feedVars
  BY <1>8 DEF feedVars, colVars, links, followVars, Linked
<1> QED
  BY <1>1, <1>2, <1>3, <1>4, <1>5, <1>6, <1>7, <1>8 DEF FeedNext, ServerStep

\* The sessions' own steps.
LEMMA LineSession ==
    ASSUME TypeOK, Lines, MailSubscribed, NEW s \in Session,
           \/ Subscribe(s) \/ Exit(s) \/ Close(s) \/ Forward(s) \/ Receive(s)
           \/ \E r \in Nat : Connect(s, r)
           \/ \E m \in Requests : Take(s, m)
    PROVE  Lines'
<1> SUFFICES ASSUME NEW t \in Session PROVE Line(t)'
  BY DEF Lines
<1>0. Line(t) /\ Line(s)
  BY DEF Lines
<1>1. CASE Subscribe(s)
  BY <1>0, <1>1 DEF Subscribe, Line, TypeOK, channels
<1>2. CASE Exit(s)
  BY <1>0, <1>2 DEF Exit, Line, TypeOK, channels
<1>3. CASE Close(s)
  BY <1>0, <1>3 DEF Close, Line, TypeOK
<1>4. CASE Forward(s)
  <2>1. stage[s] = "open" /\ call[s].kind # "sync"
    BY <1>4 DEF Forward, MailSubscribed, NoCall
  <2> QED
    BY <1>0, <1>4, <2>1 DEF Forward, Line, TypeOK, links
<1>5. CASE Receive(s)
  BY <1>0, <1>5 DEF Receive, Line, TypeOK, links
<1>6. ASSUME NEW r \in Nat, Connect(s, r) PROVE Line(t)'
  <2>1. wire[s] = <<>>
    BY <1>0, <1>6 DEF Connect, Line
  <2> QED
    BY <1>0, <1>6, <2>1 DEF Connect, Line, TypeOK
<1>7. ASSUME NEW m \in Requests, Take(s, m) PROVE Line(t)'
  <2>1. m \notin Garbled => m.kind = "change"
    BY <1>7 DEF Requests, ChangeRequest
  <2> QED
    BY <1>0, <1>7, <2>1 DEF Take, Line, TypeOK, links, NoCall
<1> QED
  BY <1>1, <1>2, <1>3, <1>4, <1>5, <1>6, <1>7

LEMMA LineServe ==
    ASSUME TypeOK, Lines, NEW s \in Session,
           ServeSync(s) \/ ServeGet(s) \/ ServeChange(s) \/ Fail(s)
    PROVE  Lines'
<1>1. /\ UNCHANGED links
      /\ \E msgs : Reply(s, msgs)
  BY ServeOutcome DEF Answered, Accepted, Apply
<1>2. /\ UNCHANGED <<stage, joining, subscribers>>
      /\ call' = [call EXCEPT ![s] = NoCall]
      /\ \A t \in Session : t # s => wire'[t] = wire[t]
      /\ stage[s] # "open" => wire'[s] = wire[s]
  BY <1>1 DEF links, Reply, TypeOK
<1> QED
  BY <1>2 DEF Lines, Line, TypeOK, NoCall

LEMMA LinesStep ==
    ASSUME TypeOK, FeedTypeOK, Lines, MailSubscribed, [FeedNext]_feedVars
    PROVE  Lines'
<1>1. ASSUME NEW c \in Client, Dial(c) \/ Read(c) \/ GiveUp(c) \/ Lose(c) PROVE Lines'
  <2>1. ASSUME NEW n \in Slot, Connect(<<c, n>>, cursor[c]) PROVE Lines'
    BY <2>1, FeedAssumption, LineSession DEF FeedTypeOK
  <2>2. ASSUME link[c] # NoSlot, Receive(Conn(c)) \/ Close(Conn(c)) PROVE Lines'
    BY <2>2, FeedAssumption, LineSession DEF Conn, FeedTypeOK
  <2> QED
    BY <1>1, <2>1, <2>2 DEF Dial, Read, GiveUp, Lose, HangUp
<1>2. ASSUME NEW s \in Session, ServerStep(s) \/ \E m \in Requests : Take(s, m) PROVE Lines'
  BY <1>2, LineSession, LineServe DEF ServerStep
<1>3. CASE (\E m \in ChangeRequest : ApiChange(m)) \/ (\E d \in Doc : Lock(d))
  BY <1>3 DEF ApiChange, Apply, Lock, links, channels, Lines, Line
<1>4. CASE UNCHANGED feedVars
  BY <1>4 DEF feedVars, colVars, links, channels, Lines, Line
<1> QED
  BY <1>1, <1>2, <1>3, <1>4 DEF FeedNext
-----------------------------------------------------------------------------
(* The order on the websocket *)

\* The documents of a sync, then its end, then the rest; a sync that failed comes
\* alone.
Ordered(w) ==
    \A i, j \in DOMAIN w : i < j =>
        /\ w[j].kind # "sync_error"
        /\ w[j].kind \in {"doc", "sync_complete"} => w[i].kind = "doc"

WiresOrdered == \A s \in Session : Ordered(wire[s])

LEMMA OrderedOne == \A m : Ordered(<<m>>)
BY DEF Ordered

LEMMA OrderedTail ==
    ASSUME NEW w \in Seq(ServerMessage), w # <<>>, Ordered(w)
    PROVE  Ordered(Tail(w))
<1>1. /\ DOMAIN w = 1..Len(w) /\ Len(w) \in Nat
      /\ DOMAIN Tail(w) = 1..(Len(w) - 1)
      /\ \A i \in 1..(Len(w) - 1) : Tail(w)[i] = w[i + 1]
  BY HeadTailProperties, LenProperties, EmptySeq
<1> SUFFICES ASSUME NEW i \in DOMAIN Tail(w), NEW j \in DOMAIN Tail(w), i < j
             PROVE  /\ Tail(w)[j].kind # "sync_error"
                    /\ Tail(w)[j].kind \in {"doc", "sync_complete"} => Tail(w)[i].kind = "doc"
  BY DEF Ordered
<1>2. i + 1 \in DOMAIN w /\ j + 1 \in DOMAIN w /\ i + 1 < j + 1
  BY <1>1
<1>3. /\ w[j + 1].kind # "sync_error"
      /\ w[j + 1].kind \in {"doc", "sync_complete"} => w[i + 1].kind = "doc"
  BY <1>2 DEF Ordered
<1> QED
  BY <1>1, <1>3

LEMMA OrderedAppend ==
    ASSUME NEW w \in Seq(ServerMessage), Ordered(w), NEW m \in ServerMessage,
           m.kind \in Refusals \cup {"change"}
    PROVE  Ordered(Append(w, m)) /\ Append(w, m) = w \o <<m>>
<1>1. /\ DOMAIN w = 1..Len(w) /\ Len(w) \in Nat
      /\ DOMAIN Append(w, m) = 1..(Len(w) + 1)
      /\ \A i \in 1..Len(w) : Append(w, m)[i] = w[i]
      /\ Append(w, m)[Len(w) + 1] = m
  BY AppendProperties, LenProperties
<1>2. m.kind \notin {"sync_error", "doc", "sync_complete"}
  BY DEF Refusals
<1>3. Ordered(Append(w, m))
  BY <1>1, <1>2 DEF Ordered
<1> QED
  BY <1>3, AppendIsConcat

LEMMA OrderedSync ==
    ASSUME NEW ds \in Seq(ServerMessage), \A m \in Range(ds) : m.kind = "doc",
           NEW n \in ServerMessage, n.kind = "sync_complete"
    PROVE  Ordered(ds \o <<n>>)
<1>1. /\ DOMAIN ds = 1..Len(ds) /\ Len(ds) \in Nat
      /\ DOMAIN Append(ds, n) = 1..(Len(ds) + 1)
      /\ \A i \in 1..Len(ds) : Append(ds, n)[i] = ds[i]
      /\ Append(ds, n)[Len(ds) + 1] = n
  BY AppendProperties, LenProperties
<1>2. \A i \in 1..Len(ds) : ds[i].kind = "doc"
  BY <1>1 DEF Range
<1>3. Ordered(Append(ds, n))
  BY <1>1, <1>2 DEF Ordered
<1> QED
  BY <1>3, AppendIsConcat

\* What a Reply does to the websockets.
LEMMA ReplyWires ==
    ASSUME TypeOK, NEW s \in Session, NEW msgs, Reply(s, msgs)
    PROVE  /\ \A t \in Session : t # s => wire'[t] = wire[t]
           /\ wire'[s] = IF stage[s] = "open" THEN wire[s] \o msgs ELSE wire[s]
BY DEF Reply, TypeOK

LEMMA OrderedServe ==
    ASSUME TypeOK, RowsOrdered, Lines, WiresOrdered, NEW s \in Session,
           ServeSync(s) \/ ServeGet(s) \/ ServeChange(s) \/ Fail(s)
    PROVE  WiresOrdered'
<1>0. /\ Line(s) /\ Ordered(wire[s]) /\ wire[s] \in Seq(ServerMessage)
      /\ call[s].kind # "get"
  BY DEF Lines, Line, WiresOrdered, TypeOK
<1>1. SUFFICES ASSUME NEW msgs, Reply(s, msgs), stage[s] = "open" => Ordered(wire[s] \o msgs)
               PROVE  WiresOrdered'
  <2>1. CASE Synced(s)
    <3>1. PICK ds : SyncDocs(s, ds) /\ Reply(s, ds \o <<SyncComplete(colrev)>>)
      BY <2>1 DEF Synced
    <3>2. /\ SyncComplete(colrev) \in ServerMessage
          /\ SyncComplete(colrev).kind = "sync_complete"
          /\ ds \in Seq(ServerMessage) /\ \A m \in Range(ds) : m.kind = "doc"
      BY <3>1 DEF SyncComplete, ServerMessage, TypeOK, SyncDocs
    <3>3. Ordered(ds \o <<SyncComplete(colrev)>>)
      BY <3>2, OrderedSync
    <3>4. <<SyncComplete(colrev)>> \in Seq(ServerMessage)
      BY <3>2
    <3>5. wire[s] \o (ds \o <<SyncComplete(colrev)>>) = ds \o <<SyncComplete(colrev)>>
      <4>1. wire[s] = <<>>
        BY <1>0, <2>1 DEF Synced, Line
      <4>2. ds \o <<SyncComplete(colrev)>> \in Seq(ServerMessage)
        BY <3>2, <3>4, ConcatProperties
      <4> QED
        BY <4>1, <4>2, ConcatEmptySeq
    <3> QED
      BY <3>1, <3>3, <3>5, <1>1
  <2>2. CASE SyncFailed(s)
    <3>1. PICK e \in ServerMessage : Reply(s, <<e>>)
      BY <2>2 DEF SyncFailed
    <3>2. wire[s] \o <<e>> = <<e>>
      <4>1. wire[s] = <<>> /\ <<e>> \in Seq(ServerMessage)
        BY <1>0, <2>2 DEF SyncFailed, Line
      <4> QED
        BY <4>1, ConcatEmptySeq
    <3> QED
      BY <3>1, <3>2, OrderedOne, <1>1
  <2>3. CASE Refused(s)
    <3>1. PICK e \in ServerMessage : e.kind \in Refusals /\ Reply(s, <<e>>)
      BY <2>3 DEF Refused
    <3>2. Ordered(wire[s] \o <<e>>)
      BY <1>0, <3>1, OrderedAppend
    <3> QED
      BY <3>1, <3>2, <1>1
  <2>4. CASE Reply(s, <<>>)
    BY <1>0, <2>4, ConcatEmptySeq, <1>1
  <2> QED
    BY <1>0, <2>1, <2>2, <2>3, <2>4, ServeKinds
<1> QED
  BY <1>0, <1>1, ReplyWires DEF WiresOrdered

LEMMA OrderedStep ==
    ASSUME TypeOK, FeedTypeOK, FeedIssued, RowsOrdered, Lines, WiresOrdered,
           [FeedNext]_feedVars
    PROVE  WiresOrdered'
<1>0. \A s \in Session : Ordered(wire[s]) /\ wire[s] \in Seq(ServerMessage)
  BY DEF WiresOrdered, TypeOK
<1>1. ASSUME NEW s \in Session, Receive(s) PROVE WiresOrdered'
  <2>1. Ordered(Tail(wire[s]))
    BY <1>0, <1>1, OrderedTail DEF Receive
  <2> QED
    BY <1>0, <1>1, <2>1 DEF Receive, WiresOrdered, TypeOK
<1>2. ASSUME NEW s \in Session, Close(s) PROVE WiresOrdered'
  BY <1>0, <1>2 DEF Close, WiresOrdered, TypeOK, Ordered
<1>3. ASSUME NEW s \in Session, Forward(s) PROVE WiresOrdered'
  <2>1. /\ Head(mailbox[s]) \in ServerMessage /\ Head(mailbox[s]).kind = "change"
    <3>1. 1 \in DOMAIN mailbox[s] /\ Head(mailbox[s]) = mailbox[s][1]
      BY <1>3, FirstOfMailbox, Lengths DEF Forward
    <3> QED
      BY <3>1, <1>3, HeadTailProperties DEF FeedIssued, Forward, TypeOK
  <2>2. Ordered(Append(wire[s], Head(mailbox[s])))
    BY <1>0, <2>1, OrderedAppend
  <2> QED
    BY <1>0, <1>3, <2>2 DEF Forward, WiresOrdered, TypeOK
<1>4. ASSUME UNCHANGED wire PROVE WiresOrdered'
  BY <1>0, <1>4 DEF WiresOrdered
<1>5. ASSUME NEW c \in Client, Dial(c) \/ Read(c) \/ GiveUp(c) \/ Lose(c)
      PROVE  WiresOrdered'
  <2>1. ASSUME link[c] # NoSlot, Receive(Conn(c)) \/ Close(Conn(c)) PROVE WiresOrdered'
    BY <1>1, <1>2, <2>1, FeedAssumption DEF Conn, FeedTypeOK
  <2> QED
    BY <1>4, <1>5, <2>1 DEF Dial, Connect, Read, GiveUp, Lose, HangUp
<1>6. ASSUME NEW s \in Session, ServerStep(s) \/ \E m \in Requests : Take(s, m)
      PROVE  WiresOrdered'
  BY <1>3, <1>4, <1>6, OrderedServe DEF ServerStep, Subscribe, Exit, Take, channels
<1>7. CASE (\E m \in ChangeRequest : ApiChange(m)) \/ (\E d \in Doc : Lock(d))
  BY <1>4, <1>7 DEF ApiChange, Lock, channels
<1>8. CASE UNCHANGED feedVars
  BY <1>4, <1>8 DEF feedVars, colVars, channels
<1> QED
  BY <1>5, <1>6, <1>7, <1>8 DEF FeedNext

\* What comes behind the message that is received.
LEMMA HeadFirst ==
    ASSUME TypeOK, FeedInOrder, FeedIssued, WiresOrdered, NEW s \in Session,
           Received(s), NEW m \in Pending(s)'
    PROVE  LET h == Head(wire[s]) IN
           /\ m.kind # "sync_error"
           /\ m.kind \in {"doc", "sync_complete"} => h.kind = "doc"
           /\ h.kind = "change" /\ m.kind = "change" => h.colrev < m.colrev
<1> DEFINE h == Head(wire[s])
<1>1. h = wire[s][1] /\ 1 \in DOMAIN wire[s]
  BY PendingReceived
<1>2. CASE m \in Range(wire'[s])
  <2>1. PICK i \in DOMAIN wire'[s] : m = wire'[s][i]
    BY <1>2 DEF Range
  <2>2. i \in Nat /\ 1 < i + 1 /\ i + 1 \in DOMAIN wire[s] /\ m = wire[s][i + 1]
    BY <2>1, Lengths, ReceivedShape
  <2>3. /\ m.kind # "sync_error"
        /\ m.kind \in {"doc", "sync_complete"} => h.kind = "doc"
    BY <1>1, <2>2 DEF WiresOrdered, Ordered
  <2>4. Precedes(h, m)
    BY <1>1, <2>2 DEF FeedInOrder, InOrder
  <2> QED
    BY <2>3, <2>4 DEF Precedes
<1>3. CASE m \in Range(mailbox'[s])
  <2>1. PICK i \in DOMAIN mailbox[s] : m = mailbox[s][i]
    BY <1>3 DEF Range, Received
  <2>2. m.kind = "change"
    BY <2>1 DEF FeedIssued
  <2>3. Precedes(h, m)
    BY <1>1, <2>1 DEF FeedInOrder
  <2> QED
    BY <2>2, <2>3 DEF Precedes
<1> QED
  BY <1>2, <1>3 DEF Pending

-----------------------------------------------------------------------------
(* The kinds of steps *)

SameSync(s) ==
    /\ call'[s].kind = "sync" <=> call[s].kind = "sync"
    /\ call[s].kind = "sync" => call'[s] = call[s]

\* Nothing that concerns the documents or the clients' copies.
Still ==
    /\ UNCHANGED <<docs, view, cursor, link>> /\ colrev' \in {colrev, colrev + 1}
    /\ \A s \in Session :
          /\ Pending(s)' = Pending(s)
          /\ s \in joining' => s \in joining
          /\ stage'[s] = "open" => stage[s] = "open" /\ SameSync(s)

Dialled(c, n) ==
    /\ UNCHANGED <<docs, colrev, view, cursor>>
    /\ link[c] = NoSlot /\ c \notin stopped /\ link' = [link EXCEPT ![c] = n]
    /\ stage' = [stage EXCEPT ![<<c, n>>] = "open"]
    /\ joining' = joining \cup {<<c, n>>}
    /\ call' = [call EXCEPT ![<<c, n>>] = [kind |-> "sync", colrev |-> cursor[c]]]
    /\ Pending(<<c, n>>) = {}
    /\ \A s \in Session : Pending(s)' = Pending(s)

HungUp(c, n) ==
    /\ UNCHANGED <<docs, colrev, view, cursor, call, joining>>
    /\ link[c] = n /\ link' = [link EXCEPT ![c] = NoSlot]
    /\ stage' = [stage EXCEPT ![<<c, n>>] = "closed"]
    /\ Pending(<<c, n>>)' = {}
    /\ \A s \in Session : s # <<c, n>> => Pending(s)' = Pending(s)

ReadBy(c, n) ==
    /\ UNCHANGED <<docs, colrev, call, joining, stage, link>>
    /\ link[c] = n /\ Received(<<c, n>>)
    /\ LET h == Head(wire[<<c, n>>]) IN
       /\ h.kind \in {"doc", "change", "sync_complete"}
       /\ Pending(<<c, n>>) = {h} \cup Pending(<<c, n>>)'
       /\ view' = IF h.kind = "sync_complete" THEN view
                  ELSE [view EXCEPT ![c][h.id] = Applied(@, h)]
       /\ cursor' = IF h.kind = "doc" THEN cursor ELSE [cursor EXCEPT ![c] = h.colrev]
    /\ \A s \in Session : s # <<c, n>> => Pending(s)' = Pending(s)

\* The sync of a connection is answered, or fails.
Told(s) ==
    /\ UNCHANGED <<docs, colrev, view, cursor, link, joining, stage>>
    /\ call[s].kind = "sync" /\ call' = [call EXCEPT ![s] = NoCall]
    /\ stage[s] = "open" /\ \A m \in Pending(s) : m.kind = "change"
    /\ \A t \in Session : t # s => Pending(t)' = Pending(t)

ToldAll(s) ==
    /\ Told(s) /\ (SubscribeFirst => s \notin joining)
    /\ \E ds : /\ SyncDocs(s, ds)
               /\ Pending(s)' = Pending(s) \cup Range(ds) \cup {SyncComplete(colrev)}

ToldFailure(s) ==
    /\ Told(s)
    /\ \E e : e.kind = "sync_error" /\ Pending(s)' = Pending(s) \cup {e}

Changed(src, m) ==
    /\ Accepted(src, m)
    /\ UNCHANGED <<view, cursor, link, joining, stage>>
    /\ \A s \in Session :
          /\ SameSync(s)
          /\ Pending(s)' =
               IF s \in subscribers /\ stage[s] = "open"
               THEN Pending(s) \cup {ServerChange(m.op, m.id, Outcome(m), colrev + 1)}
               ELSE Pending(s)

StepKinds ==
    \/ Still
    \/ \E c \in Client, n \in Slot : Dialled(c, n) \/ HungUp(c, n) \/ ReadBy(c, n)
    \/ \E s \in Session : ToldAll(s) \/ ToldFailure(s)
    \/ \E src \in Session \cup {Api}, m \in ChangeRequest : Changed(src, m)

LEMMA ServeIsKind ==
    ASSUME TypeOK, RowsOrdered, Lines, FeedIssued, UNCHANGED followVars, NEW s \in Session,
           ServeSync(s) \/ ServeGet(s) \/ ServeChange(s) \/ Fail(s)
    PROVE  StepKinds
<1>0. Line(s) /\ call[s].kind # "get" /\ UNCHANGED <<view, cursor, link>>
  BY DEF Lines, Line, followVars
<1>1. ASSUME NEW msgs \in Seq(ServerMessage), Reply(s, msgs), UNCHANGED <<links, mailbox>>
      PROVE  /\ UNCHANGED <<joining, stage>>
             /\ call' = [call EXCEPT ![s] = NoCall]
             /\ \A t \in Session : t # s => Pending(t)' = Pending(t)
             /\ Pending(s)' = IF stage[s] = "open"
                              THEN Pending(s) \cup {m \in Range(msgs) : m.kind \notin Refusals}
                              ELSE Pending(s)
  <2>1. /\ UNCHANGED <<joining, stage, mailbox>>
        /\ call' = [call EXCEPT ![s] = NoCall]
    BY <1>1 DEF links, Reply
  <2>2. /\ \A t \in Session : t # s => wire'[t] = wire[t]
        /\ wire'[s] = IF stage[s] = "open" THEN wire[s] \o msgs ELSE wire[s]
    BY <1>1, ReplyWires
  <2>3. \A t \in Session : Same(t) => Pending(t)' = Pending(t)
    BY PendingSame
  <2>4. \A t \in Session : t # s => Same(t)
    BY <2>1, <2>2 DEF Same
  <2>5. stage[s] # "open" => Same(s)
    BY <2>1, <2>2 DEF Same
  <2>6. CASE stage[s] = "open"
    <3>1. wire'[s] = wire[s] \o msgs /\ mailbox'[s] = mailbox[s]
      BY <2>1, <2>2, <2>6
    <3> QED
      BY <2>1, <2>3, <2>4, <2>6, <3>1, PendingReplied
  <2> QED
    BY <2>1, <2>3, <2>4, <2>5, <2>6
<1>2. ASSUME call[s].kind = "sync" PROVE \A m \in Pending(s) : m.kind = "change"
  <2>1. wire[s] = <<>>
    BY <1>0, <1>2 DEF Line
  <2> QED
    BY <2>1 DEF Pending, Range, FeedIssued
<1>3. ASSUME call[s].kind = "sync", stage[s] # "open", call' = [call EXCEPT ![s] = NoCall],
             UNCHANGED <<docs, colrev, joining, stage>>,
             \A t \in Session : Pending(t)' = Pending(t)
      PROVE  Still
  BY <1>0, <1>3 DEF Still, SameSync, TypeOK
<1>4. CASE Synced(s)
  <2>1. PICK ds : SyncDocs(s, ds) /\ Reply(s, ds \o <<SyncComplete(colrev)>>)
    BY <1>4 DEF Synced
  <2> DEFINE msgs == ds \o <<SyncComplete(colrev)>>
  <2>2. /\ ds \in Seq(ServerMessage) /\ \A m \in Range(ds) : m.kind = "doc"
        /\ <<SyncComplete(colrev)>> \in Seq(ServerMessage)
        /\ SyncComplete(colrev).kind = "sync_complete"
        /\ Range(<<SyncComplete(colrev)>>) = {SyncComplete(colrev)}
    BY <2>1 DEF SyncDocs, SyncComplete, ServerMessage, TypeOK, Range
  <2>3. msgs \in Seq(ServerMessage) /\ Range(msgs) = Range(ds) \cup {SyncComplete(colrev)}
    <3>1. PICK last \in Seq(ServerMessage) : last = <<SyncComplete(colrev)>>
      BY <2>2
    <3>2. Range(ds \o last) = Range(ds) \cup Range(last)
      BY <2>2, RangeConcatenation
    <3> QED
      BY <2>2, <3>1, <3>2, ConcatProperties
  <2>4. {m \in Range(msgs) : m.kind \notin Refusals} = Range(ds) \cup {SyncComplete(colrev)}
    BY <2>2, <2>3 DEF Refusals
  <2>5. UNCHANGED <<docs, colrev, links, mailbox>> /\ call[s].kind = "sync"
    BY <1>4 DEF Synced
  <2>6. CASE stage[s] = "open"
    <3>1. Told(s)
      BY <1>0, <1>1, <1>2, <2>1, <2>3, <2>5, <2>6 DEF Told
    <3>2. Pending(s)' = Pending(s) \cup (Range(ds) \cup {SyncComplete(colrev)})
      BY <1>1, <2>1, <2>3, <2>4, <2>5, <2>6
    <3>3. ToldAll(s)
      BY <1>4, <2>1, <3>1, <3>2 DEF ToldAll, Synced
    <3> QED
      BY <3>3 DEF StepKinds
  <2>7. CASE stage[s] # "open"
    BY <1>1, <1>3, <2>1, <2>3, <2>5, <2>7 DEF StepKinds
  <2> QED
    BY <2>6, <2>7
<1>5. CASE SyncFailed(s)
  <2>1. PICK e \in ServerMessage : e.kind = "sync_error" /\ Reply(s, <<e>>)
    BY <1>5 DEF SyncFailed
  <2>2. /\ <<e>> \in Seq(ServerMessage) /\ Range(<<e>>) = {e}
        /\ {m \in Range(<<e>>) : m.kind \notin Refusals} = {e}
    BY <2>1 DEF Range, Refusals
  <2>3. UNCHANGED <<docs, colrev, links, mailbox>> /\ call[s].kind = "sync"
    BY <1>5 DEF SyncFailed
  <2>4. CASE stage[s] = "open"
    <3>1. Told(s)
      BY <1>0, <1>1, <1>2, <2>1, <2>2, <2>3, <2>4 DEF Told
    <3>2. ToldFailure(s)
      BY <1>1, <2>1, <2>2, <2>3, <2>4, <3>1 DEF ToldFailure
    <3> QED
      BY <3>2 DEF StepKinds
  <2>5. CASE stage[s] # "open"
    BY <1>1, <1>3, <2>1, <2>2, <2>3, <2>5 DEF StepKinds
  <2> QED
    BY <2>4, <2>5
<1>6. CASE Refused(s)
  <2>1. PICK e \in ServerMessage : e.kind \in Refusals /\ Reply(s, <<e>>)
    BY <1>6 DEF Refused
  <2>2. /\ <<e>> \in Seq(ServerMessage)
        /\ {m \in Range(<<e>>) : m.kind \notin Refusals} = {}
    BY <2>1 DEF Range
  <2>3. /\ UNCHANGED <<docs, links, mailbox>> /\ colrev' \in {colrev, colrev + 1}
        /\ call[s].kind = "change"
    BY <1>6 DEF Refused
  <2>4. /\ UNCHANGED <<joining, stage>> /\ call' = [call EXCEPT ![s] = NoCall]
        /\ \A t \in Session : Pending(t)' = Pending(t)
    BY <1>1, <2>1, <2>2, <2>3
  <2>5. Still
    BY <1>0, <2>3, <2>4 DEF Still, SameSync, TypeOK, NoCall
  <2> QED
    BY <2>5 DEF StepKinds
<1>7. ASSUME NEW m \in ChangeRequest, Accepted(s, m), Reply(s, <<>>), call[s].kind = "change"
      PROVE  StepKinds
  <2>1. \A t \in Session : wire'[t] = wire[t]
    <3>1. wire[s] \o <<>> = wire[s]
      BY ConcatEmptySeq DEF TypeOK
    <3>2. /\ \A t \in Session : t # s => wire'[t] = wire[t]
          /\ wire'[s] = wire[s] \o <<>> \/ wire'[s] = wire[s]
      BY <1>7, ReplyWires
    <3> QED
      BY <3>1, <3>2
  <2>2. call' = [call EXCEPT ![s] = NoCall]
    BY <1>7 DEF Reply
  <2>3. UNCHANGED <<joining, stage>>
    BY <1>7 DEF Accepted, Apply, links
  <2>4. \A t \in Session : SameSync(t)
    BY <1>7, <2>2 DEF SameSync, TypeOK, NoCall
  <2>5. Changed(s, m)
    BY <1>0, <1>7, <2>1, <2>3, <2>4, PendingBroadcast DEF Changed
  <2> QED
    BY <2>5 DEF StepKinds
<1> QED
  BY <1>0, <1>4, <1>5, <1>6, <1>7, ServeKinds

LEMMA StepIsKind ==
    ASSUME TypeOK, RowsOrdered, FeedTypeOK, Linked, Lines, FeedIssued, MailSubscribed,
           [FeedNext]_feedVars
    PROVE  StepKinds
<1>0. \A c \in Client, n \in Slot : <<c, n>> \in Session
  BY FeedAssumption
<1>1. ASSUME NEW c \in Client, Dial(c) PROVE StepKinds
  <2>1. PICK n \in Slot : /\ Connect(<<c, n>>, cursor[c])
                          /\ link' = [link EXCEPT ![c] = n]
    BY <1>1 DEF Dial
  <2>2. wire[<<c, n>>] = <<>> /\ mailbox[<<c, n>>] = <<>>
    BY <1>0, <2>1 DEF Connect, Lines, Line, MailSubscribed
  <2>3. Pending(<<c, n>>) = {}
    BY <2>2 DEF Pending, Range
  <2>4. \A s \in Session : Pending(s)' = Pending(s)
    BY <2>1 DEF Connect, Pending
  <2>5. Dialled(c, n)
    BY <1>1, <2>1, <2>3, <2>4 DEF Dialled, Dial, Connect, storage
  <2> QED
    BY <2>5 DEF StepKinds
<1>2. ASSUME NEW c \in Client, GiveUp(c) \/ Lose(c) PROVE StepKinds
  <2>1. PICK n : n = link[c]
    OBVIOUS
  <2>2. /\ n \in Slot /\ Close(<<c, n>>) /\ link' = [link EXCEPT ![c] = NoSlot]
        /\ UNCHANGED <<view, cursor>>
    BY <1>2, <2>1 DEF GiveUp, Lose, HangUp, Conn, FeedTypeOK
  <2>3. /\ wire'[<<c, n>>] = <<>> /\ mailbox'[<<c, n>>] = <<>>
        /\ \A s \in Session : s # <<c, n>> => Same(s)
    BY <1>0, <2>2 DEF Close, Same, TypeOK
  <2>4. Pending(<<c, n>>)' = {}
    BY <2>3 DEF Pending, Range
  <2>5. \A s \in Session : s # <<c, n>> => Pending(s)' = Pending(s)
    BY <2>3, PendingSame
  <2>6. HungUp(c, n)
    BY <2>1, <2>2, <2>4, <2>5 DEF HungUp, Close, storage
  <2> QED
    BY <2>2, <2>6 DEF StepKinds
<1>3. ASSUME NEW c \in Client, Read(c) PROVE StepKinds
  <2>1. PICK n : n = link[c]
    OBVIOUS
  <2>2. n \in Slot /\ Receive(<<c, n>>) /\ UNCHANGED link /\ Conn(c) = <<c, n>>
    BY <1>3, <2>1 DEF Read, Conn, FeedTypeOK
  <2>3. <<c, n>> \in Session /\ Received(<<c, n>>)
    BY <1>0, <2>2 DEF Receive, Received, TypeOK
  <2>4. \A s \in Session : s # <<c, n>> => Pending(s)' = Pending(s)
    <3>1. \A s \in Session : s # <<c, n>> => Same(s)
      BY <2>2 DEF Receive, Same, TypeOK
    <3> QED
      BY <3>1, PendingSame
  <2>5. UNCHANGED <<docs, colrev, call, joining, stage, link>>
    BY <2>2 DEF Receive, storage, links
  <2> DEFINE h == Head(wire[<<c, n>>])
  <2>6. CASE h.kind \in {"doc", "change", "sync_complete"}
    <3>1. Pending(<<c, n>>) = {h} \cup Pending(<<c, n>>)'
      BY <2>3, <2>6, PendingReceived DEF Refusals
    <3>2. /\ view' = IF h.kind = "sync_complete" THEN view
                     ELSE [view EXCEPT ![c][h.id] = Applied(@, h)]
          /\ cursor' = IF h.kind = "doc" THEN cursor ELSE [cursor EXCEPT ![c] = h.colrev]
      BY <1>3, <2>2, <2>6 DEF Read, ReadData, ReadSyncComplete, ReadRefusal
    <3>3. ReadBy(c, n)
      BY <2>1, <2>3, <2>4, <2>5, <2>6, <3>1, <3>2 DEF ReadBy
    <3> QED
      BY <2>2, <3>3 DEF StepKinds
  <2>7. CASE h.kind \notin {"doc", "change", "sync_complete"}
    <3>1. h.kind \in Refusals /\ UNCHANGED <<view, cursor>>
      BY <1>3, <2>2, <2>7 DEF Read, ReadData, ReadSyncComplete, ReadRefusal, Refusals
    <3>2. Pending(<<c, n>>)' = Pending(<<c, n>>)
      BY <2>3, <3>1, PendingReceived
    <3>3. \A s \in Session : Pending(s)' = Pending(s)
      BY <2>4, <3>2
    <3>4. Still
      BY <2>5, <3>1, <3>3 DEF Still, SameSync
    <3> QED
      BY <3>4 DEF StepKinds
  <2> QED
    BY <2>6, <2>7
<1>4. ASSUME NEW s \in Session, UNCHANGED followVars,
             \/ Subscribe(s) \/ Exit(s) \/ Forward(s) \/ \E m \in Requests : Take(s, m)
      PROVE  StepKinds
  <2>1. UNCHANGED <<docs, colrev, view, cursor, link>>
    BY <1>4 DEF followVars, Subscribe, Exit, Forward, Take, storage
  <2>2. \A t \in Session : Pending(t)' = Pending(t)
    <3>1. CASE Forward(s)
      <4>1. Forwarded(s) /\ \A t \in Session : t # s => Same(t)
        BY <3>1 DEF Forward, Forwarded, Same, TypeOK
      <4> QED
        BY <4>1, PendingSame, PendingForwarded
    <3>2. CASE UNCHANGED <<wire, mailbox>>
      BY <3>2 DEF Pending
    <3> QED
      BY <1>4, <3>1, <3>2 DEF Subscribe, Exit, Take, channels
  <2>3. ASSUME NEW t \in Session, stage'[t] = "open"
        PROVE  stage[t] = "open" /\ SameSync(t)
    <3>1. ASSUME NEW m \in Requests, Take(s, m) PROVE SameSync(t) /\ UNCHANGED stage
      <4>1. m \notin Garbled => m.kind = "change"
        BY DEF Requests, ChangeRequest
      <4> QED
        BY <3>1, <4>1 DEF Take, SameSync, TypeOK, NoCall, links
    <3>2. CASE Subscribe(s) \/ Exit(s) \/ Forward(s)
      BY <2>3, <3>2 DEF Subscribe, Exit, Forward, SameSync, TypeOK, channels, links
    <3> QED
      BY <1>4, <2>3, <3>1, <3>2
  <2>4. joining' \subseteq joining
    BY <1>4 DEF Subscribe, Exit, Forward, Take, links
  <2>5. Still
    BY <2>1, <2>2, <2>3, <2>4 DEF Still
  <2> QED
    BY <2>5 DEF StepKinds
<1>5. ASSUME NEW m \in ChangeRequest, ApiChange(m), UNCHANGED followVars
      PROVE  StepKinds
  <2>1. Accepted(Api, m) /\ UNCHANGED <<call, wire, joining, stage, view, cursor, link>>
    BY <1>5 DEF ApiChange, Accepted, Apply, links, followVars
  <2>2. Changed(Api, m)
    BY <2>1, PendingBroadcast DEF Changed, SameSync
  <2> QED
    BY <2>2 DEF StepKinds
<1>6. CASE ((\E d \in Doc : Lock(d)) /\ UNCHANGED followVars) \/ UNCHANGED feedVars
  <2>1. UNCHANGED <<docs, colrev, view, cursor, link, joining, stage, call, wire, mailbox>>
    BY <1>6 DEF Lock, feedVars, colVars, storage, links, channels, followVars
  <2>2. \A s \in Session : Pending(s)' = Pending(s)
    BY <2>1 DEF Pending
  <2>3. Still
    BY <2>1, <2>2 DEF Still, SameSync
  <2> QED
    BY <2>3 DEF StepKinds
<1> QED
  BY <1>1, <1>2, <1>3, <1>4, <1>5, <1>6, ServeIsKind DEF FeedNext, ServerStep
-----------------------------------------------------------------------------
(* What is on its way to a session *)

\* A session that has yet to subscribe is told nothing, or that its sync failed.
Quiet(s) ==
    s \in joining =>
        /\ \A m \in Pending(s) : m.kind = "sync_error"
        /\ stage[s] = "open" => call[s].kind = "sync" \/ Failed(s)

\* The document of a sync is a document, or has been extended or deleted since.
DocTrue(m) ==
    m.kind = "doc" =>
        /\ docs[m.id].rev > 0
        /\ Live(m.id) => m.data # Null /\ m.data \subseteq docs[m.id].data

\* Every message about a document holds it as it is, or a later one will.
LastWord(s) ==
    \A m \in Pending(s), d \in Doc :
        Says(m, d) =>
            \/ m.data = docs[d].data
            \/ \E n \in Pending(s) :
                  /\ n.kind = "change" /\ n.id = d /\ n.data = docs[d].data
                  /\ m.kind = "change" => m.colrev < n.colrev

Mail(s) == Quiet(s) /\ LastWord(s) /\ \A m \in Pending(s) : DocTrue(m)

\* What holds of everything on its way, from FeedInv.
LEMMA PendingFacts ==
    ASSUME FeedInv, NEW s \in Session, NEW m \in Pending(s)
    PROVE  Issued(m) /\ Truthful(m)
BY DEF Pending, Range, FeedInv, FeedIssued, FeedTruthful

\* The row of a document before and after an accepted change.
LEMMA ChangedRow ==
    ASSUME FeedInv, NEW src, NEW m \in ChangeRequest, Changed(src, m)
    PROVE  /\ m.id \in Doc /\ colrev \in Nat /\ colrev' = colrev + 1
           /\ docs'[m.id].rev = colrev + 1 /\ docs'[m.id].data = Outcome(m)
           /\ \A d \in Doc : d # m.id => docs'[d] = docs[d]
           /\ docs'[m.id].data # Null =>
                 IF m.op = "+" THEN docs[m.id].rev = 0
                 ELSE docs[m.id].data # Null /\ docs[m.id].data \subseteq docs'[m.id].data
<1>1. TypeOK /\ Accepted(src, m)
  BY DEF FeedInv, Changed
<1>2. /\ m.id \in Doc /\ colrev \in Nat /\ colrev' = colrev + 1
      /\ docs'[m.id].rev = colrev + 1 /\ docs'[m.id].data = Outcome(m)
      /\ \A d \in Doc : d # m.id => docs'[d] = docs[d]
  <2>1. /\ m.id \in Doc /\ colrev' = colrev + 1
        /\ docs'[m.id] = [rev |-> colrev + 1, data |-> Outcome(m)]
        /\ \A d \in Doc \ {m.id} : docs'[d] = docs[d]
    BY <1>1, AcceptedRow
  <2> QED
    BY <1>1, <2>1 DEF TypeOK
<1>3. ASSUME Outcome(m) # Null
      PROVE  IF m.op = "+" THEN docs[m.id].rev = 0
             ELSE docs[m.id].data # Null /\ docs[m.id].data \subseteq Outcome(m)
  <2>1. /\ m.op = "+" => ~Exists(m.id)
        /\ m.op # "+" => Live(m.id)
        /\ m.op = "*" => docs[m.id].data \subseteq Outcome(m)
        /\ m.op # "-"
    BY <1>1, <1>3, OutcomeTypes DEF Accepted
  <2>2. docs[m.id].rev \in Nat /\ m.op \in Op
    BY <1>1, <1>2, RequestTypes DEF TypeOK
  <2> QED
    BY <2>1, <2>2 DEF Exists, Live, Op
<1> QED
  BY <1>2, <1>3

LEMMA QuietStep ==
    ASSUME TypeOK, FeedTypeOK, Lines, FeedInOrder, FeedIssued, WiresOrdered,
           SubscribeFirst, StepKinds, NEW s \in Session, Quiet(s)
    PROVE  Quiet(s)'
<1>0. \A c \in Client, n \in Slot : <<c, n>> \in Session
  BY FeedAssumption
<1>1. CASE Still
  <2>1. Failed(s)' <=> Failed(s)
    BY <1>1 DEF Still, Failed
  <2> QED
    BY <1>1, <2>1 DEF Still, Quiet, SameSync
<1>2. ASSUME NEW c \in Client, NEW n \in Slot, Dialled(c, n) PROVE Quiet(s)'
  <2>1. Pending(s)' = Pending(s)
    BY <1>2 DEF Dialled
  <2>2. CASE s = <<c, n>>
    BY <1>2, <2>1, <2>2 DEF Dialled, Quiet, TypeOK
  <2>3. CASE s # <<c, n>>
    <3>1. /\ s \in joining' => s \in joining
          /\ stage'[s] = stage[s] /\ call'[s] = call[s]
      BY <1>0, <1>2, <2>3 DEF Dialled, TypeOK
    <3> QED
      BY <2>1, <3>1 DEF Quiet, Failed
  <2> QED
    BY <2>2, <2>3
<1>3. ASSUME NEW c \in Client, NEW n \in Slot, HungUp(c, n) PROVE Quiet(s)'
  <2>1. CASE s = <<c, n>>
    BY <1>3, <2>1 DEF HungUp, Quiet, TypeOK
  <2>2. CASE s # <<c, n>>
    <3>1. stage'[s] = stage[s] /\ Pending(s)' = Pending(s)
      BY <1>0, <1>3, <2>2 DEF HungUp, TypeOK
    <3> QED
      BY <1>3, <3>1 DEF HungUp, Quiet, Failed
  <2> QED
    BY <2>1, <2>2
<1>4. ASSUME NEW c \in Client, NEW n \in Slot, ReadBy(c, n) PROVE Quiet(s)'
  <2>1. CASE s = <<c, n>>
    <3> DEFINE h == Head(wire[s])
    <3>1. h \in Pending(s) /\ h.kind # "sync_error" /\ joining' = joining
      BY <1>4, <2>1 DEF ReadBy
    <3> QED
      BY <3>1 DEF Quiet
  <2>2. CASE s # <<c, n>>
    <3>1. Pending(s)' = Pending(s)
      BY <1>4, <2>2 DEF ReadBy
    <3> QED
      BY <1>4, <3>1 DEF ReadBy, Quiet, Failed
  <2> QED
    BY <2>1, <2>2
<1>5. ASSUME NEW t \in Session, Told(t) PROVE t # s => Quiet(s)'
  <2> SUFFICES ASSUME t # s PROVE Quiet(s)'
    OBVIOUS
  <2>1. Pending(s)' = Pending(s) /\ call'[s] = call[s] /\ UNCHANGED <<joining, stage>>
    BY <1>5 DEF Told, TypeOK
  <2> QED
    BY <2>1 DEF Quiet, Failed
<1>6. CASE ToldAll(s)
  BY <1>6 DEF ToldAll, Told, Quiet
<1>7. CASE ToldFailure(s)
  <2>1. PICK e : e.kind = "sync_error" /\ Pending(s)' = Pending(s) \cup {e}
    BY <1>7 DEF ToldFailure
  <2> QED
    BY <1>7, <2>1 DEF ToldFailure, Told, Quiet, Failed
<1>8. ASSUME NEW src, NEW m \in ChangeRequest, Changed(src, m) PROVE Quiet(s)'
  <2>1. s \in joining => s \notin subscribers
    BY DEF Lines, Line
  <2>2. s \in joining => Pending(s)' = Pending(s)
    BY <1>8, <2>1 DEF Changed
  <2> QED
    BY <1>8, <2>2 DEF Changed, SameSync, Quiet, Failed
<1> QED
  BY <1>1, <1>2, <1>3, <1>4, <1>5, <1>6, <1>7, <1>8 DEF StepKinds, ToldAll, ToldFailure

\* Messages stay true of the rows: those that do not change, and a row that is
\* extended or deleted.
LEMMA DocTrueStep ==
    ASSUME FeedInv, FeedTypeOK, StepKinds,
           NEW s \in Session, \A m \in Pending(s) : DocTrue(m),
           NEW m \in Pending(s)'
    PROVE  DocTrue(m)'
<1>1. ASSUME UNCHANGED docs, m \in Pending(s) PROVE DocTrue(m)'
  BY <1>1 DEF DocTrue, Live
<1>2. CASE Still
  BY <1>1, <1>2 DEF Still
<1>3. ASSUME NEW c \in Client, NEW n \in Slot, Dialled(c, n) \/ HungUp(c, n) \/ ReadBy(c, n)
      PROVE  DocTrue(m)'
  <2>1. UNCHANGED docs
    BY <1>3 DEF Dialled, HungUp, ReadBy
  <2>2. m \in Pending(s)
    BY <1>3 DEF Dialled, HungUp, ReadBy
  <2> QED
    BY <1>1, <2>1, <2>2
<1>4. ASSUME NEW t \in Session, ToldAll(t) PROVE DocTrue(m)'
  <2>1. UNCHANGED docs
    BY <1>4 DEF ToldAll, Told
  <2>2. PICK ds : /\ SyncDocs(t, ds)
                  /\ Pending(t)' = Pending(t) \cup Range(ds) \cup {SyncComplete(colrev)}
    BY <1>4 DEF ToldAll
  <2>3. CASE m \in Pending(s)
    BY <1>1, <2>1, <2>3
  <2>4. CASE m = SyncComplete(colrev)
    BY <2>4 DEF DocTrue, SyncComplete
  <2>5. CASE m \in Range(ds)
    <3>1. docs[m.id].rev > 0 /\ m.data = docs[m.id].data
      BY <2>2, <2>5 DEF SyncDocs
    <3> QED
      BY <2>1, <3>1 DEF DocTrue, Live
  <2>6. t # s => Pending(s)' = Pending(s)
    BY <1>4 DEF ToldAll, Told
  <2> QED
    BY <2>2, <2>3, <2>4, <2>5, <2>6
<1>5. ASSUME NEW t \in Session, ToldFailure(t) PROVE DocTrue(m)'
  <2>1. UNCHANGED docs
    BY <1>5 DEF ToldFailure, Told
  <2>2. PICK e : e.kind = "sync_error" /\ Pending(t)' = Pending(t) \cup {e}
    BY <1>5 DEF ToldFailure
  <2>3. t # s => Pending(s)' = Pending(s)
    BY <1>5 DEF ToldFailure, Told
  <2>4. m \in Pending(s) \/ m = e
    BY <2>2, <2>3
  <2> QED
    BY <1>1, <2>1, <2>2, <2>4 DEF DocTrue
<1>6. ASSUME NEW src, NEW r \in ChangeRequest, Changed(src, r) PROVE DocTrue(m)'
  <2> SUFFICES ASSUME m.kind = "doc" PROVE DocTrue(m)'
    BY DEF DocTrue
  <2>1. m \in Pending(s)
    BY <1>6 DEF Changed, ServerChange
  <2>2. m.id \in Doc /\ TypeOK
    BY <2>1, PendingTypes DEF FeedInv
  <2>3. DocTrue(m)
    BY <2>1
  <2>4. CASE m.id # r.id
    BY <1>6, <2>2, <2>3, <2>4, ChangedRow DEF DocTrue, Live
  <2>5. CASE m.id = r.id
    <3>1. docs[m.id].rev > 0 /\ (docs'[m.id].data # Null => r.op # "+")
      BY <1>6, <2>3, <2>5, ChangedRow DEF DocTrue
    <3>2. docs'[m.id].rev > 0
      BY <1>6, <2>5, ChangedRow
    <3>3. ASSUME docs'[m.id].data # Null PROVE m.data # Null /\ m.data \subseteq docs'[m.id].data
      BY <1>6, <2>3, <2>5, <3>1, <3>3, ChangedRow DEF DocTrue, Live
    <3> QED
      BY <3>2, <3>3 DEF DocTrue, Live
  <2> QED
    BY <2>4, <2>5
<1> QED
  BY <1>2, <1>3, <1>4, <1>5, <1>6 DEF StepKinds

\* Whoever is not sent the broadcasts has nothing of the documents on its way.
LEMMA Unsubscribed ==
    ASSUME FeedInv, Lines, NEW s \in Session, Quiet(s),
           ~(s \in subscribers /\ stage[s] = "open"), NEW m \in Pending(s)
    PROVE  m.kind = "sync_error"
<1>1. Line(s) /\ TypeOK /\ MailSubscribed
  BY DEF Lines, FeedInv
<1>2. stage[s] = "open"
  <2>1. stage[s] # "open" => wire[s] = <<>> /\ mailbox[s] = <<>>
    BY <1>1 DEF Line, MailSubscribed
  <2> QED
    BY <2>1 DEF Pending, Range
<1>3. s \in joining
  BY <1>1, <1>2 DEF Line
<1> QED
  BY <1>3 DEF Quiet

LEMMA LastWordStep ==
    ASSUME FeedInv, FeedTypeOK, Lines, WiresOrdered, StepKinds,
           NEW s \in Session, Quiet(s), LastWord(s)
    PROVE  LastWord(s)'
<1>0. TypeOK /\ FeedInOrder /\ FeedIssued /\ TypeOK
  BY DEF FeedInv

\* Nothing is lost, and what comes is not about a document or says how it is.
<1>1. ASSUME UNCHANGED docs, Pending(s) \subseteq Pending(s)',
             \A m \in Pending(s)' \ Pending(s), d \in Doc :
                 Says(m, d) => m.data = docs[d].data
      PROVE  LastWord(s)'
  <2> SUFFICES ASSUME NEW m \in Pending(s)', NEW d \in Doc, Says(m, d)
               PROVE  \/ m.data = docs[d].data
                      \/ \E n \in Pending(s)' :
                            /\ n.kind = "change" /\ n.id = d /\ n.data = docs[d].data
                            /\ m.kind = "change" => m.colrev < n.colrev
    BY <1>1 DEF LastWord, Says
  <2> QED
    BY <1>1 DEF LastWord
<1>2. ASSUME UNCHANGED docs, Pending(s)' = Pending(s) PROVE LastWord(s)'
  BY <1>1, <1>2
<1>3. CASE Still
  BY <1>2, <1>3 DEF Still
<1>4. ASSUME NEW c \in Client, NEW n \in Slot, Dialled(c, n) PROVE LastWord(s)'
  BY <1>2, <1>4 DEF Dialled
<1>5. ASSUME NEW c \in Client, NEW n \in Slot, HungUp(c, n) PROVE LastWord(s)'
  <2>1. Pending(s)' = Pending(s) \/ Pending(s)' = {}
    BY <1>5 DEF HungUp
  <2>2. UNCHANGED docs
    BY <1>5 DEF HungUp
  <2> QED
    BY <1>2, <2>1, <2>2 DEF LastWord
<1>6. ASSUME NEW c \in Client, NEW k \in Slot, ReadBy(c, k) PROVE LastWord(s)'
  <2>1. UNCHANGED docs
    BY <1>6 DEF ReadBy
  <2>2. CASE s # <<c, k>>
    BY <1>2, <1>6, <2>1, <2>2 DEF ReadBy
  <2>3. CASE s = <<c, k>>
    <3>1. PICK h : h = Head(wire[s])
      OBVIOUS
    <3>2. Received(s) /\ Pending(s) = {h} \cup Pending(s)'
      BY <1>6, <2>3, <3>1 DEF ReadBy
    <3> SUFFICES ASSUME NEW m \in Pending(s)', NEW d \in Doc, Says(m, d)
                 PROVE  \/ m.data = docs[d].data
                        \/ \E n \in Pending(s)' :
                              /\ n.kind = "change" /\ n.id = d /\ n.data = docs[d].data
                              /\ m.kind = "change" => m.colrev < n.colrev
      BY <2>1 DEF LastWord, Says
    <3>3. CASE m.data = docs[d].data
      BY <3>3
    <3>4. ASSUME NEW n \in Pending(s),
                 n.kind = "change", n.id = d, n.data = docs[d].data,
                 m.kind = "change" => m.colrev < n.colrev
          PROVE  n \in Pending(s)'
      <4> SUFFICES ASSUME n = h PROVE FALSE
        BY <3>2
      <4>1. /\ m.kind \in {"doc", "sync_complete"} => h.kind = "doc"
            /\ h.kind = "change" /\ m.kind = "change" => h.colrev < m.colrev
        BY <1>0, <3>1, <3>2, HeadFirst
      <4>2. m.kind = "change" /\ m.colrev < n.colrev /\ n.colrev < m.colrev
        BY <3>4, <4>1 DEF Says
      <4>3. m.colrev \in Nat /\ n.colrev \in Nat
        BY <1>0, <3>2, <3>4, <4>2, PendingTypes
      <4> QED
        BY <4>2, <4>3
    <3> QED
      BY <3>2, <3>3, <3>4 DEF LastWord
  <2> QED
    BY <2>2, <2>3
<1>7. ASSUME NEW t \in Session, ToldAll(t) PROVE LastWord(s)'
  <2>1. UNCHANGED docs /\ (t # s => Pending(s)' = Pending(s))
    BY <1>7 DEF ToldAll, Told
  <2>2. PICK ds : /\ SyncDocs(t, ds)
                  /\ Pending(t)' = Pending(t) \cup Range(ds) \cup {SyncComplete(colrev)}
    BY <1>7 DEF ToldAll
  <2>3. ASSUME t = s, NEW m \in Pending(s)', m \notin Pending(s), NEW d \in Doc, Says(m, d)
        PROVE  m.data = docs[d].data
    <3>1. m \in Range(ds)
      BY <2>2, <2>3 DEF Says, SyncComplete
    <3> QED
      BY <2>2, <2>3, <3>1 DEF SyncDocs, Says
  <2>4. CASE t = s
    BY <1>1, <2>1, <2>2, <2>3, <2>4
  <2> QED
    BY <1>2, <2>1, <2>4
<1>8. ASSUME NEW t \in Session, ToldFailure(t) PROVE LastWord(s)'
  <2>1. UNCHANGED docs /\ (t # s => Pending(s)' = Pending(s))
    BY <1>8 DEF ToldFailure, Told
  <2>2. PICK e : e.kind = "sync_error" /\ Pending(t)' = Pending(t) \cup {e}
    BY <1>8 DEF ToldFailure
  <2>3. CASE t = s
    BY <1>1, <2>1, <2>2, <2>3 DEF Says
  <2> QED
    BY <1>2, <2>1, <2>3
<1>9. ASSUME NEW src, NEW r \in ChangeRequest, Changed(src, r) PROVE LastWord(s)'
  <2>1. /\ r.id \in Doc /\ colrev \in Nat
        /\ docs'[r.id].data = Outcome(r)
        /\ \A d \in Doc : d # r.id => docs'[d] = docs[d]
    BY <1>9, ChangedRow
  <2>2. PICK b : b = ServerChange(r.op, r.id, Outcome(r), colrev + 1)
    OBVIOUS
  <2>3. b.kind = "change" /\ b.id = r.id /\ b.data = Outcome(r) /\ b.colrev = colrev + 1
    BY <2>2 DEF ServerChange
  <2>4. Pending(s)' = IF s \in subscribers /\ stage[s] = "open"
                      THEN Pending(s) \cup {b} ELSE Pending(s)
    BY <1>9, <2>2 DEF Changed
  <2> SUFFICES ASSUME NEW m \in Pending(s)', NEW d \in Doc, Says(m, d)
               PROVE  \/ m.data = docs'[d].data
                      \/ \E n \in Pending(s)' :
                            /\ n.kind = "change" /\ n.id = d /\ n.data = docs'[d].data
                            /\ m.kind = "change" => m.colrev < n.colrev
    BY DEF LastWord, Says
  <2>5. CASE ~(s \in subscribers /\ stage[s] = "open")
    <3>1. m.kind = "sync_error"
      BY <2>4, <2>5, Unsubscribed
    <3> QED
      BY <3>1 DEF Says
  <2>6. CASE s \in subscribers /\ stage[s] = "open" /\ d = r.id
    <3>1. m \in Pending(s) /\ m.kind = "change" => m.colrev < colrev + 1
      <4> SUFFICES ASSUME m \in Pending(s), m.kind = "change" PROVE m.colrev < colrev + 1
        OBVIOUS
      <4>1. m.colrev \in 1..colrev
        BY PendingFacts DEF Issued
      <4> QED
        BY <2>1, <4>1
    <3>2. b \in Pending(s)' /\ b.data = docs'[d].data
      BY <2>1, <2>3, <2>4, <2>6
    <3> QED
      BY <2>3, <2>4, <2>6, <3>1, <3>2
  <2>7. CASE s \in subscribers /\ stage[s] = "open" /\ d # r.id
    <3>1. m \in Pending(s) /\ docs'[d] = docs[d]
      BY <2>1, <2>3, <2>4, <2>7 DEF Says
    <3> QED
      BY <2>4, <2>7, <3>1 DEF LastWord
  <2> QED
    BY <2>5, <2>6, <2>7
<1> QED
  BY <1>3, <1>4, <1>5, <1>6, <1>7, <1>8, <1>9 DEF StepKinds
-----------------------------------------------------------------------------
(* The clients' copies and what is on its way to them *)

CursorBound == \A c \in Client : cursor[c] <= colrev

\* The answer to the session's Sync will bring document d.
Awaits(s, d) == call[s].kind = "sync" /\ docs[d].rev > call[s].colrev

Asks(c, s) == call[s].kind = "sync" => call[s].colrev = cursor[c]

\* A sync moves the cursor forward, and brings what the client lacks of all that
\* has not changed since: if it has, a broadcast follows.
SyncWhole(c, s) ==
    /\ \A n \in Pending(s) : n.kind = "sync_complete" =>
          /\ cursor[c] <= n.colrev /\ n.colrev <= colrev
          /\ \A m \in Pending(s) :
                m.kind = "doc" /\ docs[m.id].rev <= n.colrev => m.data = docs[m.id].data
          /\ \A d \in Doc :
                Live(d) /\ docs[d].rev <= n.colrev =>
                    \/ view[c][d] = docs[d].data
                    \/ \E m \in Pending(s) : m.kind = "doc" /\ m.id = d
    /\ (\E m \in Pending(s) : m.kind = "doc") =>
          \E n \in Pending(s) : n.kind = "sync_complete"

\* The client has every document, or will once it has read what is on its way.
Covered(c, s) ==
    \A d \in Doc : Live(d) =>
        \/ view[c][d] = docs[d].data \/ Awaits(s, d)
        \/ \E m \in Pending(s) : Says(m, d) /\ m.data = docs[d].data

\* An update that is on its way finds a copy to extend.
NotBlank(c, s) ==
    \A m \in Pending(s) : m.kind = "change" /\ m.op = "*" /\ Live(m.id) =>
        \/ view[c][m.id] # Null \/ Awaits(s, m.id)
        \/ \E n \in Pending(s) :
              /\ n.id = m.id
              /\ \/ n.kind = "doc"
                 \/ n.kind = "change" /\ n.op = "+" /\ n.colrev < m.colrev

Follows(c, s) ==
    /\ Asks(c, s) /\ SyncWhole(c, s)
    /\ Failed(s) \/ (Covered(c, s) /\ NotBlank(c, s))

Following == \A c \in Client, n \in Slot : link[c] = n => Follows(c, <<c, n>>)

Copies == CursorBound /\ ViewKnown /\ ResumeSafe

\* What keeps copies contained in the documents, whenever a session is subscribed.
KnownInv ==
    /\ FeedInv /\ FeedTypeOK /\ UpdatesWhole
    /\ Linked /\ Lines /\ WiresOrdered
    /\ \A s \in Session : \A m \in Pending(s) : DocTrue(m)
    /\ ViewKnown

\* All that is known of a state.
FollowInv ==
    /\ FeedInv /\ FeedTypeOK /\ UpdatesWhole
    /\ Linked /\ Lines /\ WiresOrdered
    /\ \A s \in Session : Mail(s)
    /\ Following /\ Copies

LEMMA FollowKnown == FollowInv => KnownInv
BY DEF FollowInv, KnownInv, Mail, Copies

\* A client and a session that a step does not concern.
LEMMA FollowsFrame ==
    ASSUME FollowInv, NEW c \in Client, NEW s \in Session, Follows(c, s),
           UNCHANGED docs, colrev' \in {colrev, colrev + 1},
           view'[c] = view[c], cursor'[c] = cursor[c],
           Pending(s)' = Pending(s), SameSync(s)
    PROVE  Follows(c, s)'
<1>1. \A k \in Nat : k <= colrev => k <= colrev'
  BY DEF FollowInv, FeedInv, TypeOK
<1>2. \A n \in Pending(s) : n.kind = "sync_complete" => n.colrev \in Nat
  BY PendingTypes DEF FollowInv, FeedInv
<1>3. Asks(c, s)'
  BY DEF Follows, Asks, SameSync
<1>4. SyncWhole(c, s)'
  BY <1>1, <1>2 DEF Follows, SyncWhole, Live
<1>5. Failed(s) => Failed(s)'
  BY DEF Failed
<1>6. \A d : Awaits(s, d)' <=> Awaits(s, d)
  BY DEF Awaits, SameSync
<1>7. Covered(c, s) => Covered(c, s)'
  BY <1>6 DEF Covered, Live
<1>8. NotBlank(c, s) => NotBlank(c, s)'
  BY <1>6 DEF NotBlank, Live
<1> QED
  BY <1>3, <1>4, <1>5, <1>7, <1>8 DEF Follows

LEMMA StillFollows ==
    ASSUME FollowInv, Linked', Still
    PROVE  Following' /\ Copies'
<1>0. FeedTypeOK /\ Linked /\ Following /\ colrev \in Nat /\ Copies
  BY DEF FollowInv, FeedInv, TypeOK
<1>1. ASSUME NEW c \in Client, NEW n \in Slot, link'[c] = n PROVE Follows(c, <<c, n>>)'
  <2>1. <<c, n>> \in Session /\ link[c] = n
    BY <1>1, FeedAssumption DEF Still
  <2>2. Follows(c, <<c, n>>)
    BY <1>0, <2>1 DEF Following
  <2>3. SameSync(<<c, n>>)
    BY <1>1, <2>1 DEF Linked, Still
  <2> QED
    BY <2>1, <2>2, <2>3, FollowsFrame DEF Still
<1>2. CursorBound'
  BY <1>0 DEF Copies, CursorBound, Still, FeedTypeOK
<1>3. ViewKnown' /\ ResumeSafe'
  BY <1>0 DEF Copies, ViewKnown, ResumeSafe, Still, Exists, Live
<1> QED
  BY <1>1, <1>2, <1>3 DEF Following, Copies

\* Connecting: the Sync will bring whatever the cursor does not vouch for.
LEMMA DialledFollows ==
    ASSUME FollowInv, NEW c \in Client, NEW n \in Slot, Dialled(c, n)
    PROVE  Following' /\ Copies'
<1>0. FeedTypeOK /\ Following /\ TypeOK /\ Copies /\ <<c, n>> \in Session
  BY FeedAssumption DEF FollowInv, FeedInv
<1>1. Follows(c, <<c, n>>)'
  <2> DEFINE s == <<c, n>>
  <2>1. Pending(s)' = {}
    BY <1>0 DEF Dialled
  <2>2. call'[s].kind = "sync" /\ call'[s].colrev = cursor[c]
    BY <1>0 DEF Dialled, TypeOK
  <2>3. Asks(c, s)' /\ SyncWhole(c, s)' /\ NotBlank(c, s)'
    BY <2>1, <2>2 DEF Asks, SyncWhole, NotBlank, Dialled
  <2>4. \A d \in Doc : docs[d].rev \in Nat /\ cursor[c] \in Nat
    BY <1>0 DEF TypeOK, FeedTypeOK
  <2>5. ASSUME NEW d \in Doc, docs[d].data # Null
        PROVE  view[c][d] = docs[d].data \/ docs[d].rev > cursor[c]
    BY <1>0, <2>4, <2>5 DEF Copies, ResumeSafe, Live
  <2>6. Covered(c, s)'
    BY <2>2, <2>5 DEF Covered, Live, Awaits, Dialled
  <2> QED
    BY <2>3, <2>6 DEF Follows
<1>2. ASSUME NEW e \in Client, NEW k \in Slot, link'[e] = k, e # c
      PROVE  Follows(e, <<e, k>>)'
  <2>1. /\ <<e, k>> \in Session /\ <<e, k>> # <<c, n>> /\ link[e] = k
        /\ Pending(<<e, k>>)' = Pending(<<e, k>>)
    BY <1>0, <1>2, FeedAssumption DEF Dialled, FeedTypeOK
  <2>2. Follows(e, <<e, k>>) /\ SameSync(<<e, k>>)
    BY <1>0, <2>1 DEF Following, Dialled, SameSync, TypeOK
  <2> QED
    BY <2>1, <2>2, FollowsFrame DEF Dialled
<1>3. Following'
  <2>1. link'[c] = n
    BY <1>0 DEF Dialled, FeedTypeOK
  <2> QED
    BY <1>1, <1>2, <2>1 DEF Following
<1>4. Copies'
  BY <1>0 DEF Copies, CursorBound, ViewKnown, ResumeSafe, Dialled, Exists, Live
<1> QED
  BY <1>3, <1>4

LEMMA HungUpFollows ==
    ASSUME FollowInv, NEW c \in Client, NEW n \in Slot, HungUp(c, n)
    PROVE  Following' /\ Copies'
<1>0. FeedTypeOK /\ Following /\ Copies
  BY DEF FollowInv
<1>1. ASSUME NEW e \in Client, NEW k \in Slot, link'[e] = k
      PROVE  Follows(e, <<e, k>>)'
  <2>1. e # c
    BY <1>0, <1>1, FeedAssumption DEF HungUp, FeedTypeOK
  <2>2. /\ <<e, k>> \in Session /\ <<e, k>> # <<c, n>> /\ link[e] = k
        /\ Pending(<<e, k>>)' = Pending(<<e, k>>)
    BY <1>0, <1>1, <2>1, FeedAssumption DEF HungUp, FeedTypeOK
  <2>3. Follows(e, <<e, k>>) /\ SameSync(<<e, k>>)
    BY <1>0, <2>2 DEF Following, HungUp, SameSync
  <2> QED
    BY <2>2, <2>3, FollowsFrame DEF HungUp
<1>2. Copies'
  BY <1>0 DEF Copies, CursorBound, ViewKnown, ResumeSafe, HungUp, Exists, Live
<1> QED
  BY <1>1, <1>2 DEF Following

\* A sync that fails: the client reads of it first, and gives up.
LEMMA FailureFollows ==
    ASSUME FollowInv, NEW s \in Session, ToldFailure(s)
    PROVE  Following' /\ Copies'
<1>0. FeedTypeOK /\ Following /\ TypeOK /\ Copies
  BY DEF FollowInv, FeedInv
<1>1. PICK e : e.kind = "sync_error" /\ Pending(s)' = Pending(s) \cup {e}
  BY DEF ToldFailure
<1>2. ASSUME NEW c \in Client, NEW n \in Slot, link'[c] = n
      PROVE  Follows(c, <<c, n>>)'
  <2>1. <<c, n>> \in Session /\ Follows(c, <<c, n>>)
    BY <1>0, <1>2, FeedAssumption DEF Following, ToldFailure, Told
  <2>2. CASE <<c, n>> # s
    BY <2>1, <2>2, FollowsFrame, <1>0 DEF ToldFailure, Told, SameSync, TypeOK
  <2>3. CASE <<c, n>> = s
    <3>1. Failed(s)'
      BY <1>1 DEF Failed
    <3>2. Asks(c, s)'
      BY <1>0 DEF Asks, ToldFailure, Told, NoCall, TypeOK
    <3>3. \A m \in Pending(s)' : m.kind \notin {"sync_complete", "doc"}
      BY <1>1 DEF ToldFailure, Told
    <3>4. SyncWhole(c, s)'
      BY <3>3 DEF SyncWhole
    <3> QED
      BY <2>3, <3>1, <3>2, <3>4 DEF Follows
  <2> QED
    BY <2>2, <2>3
<1>3. Copies'
  BY <1>0 DEF Copies, CursorBound, ViewKnown, ResumeSafe, ToldFailure, Told, Exists, Live
<1> QED
  BY <1>2, <1>3 DEF Following

\* A sync that is answered.
LEMMA AnswerFollows ==
    ASSUME FollowInv, NEW s \in Session, ToldAll(s)
    PROVE  Following' /\ Copies'
<1>0. FeedTypeOK /\ Following /\ TypeOK /\ Copies
  BY DEF FollowInv, FeedInv
<1>1. PICK ds : /\ SyncDocs(s, ds)
                /\ Pending(s)' = Pending(s) \cup Range(ds) \cup {SyncComplete(colrev)}
  BY DEF ToldAll
<1>2. /\ UNCHANGED <<docs, colrev, view, cursor, link>>
      /\ call[s].kind = "sync" /\ call'[s].kind = "none"
      /\ \A m \in Pending(s) : m.kind = "change"
  BY <1>0 DEF ToldAll, Told, NoCall, TypeOK
<1>3. ASSUME NEW c \in Client, NEW n \in Slot, link'[c] = n
      PROVE  Follows(c, <<c, n>>)'
  <2>1. <<c, n>> \in Session /\ Follows(c, <<c, n>>)
    BY <1>0, <1>2, <1>3, FeedAssumption DEF Following
  <2>2. CASE <<c, n>> # s
    BY <2>1, <2>2, FollowsFrame, <1>0 DEF ToldAll, Told, SameSync, TypeOK
  <2>3. CASE <<c, n>> = s
    <3>1. Asks(c, s)'
      BY <1>2 DEF Asks
    <3>2. \A d \in Doc : /\ docs[d].rev \in Nat /\ docs[d].rev <= colrev
                         /\ cursor[c] \in Nat /\ cursor[c] <= colrev /\ colrev \in Nat
      BY <1>0 DEF FollowInv, FeedInv, RowsOrdered, TypeOK, FeedTypeOK, Copies, CursorBound
    \* What the client lacks is among the documents of the sync.
    <3>3. ASSUME NEW d \in Doc, docs[d].data # Null
          PROVE  \/ view[c][d] = docs[d].data
                 \/ \E m \in Pending(s)' :
                       m.kind = "doc" /\ m.id = d /\ m.data = docs[d].data
      <4>1. call[s].colrev = cursor[c]
        BY <1>2, <2>1, <2>3 DEF Follows, Asks
      <4>2. CASE docs[d].rev <= cursor[c]
        BY <1>0, <3>3, <4>2 DEF Copies, ResumeSafe, Live
      <4>3. CASE docs[d].rev > cursor[c]
        <5>1. PICK m \in Range(ds) : m.id = d
          BY <1>1, <3>3, <4>1, <4>3 DEF SyncDocs, Live
        <5> QED
          BY <1>1, <5>1 DEF SyncDocs
      <4> QED
        BY <3>2, <4>2, <4>3
    <3>4. ASSUME NEW m \in Pending(s)'
          PROVE  /\ m.kind = "doc" => m.id \in Doc /\ m.data = docs[m.id].data
                 /\ m.kind = "sync_complete" => m.colrev = colrev
      <4>1. CASE m \in Pending(s)
        BY <1>2, <4>1
      <4>2. CASE m \in Range(ds)
        BY <1>1, <4>2 DEF SyncDocs
      <4>3. CASE m = SyncComplete(colrev)
        BY <4>3 DEF SyncComplete
      <4> QED
        BY <1>1, <4>1, <4>2, <4>3
    <3>5. \E n1 \in Pending(s)' : n1.kind = "sync_complete"
      <4>1. SyncComplete(colrev) \in Pending(s)'
        BY <1>1
      <4>2. SyncComplete(colrev).kind = "sync_complete"
        BY DEF SyncComplete
      <4> QED
        BY <4>1, <4>2
    <3>6. cursor[c] <= colrev
      BY <1>0 DEF Copies, CursorBound
    <3>7. SyncWhole(c, s)'
      <4>1. ASSUME NEW n1 \in Pending(s)', n1.kind = "sync_complete"
            PROVE  /\ cursor'[c] <= n1.colrev /\ n1.colrev <= colrev'
                   /\ \A m \in Pending(s)' :
                         m.kind = "doc" /\ docs'[m.id].rev <= n1.colrev
                            => m.data = docs'[m.id].data
                   /\ \A d \in Doc :
                         docs'[d].data # Null /\ docs'[d].rev <= n1.colrev =>
                             \/ view'[c][d] = docs'[d].data
                             \/ \E m \in Pending(s)' : m.kind = "doc" /\ m.id = d
        <5>1. n1.colrev = colrev /\ colrev <= colrev
          BY <3>4, <4>1, <1>0 DEF TypeOK
        <5> QED
          BY <1>2, <3>3, <3>4, <3>6, <5>1
      <4> QED
        BY <3>5, <4>1 DEF SyncWhole, Live
    <3>8. Covered(c, s)'
      <4> SUFFICES ASSUME NEW d \in Doc, docs'[d].data # Null
                   PROVE  \/ view'[c][d] = docs'[d].data
                          \/ \E m \in Pending(s)' : Says(m, d) /\ m.data = docs'[d].data
        BY DEF Covered, Live, Says
      <4> QED
        BY <1>2, <3>3 DEF Says
    <3>9. Failed(s)' \/ NotBlank(c, s)'
      <4> SUFFICES ASSUME NEW m \in Pending(s)', m.kind = "change", docs'[m.id].data # Null
                   PROVE  \/ view'[c][m.id] # Null
                          \/ \E n1 \in Pending(s)' : n1.id = m.id /\ n1.kind = "doc"
        BY DEF NotBlank, Live
      <4>1. m \in Pending(s)
        BY <1>1 DEF SyncDocs, SyncComplete
      <4>2. m.id \in Doc
        BY <1>0, <4>1, PendingTypes
      <4> QED
        BY <1>2, <3>3, <4>2
    <3> QED
      BY <2>3, <3>1, <3>7, <3>8, <3>9 DEF Follows
  <2> QED
    BY <2>2, <2>3
<1>4. Copies'
  BY <1>0, <1>2 DEF Copies, CursorBound, ViewKnown, ResumeSafe, Exists, Live
<1> QED
  BY <1>3, <1>4 DEF Following
-----------------------------------------------------------------------------
(* A client reads a message *)

LEMMA ReadFacts ==
    ASSUME FollowInv, NEW c \in Client, NEW n \in Slot, ReadBy(c, n),
           NEW s, s = <<c, n>>, NEW h, h = Head(wire[s])
    PROVE  /\ s \in Session /\ h \in Pending(s) /\ Pending(s) = {h} \cup Pending(s)'
           /\ h.kind \in {"doc", "change", "sync_complete"}
           /\ h.kind \in {"doc", "change"} => h.id \in Doc
           /\ h.kind \in {"change", "sync_complete"} => h.colrev \in Nat
           /\ SyncWhole(c, s) /\ Covered(c, s) /\ NotBlank(c, s) /\ ~Failed(s)
           /\ call[s].kind # "sync"
           /\ \A m \in Pending(s)' :
                 /\ m.kind \in {"doc", "sync_complete"} => h.kind = "doc"
                 /\ h.kind = "change" /\ m.kind = "change" => h.colrev < m.colrev
<1>1. /\ s \in Session /\ Received(s) /\ link[c] = n
      /\ Pending(s) = {h} \cup Pending(s)'
      /\ h.kind \in {"doc", "change", "sync_complete"}
  BY FeedAssumption DEF ReadBy
<1>2. TypeOK /\ FeedInOrder /\ FeedIssued /\ WiresOrdered /\ Lines
  BY DEF FollowInv, FeedInv
<1>3. /\ h.kind \in {"doc", "change"} => h.id \in Doc
      /\ h.kind \in {"change", "sync_complete"} => h.colrev \in Nat
  BY <1>1, <1>2, PendingTypes
<1>4. \A m \in Pending(s)' :
          /\ m.kind # "sync_error"
          /\ m.kind \in {"doc", "sync_complete"} => h.kind = "doc"
          /\ h.kind = "change" /\ m.kind = "change" => h.colrev < m.colrev
  BY <1>1, <1>2, HeadFirst
<1>5. ~Failed(s)
  BY <1>1, <1>4 DEF Failed
<1>6. Follows(c, s)
  BY <1>1 DEF FollowInv, Following
<1>7. call[s].kind # "sync"
  BY <1>1, <1>2 DEF Received, Lines, Line
<1> QED
  BY <1>1, <1>3, <1>4, <1>5, <1>6, <1>7 DEF Follows

LEMMA ReadViews ==
    ASSUME KnownInv, NEW c \in Client, NEW n \in Slot, ReadBy(c, n),
           NEW h, h = Head(wire[<<c, n>>])
    PROVE  /\ \A e \in Client : e # c => view'[e] = view[e] /\ cursor'[e] = cursor[e]
           /\ h.kind = "sync_complete" => view'[c] = view[c]
           /\ h.kind # "sync_complete" =>
                 /\ view'[c][h.id] = Applied(view[c][h.id], h)
                 /\ \A d \in Doc : d # h.id => view'[c][d] = view[c][d]
           /\ cursor'[c] = IF h.kind = "doc" THEN cursor[c] ELSE h.colrev
<1>1. TypeOK /\ FeedTypeOK /\ <<c, n>> \in Session /\ h \in Pending(<<c, n>>)
  BY FeedAssumption DEF KnownInv, FeedInv, ReadBy
<1>2. h.kind # "sync_complete" => h.id \in Doc
  BY <1>1, PendingTypes DEF ReadBy
<1> QED
  BY <1>1, <1>2 DEF ReadBy, FeedTypeOK

\* A message that holds the document as it is leaves the copy so: an update finds
\* a copy, which is contained in the document.
LEMMA ReadsRight ==
    ASSUME FollowInv, NEW c \in Client, NEW n \in Slot, ReadBy(c, n),
           NEW h, h = Head(wire[<<c, n>>]), h.kind \in {"doc", "change"},
           Live(h.id), h.data = docs[h.id].data
    PROVE  view'[c][h.id] = docs[h.id].data
<1> DEFINE s == <<c, n>>
           copy == view[c][h.id]
<1>1. view'[c][h.id] = Applied(copy, h)
  BY FollowKnown, ReadViews
<1>2. CASE h.kind # "change" \/ h.op # "*"
  BY <1>1, <1>2 DEF Applied
<1>3. CASE h.kind = "change" /\ h.op = "*"
  <2>1. copy # Null
    <3>1. /\ h \in Pending(s) /\ NotBlank(c, s) /\ call[s].kind # "sync"
          /\ Pending(s) = {h} \cup Pending(s)' /\ h.colrev \in Nat
          /\ \A m \in Pending(s)' : /\ m.kind # "doc"
                                    /\ m.kind = "change" => h.colrev < m.colrev
      BY <1>3, ReadFacts
    <3>2. \/ copy # Null
          \/ \E m \in Pending(s) :
                 /\ m.id = h.id
                 /\ \/ m.kind = "doc"
                    \/ m.kind = "change" /\ m.op = "+" /\ m.colrev < h.colrev
      BY <1>3, <3>1 DEF NotBlank, Awaits
    <3>3. ASSUME NEW m \in Pending(s), m.kind = "change", m.op = "+", m.colrev < h.colrev
          PROVE  FALSE
      <4>1. h.colrev < m.colrev /\ m.colrev \in Nat
        <5>1. m \in Pending(s)'
          BY <1>3, <3>1, <3>3
        <5>2. s \in Session /\ TypeOK
          BY FeedAssumption DEF FollowInv, FeedInv
        <5> QED
          BY <3>1, <3>3, <5>1, <5>2, PendingTypes
      <4> QED
        BY <3>1, <3>3, <4>1
    <3> QED
      BY <1>3, <3>1, <3>2, <3>3
  <2>2. copy \subseteq docs[h.id].data
    <3>1. h.id \in Doc
      BY ReadFacts
    <3> QED
      BY <2>1, <3>1 DEF FollowInv, Copies, ViewKnown
  <2>3. view'[c][h.id] = copy \cup docs[h.id].data
    BY <1>1, <1>3, <2>1 DEF Applied, Merge
  <2> QED
    BY <2>2, <2>3
<1> QED
  BY <1>2, <1>3

\* Whatever is read, the copy stays contained in the document; a copy that there
\* is stays one while the document lives.
LEMMA ReadsKnown ==
    ASSUME KnownInv, NEW c \in Client, NEW n \in Slot, ReadBy(c, n),
           NEW h, h = Head(wire[<<c, n>>]), h.kind \in {"doc", "change"}
    PROVE  /\ docs[h.id].rev > 0
           /\ Live(h.id) =>
                 /\ view'[c][h.id] # Null => view'[c][h.id] \subseteq docs[h.id].data
                 /\ h.kind = "doc" \/ h.op # "*" \/ view[c][h.id] # Null
                       => view'[c][h.id] # Null
<1> DEFINE s == <<c, n>>
           copy == view[c][h.id]
<1>1. view'[c][h.id] = Applied(copy, h)
  BY ReadViews
<1>2. h \in Pending(s) /\ s \in Session
  BY FeedAssumption DEF ReadBy
<1>3. TypeOK /\ FeedInv /\ FeedTypeOK /\ DocTrue(h) /\ h.id \in Doc
  BY <1>2, PendingTypes DEF KnownInv, FeedInv
<1>4. CASE h.kind = "doc"
  BY <1>1, <1>3, <1>4 DEF Applied, DocTrue
<1>5. CASE h.kind = "change"
  <2>1. Issued(h) /\ Truthful(h) /\ docs[h.id].rev \in Nat /\ colrev \in Nat
    BY <1>2, <1>3, PendingFacts DEF TypeOK
  <2>2. docs[h.id].rev > 0
    BY <1>5, <2>1 DEF Issued, Truthful
  <2>3. Live(h.id) => h.data # Null /\ h.data \subseteq docs[h.id].data
    BY <1>5, <2>1 DEF Truthful, Live
  <2>4. CASE h.op # "*"
    BY <1>1, <1>5, <2>2, <2>3, <2>4 DEF Applied
  <2>5. CASE h.op = "*" /\ copy = Null
    BY <1>1, <1>5, <2>2, <2>5 DEF Applied
  <2>6. CASE h.op = "*" /\ copy # Null
    <3>1. view'[c][h.id] = copy \cup h.data
      BY <1>1, <1>5, <2>6 DEF Applied, Merge
    <3>2. Live(h.id) => copy \subseteq docs[h.id].data
      BY <1>3, <2>6 DEF KnownInv, ViewKnown
    <3>3. copy \in Version /\ h.data \in Version
      BY <1>2, <1>3, <1>5, <2>6 DEF FeedTypeOK, Data, KnownInv, UpdatesWhole
    <3>4. copy \cup h.data # Null
      BY <3>3, NullAssumption DEF Version
    <3> QED
      BY <2>2, <2>3, <3>1, <3>2, <3>4
  <2> QED
    BY <2>4, <2>5, <2>6
<1> QED
  BY <1>4, <1>5

LEMMA ReadKnown ==
    ASSUME KnownInv, NEW c \in Client, NEW n \in Slot, ReadBy(c, n)
    PROVE  ViewKnown'
<1>1. PICK h : h = Head(wire[<<c, n>>])
  OBVIOUS
<1>2. /\ \A e \in Client : e # c => view'[e] = view[e]
      /\ h.kind = "sync_complete" => view'[c] = view[c]
      /\ h.kind # "sync_complete" =>
            \A d \in Doc : d # h.id => view'[c][d] = view[c][d]
  BY <1>1, ReadViews
<1>3. UNCHANGED docs /\ h.kind \in {"doc", "change", "sync_complete"}
  BY <1>1 DEF ReadBy
<1> SUFFICES ASSUME NEW e \in Client, NEW d \in Doc, view'[e][d] # Null
             PROVE  /\ docs[d].rev > 0
                    /\ docs[d].data # Null => view'[e][d] \subseteq docs[d].data
  BY <1>3 DEF ViewKnown, Exists, Live
<1>4. CASE view'[e][d] = view[e][d]
  BY <1>4 DEF KnownInv, ViewKnown, Exists, Live
<1>5. CASE e = c /\ h.kind \in {"doc", "change"} /\ d = h.id
  BY <1>1, <1>5, ReadsKnown DEF Live
<1> QED
  BY <1>2, <1>3, <1>4, <1>5

LEMMA ReadCopies ==
    ASSUME FollowInv, NEW c \in Client, NEW n \in Slot, ReadBy(c, n)
    PROVE  Copies'
<1>1. PICK s, h : s = <<c, n>> /\ h = Head(wire[s])
  OBVIOUS
<1>2. UNCHANGED <<docs, colrev>>
  BY DEF ReadBy
<1>3. TypeOK /\ FeedInv /\ FeedTypeOK /\ CursorBound /\ ViewKnown /\ ResumeSafe
  BY DEF FollowInv, FeedInv, Copies
<1>4. /\ s \in Session /\ h \in Pending(s) /\ Pending(s) = {h} \cup Pending(s)'
      /\ h.kind \in {"doc", "change", "sync_complete"}
      /\ h.kind \in {"doc", "change"} => h.id \in Doc
      /\ h.kind \in {"change", "sync_complete"} => h.colrev \in Nat
      /\ SyncWhole(c, s) /\ Covered(c, s) /\ call[s].kind # "sync"
      /\ \A m \in Pending(s)' :
            /\ m.kind \in {"doc", "sync_complete"} => h.kind = "doc"
            /\ h.kind = "change" /\ m.kind = "change" => h.colrev < m.colrev
  BY <1>1, ReadFacts
<1>5. /\ \A e \in Client : e # c => view'[e] = view[e] /\ cursor'[e] = cursor[e]
      /\ h.kind = "sync_complete" => view'[c] = view[c]
      /\ h.kind # "sync_complete" =>
            \A d \in Doc : d # h.id => view'[c][d] = view[c][d]
      /\ cursor'[c] = IF h.kind = "doc" THEN cursor[c] ELSE h.colrev
  BY <1>1, FollowKnown, ReadViews
<1>6. CursorBound'
  <2>1. CASE h.kind = "sync_complete"
    <3>1. h.colrev <= colrev
      BY <1>4, <2>1 DEF SyncWhole
    <3> QED
      BY <1>2, <1>3, <1>5, <2>1, <3>1 DEF CursorBound
  <2>2. CASE h.kind = "change"
    <3>1. h.colrev \in 1..colrev /\ colrev \in Nat
      BY <1>3, <1>4, <2>2, PendingFacts DEF Issued, TypeOK
    <3>2. h.colrev <= colrev
      BY <3>1
    <3> QED
      BY <1>2, <1>3, <1>5, <2>2, <3>2 DEF CursorBound
  <2>3. CASE h.kind = "doc"
    BY <1>2, <1>3, <1>5, <2>3 DEF CursorBound
  <2> QED
    BY <1>4, <2>1, <2>2, <2>3
<1>7. ViewKnown'
  BY FollowKnown, ReadKnown
<1>8. ResumeSafe'
  <2> SUFFICES ASSUME NEW e \in Client, NEW d \in Doc,
                      docs[d].data # Null, docs[d].rev <= cursor'[e]
               PROVE  view'[e][d] = docs[d].data
    BY <1>2 DEF ResumeSafe, Live
  <2>1. CASE e # c
    BY <1>3, <1>5, <2>1 DEF ResumeSafe, Live
  \* The documents of the sync have all been read.
  <2>2. CASE e = c /\ h.kind = "sync_complete"
    <3>1. \/ view[c][d] = docs[d].data
          \/ \E m \in Pending(s) : m.kind = "doc" /\ m.id = d
      BY <1>4, <1>5, <2>2 DEF SyncWhole, Live
    <3>2. \A m \in Pending(s) : m.kind # "doc"
      BY <1>4, <2>2
    <3> QED
      BY <1>5, <2>2, <3>1, <3>2
  <2>3. CASE e = c /\ h.kind = "doc" /\ d # h.id
    BY <1>3, <1>5, <2>3 DEF ResumeSafe, Live
  \* The sync is of a later revision, and the document has not changed since.
  <2>4. CASE e = c /\ h.kind = "doc" /\ d = h.id
    <3>1. PICK m \in Pending(s) : m.kind = "sync_complete"
      BY <1>4, <2>4 DEF SyncWhole
    <3>2. m.colrev \in Nat /\ cursor[c] <= m.colrev
      BY <1>3, <1>4, <3>1, PendingTypes DEF SyncWhole
    <3>3. docs[d].rev <= m.colrev
      <4>1. docs[d].rev \in Nat /\ cursor[c] \in Nat /\ docs[d].rev <= cursor[c]
        BY <1>3, <1>5, <2>4 DEF TypeOK, FeedTypeOK
      <4> QED
        BY <3>2, <4>1
    <3>4. h.data = docs[d].data
      BY <1>4, <2>4, <3>1, <3>3 DEF SyncWhole
    <3> QED
      BY <1>1, <2>4, <3>4, ReadsRight DEF Live
  <2>5. CASE e = c /\ h.kind = "change" /\ d = h.id
    <3>1. Truthful(h) /\ docs[d].rev \in Nat /\ docs[d].rev <= h.colrev
      BY <1>3, <1>4, <1>5, <2>5, PendingFacts DEF TypeOK
    <3>2. h.data = docs[d].data
      BY <1>4, <2>5, <3>1 DEF Truthful
    <3> QED
      BY <1>1, <2>5, <3>2, ReadsRight DEF Live
  \* Were the document's last change still on its way, its revision would be the
  \* later one.
  <2>6. CASE e = c /\ h.kind = "change" /\ d # h.id
    <3>1. docs[d].rev <= h.colrev /\ view'[c][d] = view[c][d]
      BY <1>5, <2>6
    <3>2. ASSUME NEW m \in Pending(s), Says(m, d) PROVE FALSE
      <4>1. m \in Pending(s)'
        BY <1>4, <2>6, <3>2 DEF Says
      <4>2. m.kind = "change" /\ h.colrev < m.colrev
        BY <1>4, <2>6, <3>2, <4>1 DEF Says
      <4>3. Truthful(m) /\ m.colrev \in Nat /\ docs[d].rev \in Nat /\ m.id = d
        BY <1>3, <1>4, <3>2, <4>2, PendingFacts, PendingTypes DEF TypeOK, Says
      <4>4. m.colrev <= docs[d].rev
        BY <4>2, <4>3 DEF Truthful
      <4> QED
        BY <1>4, <2>6, <3>1, <4>2, <4>3, <4>4
    <3> QED
      BY <1>4, <2>6, <3>1, <3>2 DEF Covered, Live, Awaits
  <2> QED
    BY <1>4, <2>1, <2>2, <2>3, <2>4, <2>5, <2>6
<1> QED
  BY <1>6, <1>7, <1>8 DEF Copies

LEMMA ReadFollows ==
    ASSUME FollowInv, NEW c \in Client, NEW n \in Slot, ReadBy(c, n)
    PROVE  Following'
<1>1. PICK s, h : s = <<c, n>> /\ h = Head(wire[s])
  OBVIOUS
<1>2. UNCHANGED <<docs, colrev, call, link>> /\ link[c] = n
  BY DEF ReadBy
<1>3. TypeOK /\ FeedInv /\ FeedTypeOK /\ Following
  BY DEF FollowInv, FeedInv
<1>4. /\ s \in Session /\ h \in Pending(s) /\ Pending(s) = {h} \cup Pending(s)'
      /\ h.kind \in {"doc", "change", "sync_complete"}
      /\ h.kind \in {"doc", "change"} => h.id \in Doc
      /\ SyncWhole(c, s) /\ Covered(c, s) /\ NotBlank(c, s) /\ call[s].kind # "sync"
      /\ \A m \in Pending(s)' :
            /\ m.kind \in {"doc", "sync_complete"} => h.kind = "doc"
            /\ h.kind = "change" /\ m.kind = "change" => h.colrev < m.colrev
  BY <1>1, ReadFacts
<1>5. /\ \A e \in Client : e # c => view'[e] = view[e] /\ cursor'[e] = cursor[e]
      /\ h.kind = "sync_complete" => view'[c] = view[c]
      /\ h.kind # "sync_complete" =>
            \A d \in Doc : d # h.id => view'[c][d] = view[c][d]
      /\ cursor'[c] = IF h.kind = "doc" THEN cursor[c] ELSE h.colrev
  BY <1>1, FollowKnown, ReadViews
<1>6. Asks(c, s)'
  BY <1>2, <1>4 DEF Asks

\* A copy that is right stays right, or a later message says so.
<1>7. ASSUME NEW d \in Doc, docs[d].data # Null
      PROVE  \/ view'[c][d] = docs[d].data
             \/ \E m \in Pending(s)' : Says(m, d) /\ m.data = docs[d].data
  <2>1. CASE h.kind \in {"doc", "change"} /\ h.id = d
    <3>1. \/ h.data = docs[d].data
          \/ \E m \in Pending(s) :
                /\ m.kind = "change" /\ m.id = d /\ m.data = docs[d].data
                /\ h.kind = "change" => h.colrev < m.colrev
      BY <1>4, <1>7, <2>1 DEF FollowInv, Mail, LastWord, Says, Live
    <3>2. CASE h.data = docs[d].data
      BY <1>1, <1>7, <2>1, <3>2, ReadsRight DEF Live
    <3>3. ASSUME NEW m \in Pending(s), m.kind = "change", m.id = d, m.data = docs[d].data,
                 h.kind = "change" => h.colrev < m.colrev
          PROVE  m \in Pending(s)'
      <4> SUFFICES ASSUME m = h PROVE FALSE
        BY <1>4
      <4>1. h.colrev \in Nat
        BY <1>3, <1>4, <3>3, PendingTypes
      <4> QED
        BY <3>3, <4>1
    <3> QED
      BY <3>1, <3>2, <3>3 DEF Says
  <2>2. CASE ~(h.kind \in {"doc", "change"} /\ h.id = d)
    <3>1. view'[c][d] = view[c][d] /\ ~Says(h, d)
      BY <1>4, <1>5, <2>2 DEF Says
    <3>2. \/ view[c][d] = docs[d].data
          \/ \E m \in Pending(s) : Says(m, d) /\ m.data = docs[d].data
      BY <1>4, <1>7 DEF Covered, Live, Awaits
    <3> QED
      BY <1>4, <3>1, <3>2
  <2> QED
    BY <2>1, <2>2
<1>8. Covered(c, s)'
  BY <1>2, <1>7 DEF Covered, Live, Says
<1>9. NotBlank(c, s)'
  <2> SUFFICES ASSUME NEW m \in Pending(s)', m.kind = "change", m.op = "*",
                      docs[m.id].data # Null
               PROVE  \/ view'[c][m.id] # Null
                      \/ \E k \in Pending(s)' :
                            /\ k.id = m.id
                            /\ \/ k.kind = "doc"
                               \/ k.kind = "change" /\ k.op = "+" /\ k.colrev < m.colrev
    BY <1>2 DEF NotBlank, Live
  <2>1. m \in Pending(s) /\ m.id \in Doc
    <3>1. m \in Pending(s)
      BY <1>4
    <3> QED
      BY <1>3, <1>4, <3>1, PendingTypes
  <2>2. \/ view[c][m.id] # Null
        \/ \E k \in Pending(s) :
              /\ k.id = m.id
              /\ \/ k.kind = "doc"
                 \/ k.kind = "change" /\ k.op = "+" /\ k.colrev < m.colrev
    BY <1>4, <2>1 DEF NotBlank, Live, Awaits
  <2>3. CASE h.kind \in {"doc", "change"} /\ h.id = m.id
    <3>1. h.kind = "doc" \/ h.op # "*" \/ view[c][m.id] # Null => view'[c][m.id] # Null
      BY <1>1, <2>3, FollowKnown, ReadsKnown DEF Live
    <3>2. ASSUME NEW k \in Pending(s), k.id = m.id,
                 \/ k.kind = "doc"
                 \/ k.kind = "change" /\ k.op = "+" /\ k.colrev < m.colrev
          PROVE  view'[c][m.id] # Null \/ k \in Pending(s)'
      BY <1>4, <3>1, <3>2
    <3> QED
      BY <2>2, <3>1, <3>2
  <2>4. CASE ~(h.kind \in {"doc", "change"} /\ h.id = m.id)
    <3>1. view'[c][m.id] = view[c][m.id]
      BY <1>4, <1>5, <2>1, <2>4
    <3>2. ASSUME NEW k \in Pending(s), k.id = m.id, k.kind \in {"doc", "change"}
          PROVE  k \in Pending(s)'
      BY <1>4, <2>4, <3>2
    <3> QED
      BY <2>2, <3>1, <3>2
  <2> QED
    BY <2>3, <2>4
<1>10. SyncWhole(c, s)'
  <2>1. ASSUME NEW m \in Pending(s)', m.kind = "doc"
        PROVE  \E k \in Pending(s)' : k.kind = "sync_complete"
    <3>1. h.kind = "doc" /\ m \in Pending(s)
      BY <1>4, <2>1
    <3>2. PICK k \in Pending(s) : k.kind = "sync_complete"
      BY <1>4, <2>1, <3>1 DEF SyncWhole
    <3> QED
      BY <1>4, <3>1, <3>2
  <2>2. ASSUME NEW k \in Pending(s)', k.kind = "sync_complete"
        PROVE  /\ cursor'[c] <= k.colrev /\ k.colrev <= colrev
               /\ \A m \in Pending(s)' :
                     m.kind = "doc" /\ docs[m.id].rev <= k.colrev
                        => m.data = docs[m.id].data
               /\ \A d \in Doc :
                     docs[d].data # Null /\ docs[d].rev <= k.colrev =>
                         \/ view'[c][d] = docs[d].data
                         \/ \E m \in Pending(s)' : m.kind = "doc" /\ m.id = d
    <3>1. h.kind = "doc" /\ k \in Pending(s)
      BY <1>4, <2>2
    <3>2. /\ cursor[c] <= k.colrev /\ k.colrev <= colrev
          /\ \A m \in Pending(s) :
                m.kind = "doc" /\ docs[m.id].rev <= k.colrev => m.data = docs[m.id].data
          /\ \A d \in Doc :
                docs[d].data # Null /\ docs[d].rev <= k.colrev =>
                    \/ view[c][d] = docs[d].data
                    \/ \E m \in Pending(s) : m.kind = "doc" /\ m.id = d
      BY <1>4, <2>2, <3>1 DEF SyncWhole, Live
    <3>3. ASSUME NEW d \in Doc, docs[d].data # Null, docs[d].rev <= k.colrev
          PROVE  \/ view'[c][d] = docs[d].data
                 \/ \E m \in Pending(s)' : m.kind = "doc" /\ m.id = d
      <4>1. CASE h.id = d
        <5>1. h.data = docs[d].data
          BY <1>4, <3>1, <3>2, <3>3, <4>1
        <5> QED
          BY <1>1, <3>1, <3>3, <4>1, <5>1, ReadsRight DEF Live
      <4>2. CASE h.id # d
        BY <1>4, <1>5, <3>1, <3>2, <3>3, <4>2
      <4> QED
        BY <4>1, <4>2
    <3>4. \A m \in Pending(s)' : m \in Pending(s)
      BY <1>4
    <3>5. cursor'[c] = cursor[c]
      BY <1>5, <3>1
    <3> QED
      BY <3>2, <3>3, <3>4, <3>5
  <2> QED
    BY <1>2, <2>1, <2>2 DEF SyncWhole, Live
<1>11. Follows(c, s)'
  BY <1>6, <1>8, <1>9, <1>10 DEF Follows
<1>12. ASSUME NEW e \in Client, NEW k \in Slot, link'[e] = k, e # c
       PROVE  Follows(e, <<e, k>>)'
  <2>1. /\ <<e, k>> \in Session /\ <<e, k>> # <<c, n>> /\ link[e] = k
        /\ Pending(<<e, k>>)' = Pending(<<e, k>>)
    BY <1>12, FeedAssumption DEF ReadBy
  <2>2. Follows(e, <<e, k>>) /\ SameSync(<<e, k>>)
    BY <1>2, <1>3, <2>1 DEF Following, SameSync
  <2> QED
    BY <1>2, <1>5, <1>12, <2>1, <2>2, FollowsFrame
<1> QED
  BY <1>1, <1>2, <1>11, <1>12 DEF Following
-----------------------------------------------------------------------------
(* A document changes *)

LEMMA ChangedKnown ==
    ASSUME KnownInv, NEW src, NEW r \in ChangeRequest, Changed(src, r)
    PROVE  ViewKnown'
<1>1. FeedInv /\ FeedTypeOK /\ ViewKnown /\ UNCHANGED view
  BY DEF KnownInv, Changed
<1>2. /\ r.id \in Doc /\ colrev \in Nat /\ docs'[r.id].rev = colrev + 1
      /\ \A d \in Doc : d # r.id => docs'[d] = docs[d]
      /\ docs'[r.id].data # Null =>
            IF r.op = "+" THEN docs[r.id].rev = 0
            ELSE docs[r.id].data # Null /\ docs[r.id].data \subseteq docs'[r.id].data
  BY <1>1, ChangedRow
<1> SUFFICES ASSUME NEW c \in Client, NEW d \in Doc, view[c][d] # Null
             PROVE  /\ docs'[d].rev > 0
                    /\ docs'[d].data # Null => view[c][d] \subseteq docs'[d].data
  BY <1>1 DEF ViewKnown, Exists, Live
<1>3. docs[d].rev > 0 /\ (docs[d].data # Null => view[c][d] \subseteq docs[d].data)
  BY <1>1 DEF ViewKnown, Exists, Live
<1>4. CASE d # r.id
  BY <1>2, <1>3, <1>4
<1>5. CASE d = r.id
  <2>1. docs'[d].rev > 0
    BY <1>2, <1>5
  <2>2. ASSUME docs'[d].data # Null PROVE view[c][d] \subseteq docs'[d].data
    BY <1>2, <1>3, <1>5, <2>2
  <2> QED
    BY <2>1, <2>2
<1> QED
  BY <1>4, <1>5

LEMMA ChangedCopies ==
    ASSUME FollowInv, NEW src, NEW r \in ChangeRequest, Changed(src, r)
    PROVE  Copies'
<1>1. FeedInv /\ FeedTypeOK /\ CursorBound /\ ViewKnown /\ ResumeSafe
  BY DEF FollowInv, Copies
<1>2. /\ r.id \in Doc /\ colrev \in Nat /\ colrev' = colrev + 1
      /\ docs'[r.id].rev = colrev + 1
      /\ \A d \in Doc : d # r.id => docs'[d] = docs[d]
      /\ docs'[r.id].data # Null =>
            IF r.op = "+" THEN docs[r.id].rev = 0
            ELSE docs[r.id].data # Null /\ docs[r.id].data \subseteq docs'[r.id].data
  BY <1>1, ChangedRow
<1>3. UNCHANGED <<view, cursor>>
  BY DEF Changed
<1>4. \A c \in Client : cursor[c] \in Nat /\ cursor[c] <= colrev
  BY <1>1 DEF CursorBound, FeedTypeOK
<1>5. CursorBound'
  BY <1>2, <1>3, <1>4 DEF CursorBound
<1>6. ViewKnown'
  BY FollowKnown, ChangedKnown
<1>7. ResumeSafe'
  <2> SUFFICES ASSUME NEW c \in Client, NEW d \in Doc,
                      docs'[d].data # Null, docs'[d].rev <= cursor[c]
               PROVE  view[c][d] = docs'[d].data
    BY <1>3 DEF ResumeSafe, Live
  <2>1. d # r.id
    BY <1>2, <1>4
  <2> QED
    BY <1>1, <1>2, <2>1 DEF ResumeSafe, Live
<1> QED
  BY <1>5, <1>6, <1>7 DEF Copies

LEMMA ChangedFollows ==
    ASSUME FollowInv, NEW src, NEW r \in ChangeRequest, Changed(src, r),
           NEW c \in Client, NEW s \in Session, Follows(c, s), stage[s] = "open"
    PROVE  Follows(c, s)'
<1>1. FeedInv /\ TypeOK /\ FeedTypeOK /\ Lines /\ Quiet(s) /\ cursor[c] <= colrev
  BY DEF FollowInv, FeedInv, Mail, Copies, CursorBound
<1>2. /\ r.id \in Doc /\ colrev \in Nat /\ colrev' = colrev + 1
      /\ docs'[r.id].rev = colrev + 1 /\ docs'[r.id].data = Outcome(r)
      /\ \A d \in Doc : d # r.id => docs'[d] = docs[d]
      /\ docs'[r.id].data # Null =>
            IF r.op = "+" THEN docs[r.id].rev = 0
            ELSE docs[r.id].data # Null /\ docs[r.id].data \subseteq docs'[r.id].data
  BY <1>1, ChangedRow
<1>3. UNCHANGED <<view, cursor>> /\ SameSync(s) /\ cursor[c] \in Nat
  BY <1>1 DEF Changed, FeedTypeOK
<1>4. PICK b : b = ServerChange(r.op, r.id, Outcome(r), colrev + 1)
  OBVIOUS
<1>5. /\ b.kind = "change" /\ b.id = r.id /\ b.op = r.op /\ b.data = Outcome(r)
      /\ b.colrev = colrev + 1
  BY <1>4 DEF ServerChange
<1>6. Pending(s)' = IF s \in subscribers THEN Pending(s) \cup {b} ELSE Pending(s)
  BY <1>4 DEF Changed
<1>7. Asks(c, s) /\ SyncWhole(c, s)
  BY DEF Follows
<1>8. Asks(c, s)'
  BY <1>3, <1>7 DEF Asks, SameSync
<1>9. Failed(s) => Failed(s)'
  BY <1>6 DEF Failed
<1>10. ASSUME NEW d \in Doc, Awaits(s, d) PROVE Awaits(s, d)'
  <2>1. /\ call[s].kind = "sync" /\ call'[s] = call[s]
        /\ docs[d].rev > cursor[c] /\ call[s].colrev = cursor[c]
    BY <1>3, <1>7, <1>10 DEF Awaits, SameSync, Asks
  <2>2. docs'[d].rev > cursor[c]
    BY <1>1, <1>2, <1>3, <2>1
  <2> QED
    BY <2>1, <2>2 DEF Awaits

\* The document that changes is awaited, or its broadcast is sent.
<1>11. ~Failed(s) => Awaits(s, r.id)' \/ b \in Pending(s)'
  <2> SUFFICES ASSUME ~Failed(s), s \notin subscribers PROVE Awaits(s, r.id)'
    BY <1>6
  <2>1. s \in joining
    BY <1>1 DEF Lines, Line
  <2>2. call[s].kind = "sync"
    BY <1>1, <2>1 DEF Quiet
  <2>3. call'[s] = call[s] /\ call[s].colrev = cursor[c]
    BY <1>3, <1>7, <2>2 DEF SameSync, Asks
  <2>4. docs'[r.id].rev > cursor[c]
    BY <1>1, <1>2, <1>3
  <2> QED
    BY <2>2, <2>3, <2>4 DEF Awaits
<1>12. SyncWhole(c, s)'
  <2>1. ASSUME NEW n \in Pending(s)', n.kind = "sync_complete"
        PROVE  /\ cursor[c] <= n.colrev /\ n.colrev <= colrev'
               /\ \A m \in Pending(s)' :
                     m.kind = "doc" /\ docs'[m.id].rev <= n.colrev
                        => m.data = docs'[m.id].data
               /\ \A d \in Doc :
                     docs'[d].data # Null /\ docs'[d].rev <= n.colrev =>
                         \/ view[c][d] = docs'[d].data
                         \/ \E m \in Pending(s)' : m.kind = "doc" /\ m.id = d
    <3>1. n \in Pending(s)
      BY <1>5, <1>6, <2>1
    <3>2. n.colrev \in Nat
      BY <1>1, <2>1, <3>1, PendingTypes
    <3>3. /\ cursor[c] <= n.colrev /\ n.colrev <= colrev
          /\ \A m \in Pending(s) :
                m.kind = "doc" /\ docs[m.id].rev <= n.colrev => m.data = docs[m.id].data
          /\ \A d \in Doc :
                docs[d].data # Null /\ docs[d].rev <= n.colrev =>
                    \/ view[c][d] = docs[d].data
                    \/ \E m \in Pending(s) : m.kind = "doc" /\ m.id = d
      BY <1>7, <2>1, <3>1 DEF SyncWhole, Live
    <3>4. ~(docs'[r.id].rev <= n.colrev) /\ n.colrev <= colrev'
      BY <1>2, <3>2, <3>3
    <3>5. ASSUME NEW m \in Pending(s)', m.kind = "doc", docs'[m.id].rev <= n.colrev
          PROVE  m.data = docs'[m.id].data
      <4>1. m \in Pending(s)
        BY <1>5, <1>6, <3>5
      <4>2. m.id \in Doc
        BY <1>1, <3>5, <4>1, PendingTypes
      <4> QED
        BY <1>2, <3>3, <3>4, <3>5, <4>1, <4>2
    <3>6. ASSUME NEW d \in Doc, docs'[d].data # Null, docs'[d].rev <= n.colrev
          PROVE  \/ view[c][d] = docs'[d].data
                 \/ \E m \in Pending(s)' : m.kind = "doc" /\ m.id = d
      BY <1>2, <1>6, <3>3, <3>4, <3>6
    <3> QED
      BY <3>3, <3>4, <3>5, <3>6
  <2>2. ASSUME NEW m \in Pending(s)', m.kind = "doc"
        PROVE  \E n \in Pending(s)' : n.kind = "sync_complete"
    <3>1. m \in Pending(s)
      BY <1>5, <1>6, <2>2
    <3> QED
      BY <1>6, <1>7, <2>2, <3>1 DEF SyncWhole
  <2> QED
    BY <1>3, <2>1, <2>2 DEF SyncWhole, Live
<1>13. ASSUME ~Failed(s), Covered(c, s) PROVE Covered(c, s)'
  <2> SUFFICES ASSUME NEW d \in Doc, docs'[d].data # Null
               PROVE  \/ view[c][d] = docs'[d].data \/ Awaits(s, d)'
                      \/ \E m \in Pending(s)' : Says(m, d) /\ m.data = docs'[d].data
    BY <1>3 DEF Covered, Live, Says
  <2>1. CASE d = r.id
    BY <1>2, <1>5, <1>11, <1>13, <2>1 DEF Says
  <2>2. CASE d # r.id
    <3>1. docs'[d] = docs[d]
      BY <1>2, <2>2
    <3>2. \/ view[c][d] = docs[d].data \/ Awaits(s, d)
          \/ \E m \in Pending(s) : Says(m, d) /\ m.data = docs[d].data
      BY <1>13, <2>2, <3>1 DEF Covered, Live
    <3> QED
      BY <1>6, <1>10, <3>1, <3>2
  <2> QED
    BY <2>1, <2>2
<1>14. ASSUME ~Failed(s), Covered(c, s), NotBlank(c, s) PROVE NotBlank(c, s)'
  <2> DEFINE Finds(d, rev) ==
                 \/ view[c][d] # Null \/ Awaits(s, d)'
                 \/ \E n \in Pending(s)' :
                       /\ n.id = d
                       /\ \/ n.kind = "doc"
                          \/ n.kind = "change" /\ n.op = "+" /\ n.colrev < rev
  <2>1. ASSUME NEW m \in Pending(s), m.kind = "change", m.op = "*", Live(m.id)
        PROVE  /\ \/ view[c][m.id] # Null \/ Awaits(s, m.id)
                  \/ \E n \in Pending(s) :
                        /\ n.id = m.id
                        /\ \/ n.kind = "doc"
                           \/ n.kind = "change" /\ n.op = "+" /\ n.colrev < m.colrev
               /\ m.id \in Doc
    BY <1>1, <1>14, <2>1, PendingTypes DEF NotBlank
  <2>2. ASSUME NEW m \in Pending(s), m.kind = "change", m.op = "*", Live(m.id)
        PROVE  Finds(m.id, m.colrev)
    BY <1>6, <1>10, <2>1, <2>2
  <2>3. ASSUME NEW m \in Pending(s), m.kind = "change", m.op = "*", docs'[m.id].data # Null
        PROVE  Live(m.id)
    <3>1. m.id \in Doc /\ Issued(m) /\ Truthful(m) /\ docs[m.id].rev \in Nat
      BY <1>1, <2>3, PendingFacts, PendingTypes DEF TypeOK
    <3>2. docs[m.id].rev > 0
      BY <1>2, <2>3, <3>1 DEF Issued, Truthful
    <3> QED
      BY <1>2, <2>3, <3>1, <3>2 DEF Live
  \* The new update: whoever has, or is about to have, the document finds it.
  <2>4. ASSUME r.op = "*", Outcome(r) # Null PROVE Finds(r.id, colrev + 1)
    <3>1. docs[r.id].data # Null
      BY <1>2, <2>4
    <3>2. \/ view[c][r.id] = docs[r.id].data \/ Awaits(s, r.id)
          \/ \E k \in Pending(s) : Says(k, r.id) /\ k.data = docs[r.id].data
      BY <1>2, <1>14, <3>1 DEF Covered, Live
    <3>3. ASSUME NEW k \in Pending(s), Says(k, r.id), k.data = docs[r.id].data
          PROVE  Finds(r.id, colrev + 1)
      <4>1. CASE k.kind = "doc"
        BY <1>6, <3>3, <4>1 DEF Says
      <4>2. ASSUME NEW n \in Pending(s), n.kind = "change"
            PROVE  n.colrev \in 1..colrev /\ n.op \in Op
        BY <1>1, <4>2, PendingFacts, PendingTypes DEF Issued
      <4>3. CASE k.kind = "change" /\ k.op = "+"
        BY <1>2, <1>6, <3>3, <4>2, <4>3 DEF Says
      <4>4. CASE k.kind = "change" /\ k.op = "*"
        <5>1. Live(k.id) /\ k.id = r.id
          BY <3>1, <3>3 DEF Live, Says
        <5>2. \/ view[c][r.id] # Null \/ Awaits(s, r.id)
              \/ \E n \in Pending(s) :
                    /\ n.id = r.id
                    /\ \/ n.kind = "doc"
                       \/ n.kind = "change" /\ n.op = "+" /\ n.colrev < k.colrev
          BY <2>1, <4>4, <5>1
        <5>3. \A n \in Pending(s) : n.kind = "change" => n.colrev < colrev + 1
          BY <1>2, <4>2
        <5> QED
          BY <1>2, <1>6, <1>10, <5>2, <5>3
      <4>5. CASE k.kind = "change" /\ k.op = "-"
        BY <3>1, <3>3, <4>5 DEF FollowInv, UpdatesWhole
      <4> QED
        BY <3>3, <4>1, <4>2, <4>3, <4>4, <4>5 DEF Says, Op
    <3> QED
      BY <1>2, <1>10, <3>1, <3>2, <3>3
  <2> SUFFICES ASSUME NEW m \in Pending(s)', m.kind = "change", m.op = "*",
                      docs'[m.id].data # Null
               PROVE  Finds(m.id, m.colrev)
    BY <1>3 DEF NotBlank, Live
  <2>5. CASE m \in Pending(s)
    BY <2>2, <2>3, <2>5
  <2>6. CASE m = b
    BY <1>2, <1>5, <2>4, <2>6
  <2> QED
    BY <1>6, <2>5, <2>6
<1> QED
  BY <1>8, <1>9, <1>12, <1>13, <1>14 DEF Follows

LEMMA ChangedFollowing ==
    ASSUME FollowInv, NEW src, NEW r \in ChangeRequest, Changed(src, r)
    PROVE  Following'
<1> SUFFICES ASSUME NEW c \in Client, NEW n \in Slot, link'[c] = n
             PROVE  Follows(c, <<c, n>>)'
  BY DEF Following
<1>1. link[c] = n
  BY DEF Changed
<1>2. <<c, n>> \in Session
  BY FeedAssumption
<1>3. stage[<<c, n>>] = "open"
  BY <1>1 DEF FollowInv, Linked
<1>4. Follows(c, <<c, n>>)
  BY <1>1 DEF FollowInv, Following
<1> QED
  BY <1>2, <1>3, <1>4, ChangedFollows

-----------------------------------------------------------------------------
(* The invariant *)

\* Every kind of step leaves the clients following, with safe copies.
LEMMA KindsFollow ==
    ASSUME FollowInv, Linked', StepKinds
    PROVE  Following' /\ Copies'
<1>1. CASE Still
  BY <1>1, StillFollows
<1>2. ASSUME NEW c \in Client, NEW n \in Slot,
             Dialled(c, n) \/ HungUp(c, n) \/ ReadBy(c, n)
      PROVE  Following' /\ Copies'
  BY <1>2, DialledFollows, HungUpFollows, ReadCopies, ReadFollows
<1>3. ASSUME NEW s \in Session, ToldAll(s) \/ ToldFailure(s)
      PROVE  Following' /\ Copies'
  BY <1>3, AnswerFollows, FailureFollows
<1>4. ASSUME NEW src, NEW m \in ChangeRequest, Changed(src, m)
      PROVE  Following' /\ Copies'
  BY <1>4, ChangedFollowing, ChangedCopies
<1> QED
  BY <1>1, <1>2, <1>3, <1>4 DEF StepKinds

LEMMA FollowInit == FeedInit => FollowInv
<1> SUFFICES ASSUME FeedInit PROVE FollowInv
  OBVIOUS
<1>1. FeedInv /\ Init
  BY FeedInvInit DEF FeedInit
<1>2. \A s \in Session : Pending(s) = {} /\ wire[s] = <<>>
  BY <1>1, EmptySeq DEF Init, Pending, Range
<1>3. FeedTypeOK /\ Copies
  BY <1>1 DEF FeedInit, Init, FeedTypeOK, Data, Copies, CursorBound, ViewKnown, ResumeSafe,
              Live, NoRow
<1>4. Linked
  BY <1>1, FeedAssumption DEF FeedInit, Init, Linked
<1>5. Following
  BY FeedAssumption DEF FeedInit, Following
<1>6. Lines
  BY <1>1, <1>2 DEF Init, Lines, Line, NoCall
<1>7. WiresOrdered
  BY <1>2 DEF WiresOrdered, Ordered
<1>8. \A s \in Session : Mail(s)
  BY <1>1, <1>2 DEF Init, Mail, Quiet, LastWord
<1>9. UpdatesWhole
  BY <1>2 DEF UpdatesWhole
<1> QED
  BY <1>1, <1>3, <1>4, <1>5, <1>6, <1>7, <1>8, <1>9 DEF FollowInv

LEMMA FollowStep ==
    ASSUME SubscribeFirst, FollowInv, [FeedNext]_feedVars
    PROVE  FollowInv'
<1>1. [Next]_colVars
  BY FeedSteps DEF FollowInv
<1>2. FeedInv'
  BY <1>1, FeedInvStep DEF FollowInv
<1>3. FeedInv /\ TypeOK /\ RowsOrdered /\ FeedIssued /\ MailSubscribed /\ FeedInOrder
  BY DEF FollowInv, FeedInv
<1>4. FeedTypeOK' /\ UpdatesWhole'
  BY <1>1, <1>3, FeedTypeStep, UpdatesWholeStep DEF FollowInv
<1>5. Linked' /\ Lines' /\ WiresOrdered'
  BY <1>3, LinkedStep, LinesStep, OrderedStep DEF FollowInv
<1>6. StepKinds
  BY <1>3, StepIsKind DEF FollowInv
<1>7. ASSUME NEW s \in Session PROVE Mail(s)'
  <2>1. Quiet(s) /\ LastWord(s) /\ \A m \in Pending(s) : DocTrue(m)
    BY DEF FollowInv, Mail
  <2>2. Quiet(s)'
    BY <1>3, <1>6, <2>1, QuietStep DEF FollowInv
  <2>3. LastWord(s)'
    BY <1>3, <1>6, <2>1, LastWordStep DEF FollowInv
  <2>4. \A m \in Pending(s)' : DocTrue(m)'
    BY <1>3, <1>6, <2>1, DocTrueStep DEF FollowInv
  <2> QED
    BY <2>2, <2>3, <2>4 DEF Mail
<1>8. Following' /\ Copies'
  BY <1>5, <1>6, KindsFollow
<1> QED
  BY <1>2, <1>4, <1>5, <1>7, <1>8 DEF FollowInv

LEMMA KnownStep == KnownInv /\ [FeedNext]_feedVars => KnownInv'
<1> SUFFICES ASSUME KnownInv, [FeedNext]_feedVars PROVE KnownInv'
  OBVIOUS
<1>1. TypeOK /\ RowsOrdered /\ FeedIssued /\ MailSubscribed
  BY DEF KnownInv, FeedInv
<1>2. [Next]_colVars
  BY FeedSteps DEF KnownInv
<1>3. FeedInv' /\ FeedTypeOK' /\ UpdatesWhole' /\ Linked' /\ Lines' /\ WiresOrdered'
  BY <1>1, <1>2, FeedInvStep, FeedTypeStep, UpdatesWholeStep, LinkedStep, LinesStep,
     OrderedStep
     DEF KnownInv
<1>4. StepKinds
  BY <1>1, StepIsKind DEF KnownInv
<1>5. \A s \in Session : \A m \in Pending(s)' : DocTrue(m)'
  BY <1>4, DocTrueStep DEF KnownInv
<1>6. ViewKnown'
  <2>1. CASE UNCHANGED <<docs, view>>
    BY <2>1 DEF KnownInv, ViewKnown, Exists, Live
  <2>2. ASSUME NEW c \in Client, NEW n \in Slot,
               Dialled(c, n) \/ HungUp(c, n) \/ ReadBy(c, n)
        PROVE  ViewKnown'
    BY <2>1, <2>2, ReadKnown DEF Dialled, HungUp
  <2>3. ASSUME NEW s \in Session, ToldAll(s) \/ ToldFailure(s) PROVE ViewKnown'
    BY <2>1, <2>3 DEF ToldAll, ToldFailure, Told
  <2>4. ASSUME NEW src, NEW m \in ChangeRequest, Changed(src, m) PROVE ViewKnown'
    BY <2>4, ChangedKnown
  <2> QED
    BY <1>4, <2>1, <2>2, <2>3, <2>4 DEF StepKinds, Still
<1> QED
  BY <1>3, <1>5, <1>6 DEF KnownInv

LEMMA KnownAlways == FeedSpec => []KnownInv
BY FollowInit, FollowKnown, KnownStep, PTL DEF FeedSpec

LEMMA FollowAlways ==
    ASSUME SubscribeFirst
    PROVE  FeedSpec => []FollowInv
<1>1. FollowInv /\ [FeedNext]_feedVars => FollowInv'
  BY FollowStep
<1> QED
  BY <1>1, FollowInit, PTL DEF FeedSpec

-----------------------------------------------------------------------------
(* A copy that is dropped does not come back *)

\* Message m creates document d; or is such that a client without d has it then.
Creates(m, d) == m.kind = "change" /\ m.op = "+" /\ m.id = d

Gives(m, d) == Says(m, d) /\ m.data # Null /\ (m.kind = "doc" \/ m.op = "+")

\* Session s may be told of a document's creation after a sync has told of the
\* document: of its deletion, only if client c has no copy.
Early(c, s) ==
    /\ call[s].kind = "sync" =>
          \A m \in Pending(s), d \in Doc : Creates(m, d) => view[c][d] = Null
    /\ \A m, n \in Pending(s), d \in Doc :
          m.kind = "doc" /\ m.id = d /\ m.data = Null /\ Creates(n, d) => view[c][d] = Null
    /\ \A m, n \in Pending(s) :
          m.kind = "doc" /\ n.kind = "doc" /\ m.id = n.id => m.data = n.data

Earlys == \A c \in Client, n \in Slot : link[c] = n => Early(c, <<c, n>>)

\* Client c has no copy of document d, which is deleted, and will not be given any.
Dropped(c, d) ==
    /\ Gone(d) /\ view[c][d] = Null
    /\ \A n \in Slot : link[c] = n => \A m \in Pending(<<c, n>>) : ~Gives(m, d)

Drops(c, d) == view[c][d] # Null /\ view'[c][d] = Null

LEMMA EarlyFrame ==
    ASSUME NEW c \in Client, NEW s \in Session, Early(c, s),
           Pending(s)' = Pending(s), view'[c] = view[c],
           call'[s].kind = "sync" => call[s].kind = "sync"
    PROVE  Early(c, s)'
BY DEF Early, Creates

LEMMA ReadEarly ==
    ASSUME KnownInv, NEW c \in Client, NEW n \in Slot, ReadBy(c, n), Early(c, <<c, n>>)
    PROVE  Early(c, <<c, n>>)'
<1> DEFINE s == <<c, n>>
           h == Head(wire[s])
<1>1. s \in Session /\ TypeOK /\ FeedInOrder /\ FeedIssued /\ WiresOrdered /\ FeedTypeOK
  BY FeedAssumption DEF KnownInv, FeedInv
<1>2. /\ Received(s) /\ Pending(s) = {h} \cup Pending(s)' /\ UNCHANGED call
      /\ view' = IF h.kind = "sync_complete" THEN view
                 ELSE [view EXCEPT ![c][h.id] = Applied(@, h)]
  BY DEF ReadBy
<1>3. call[s].kind # "sync"
  <2>1. Line(s) /\ wire[s] # <<>>
    BY <1>1, <1>2, PendingReceived DEF KnownInv, Lines, Received
  <2> QED
    BY <2>1 DEF Line
<1>4. \A m, k \in Pending(s)' :
         m.kind = "doc" /\ k.kind = "doc" /\ m.id = k.id => m.data = k.data
  BY <1>2 DEF Early
<1>5. ASSUME NEW m \in Pending(s)', NEW k \in Pending(s)', NEW d \in Doc,
             m.kind = "doc", m.id = d, m.data = Null, Creates(k, d)
      PROVE  view'[c][d] = Null
  <2>1. view[c][d] = Null
    BY <1>2, <1>5 DEF Early
  <2>2. h.kind = "doc"
    BY <1>1, <1>2, <1>5, HeadFirst
  <2>3. h.id = d => h.data = Null
    BY <1>2, <1>5, <2>2 DEF Early
  <2>4. view' = [view EXCEPT ![c][h.id] = h.data]
    BY <1>2, <2>2 DEF Applied
  <2> QED
    BY <1>1, <2>1, <2>3, <2>4 DEF FeedTypeOK
<1> QED
  BY <1>2, <1>3, <1>4, <1>5 DEF Early, Creates

LEMMA ToldEarly ==
    ASSUME KnownInv, NEW c \in Client, NEW n \in Slot, Early(c, <<c, n>>),
           NEW s \in Session, ToldAll(s) \/ ToldFailure(s)
    PROVE  Early(c, <<c, n>>)'
<1>1. <<c, n>> \in Session /\ TypeOK
  BY FeedAssumption DEF KnownInv, FeedInv
<1>2. /\ Told(s) /\ UNCHANGED <<docs, view>>
      /\ \A t \in Session : t # s => Pending(t)' = Pending(t) /\ call'[t] = call[t]
      /\ call'[s].kind # "sync" /\ \A m \in Pending(s) : m.kind = "change"
  BY <1>1 DEF ToldAll, ToldFailure, Told, TypeOK, NoCall
<1>3. CASE s # <<c, n>>
  BY <1>1, <1>2, <1>3, EarlyFrame
<1>4. CASE s = <<c, n>>
  <2>1. \A m \in Pending(s)' : \/ m \in Pending(s)
                               \/ m.kind = "doc" /\ m.id \in Doc /\ m.data = docs[m.id].data
                               \/ m.kind \in {"sync_complete", "sync_error"}
    BY DEF ToldAll, ToldFailure, SyncDocs, SyncComplete
  <2>2. \A m \in Pending(s), d \in Doc : Creates(m, d) => view[c][d] = Null
    BY <1>2, <1>4 DEF Early, Told
  <2>3. \A m \in Pending(s)', d \in Doc : Creates(m, d) => view[c][d] = Null
    BY <2>1, <2>2 DEF Creates
  <2>4. \A m, k \in Pending(s)' :
           m.kind = "doc" /\ k.kind = "doc" /\ m.id = k.id => m.data = k.data
    BY <1>2, <2>1
  <2> QED
    BY <1>2, <1>4, <2>3, <2>4 DEF Early, Creates
<1> QED
  BY <1>3, <1>4

LEMMA ChangedEarly ==
    ASSUME KnownInv, NEW src, NEW r \in ChangeRequest, Changed(src, r),
           NEW c \in Client, NEW n \in Slot, Early(c, <<c, n>>)
    PROVE  Early(c, <<c, n>>)'
<1> DEFINE s == <<c, n>>
           new == ServerChange(r.op, r.id, Outcome(r), colrev + 1)
<1>1. s \in Session /\ TypeOK /\ ViewKnown /\ \A m \in Pending(s) : DocTrue(m)
  BY FeedAssumption DEF KnownInv, FeedInv
<1>2. /\ UNCHANGED view /\ Accepted(src, r) /\ SameSync(s)
      /\ \A m \in Pending(s)' : m \in Pending(s) \/ m = new
  BY <1>1 DEF Changed
<1>3. new.kind = "change" /\ new.op = r.op /\ new.id = r.id /\ r.id \in Doc
  BY RequestTypes DEF ServerChange
<1>4. ASSUME NEW d \in Doc, Creates(new, d) PROVE ~Exists(d)
  BY <1>1, <1>2, <1>3, <1>4, OutcomeTypes DEF Accepted, Creates
<1>5. \A d \in Doc : ~Exists(d) => view[c][d] = Null
  BY <1>1 DEF ViewKnown
<1>6. \A m \in Pending(s) : m.kind = "doc" => docs[m.id].rev > 0
  BY <1>1 DEF DocTrue
<1> HIDE DEF new
<1>7. \A m \in Pending(s)' : m.kind = "doc" => m \in Pending(s)
  BY <1>2, <1>3
<1>8. ASSUME NEW m \in Pending(s)', NEW d \in Doc, Creates(m, d)
      PROVE  view[c][d] = Null \/ m \in Pending(s)
  BY <1>2, <1>4, <1>5, <1>8
<1> QED
  BY <1>2, <1>7, <1>8 DEF Early, SameSync, Creates

LEMMA EarlysStep ==
    ASSUME KnownInv, Earlys, [FeedNext]_feedVars
    PROVE  Earlys'
<1>0. /\ TypeOK /\ RowsOrdered /\ FeedTypeOK /\ Linked /\ Lines /\ FeedIssued
      /\ MailSubscribed /\ Linked'
  BY KnownStep DEF KnownInv, FeedInv
<1> SUFFICES ASSUME NEW c \in Client, NEW n \in Slot, link'[c] = n
             PROVE  Early(c, <<c, n>>)'
  BY DEF Earlys
<1> DEFINE s == <<c, n>>
<1>1. s \in Session /\ (link[c] = n => Early(c, s)) /\ stage'[s] = "open"
  BY <1>0, FeedAssumption DEF Earlys, Linked
<1>2. StepKinds
  BY <1>0, StepIsKind
<1>3. CASE Still
  <2>1. link[c] = n /\ view'[c] = view[c] /\ Pending(s)' = Pending(s) /\ SameSync(s)
    BY <1>1, <1>3 DEF Still
  <2> QED
    BY <1>1, <2>1, EarlyFrame DEF SameSync
<1>4. ASSUME NEW e \in Client, NEW k \in Slot, Dialled(e, k) \/ HungUp(e, k) \/ ReadBy(e, k)
      PROVE  Early(c, s)'
  <2>1. CASE e # c
    <3>1. link'[c] = link[c] /\ view'[c] = view[c] /\ s # <<e, k>>
      BY <1>0, <1>4, <2>1, ReadViews DEF Dialled, HungUp, ReadBy, FeedTypeOK
    <3>2. Pending(s)' = Pending(s) /\ call'[s] = call[s]
      BY <1>0, <1>1, <1>4, <3>1 DEF Dialled, HungUp, ReadBy, TypeOK
    <3> QED
      BY <1>1, <3>1, <3>2, EarlyFrame
  <2>2. CASE e = c /\ Dialled(e, k)
    <3>1. k = n
      BY <1>0, <2>2 DEF Dialled, FeedTypeOK
    <3>2. Pending(s)' = {}
      BY <1>1, <2>2, <3>1 DEF Dialled
    <3> QED
      BY <3>2 DEF Early
  <2>3. CASE e = c /\ HungUp(e, k)
    BY <1>0, <2>3, FeedAssumption DEF HungUp, FeedTypeOK
  <2>4. CASE e = c /\ ReadBy(e, k)
    <3>1. k = n /\ link[c] = n
      BY <2>4 DEF ReadBy
    <3> QED
      BY <1>1, <2>4, <3>1, ReadEarly
  <2> QED
    BY <1>4, <2>1, <2>2, <2>3, <2>4
<1>5. ASSUME NEW t \in Session, ToldAll(t) \/ ToldFailure(t) PROVE Early(c, s)'
  <2>1. UNCHANGED link
    BY <1>5 DEF ToldAll, ToldFailure, Told
  <2> QED
    BY <1>1, <1>5, <2>1, ToldEarly
<1>6. ASSUME NEW src, NEW r \in ChangeRequest, Changed(src, r) PROVE Early(c, s)'
  BY <1>1, <1>6, ChangedEarly DEF Changed
<1> QED
  BY <1>2, <1>3, <1>4, <1>5, <1>6 DEF StepKinds

LEMMA EarlysInit == FeedInit => Earlys
BY FeedAssumption DEF FeedInit, Earlys

\* A row that is deleted is final.
LEMMA GoneRow ==
    ASSUME TypeOK, NEW src, NEW r \in ChangeRequest, Accepted(src, r), NEW d \in Doc, Gone(d)
    PROVE  r.id # d /\ docs'[d] = docs[d]
BY AcceptedRow, OutcomeTypes, RequestTypes DEF Accepted, Gone

LEMMA ReadDropped ==
    ASSUME KnownInv, NEW c \in Client, NEW n \in Slot, ReadBy(c, n), NEW d \in Doc,
           Dropped(c, d)
    PROVE  Dropped(c, d)'
<1> DEFINE s == <<c, n>>
<1>1. PICK h : h = Head(wire[s])
  OBVIOUS
<1>2. /\ UNCHANGED <<docs, link>> /\ Pending(s) = {h} \cup Pending(s)' /\ link[c] = n
      /\ h.kind \in {"doc", "change", "sync_complete"}
  BY <1>1 DEF ReadBy
<1>3. view'[c][d] = Null
  <2>1. h.kind # "sync_complete" => view'[c][h.id] = Applied(view[c][h.id], h)
    BY <1>1, ReadViews
  <2>2. h.kind = "sync_complete" \/ d # h.id => view'[c][d] = view[c][d]
    BY <1>1, ReadViews
  <2>3. ~Gives(h, d)
    BY <1>2 DEF Dropped
  <2>4. h.kind = "change" => h.op \in Op
    <3>1. TypeOK /\ s \in Session /\ h \in Pending(s)
      BY <1>2, FeedAssumption DEF KnownInv, FeedInv
    <3> QED
      BY <3>1, PendingTypes
  <2>5. CASE h.kind # "sync_complete" /\ d = h.id
    <3>1. h.data = Null \/ (h.kind = "change" /\ h.op = "*")
      <4>1. h.kind = "change" /\ h.op = "-" => h.data = Null
        <5>1. UpdatesWhole /\ s \in Session /\ h \in Pending(s)
          BY <1>2, FeedAssumption DEF KnownInv
        <5> QED
          BY <5>1 DEF UpdatesWhole
      <4> QED
        BY <1>2, <2>3, <2>4, <2>5, <4>1 DEF Gives, Says, Op
    <3>2. view[c][d] = Null
      BY DEF Dropped
    <3>3. Applied(Null, h) = Null
      BY <3>1 DEF Applied, Merge
    <3> QED
      BY <2>1, <2>5, <3>2, <3>3
  <2> QED
    BY <2>2, <2>5 DEF Dropped
<1>4. \A k \in Slot : link'[c] = k => k = n
  BY <1>2
<1> QED
  BY <1>2, <1>3, <1>4 DEF Dropped, Gone, Exists, Live, Gives, Says

\* A copy goes with word of the document's deletion, and nothing that comes after
\* that brings the document.
LEMMA ReadDrops ==
    ASSUME KnownInv, NEW c \in Client, NEW n \in Slot, ReadBy(c, n), Early(c, <<c, n>>),
           NEW d \in Doc, Drops(c, d)
    PROVE  Dropped(c, d)'
<1> DEFINE s == <<c, n>>
<1>0. /\ s \in Session /\ TypeOK /\ FeedTypeOK /\ FeedInOrder /\ FeedIssued /\ WiresOrdered
      /\ FeedTruthful /\ UpdatesWhole
  BY FeedAssumption DEF KnownInv, FeedInv
<1>1. PICK h : h = Head(wire[s])
  OBVIOUS
<1>2. /\ UNCHANGED <<docs, link>> /\ Received(s) /\ link[c] = n
      /\ Pending(s) = {h} \cup Pending(s)'
      /\ h.kind \in {"doc", "change", "sync_complete"}
  BY <1>1 DEF ReadBy
<1>3. /\ h.kind # "sync_complete" /\ h.id = d
      /\ Applied(view[c][d], h) = Null
  <2>1. h.kind # "sync_complete" => view'[c][h.id] = Applied(view[c][h.id], h)
    BY <1>1, ReadViews
  <2>2. h.kind = "sync_complete" \/ d # h.id => view'[c][d] = view[c][d]
    BY <1>1, ReadViews
  <2> QED
    BY <2>1, <2>2 DEF Drops
<1>4. h.data = Null
  <2>1. CASE h.kind = "change" /\ h.op = "*"
    <3>1. h.data \in Version /\ view[c][d] \in Version
      BY <1>0, <1>2, <2>1 DEF UpdatesWhole, FeedTypeOK, Data, Drops
    <3> QED
      BY <1>3, <2>1, <3>1, NullAssumption DEF Applied, Merge, Drops, Version
  <2> QED
    BY <1>3, <2>1 DEF Applied
<1>5. \A m \in Pending(s) : m.kind = "change" => Truthful(m) /\ m.colrev \in Nat /\ m.id \in Doc
  <2>1. \A m \in Pending(s) : Truthful(m)
    BY <1>0 DEF Pending, FeedTruthful, Range
  <2> QED
    BY <1>0, <2>1, PendingTypes
<1>6. docs[d].rev \in Nat
  BY <1>0 DEF TypeOK
<1>7. Gone(d)
  <2>1. CASE h.kind = "doc"
    <3>1. DocTrue(h)
      BY <1>2, <1>0 DEF KnownInv
    <3> QED
      BY <1>3, <1>4, <2>1, <3>1 DEF DocTrue, Gone, Exists
  <2>2. CASE h.kind = "change"
    <3>1. Issued(h)
      BY <1>0, <1>2 DEF FeedIssued, Pending, Range
    <3>2. Truthful(h) /\ h.colrev \in Nat /\ h.colrev > 0
      <4>1. h \in Pending(s)
        BY <1>2
      <4> QED
        BY <1>5, <2>2, <3>1, <4>1 DEF Issued
    <3>3. docs[d] = [rev |-> h.colrev, data |-> h.data]
      BY <1>3, <1>4, <2>2, <3>2 DEF Truthful
    <3>4. docs[d].rev = h.colrev /\ docs[d].data = Null
      BY <1>4, <3>3
    <3> QED
      BY <3>2, <3>4 DEF Gone, Exists, Live
  <2> QED
    BY <1>2, <1>3, <2>1, <2>2
<1>8. ASSUME NEW m \in Pending(s)', Gives(m, d) PROVE FALSE
  <2>1. /\ m.kind \in {"doc", "sync_complete"} => h.kind = "doc"
        /\ h.kind = "change" /\ m.kind = "change" => h.colrev < m.colrev
    BY <1>0, <1>1, <1>2, <1>8, HeadFirst
  <2>2. m \in Pending(s) /\ h \in Pending(s)
    BY <1>2, <1>8
  <2>3. CASE m.kind = "doc"
    BY <1>3, <1>4, <1>8, <2>1, <2>2, <2>3 DEF Gives, Says, Early
  <2>4. CASE m.kind = "change" /\ h.kind = "doc"
    <3>1. Creates(m, d)
      BY <1>8, <2>4 DEF Gives, Says, Creates
    <3> QED
      BY <1>3, <1>4, <2>2, <2>4, <3>1 DEF Early, Drops
  <2>5. CASE m.kind = "change" /\ h.kind = "change"
    <3>1. m.id = d /\ m.data # Null
      BY <1>8 DEF Gives, Says
    <3>2. /\ docs[d].rev = h.colrev \/ (h.colrev < docs[d].rev /\ h.data # Null)
          /\ docs[d].rev = m.colrev \/ m.colrev < docs[d].rev
          /\ h.colrev \in Nat /\ m.colrev \in Nat
      <4>1. Truthful(h) /\ Truthful(m)
        BY <1>5, <2>2, <2>5
      <4>2. docs[d] = [rev |-> h.colrev, data |-> h.data] => docs[d].rev = h.colrev
        OBVIOUS
      <4>3. docs[d] = [rev |-> m.colrev, data |-> m.data] => docs[d].rev = m.colrev
        OBVIOUS
      <4> QED
        BY <1>3, <1>5, <2>2, <2>5, <3>1, <4>1, <4>2, <4>3 DEF Truthful
    <3> QED
      BY <1>4, <1>6, <2>1, <2>5, <3>2
  <2> QED
    BY <1>2, <1>3, <1>8, <2>3, <2>4, <2>5 DEF Gives, Says
<1>9. view'[c][d] = Null
  BY DEF Drops
<1>10. \A k \in Slot : link'[c] = k => k = n
  BY <1>2
<1> QED
  BY <1>2, <1>7, <1>8, <1>9, <1>10 DEF Dropped, Gone, Exists, Live, Gives, Says

LEMMA DroppedStep ==
    ASSUME KnownInv, Earlys, [FeedNext]_feedVars, NEW c \in Client, NEW d \in Doc,
           Dropped(c, d) \/ Drops(c, d)
    PROVE  Dropped(c, d)'
<1>0. /\ TypeOK /\ RowsOrdered /\ FeedTypeOK /\ Linked /\ Lines /\ FeedIssued
      /\ MailSubscribed
  BY DEF KnownInv, FeedInv
<1>1. \A n \in Slot : <<c, n>> \in Session
  BY FeedAssumption
<1>2. StepKinds
  BY <1>0, StepIsKind
<1>3. ASSUME Dropped(c, d), view'[c] = view[c], docs'[d] = docs[d],
             \A n \in Slot : link'[c] = n =>
                link[c] = n /\ \A m \in Pending(<<c, n>>)' : m \in Pending(<<c, n>>) \/ ~Gives(m, d)
      PROVE  Dropped(c, d)'
  BY <1>3 DEF Dropped, Gone, Exists, Live, Gives, Says
<1>4. view'[c] = view[c] => Dropped(c, d)
  BY DEF Drops
<1>5. CASE Still
  BY <1>1, <1>3, <1>4, <1>5 DEF Still
<1>6. ASSUME NEW e \in Client, NEW k \in Slot, Dialled(e, k) \/ HungUp(e, k) \/ ReadBy(e, k)
      PROVE  Dropped(c, d)'
  <2>1. CASE e # c
    <3>1. view'[c] = view[c] /\ UNCHANGED docs
      BY <1>6, <2>1, ReadViews DEF Dialled, HungUp, ReadBy
    <3>2. link'[c] = link[c]
      BY <1>0, <1>6, <2>1 DEF Dialled, HungUp, ReadBy, FeedTypeOK
    <3>3. \A n \in Slot : Pending(<<c, n>>)' = Pending(<<c, n>>)
      BY <1>1, <1>6, <2>1 DEF Dialled, HungUp, ReadBy
    <3> QED
      BY <1>3, <1>4, <3>1, <3>2, <3>3
  <2>2. CASE e = c /\ Dialled(e, k)
    <3>1. \A n \in Slot : link'[c] = n => Pending(<<c, n>>)' = {}
      BY <1>0, <1>1, <2>2 DEF Dialled, FeedTypeOK
    <3>2. view'[c] = view[c] /\ UNCHANGED docs
      BY <2>2 DEF Dialled
    <3> QED
      BY <1>4, <3>1, <3>2 DEF Dropped, Gone, Exists, Live
  <2>3. CASE e = c /\ HungUp(e, k)
    <3>1. \A n \in Slot : link'[c] # n
      BY <1>0, <2>3, FeedAssumption DEF HungUp, FeedTypeOK
    <3> QED
      BY <1>3, <1>4, <2>3, <3>1 DEF HungUp
  <2>4. CASE e = c /\ ReadBy(e, k)
    <3>1. Early(c, <<c, k>>)
      BY <2>4 DEF ReadBy, Earlys
    <3> QED
      BY <2>4, <3>1, ReadDropped, ReadDrops
  <2> QED
    BY <1>6, <2>1, <2>2, <2>3, <2>4
<1>7. ASSUME NEW s \in Session, ToldAll(s) \/ ToldFailure(s) PROVE Dropped(c, d)'
  <2>1. /\ UNCHANGED <<docs, view, link>>
        /\ \A t \in Session : t # s => Pending(t)' = Pending(t)
    BY <1>7 DEF ToldAll, ToldFailure, Told
  <2>2. Dropped(c, d)
    BY <1>4, <2>1
  <2>3. \A m \in Pending(s)' : m \in Pending(s) \/ ~Gives(m, d)
    BY <1>7, <2>2 DEF ToldAll, ToldFailure, SyncDocs, SyncComplete, Gives, Says, Dropped, Gone,
                      Live
  <2> QED
    BY <1>1, <1>3, <2>1, <2>2, <2>3
<1>8. ASSUME NEW src, NEW r \in ChangeRequest, Changed(src, r) PROVE Dropped(c, d)'
  <2>1. UNCHANGED <<view, link>> /\ Accepted(src, r)
    BY <1>8 DEF Changed
  <2>2. Dropped(c, d)
    BY <1>4, <2>1
  <2>3. r.id # d /\ docs'[d] = docs[d]
    BY <1>0, <2>1, <2>2, GoneRow DEF Dropped
  <2>4. ~Gives(ServerChange(r.op, r.id, Outcome(r), colrev + 1), d)
    BY <2>3 DEF Gives, Says, ServerChange
  <2>5. \A n \in Slot : \A m \in Pending(<<c, n>>)' : m \in Pending(<<c, n>>) \/ ~Gives(m, d)
    BY <1>1, <1>8, <2>4 DEF Changed
  <2> QED
    BY <1>3, <2>1, <2>2, <2>3, <2>5
<1> QED
  BY <1>2, <1>5, <1>6, <1>7, <1>8 DEF StepKinds

LEMMA DroppedStays ==
    KnownInv /\ Earlys /\ [FeedNext]_feedVars =>
       \A c \in Client, d \in Doc : Dropped(c, d) \/ Drops(c, d) => Dropped(c, d)'
BY DroppedStep

-----------------------------------------------------------------------------
(* Deletions *)

\* An empty client asks for no deletions (see Missing): that it has no copy of
\* what was deleted rests on its having none at all until its first sync is
\* answered, and so on its staying connected until then.

Empty(c) == \A d \in Doc : view[c][d] = Null

\* A client that is to connect with revision 0 has nothing.
StartsEmpty(c) ==
    link[c] = NoSlot /\ c \notin stopped /\ cursor[c] = 0 => Empty(c)

\* Of what is deleted the client has no copy, or will be told.
CoveredGone(c, s) ==
    \A d \in Doc : Gone(d) =>
        \/ view[c][d] = Null
        \/ Awaits(s, d) /\ call[s].colrev # 0
        \/ \E m \in Pending(s) : Says(m, d) /\ m.data = Null

\* A sync brings the deletions that the client lacks.
SyncWholeGone(c, s) ==
    \A n \in Pending(s) : n.kind = "sync_complete" =>
        \A d \in Doc : Gone(d) /\ docs[d].rev <= n.colrev =>
            \/ view[c][d] = Null
            \/ \E m \in Pending(s) : m.kind = "doc" /\ m.id = d

FollowsGone(c, s) ==
    /\ call[s].kind = "sync" /\ cursor[c] = 0 => Empty(c)
    /\ SyncWholeGone(c, s)
    /\ Failed(s) \/ CoveredGone(c, s)

FollowingGone(c) == \A n \in Slot : link[c] = n => FollowsGone(c, <<c, n>>)

GoneInv(c) == FollowingGone(c) /\ DeletionsSafeFor(c) /\ StartsEmpty(c)

\* Client c does not lose a connection before its first sync, or gives up.
Uncut(c) == Lose(c) /\ c \notin stopped => cursor[c] # 0

LEMMA GoneFrame ==
    ASSUME NEW c \in Client, NEW s \in Session, FollowsGone(c, s),
           UNCHANGED docs, view'[c] = view[c], cursor'[c] = cursor[c],
           Pending(s)' = Pending(s), SameSync(s)
    PROVE  FollowsGone(c, s)'
<1>1. Failed(s)' <=> Failed(s)
  BY DEF Failed
<1>2. \A d : Awaits(s, d) /\ call[s].colrev # 0 => Awaits(s, d)' /\ call'[s].colrev # 0
  BY DEF Awaits, SameSync
<1>3. CoveredGone(c, s) => CoveredGone(c, s)'
  BY <1>2 DEF CoveredGone, Gone, Exists, Live
<1>4. SyncWholeGone(c, s) => SyncWholeGone(c, s)'
  BY DEF SyncWholeGone, Gone, Exists, Live
<1> QED
  BY <1>1, <1>3, <1>4 DEF FollowsGone, Empty, SameSync

\* What a step does to another client, or does without changing the documents.
LEMMA GoneElsewhere ==
    ASSUME FollowInv, NEW c \in Client, FollowingGone(c), DeletionsSafeFor(c),
           UNCHANGED docs, view'[c] = view[c], cursor'[c] = cursor[c],
           \A n \in Slot : link'[c] = n =>
               /\ link[c] = n /\ Pending(<<c, n>>)' = Pending(<<c, n>>)
               /\ SameSync(<<c, n>>)
    PROVE  FollowingGone(c)' /\ DeletionsSafeFor(c)'
<1>1. ASSUME NEW n \in Slot, link'[c] = n PROVE FollowsGone(c, <<c, n>>)'
  <2>1. <<c, n>> \in Session /\ FollowsGone(c, <<c, n>>)
    BY <1>1, FeedAssumption DEF FollowingGone
  <2> QED
    BY <1>1, <2>1, GoneFrame
<1>2. DeletionsSafeFor(c)'
  BY DEF DeletionsSafeFor, Gone, Exists, Live
<1> QED
  BY <1>1, <1>2 DEF FollowingGone

LEMMA DialledGone ==
    ASSUME FollowInv, NEW c \in Client, GoneInv(c), NEW n \in Slot, Dialled(c, n)
    PROVE  FollowingGone(c)' /\ DeletionsSafeFor(c)'
<1> DEFINE s == <<c, n>>
<1>0. FeedTypeOK /\ TypeOK /\ s \in Session
  BY FeedAssumption DEF FollowInv, FeedInv
<1>1. link'[c] = n /\ UNCHANGED <<docs, view, cursor>> /\ Pending(s)' = {}
  BY <1>0 DEF Dialled, FeedTypeOK
<1>2. call'[s].kind = "sync" /\ call'[s].colrev = cursor[c]
  BY <1>0 DEF Dialled, TypeOK
<1>3. cursor[c] = 0 => Empty(c)
  BY DEF Dialled, GoneInv, StartsEmpty
<1>4. ASSUME NEW d \in Doc, docs[d].rev > 0, docs[d].data = Null, view[c][d] # Null
      PROVE  docs[d].rev > cursor[c] /\ cursor[c] # 0
  <2>1. docs[d].rev \in Nat /\ cursor[c] \in Nat
    BY <1>0 DEF TypeOK, FeedTypeOK
  <2> QED
    BY <1>3, <1>4, <2>1 DEF GoneInv, DeletionsSafeFor, Gone, Exists, Live, Empty
<1>5. CoveredGone(c, s)'
  BY <1>1, <1>2, <1>4 DEF CoveredGone, Gone, Exists, Live, Awaits
<1>6. SyncWholeGone(c, s)'
  BY <1>1 DEF SyncWholeGone
<1>7. FollowsGone(c, s)'
  BY <1>1, <1>3, <1>5, <1>6 DEF FollowsGone, Empty
<1>8. DeletionsSafeFor(c)'
  BY <1>1 DEF GoneInv, DeletionsSafeFor, Gone, Exists, Live
<1> QED
  BY <1>1, <1>7, <1>8 DEF FollowingGone

LEMMA FailureGone ==
    ASSUME FollowInv, NEW c \in Client, GoneInv(c), NEW s \in Session, ToldFailure(s)
    PROVE  FollowingGone(c)' /\ DeletionsSafeFor(c)'
<1>0. TypeOK /\ UNCHANGED <<docs, view, cursor, link>>
  BY DEF FollowInv, FeedInv, ToldFailure, Told
<1>1. CASE \A n \in Slot : link[c] = n => <<c, n>> # s
  <2>1. \A n \in Slot : link[c] = n =>
            Pending(<<c, n>>)' = Pending(<<c, n>>) /\ SameSync(<<c, n>>)
    BY <1>0, <1>1, FeedAssumption DEF ToldFailure, Told, SameSync, TypeOK
  <2> QED
    BY <1>0, <2>1, GoneElsewhere DEF GoneInv
<1>2. ASSUME NEW n \in Slot, link[c] = n, <<c, n>> = s
      PROVE  FollowingGone(c)' /\ DeletionsSafeFor(c)'
  <2>1. PICK e : e.kind = "sync_error" /\ Pending(s)' = Pending(s) \cup {e}
    BY DEF ToldFailure
  <2>2. Failed(s)' /\ \A m \in Pending(s)' : m.kind # "sync_complete"
    BY <2>1 DEF Failed, ToldFailure, Told
  <2>3. call'[s].kind # "sync"
    BY <1>0 DEF ToldFailure, Told, NoCall, TypeOK
  <2>4. FollowsGone(c, s)'
    BY <2>2, <2>3 DEF FollowsGone, SyncWholeGone
  <2>5. DeletionsSafeFor(c)'
    BY <1>0 DEF GoneInv, DeletionsSafeFor, Gone, Exists, Live
  <2> QED
    BY <1>0, <1>2, <2>4, <2>5 DEF FollowingGone
<1> QED
  BY <1>1, <1>2

\* The sync is answered: of the deletions its cursor does not vouch for, the
\* client has nothing if it asked for everything, and is sent them if not.
LEMMA AnswerGone ==
    ASSUME FollowInv, NEW c \in Client, GoneInv(c), NEW s \in Session, ToldAll(s)
    PROVE  FollowingGone(c)' /\ DeletionsSafeFor(c)'
<1>0. /\ TypeOK /\ FeedTypeOK /\ UNCHANGED <<docs, colrev, view, cursor, link>>
      /\ call[s].kind = "sync"
  BY DEF FollowInv, FeedInv, ToldAll, Told
<1>1. CASE \A n \in Slot : link[c] = n => <<c, n>> # s
  <2>1. \A n \in Slot : link[c] = n =>
            Pending(<<c, n>>)' = Pending(<<c, n>>) /\ SameSync(<<c, n>>)
    BY <1>0, <1>1, FeedAssumption DEF ToldAll, Told, SameSync, TypeOK
  <2> QED
    BY <1>0, <2>1, GoneElsewhere DEF GoneInv
<1>2. ASSUME NEW n \in Slot, link[c] = n, <<c, n>> = s
      PROVE  FollowingGone(c)' /\ DeletionsSafeFor(c)'
  <2>1. PICK ds : /\ SyncDocs(s, ds)
                  /\ Pending(s)' = Pending(s) \cup Range(ds) \cup {SyncComplete(colrev)}
    BY DEF ToldAll
  <2>2. call[s].colrev = cursor[c] /\ (cursor[c] = 0 => Empty(c))
    BY <1>0, <1>2 DEF FollowInv, Following, Follows, Asks, GoneInv, FollowingGone, FollowsGone
  <2>3. ASSUME NEW d \in Doc, docs[d].rev > 0, docs[d].data = Null, view[c][d] # Null
        PROVE  \E m \in Pending(s)' : m.kind = "doc" /\ m.id = d /\ m.data = Null
    <3>1. docs[d].rev \in Nat /\ cursor[c] \in Nat
      BY <1>0 DEF TypeOK, FeedTypeOK
    <3>2. cursor[c] # 0 /\ docs[d].rev > cursor[c]
      BY <2>2, <2>3, <3>1 DEF GoneInv, DeletionsSafeFor, Gone, Exists, Live, Empty
    <3>3. PICK m \in Range(ds) : m.id = d
      BY <2>1, <2>2, <3>2 DEF SyncDocs
    <3>4. m.kind = "doc" /\ m.data = Null
      BY <2>1, <2>3, <3>3 DEF SyncDocs
    <3> QED
      BY <2>1, <3>3, <3>4
  <2>4. SyncWholeGone(c, s)' /\ CoveredGone(c, s)'
    BY <1>0, <2>3 DEF SyncWholeGone, CoveredGone, Gone, Exists, Live, Says
  <2>5. call'[s].kind # "sync"
    BY <1>0 DEF ToldAll, Told, NoCall, TypeOK
  <2>6. FollowsGone(c, s)'
    BY <2>4, <2>5 DEF FollowsGone
  <2>7. DeletionsSafeFor(c)'
    BY <1>0 DEF GoneInv, DeletionsSafeFor, Gone, Exists, Live
  <2> QED
    BY <1>0, <1>2, <2>6, <2>7 DEF FollowingGone
<1> QED
  BY <1>1, <1>2

\* A message that says that the document is deleted leaves no copy.
LEMMA ReadsGone ==
    ASSUME FollowInv, NEW c \in Client, NEW n \in Slot, ReadBy(c, n),
           NEW h, h = Head(wire[<<c, n>>]), h.kind \in {"doc", "change"}, h.data = Null
    PROVE  view'[c][h.id] = Null
<1>1. view'[c][h.id] = Applied(view[c][h.id], h)
  BY FollowKnown, ReadViews
<1>2. h.kind = "change" => h.op # "*"
  <2>1. <<c, n>> \in Session /\ h \in Pending(<<c, n>>)
    BY ReadFacts
  <2> QED
    BY <2>1, NullAssumption DEF FollowInv, UpdatesWhole, Version
<1> QED
  BY <1>1, <1>2 DEF Applied

LEMMA ReadGone ==
    ASSUME FollowInv, NEW c \in Client, GoneInv(c), NEW n \in Slot, ReadBy(c, n)
    PROVE  FollowingGone(c)' /\ DeletionsSafeFor(c)'
<1>1. PICK s, h : s = <<c, n>> /\ h = Head(wire[s])
  OBVIOUS
<1>2. UNCHANGED <<docs, colrev, call, link>> /\ link[c] = n
  BY DEF ReadBy
<1>3. TypeOK /\ FeedInv /\ FeedTypeOK
  BY DEF FollowInv, FeedInv
<1>4. /\ s \in Session /\ h \in Pending(s) /\ Pending(s) = {h} \cup Pending(s)'
      /\ h.kind \in {"doc", "change", "sync_complete"}
      /\ h.kind \in {"doc", "change"} => h.id \in Doc
      /\ h.kind \in {"change", "sync_complete"} => h.colrev \in Nat
      /\ SyncWhole(c, s) /\ call[s].kind # "sync" /\ ~Failed(s)
      /\ \A m \in Pending(s)' :
            /\ m.kind \in {"doc", "sync_complete"} => h.kind = "doc"
            /\ h.kind = "change" /\ m.kind = "change" => h.colrev < m.colrev
  BY <1>1, ReadFacts
<1>5. /\ h.kind = "sync_complete" => view'[c] = view[c]
      /\ h.kind # "sync_complete" =>
            \A d \in Doc : d # h.id => view'[c][d] = view[c][d]
      /\ cursor'[c] = IF h.kind = "doc" THEN cursor[c] ELSE h.colrev
  BY <1>1, FollowKnown, ReadViews
<1>6. SyncWholeGone(c, s) /\ CoveredGone(c, s)
  BY <1>1, <1>2, <1>4 DEF GoneInv, FollowingGone, FollowsGone

\* A document of a sync that has not changed since is as it is.
<1>7. ASSUME NEW k \in Pending(s), k.kind = "sync_complete", h.kind = "doc",
             docs[h.id].rev <= k.colrev
      PROVE  h.data = docs[h.id].data
  BY <1>4, <1>7 DEF SyncWhole
<1>8. CoveredGone(c, s)'
  <2> SUFFICES ASSUME NEW d \in Doc, docs[d].rev > 0, docs[d].data = Null
               PROVE  \/ view'[c][d] = Null
                      \/ \E m \in Pending(s)' : Says(m, d) /\ m.data = Null
    BY <1>2 DEF CoveredGone, Gone, Exists, Live, Says
  <2>1. CASE h.kind \in {"doc", "change"} /\ h.id = d
    <3>1. \/ h.data = Null
          \/ \E m \in Pending(s) :
                /\ m.kind = "change" /\ m.id = d /\ m.data = Null
                /\ h.kind = "change" => h.colrev < m.colrev
      BY <1>4, <2>1 DEF FollowInv, Mail, LastWord, Says
    <3>2. CASE h.data = Null
      BY <1>1, <2>1, <3>2, ReadsGone
    <3>3. ASSUME NEW m \in Pending(s), m.kind = "change", m.id = d, m.data = Null,
                 h.kind = "change" => h.colrev < m.colrev
          PROVE  m \in Pending(s)'
      <4> SUFFICES ASSUME m = h PROVE FALSE
        BY <1>4
      <4> QED
        BY <1>4, <3>3
    <3> QED
      BY <3>1, <3>2, <3>3 DEF Says
  <2>2. CASE ~(h.kind \in {"doc", "change"} /\ h.id = d)
    <3>1. view'[c][d] = view[c][d] /\ ~Says(h, d)
      BY <1>4, <1>5, <2>2 DEF Says
    <3>2. \/ view[c][d] = Null
          \/ \E m \in Pending(s) : Says(m, d) /\ m.data = Null
      BY <1>4, <1>6 DEF CoveredGone, Gone, Exists, Live, Awaits
    <3> QED
      BY <1>4, <3>1, <3>2
  <2> QED
    BY <2>1, <2>2
<1>9. SyncWholeGone(c, s)'
  <2> SUFFICES ASSUME NEW k \in Pending(s)', k.kind = "sync_complete",
                      NEW d \in Doc, docs[d].rev > 0, docs[d].data = Null,
                      docs[d].rev <= k.colrev
               PROVE  \/ view'[c][d] = Null
                      \/ \E m \in Pending(s)' : m.kind = "doc" /\ m.id = d
    BY <1>2 DEF SyncWholeGone, Gone, Exists, Live
  <2>1. h.kind = "doc" /\ k \in Pending(s)
    BY <1>4
  <2>2. CASE h.id = d
    <3>1. h.data = Null
      BY <1>7, <2>1, <2>2
    <3> QED
      BY <1>1, <2>1, <2>2, <3>1, ReadsGone
  <2>3. CASE h.id # d
    <3>1. \/ view[c][d] = Null
          \/ \E m \in Pending(s) : m.kind = "doc" /\ m.id = d
      BY <1>6, <2>1 DEF SyncWholeGone, Gone, Exists, Live
    <3> QED
      BY <1>4, <1>5, <2>1, <2>3, <3>1
  <2> QED
    BY <2>2, <2>3
<1>10. FollowsGone(c, s)'
  BY <1>2, <1>4, <1>8, <1>9 DEF FollowsGone
<1>11. DeletionsSafeFor(c)'
  <2> SUFFICES ASSUME NEW d \in Doc, docs[d].rev > 0, docs[d].data = Null,
                      docs[d].rev <= cursor'[c]
               PROVE  view'[c][d] = Null
    BY <1>2 DEF DeletionsSafeFor, Gone, Exists, Live
  <2>0. docs[d].rev \in Nat /\ cursor[c] \in Nat
    BY <1>3 DEF TypeOK, FeedTypeOK
  \* The documents of the sync have all been read.
  <2>1. CASE h.kind = "sync_complete"
    <3>1. \/ view[c][d] = Null
          \/ \E m \in Pending(s) : m.kind = "doc" /\ m.id = d
      BY <1>4, <1>5, <1>6, <2>1 DEF SyncWholeGone, Gone, Exists, Live
    <3>2. \A m \in Pending(s) : m.kind # "doc"
      BY <1>4, <2>1
    <3> QED
      BY <1>5, <2>1, <3>1, <3>2
  <2>2. CASE h.kind = "doc" /\ d # h.id
    BY <1>5, <2>2 DEF GoneInv, DeletionsSafeFor, Gone, Exists, Live
  <2>3. CASE h.kind = "doc" /\ d = h.id
    <3>1. PICK k \in Pending(s) : k.kind = "sync_complete"
      BY <1>4, <2>3 DEF SyncWhole
    <3>2. k.colrev \in Nat /\ cursor[c] <= k.colrev
      BY <1>3, <1>4, <3>1, PendingTypes DEF SyncWhole
    <3>3. docs[d].rev <= k.colrev
      BY <1>5, <2>0, <2>3, <3>2
    <3> QED
      BY <1>1, <1>7, <2>3, <3>1, <3>3, ReadsGone
  <2>4. CASE h.kind = "change" /\ d = h.id
    <3>1. Truthful(h) /\ docs[d].rev <= h.colrev
      BY <1>3, <1>4, <1>5, <2>4, PendingFacts
    <3>2. h.data = Null
      BY <1>4, <2>0, <2>4, <3>1 DEF Truthful
    <3> QED
      BY <1>1, <2>4, <3>2, ReadsGone
  \* Were the deletion still on its way, its revision would be the later one.
  <2>5. CASE h.kind = "change" /\ d # h.id
    <3>1. docs[d].rev <= h.colrev /\ view'[c][d] = view[c][d]
      BY <1>5, <2>5
    <3>2. ASSUME NEW m \in Pending(s), Says(m, d) PROVE FALSE
      <4>1. m \in Pending(s)'
        BY <1>4, <2>5, <3>2 DEF Says
      <4>2. m.kind = "change" /\ h.colrev < m.colrev
        BY <1>4, <2>5, <3>2, <4>1 DEF Says
      <4>3. Truthful(m) /\ m.colrev \in Nat /\ m.id = d
        BY <1>3, <1>4, <3>2, <4>2, PendingFacts, PendingTypes DEF Says
      <4>4. m.colrev <= docs[d].rev
        BY <2>0, <4>2, <4>3 DEF Truthful
      <4> QED
        BY <1>4, <2>0, <2>5, <3>1, <4>2, <4>3, <4>4
    <3> QED
      BY <1>4, <1>6, <3>1, <3>2 DEF CoveredGone, Gone, Exists, Live, Awaits
  <2> QED
    BY <1>4, <2>1, <2>2, <2>3, <2>4, <2>5
<1> QED
  BY <1>1, <1>2, <1>10, <1>11 DEF FollowingGone

\* A document is deleted: its broadcast is sent, or the client's sync will bring
\* the deletion, or the client has nothing.
LEMMA ChangedGone ==
    ASSUME FollowInv, NEW c \in Client, GoneInv(c),
           NEW src, NEW r \in ChangeRequest, Changed(src, r)
    PROVE  FollowingGone(c)' /\ DeletionsSafeFor(c)'
<1>1. FeedInv /\ TypeOK /\ FeedTypeOK /\ Lines /\ cursor[c] <= colrev
  BY DEF FollowInv, FeedInv, Copies, CursorBound
<1>2. /\ r.id \in Doc /\ colrev \in Nat /\ colrev' = colrev + 1
      /\ docs'[r.id].rev = colrev + 1 /\ docs'[r.id].data = Outcome(r)
      /\ \A d \in Doc : d # r.id => docs'[d] = docs[d]
  BY <1>1, ChangedRow
<1>3. UNCHANGED <<view, cursor, link>> /\ cursor[c] \in Nat
  BY <1>1 DEF Changed, FeedTypeOK
<1>4. DeletionsSafeFor(c)'
  <2> SUFFICES ASSUME NEW d \in Doc, docs'[d].rev > 0, docs'[d].data = Null,
                      docs'[d].rev <= cursor[c]
               PROVE  view[c][d] = Null
    BY <1>3 DEF DeletionsSafeFor, Gone, Exists, Live
  <2>1. d # r.id
    BY <1>1, <1>2, <1>3
  <2> QED
    BY <1>2, <2>1 DEF GoneInv, DeletionsSafeFor, Gone, Exists, Live
<1>5. ASSUME NEW n \in Slot, link[c] = n PROVE FollowsGone(c, <<c, n>>)'
  <2>1. PICK s : s = <<c, n>>
    OBVIOUS
  <2>2. s \in Session /\ stage[s] = "open" /\ SameSync(s) /\ Quiet(s)
    BY <1>5, <2>1, FeedAssumption DEF FollowInv, Linked, Mail, Changed
  <2>3. FollowsGone(c, s) /\ Asks(c, s)
    BY <1>5, <2>1 DEF GoneInv, FollowingGone, FollowInv, Following, Follows
  <2>4. PICK b : b = ServerChange(r.op, r.id, Outcome(r), colrev + 1)
    OBVIOUS
  <2>5. b.kind = "change" /\ b.id = r.id /\ b.data = Outcome(r)
    BY <2>4 DEF ServerChange
  <2>6. Pending(s)' = IF s \in subscribers THEN Pending(s) \cup {b} ELSE Pending(s)
    BY <2>2, <2>4 DEF Changed
  <2>7. (call[s].kind = "sync" /\ cursor[c] = 0 => Empty(c))'
    BY <1>3, <2>2, <2>3 DEF FollowsGone, Empty, SameSync
  <2>8. SyncWholeGone(c, s)'
    <3> SUFFICES ASSUME NEW k \in Pending(s)', k.kind = "sync_complete",
                        NEW d \in Doc, docs'[d].rev > 0, docs'[d].data = Null,
                        docs'[d].rev <= k.colrev
                 PROVE  \/ view[c][d] = Null
                        \/ \E m \in Pending(s)' : m.kind = "doc" /\ m.id = d
      BY <1>3 DEF SyncWholeGone, Gone, Exists, Live
    <3>1. k \in Pending(s)
      BY <2>5, <2>6
    <3>2. k.colrev \in Nat /\ k.colrev <= colrev
      BY <1>1, <1>5, <2>1, <2>2, <3>1, PendingTypes
         DEF FollowInv, Following, Follows, SyncWhole
    <3>3. d # r.id
      BY <1>2, <3>2
    <3>4. \/ view[c][d] = Null
          \/ \E m \in Pending(s) : m.kind = "doc" /\ m.id = d
      BY <1>2, <2>3, <3>1, <3>3 DEF FollowsGone, SyncWholeGone, Gone, Exists, Live
    <3> QED
      BY <2>6, <3>4
  <2>9. Failed(s) => Failed(s)'
    BY <2>6 DEF Failed
  <2>10. ASSUME ~Failed(s) PROVE CoveredGone(c, s)'
    <3> SUFFICES ASSUME NEW d \in Doc, docs'[d].rev > 0, docs'[d].data = Null
                 PROVE  \/ view[c][d] = Null
                        \/ Awaits(s, d)' /\ call'[s].colrev # 0
                        \/ \E m \in Pending(s)' : Says(m, d) /\ m.data = Null
      BY <1>3 DEF CoveredGone, Gone, Exists, Live, Says
    <3>1. CASE d = r.id /\ s \in subscribers
      BY <1>2, <2>5, <2>6, <3>1 DEF Says
    <3>2. CASE d = r.id /\ s \notin subscribers
      <4>1. s \in joining
        BY <1>1, <2>2, <3>2 DEF Lines, Line
      <4>2. call[s].kind = "sync" /\ call[s].colrev = cursor[c]
        BY <2>2, <2>3, <2>10, <4>1 DEF Quiet, Asks
      <4>3. call'[s] = call[s] /\ docs'[d].rev > cursor[c]
        BY <1>1, <1>2, <1>3, <2>2, <3>2, <4>2 DEF SameSync
      <4>4. cursor[c] = 0 => Empty(c)
        BY <2>3, <4>2 DEF FollowsGone
      <4> QED
        BY <4>2, <4>3, <4>4 DEF Awaits, Empty
    <3>3. CASE d # r.id
      <4>1. docs'[d] = docs[d]
        BY <1>2, <3>3
      <4>2. \/ view[c][d] = Null
            \/ Awaits(s, d) /\ call[s].colrev # 0
            \/ \E m \in Pending(s) : Says(m, d) /\ m.data = Null
        BY <2>3, <2>10, <4>1 DEF FollowsGone, CoveredGone, Gone, Exists, Live
      <4>3. Awaits(s, d) => Awaits(s, d)' /\ call'[s] = call[s]
        BY <2>2, <4>1 DEF Awaits, SameSync
      <4> QED
        BY <2>6, <4>2, <4>3
    <3> QED
      BY <3>1, <3>2, <3>3
  <2> QED
    BY <2>1, <2>7, <2>8, <2>9, <2>10 DEF FollowsGone
<1> QED
  BY <1>3, <1>4, <1>5 DEF FollowingGone

\* A client that is not connected changes nothing but that; a connection that
\* ends for want of a sync is the last.
LEMMA StartsEmptyStep ==
    ASSUME FeedTypeOK, [FeedNext]_feedVars, NEW c \in Client, StartsEmpty(c), Uncut(c)
    PROVE  StartsEmpty(c)'
<1> SUFFICES ASSUME link'[c] = NoSlot, c \notin stopped', cursor'[c] = 0
             PROVE  Empty(c)'
  BY DEF StartsEmpty
<1>1. ASSUME link[c] = NoSlot, c \notin stopped, view'[c] = view[c], cursor'[c] = cursor[c]
      PROVE  Empty(c)'
  BY <1>1 DEF StartsEmpty, Empty
<1>2. ASSUME NEW e \in Client, Dial(e) PROVE Empty(c)'
  <2>1. link[c] = NoSlot
    BY <1>2, FeedAssumption DEF Dial, FeedTypeOK
  <2> QED
    BY <1>1, <1>2, <2>1 DEF Dial
<1>3. ASSUME NEW e \in Client, Read(e) PROVE Empty(c)'
  <2>1. link[c] = NoSlot /\ e # c /\ c \notin stopped
    BY <1>3 DEF Read
  <2>2. view'[c] = view[c] /\ cursor'[c] = cursor[c]
    BY <1>3, <2>1 DEF Read, ReadData, ReadSyncComplete, ReadRefusal, FeedTypeOK
  <2> QED
    BY <1>1, <2>1, <2>2
<1>4. ASSUME NEW e \in Client, GiveUp(e) \/ Lose(e) PROVE Empty(c)'
  <2>1. UNCHANGED <<view, cursor>> /\ c \notin stopped
    BY <1>4 DEF GiveUp, Lose
  <2>2. CASE e = c
    <3>1. ~GiveUp(e)
      BY <2>2 DEF GiveUp
    <3> QED
      BY <1>4, <2>1, <2>2, <3>1 DEF Uncut
  <2>3. CASE e # c
    <3>1. link[c] = NoSlot
      BY <1>4, <2>3 DEF GiveUp, Lose, HangUp, FeedTypeOK
    <3> QED
      BY <1>1, <2>1, <3>1
  <2> QED
    BY <2>2, <2>3
<1>5. CASE UNCHANGED followVars
  BY <1>1, <1>5 DEF followVars
<1> QED
  BY <1>2, <1>3, <1>4, <1>5 DEF FeedNext, feedVars

LEMMA GoneStep ==
    ASSUME FollowInv, [FeedNext]_feedVars, NEW c \in Client, GoneInv(c), Uncut(c), Linked'
    PROVE  GoneInv(c)'
<1>0. /\ TypeOK /\ RowsOrdered /\ FeedTypeOK /\ Linked /\ Lines /\ FeedIssued
      /\ MailSubscribed
  BY DEF FollowInv, FeedInv
<1>1. StartsEmpty(c)'
  BY <1>0, StartsEmptyStep DEF GoneInv
<1>2. StepKinds
  BY <1>0, StepIsKind
<1>3. ASSUME Still PROVE FollowingGone(c)' /\ DeletionsSafeFor(c)'
  <2>1. \A n \in Slot : link'[c] = n =>
            /\ link[c] = n /\ Pending(<<c, n>>)' = Pending(<<c, n>>)
            /\ SameSync(<<c, n>>)
    BY <1>3, FeedAssumption DEF Still, Linked
  <2>2. UNCHANGED <<docs, view, cursor>>
    BY <1>3 DEF Still
  <2>3. view'[c] = view[c] /\ cursor'[c] = cursor[c] /\ UNCHANGED docs
    BY <2>2
  <2> QED
    BY <2>1, <2>3, GoneElsewhere DEF GoneInv
<1>4. ASSUME NEW e \in Client, NEW k \in Slot, Dialled(e, k) \/ HungUp(e, k) \/ ReadBy(e, k)
      PROVE  FollowingGone(c)' /\ DeletionsSafeFor(c)'
  <2>1. CASE e = c /\ HungUp(e, k)
    <3>1. \A n \in Slot : link'[c] # n
      BY <1>0, <2>1, FeedAssumption DEF HungUp, FeedTypeOK
    <3> QED
      BY <2>1, <3>1, GoneElsewhere DEF HungUp, GoneInv
  <2>2. CASE e # c
    <3>1. view'[c] = view[c] /\ cursor'[c] = cursor[c] /\ UNCHANGED docs
      BY <1>4, <2>2, FollowKnown, ReadViews DEF Dialled, HungUp, ReadBy
    <3>2. link'[c] = link[c]
      BY <1>0, <1>4, <2>2 DEF Dialled, HungUp, ReadBy, FeedTypeOK
    <3>3. \A n \in Slot : /\ <<c, n>> \in Session /\ <<c, n>> # <<e, k>>
                          /\ Pending(<<c, n>>)' = Pending(<<c, n>>)
                          /\ call'[<<c, n>>] = call[<<c, n>>]
      BY <1>0, <1>4, <2>2, FeedAssumption DEF Dialled, HungUp, ReadBy, TypeOK
    <3> QED
      BY <3>1, <3>2, <3>3, GoneElsewhere DEF GoneInv, SameSync
  <2> QED
    BY <1>4, <2>1, <2>2, DialledGone, ReadGone
<1>5. ASSUME NEW s \in Session, ToldAll(s) \/ ToldFailure(s)
      PROVE  FollowingGone(c)' /\ DeletionsSafeFor(c)'
  BY <1>5, AnswerGone, FailureGone
<1>6. ASSUME NEW src, NEW r \in ChangeRequest, Changed(src, r)
      PROVE  FollowingGone(c)' /\ DeletionsSafeFor(c)'
  BY <1>6, ChangedGone
<1>7. FollowingGone(c)' /\ DeletionsSafeFor(c)'
  BY <1>2, <1>3, <1>4, <1>5, <1>6 DEF StepKinds
<1> QED
  BY <1>1, <1>7 DEF GoneInv

LEMMA GoneInit ==
    ASSUME NEW c \in Client, FeedInit
    PROVE  GoneInv(c)
<1>1. \A d \in Doc : docs[d] = NoRow /\ view[c][d] = Null
  BY DEF FeedInit, Init
<1>2. \A n \in Slot : link[c] # n
  BY FeedAssumption DEF FeedInit
<1> QED
  BY <1>1, <1>2 DEF GoneInv, FollowingGone, DeletionsSafeFor, StartsEmpty, Empty

-----------------------------------------------------------------------------
(* Theorems *)

\* What is proved of the collection for arbitrary requests holds of it with the
\* clients of collection.ts: whatever they do is a step of the collection.
THEOREM FeedImplementsCollection == FeedSpec => Spec
<1>1. FeedInit => Init /\ TypeOK /\ FeedTypeOK /\ UpdatesWhole
  BY FollowInit DEF FollowInv, FeedInv, FeedInit
<1>2. TypeOK /\ FeedTypeOK /\ UpdatesWhole /\ [FeedNext]_feedVars
          => [Next]_colVars /\ (TypeOK /\ FeedTypeOK /\ UpdatesWhole)'
  BY FeedSteps, TypeStep, FeedTypeStep, UpdatesWholeStep
<1> QED
  BY <1>1, <1>2, PTL DEF FeedSpec, Spec

\* Resuming is safe: a client that will ask for what changed after `cursor` has
\* every document last changed at or before it, across lost connections, failed
\* syncs and broadcasts of before the sync that arrive after it and move the
\* cursor back (handleSyncCompleteMessage and handleChangeMessage in collection.ts).
\* The server must subscribe a session before it answers its Sync: in the other
\* order, which the code permits, a run shows a client that misses a change.
THEOREM ResumeAlwaysSafe ==
    ASSUME SubscribeFirst
    PROVE  FeedSpec => []ResumeSafe
<1>1. FollowInv => ResumeSafe
  BY DEF FollowInv, Copies
<1> QED
  BY <1>1, FollowAlways, PTL

\* A client has no document that does not exist, and nothing in its copy of a
\* live one that the server does not have: handleDocMessage and
\* handleUpdateMessage in collection.ts never resurrect and never invent.
THEOREM ViewAlwaysKnown == FeedSpec => []ViewKnown
<1>1. KnownInv => ViewKnown
  BY DEF KnownInv
<1> QED
  BY <1>1, KnownAlways, PTL

\* A client that is connected, and whose sync did not fail, has every live
\* document as it is, or what is on its way to it brings it: what Converges
\* rests on, besides fairness.
THEOREM NothingMissed ==
    ASSUME SubscribeFirst
    PROVE  FeedSpec => [](\A c \in Client : link[c] # NoSlot =>
                              Failed(Conn(c)) \/ Covered(c, Conn(c)))
<1>1. ASSUME FollowInv, NEW c \in Client, link[c] # NoSlot
      PROVE  Failed(Conn(c)) \/ Covered(c, Conn(c))
  BY <1>1 DEF FollowInv, FeedTypeOK, Following, Follows, Conn
<1>2. FollowInv => \A c \in Client : link[c] # NoSlot =>
                       Failed(Conn(c)) \/ Covered(c, Conn(c))
  BY <1>1
<1> QED
  BY <1>2, FollowAlways, PTL

\* Deletions too: a client that will ask for what changed after `cursor` has no
\* copy of a document deleted at or before it, unless it once lost the connection
\* with its cursor at 0.  Such a client may have been sent documents of its first
\* sync, asks for everything again, and is not told of what was deleted meanwhile
\* (get_documents_since in collection.rs leaves the deleted rows out at revision 0):
\* a run shows one that keeps such a copy.
THEOREM DeletionsAlwaysSafeFor ==
    ASSUME SubscribeFirst, NEW c \in Client
    PROVE  FeedSpec /\ [][Uncut(c)]_feedVars => []DeletionsSafeFor(c)
<1>1. FollowInv /\ GoneInv(c) /\ [FeedNext]_feedVars /\ [Uncut(c)]_feedVars
          => (FollowInv /\ GoneInv(c))'
  <2> SUFFICES ASSUME FollowInv, GoneInv(c), [FeedNext]_feedVars, [Uncut(c)]_feedVars
               PROVE  FollowInv' /\ GoneInv(c)'
    OBVIOUS
  <2>1. FollowInv' /\ Linked'
    BY FollowStep DEF FollowInv
  <2>2. Uncut(c)
    <3> SUFFICES ASSUME UNCHANGED feedVars, Lose(c) PROVE FALSE
      BY DEF Uncut
    <3> QED
      BY FeedAssumption DEF feedVars, followVars, Lose, HangUp, FollowInv, FeedTypeOK
  <2> QED
    BY <2>1, <2>2, GoneStep
<1>2. FeedInit => FollowInv /\ GoneInv(c)
  BY FollowInit, GoneInit
<1>3. GoneInv(c) => DeletionsSafeFor(c)
  BY DEF GoneInv
<1> QED
  BY <1>1, <1>2, <1>3, PTL DEF FeedSpec
\* A copy that goes is gone for good: a client loses a document only to word of
\* its deletion, which is final, and none of what is still on its way, in the
\* order the server sends it, brings the document back (handleDocMessage and
\* handleSyncCompleteMessage in collection.ts, behind the broadcasts that
\* connection.rs and collection.rs send before or after a sync is answered).
THEOREM DroppedForGood ==
    ASSUME NEW c \in Client, NEW d \in Doc
    PROVE  FeedSpec => /\ [][Drops(c, d) => Dropped(c, d)']_feedVars
                       /\ [](Dropped(c, d) => [](view[c][d] = Null))
<1> DEFINE Inv == KnownInv /\ Earlys
<1>1. FeedInit => Inv
  BY FollowInit, FollowKnown, EarlysInit
<1>2. Inv /\ [FeedNext]_feedVars => Inv'
  BY KnownStep, EarlysStep
<1>3. Inv /\ [FeedNext]_feedVars => [Drops(c, d) => Dropped(c, d)']_feedVars
  BY DroppedStep
<1>4. Inv /\ [FeedNext]_feedVars /\ Dropped(c, d) => Dropped(c, d)'
  BY DroppedStep
<1>5. Dropped(c, d) => view[c][d] = Null
  BY DEF Dropped
<1> QED
  BY <1>1, <1>2, <1>3, <1>4, <1>5, PTL DEF FeedSpec
=============================================================================
