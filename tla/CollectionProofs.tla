-------------------------- MODULE CollectionProofs --------------------------
(***************************************************************************)
(* The collection keeps its promises for every set of documents, edits and *)
(* sessions, whatever clients ask for and whatever the database fails; and *)
(* what a session is sent is broadcasts in the order of their revisions,   *)
(* none missing between two of them, all of them true of the rows.         *)
(***************************************************************************)
EXTENDS Collection, FiniteSetTheorems, SequenceTheorems, TLAPS

-----------------------------------------------------------------------------
(* Messages *)

\* A change leaves a version, or nothing: what a client may send.
LEMMA RequestTypes ==
    ASSUME NEW m \in ChangeRequest
    PROVE  /\ m.kind = "change" /\ m.op \in Op /\ m.id \in Doc /\ m.data \in Data
           /\ m.op = "-" <=> m.data = Null
           /\ m.op # "-" => m.data \in Version
BY NullAssumption DEF ChangeRequest, Data, Version, Op

\* A refused change is refused with a code of the protocol.
LEMMA RefusalTypes ==
    ASSUME NEW src, NEW m
    PROVE  Refusal(src, m) \in ErrorCode \cup {NoError}
BY DEF Refusal, CreateRefusal, EditRefusal, ErrorCode, NoError

\* What replies are made of: never broadcasts.
Answer == {m \in ServerMessage : m.kind # "change"}

\* The answer to a Sync is a sequence of messages.
LEMMA SyncMessages ==
    ASSUME TypeOK, NEW r \in Nat, NEW order \in SetToSeqs(Missing(r))
    PROVE  [i \in DOMAIN order |-> DocMessage(order[i], docs[order[i]].data)]
               \o <<SyncComplete(colrev)>> \in Seq(Answer)
<1> DEFINE ds == [i \in DOMAIN order |-> DocMessage(order[i], docs[order[i]].data)]
           n  == Cardinality(Missing(r))
<1>1. Missing(r) \subseteq Doc
  BY DEF Missing
<1>2. n \in Nat
  BY <1>1, CollectionAssumption, FS_Subset, FS_CardinalityType
<1>3. order \in [1..n -> Missing(r)]
  BY DEF SetToSeqs
<1>4. \A i \in 1..n : docs[order[i]].data \in Data
  BY <1>1, <1>3 DEF TypeOK
<1>5. \A i \in 1..n : DocMessage(order[i], docs[order[i]].data) \in Answer
  BY <1>1, <1>3, <1>4 DEF DocMessage, ServerMessage, Answer
<1>6. ds \in Seq(Answer)
  BY <1>2, <1>3, <1>5, IsASeq
<1>7. <<SyncComplete(colrev)>> \in Seq(Answer)
  BY DEF TypeOK, SyncComplete, ServerMessage, Answer
<1> QED
  BY <1>6, <1>7, ConcatProperties

\* A request is known by its kind.
LEMMA CallTypes ==
    ASSUME TypeOK, NEW s \in Session
    PROVE  /\ call[s].kind = "sync" => call[s].colrev \in Nat
           /\ call[s].kind = "get" => call[s].id \in Doc
           /\ call[s].kind = "change" => call[s] \in ChangeRequest
<1>1. \/ call[s] \in ChangeRequest \/ call[s] \in GetRequest
      \/ call[s] \in SyncRequest  \/ call[s] = NoCall
  BY DEF TypeOK
<1>2. CASE call[s] \in ChangeRequest
  BY <1>2, RequestTypes
<1>3. CASE call[s] \in GetRequest
  BY <1>3 DEF GetRequest
<1>4. CASE call[s] \in SyncRequest
  BY <1>4 DEF SyncRequest
<1>5. CASE call[s] = NoCall
  BY <1>5 DEF NoCall
<1> QED
  BY <1>1, <1>2, <1>3, <1>4, <1>5

Accepted(src, m) == Refusal(src, m) = NoError /\ Apply(m)

Answered(s) ==
    /\ \E msgs \in Seq(Answer) : Reply(s, msgs)
    /\ colrev' \in {colrev, colrev + 1}
    /\ UNCHANGED <<docs, locked, links, mailbox>>

\* A request is answered, or is a change that is accepted.
LEMMA ServeOutcome ==
    ASSUME TypeOK, NEW s \in Session,
           ServeSync(s) \/ ServeGet(s) \/ ServeChange(s) \/ Fail(s)
    PROVE  \/ Answered(s)
           \/ \E m \in ChangeRequest : Accepted(s, m) /\ Reply(s, <<>>)
<1>1. CASE ServeSync(s)
  <2>1. call[s].colrev \in Nat
    BY <1>1, CallTypes DEF ServeSync
  <2>2. /\ <<SyncError("forbidden")>> \in Seq(Answer)
        /\ <<SyncError("unprocessable_content")>> \in Seq(Answer)
        /\ <<SyncComplete(colrev)>> \in Seq(Answer)
    BY DEF SyncError, SyncComplete, ServerMessage, ErrorCode, TypeOK, Answer
  <2>3. \E msgs \in Seq(Answer) : Reply(s, msgs)
    BY <1>1, <2>1, <2>2, SyncMessages DEF ServeSync, SyncReply
  <2> QED
    BY <1>1, <2>3 DEF ServeSync, Answered, storage
<1>2. CASE ServeGet(s)
  <2>1. call[s].id \in Doc
    BY <1>2, CallTypes DEF ServeGet
  <2>2. docs[call[s].id].data \in Data
    BY <2>1 DEF TypeOK
  <2>3. /\ <<GetError(call[s].id, "not_found")>> \in Seq(Answer)
        /\ <<GetError(call[s].id, "forbidden")>> \in Seq(Answer)
        /\ <<DocMessage(call[s].id, docs[call[s].id].data)>> \in Seq(Answer)
    BY <2>1, <2>2 DEF GetError, DocMessage, ServerMessage, ErrorCode, Answer
  <2>4. \E msgs \in Seq(Answer) : Reply(s, msgs)
    BY <1>2, <2>3 DEF ServeGet
  <2> QED
    BY <1>2, <2>4 DEF ServeGet, Answered, storage
<1>3. CASE ServeChange(s)
  <2>1. call[s] \in ChangeRequest
    BY <1>3, CallTypes DEF ServeChange
  <2>2. CASE Refusal(s, call[s]) = NoError /\ Apply(call[s]) /\ Reply(s, <<>>)
    BY <2>1, <2>2 DEF Accepted
  <2>3. CASE /\ Refusal(s, call[s]) # NoError
             /\ Reply(s, <<ChangeError(call[s].id, Refusal(s, call[s]))>>)
             /\ UNCHANGED <<storage, links, mailbox>>
    <3>1. <<ChangeError(call[s].id, Refusal(s, call[s]))>> \in Seq(Answer)
      BY <2>1, <2>3, RefusalTypes, RequestTypes DEF ChangeError, ServerMessage, Answer
    <3> QED
      BY <2>3, <3>1 DEF Answered, storage
  <2> QED
    BY <1>3, <2>2, <2>3 DEF ServeChange
<1>4. CASE Fail(s)
  <2>1. call[s].kind = "get" \/ call[s].kind = "change" => call[s].id \in Doc
    BY CallTypes, RequestTypes
  <2>2. <<SyncError("internal_server_error")>> \in Seq(Answer)
    BY DEF SyncError, ServerMessage, ErrorCode, Answer
  <2>3. ASSUME call[s].id \in Doc
        PROVE /\ <<GetError(call[s].id, "internal_server_error")>> \in Seq(Answer)
              /\ <<ChangeError(call[s].id, "internal_server_error")>> \in Seq(Answer)
    BY <2>3 DEF GetError, ChangeError, ServerMessage, ErrorCode, Answer
  <2>4. \E msgs \in Seq(Answer) : Reply(s, msgs)
    BY <1>4, <2>1, <2>2, <2>3 DEF Fail
  <2>5. colrev' \in {colrev, colrev + 1}
    BY <1>4 DEF Fail
  <2> QED
    BY <1>4, <2>4, <2>5 DEF Fail, Answered
<1> QED
  BY <1>1, <1>2, <1>3, <1>4

-----------------------------------------------------------------------------
(* Type correctness *)

\* A reply leaves well-typed calls and websockets.
LEMMA ReplyTypes ==
    ASSUME TypeOK, NEW s \in Session, NEW msgs \in Seq(ServerMessage), Reply(s, msgs)
    PROVE  /\ call' \in [Session -> ChangeRequest \cup GetRequest \cup SyncRequest
                                       \cup {NoCall}]
           /\ wire' \in [Session -> Seq(ServerMessage)]
<1>1. wire[s] \o msgs \in Seq(ServerMessage)
  BY ConcatProperties DEF TypeOK
<1> QED
  BY <1>1 DEF TypeOK, Reply

\* What an accepted change leaves in a document.
LEMMA OutcomeTypes ==
    ASSUME TypeOK, NEW src, NEW m \in ChangeRequest, Refusal(src, m) = NoError
    PROVE  /\ Outcome(m) \in Data
           /\ m.op = "-" <=> Outcome(m) = Null
           /\ m.op # "-" => Outcome(m) \in Version
           /\ m.op = "+" => ~Exists(m.id)
           /\ m.op # "+" => Exists(m.id) /\ Live(m.id)
           /\ m.op = "*" => docs[m.id].data \subseteq Outcome(m)
<1>1. /\ m.op = "+" => ~Exists(m.id)
      /\ m.op # "+" => Exists(m.id) /\ Live(m.id)
  BY DEF Refusal, CreateRefusal, EditRefusal, NoError
<1>2. m.op # "+" => docs[m.id].data \in Version
  BY <1>1, RequestTypes DEF Live, TypeOK, Data
<1>3. CASE m.op = "*"
  BY <1>1, <1>2, <1>3, RequestTypes, NullAssumption
     DEF Outcome, Merge, Version, Data
<1>4. CASE m.op # "*"
  BY <1>1, <1>4, RequestTypes DEF Outcome, Op
<1> QED
  BY <1>3, <1>4

\* An accepted change keeps rows and mailboxes well-typed.
LEMMA ApplyTypes ==
    ASSUME TypeOK, NEW src, NEW m \in ChangeRequest, Refusal(src, m) = NoError,
           Apply(m)
    PROVE  /\ docs' \in [Doc -> [rev: Nat, data: Data]]
           /\ colrev' \in Nat
           /\ mailbox' \in [Session -> Seq(ServerMessage)]
<1> DEFINE msg == ServerChange(m.op, m.id, Outcome(m), colrev + 1)
<1>1. m.id \in Doc /\ m.op \in Op /\ Outcome(m) \in Data /\ colrev + 1 \in Nat
  BY RequestTypes, OutcomeTypes DEF TypeOK
<1>2. msg \in ServerMessage
  BY <1>1 DEF ServerChange, ServerMessage
<1>3. \A s \in Session : Append(mailbox[s], msg) \in Seq(ServerMessage)
  BY <1>2, AppendProperties DEF TypeOK
<1>4. mailbox' \in [Session -> Seq(ServerMessage)]
  BY <1>3 DEF Apply, Broadcast, TypeOK
<1> QED
  BY <1>1, <1>4 DEF Apply, TypeOK

LEMMA TypeInit == Init => TypeOK
BY EmptySeq DEF Init, TypeOK, NoRow, NoCall, Data

\* No step of a session's life breaks the types.
LEMMA TypeSession ==
    ASSUME TypeOK, NEW s \in Session,
           \/ Subscribe(s) \/ Exit(s) \/ Close(s) \/ Forward(s) \/ Receive(s)
           \/ \E r \in Nat : Connect(s, r)
           \/ \E m \in ClientMessage : Take(s, m)
    PROVE  TypeOK'
<1> USE DEF TypeOK, colVars, storage, links, channels
<1>1. CASE Subscribe(s)
  BY <1>1 DEF Subscribe
<1>2. CASE Exit(s)
  BY <1>2 DEF Exit
<1>3. CASE Close(s)
  BY <1>3, EmptySeq DEF Close
<1>4. CASE Forward(s)
  <2>1. /\ Head(mailbox[s]) \in ServerMessage
        /\ Tail(mailbox[s]) \in Seq(ServerMessage)
    BY <1>4, HeadTailProperties DEF Forward
  <2>2. Append(wire[s], Head(mailbox[s])) \in Seq(ServerMessage)
    BY <2>1, AppendProperties
  <2> QED
    BY <1>4, <2>1, <2>2 DEF Forward
<1>5. CASE Receive(s)
  BY <1>5, HeadTailProperties DEF Receive
<1>6. CASE \E r \in Nat : Connect(s, r)
  BY <1>6 DEF Connect, SyncRequest
<1>7. CASE \E m \in ClientMessage : Take(s, m)
  BY <1>7 DEF Take, ClientMessage
<1> QED
  BY <1>1, <1>2, <1>3, <1>4, <1>5, <1>6, <1>7

\* Nor does serving a request.
LEMMA TypeServe ==
    ASSUME TypeOK, NEW s \in Session,
           ServeSync(s) \/ ServeGet(s) \/ ServeChange(s) \/ Fail(s)
    PROVE  TypeOK'
<1>1. CASE Answered(s)
  BY <1>1, ReplyTypes DEF Answered, Answer, TypeOK, links
<1>2. ASSUME NEW m \in ChangeRequest, Accepted(s, m), Reply(s, <<>>) PROVE TypeOK'
  BY <1>2, ApplyTypes, ReplyTypes, EmptySeq DEF Accepted, Apply, TypeOK, links
<1> QED
  BY <1>1, <1>2, ServeOutcome

LEMMA TypeStep == TypeOK /\ [Next]_colVars => TypeOK'
<1> SUFFICES ASSUME TypeOK, [Next]_colVars PROVE TypeOK'
  OBVIOUS
<1>1. ASSUME NEW s \in Session, ServerStep(s) PROVE TypeOK'
  BY <1>1, TypeSession, TypeServe DEF ServerStep
<1>2. ASSUME NEW s \in Session,
             \/ Close(s) \/ Receive(s)
             \/ \E r \in Nat : Connect(s, r)
             \/ \E m \in ClientMessage : Take(s, m)
      PROVE  TypeOK'
  BY <1>2, TypeSession
<1>3. ASSUME NEW m \in ChangeRequest, ApiChange(m) PROVE TypeOK'
  BY <1>3, ApplyTypes DEF ApiChange, Apply, TypeOK, links
<1>4. ASSUME NEW d \in Doc, Lock(d) PROVE TypeOK'
  BY <1>4 DEF Lock, TypeOK, links, channels
<1>5. CASE UNCHANGED colVars
  BY <1>5 DEF TypeOK, colVars, storage, links, channels
<1> QED
  BY <1>1, <1>2, <1>3, <1>4, <1>5 DEF Next

\* Documents, revisions, requests and messages stay what they are meant to be,
\* whatever the order of connections, requests, replies, broadcasts and faults.
THEOREM TypeCorrect == Spec => []TypeOK
<1>1. Init => TypeOK
  BY TypeInit
<1>2. TypeOK /\ [Next]_colVars => TypeOK'
  BY TypeStep
<1> QED
  BY <1>1, <1>2, PTL DEF Spec

-----------------------------------------------------------------------------
(* The rows of the collection *)

\* All that a step can do to the rows: apply a change, or take a revision and
\* fail to write the document.
LEMMA StorageStep ==
    ASSUME TypeOK, [Next]_colVars
    PROVE  \/ UNCHANGED <<docs, colrev>>
           \/ colrev' = colrev + 1 /\ UNCHANGED docs
           \/ \E src \in Session \cup {Api}, m \in ChangeRequest : Accepted(src, m)
<1> DEFINE Goal == \/ UNCHANGED <<docs, colrev>>
                   \/ colrev' = colrev + 1 /\ UNCHANGED docs
                   \/ \E src \in Session \cup {Api}, m \in ChangeRequest : Accepted(src, m)
<1>1. ASSUME NEW s \in Session, ServeSync(s) \/ ServeGet(s) \/ ServeChange(s) \/ Fail(s)
      PROVE  Goal
  BY <1>1, ServeOutcome DEF Answered
<1>2. ASSUME NEW s \in Session,
             \/ Subscribe(s) \/ Exit(s) \/ Forward(s) \/ Close(s) \/ Receive(s)
             \/ \E r \in Nat : Connect(s, r)
             \/ \E m \in ClientMessage : Take(s, m)
      PROVE  Goal
  BY <1>2 DEF Subscribe, Exit, Forward, Close, Receive, Connect, Take, storage
<1>3. ASSUME NEW m \in ChangeRequest, ApiChange(m) PROVE Goal
  BY <1>3 DEF ApiChange, Accepted
<1>4. ASSUME NEW d \in Doc, Lock(d) PROVE Goal
  BY <1>4 DEF Lock
<1>5. CASE UNCHANGED colVars
  BY <1>5 DEF colVars, storage
<1> QED
  BY <1>1, <1>2, <1>3, <1>4, <1>5 DEF Next, ServerStep

\* What an accepted change writes.
LEMMA AcceptedRow ==
    ASSUME TypeOK, NEW src, NEW m \in ChangeRequest, Accepted(src, m)
    PROVE  /\ m.id \in Doc /\ Outcome(m) \in Data
           /\ colrev' = colrev + 1
           /\ docs' = [docs EXCEPT ![m.id] = [rev |-> colrev + 1, data |-> Outcome(m)]]
           /\ docs'[m.id] = [rev |-> colrev + 1, data |-> Outcome(m)]
           /\ docs'[m.id].rev = colrev + 1
           /\ \A d \in Doc \ {m.id} : docs'[d] = docs[d]
BY RequestTypes, OutcomeTypes DEF Accepted, Apply, TypeOK

LEMMA RowsInit == Init => RowsOrdered
BY DEF Init, RowsOrdered, NoRow

LEMMA RowsStep == TypeOK /\ RowsOrdered /\ [Next]_colVars => RowsOrdered'
<1> SUFFICES ASSUME TypeOK, RowsOrdered, [Next]_colVars PROVE RowsOrdered'
  OBVIOUS
<1>1. CASE UNCHANGED <<docs, colrev>>
  BY <1>1 DEF RowsOrdered
<1>2. CASE colrev' = colrev + 1 /\ UNCHANGED docs
  BY <1>2 DEF RowsOrdered, TypeOK
<1>3. ASSUME NEW src, NEW m \in ChangeRequest, Accepted(src, m) PROVE RowsOrdered'
  <2>1. /\ m.id \in Doc /\ colrev' = colrev + 1
        /\ docs'[m.id].rev = colrev + 1
        /\ \A d \in Doc \ {m.id} : docs'[d] = docs[d]
    BY <1>3, AcceptedRow
  <2>2. colrev \in Nat /\ \A d \in Doc : docs[d].rev \in Nat /\ docs[d].rev <= colrev
    BY DEF TypeOK, RowsOrdered
  <2>3. ASSUME NEW d \in Doc
        PROVE  docs'[d].rev <= colrev' /\ (docs'[d].rev = 0 => docs'[d] = NoRow)
    BY <2>1, <2>2 DEF RowsOrdered
  <2>4. ASSUME NEW d \in Doc, NEW e \in Doc, d # e, docs'[d].rev = docs'[e].rev
        PROVE  docs'[d].rev = 0
    <3>1. CASE d = m.id
      BY <2>1, <2>2, <2>4, <3>1
    <3>2. CASE e = m.id
      BY <2>1, <2>2, <2>4, <3>2
    <3>3. CASE d # m.id /\ e # m.id
      BY <2>1, <2>4, <3>3 DEF RowsOrdered
    <3> QED
      BY <3>1, <3>2, <3>3
  <2> QED
    BY <2>3, <2>4 DEF RowsOrdered, NoRow
<1> QED
  BY <1>1, <1>2, <1>3, StorageStep

\* Revisions are given out once, to one document, in order: two documents never
\* share one, whoever writes and whatever fails between increment_colrev and
\* the write that uses the revision.
THEOREM RowsAlwaysOrdered == Spec => []RowsOrdered
<1>1. Init => RowsOrdered
  BY RowsInit
<1>2. TypeOK /\ RowsOrdered /\ [Next]_colVars => RowsOrdered'
  BY RowsStep
<1> QED
  BY <1>1, <1>2, TypeCorrect, PTL DEF Spec

LEMMA LedgerStep == TypeOK /\ RowsOrdered /\ [Next]_colVars => [L!Next]_<<docs, colrev>>
<1> SUFFICES ASSUME TypeOK, RowsOrdered, [Next]_colVars
             PROVE  [L!Next]_<<docs, colrev>>
  OBVIOUS
<1>1. CASE UNCHANGED <<docs, colrev>>
  BY <1>1
<1>2. CASE colrev' = colrev + 1 /\ UNCHANGED docs
  BY <1>2 DEF L!Next, L!Skip
<1>3. ASSUME NEW src, NEW m \in ChangeRequest, Accepted(src, m) PROVE L!Next
  <2>1. L!Record(m.id, Outcome(m))
    BY <1>3, AcceptedRow DEF L!Record
  <2>2. Refusal(src, m) = NoError
    BY <1>3 DEF Accepted
  <2>3. m.id \in Doc
    BY RequestTypes
  <2>4. CASE m.op = "+"
    <3>1. docs[m.id].rev = 0 /\ Outcome(m) \in Version
      BY <2>2, <2>4, OutcomeTypes, RequestTypes DEF Exists, TypeOK
    <3> QED
      BY <2>1, <2>3, <3>1 DEF L!Next, L!Create, L!Version, Version
  <2>5. CASE m.op = "*"
    <3>1. /\ docs[m.id].data # Null
          /\ Outcome(m) \in Version /\ docs[m.id].data \subseteq Outcome(m)
      BY <2>2, <2>5, OutcomeTypes DEF Live
    <3> QED
      BY <2>1, <2>3, <3>1 DEF L!Next, L!Extend, L!Version, Version
  <2>6. CASE m.op = "-"
    <3>1. docs[m.id].data # Null /\ Outcome(m) = Null
      BY <2>2, <2>6, OutcomeTypes DEF Live
    <3> QED
      BY <2>1, <2>3, <3>1 DEF L!Next, L!Delete
  <2> QED
    BY <2>4, <2>5, <2>6, RequestTypes DEF Op
<1> QED
  BY <1>1, <1>2, <1>3, StorageStep

\* The collection implements Ledger: an id is created once, updates only add to
\* a document, deletion is final, and every change takes the next revision
\* (handle_create, handle_update, handle_delete).
THEOREM KeepsLedger == Spec => Ledger
<1>1. Init => L!Init
  BY DEF Init, L!Init, NoRow
<1>2. TypeOK /\ RowsOrdered /\ [Next]_colVars => [L!Next]_<<docs, colrev>>
  BY LedgerStep
<1> QED
  BY <1>1, <1>2, TypeCorrect, RowsAlwaysOrdered, PTL DEF Spec, Ledger, L!Spec

-----------------------------------------------------------------------------
(* How a step moves messages *)

\* Without a new broadcast: nothing, a reply, a broadcast forwarded, a message
\* received, or the connection lost.
Replied(s) ==
    /\ \E msgs \in Seq(Answer) : wire'[s] = wire[s] \o msgs
    /\ mailbox'[s] = mailbox[s]

Forwarded(s) ==
    /\ mailbox[s] # <<>>
    /\ wire'[s] = Append(wire[s], Head(mailbox[s]))
    /\ mailbox'[s] = Tail(mailbox[s])

Received(s) ==
    /\ wire[s] # <<>>
    /\ wire'[s] = Tail(wire[s])
    /\ mailbox'[s] = mailbox[s]

Same(s) == wire'[s] = wire[s] /\ mailbox'[s] = mailbox[s]
Cut(s)  == wire'[s] = <<>> /\ mailbox'[s] = <<>>

Relayed(s) == Same(s) \/ Replied(s) \/ Forwarded(s) \/ Received(s) \/ Cut(s)

LEMMA ReplyRelays ==
    ASSUME TypeOK, NEW s \in Session, Answered(s), NEW t \in Session
    PROVE  Relayed(t)
<1>1. PICK msgs \in Seq(Answer) : Reply(s, msgs)
  BY DEF Answered
<1>2. mailbox'[t] = mailbox[t]
  BY DEF Answered
<1>3. wire'[t] = wire[t] \/ wire'[t] = wire[t] \o msgs
  BY <1>1 DEF Reply, TypeOK
<1> QED
  BY <1>2, <1>3 DEF Relayed, Same, Replied

LEMMA SessionRelays ==
    ASSUME TypeOK, NEW s \in Session, NEW t \in Session,
           \/ Subscribe(s) \/ Exit(s) \/ Close(s) \/ Forward(s) \/ Receive(s)
           \/ \E r \in Nat : Connect(s, r)
           \/ \E m \in ClientMessage : Take(s, m)
    PROVE  Relayed(t) /\ UNCHANGED <<docs, colrev>>
<1> USE DEF Relayed, Same, TypeOK, storage, channels
<1>1. CASE Subscribe(s) \/ Exit(s) \/ \E r \in Nat : Connect(s, r)
  BY <1>1 DEF Subscribe, Exit, Connect
<1>2. CASE Close(s)
  BY <1>2 DEF Close, Cut
<1>3. CASE Forward(s)
  BY <1>3 DEF Forward, Forwarded
<1>4. CASE Receive(s)
  BY <1>4 DEF Receive, Received
<1>5. CASE \E m \in ClientMessage : Take(s, m)
  BY <1>5 DEF Take
<1> QED
  BY <1>1, <1>2, <1>3, <1>4, <1>5

\* A step either relays what there is, for every session, or broadcasts a change.
LEMMA FeedStep ==
    ASSUME TypeOK, [Next]_colVars
    PROVE  \/ /\ \A t \in Session : Relayed(t)
              /\ UNCHANGED docs /\ colrev' \in {colrev, colrev + 1}
           \/ \E src \in Session \cup {Api}, m \in ChangeRequest :
                  Accepted(src, m) /\ UNCHANGED wire
<1> DEFINE Relays == /\ \A t \in Session : Relayed(t)
                     /\ UNCHANGED docs /\ colrev' \in {colrev, colrev + 1}
           Applies == \E src \in Session \cup {Api}, m \in ChangeRequest :
                          Accepted(src, m) /\ UNCHANGED wire
<1>1. ASSUME NEW s \in Session, ServeSync(s) \/ ServeGet(s) \/ ServeChange(s) \/ Fail(s)
      PROVE  Relays \/ Applies
  <2>1. CASE Answered(s)
    BY <2>1, ReplyRelays DEF Answered
  <2>2. ASSUME NEW m \in ChangeRequest, Accepted(s, m), Reply(s, <<>>)
        PROVE  Applies
    <3>1. wire[s] \o <<>> = wire[s]
      BY ConcatEmptySeq DEF TypeOK
    <3>2. wire' = wire
      BY <2>2, <3>1 DEF Reply, TypeOK
    <3> QED
      BY <2>2, <3>2
  <2> QED
    BY <1>1, <2>1, <2>2, ServeOutcome
<1>2. ASSUME NEW s \in Session,
             \/ Subscribe(s) \/ Exit(s) \/ Forward(s) \/ Close(s) \/ Receive(s)
             \/ \E r \in Nat : Connect(s, r)
             \/ \E m \in ClientMessage : Take(s, m)
      PROVE  Relays
  BY <1>2, SessionRelays
<1>3. ASSUME NEW m \in ChangeRequest, ApiChange(m) PROVE Applies
  BY <1>3 DEF ApiChange, Accepted
<1>4. CASE (\E d \in Doc : Lock(d)) \/ UNCHANGED colVars
  BY <1>4 DEF Lock, colVars, storage, channels, Relayed, Same
<1> QED
  BY <1>1, <1>2, <1>3, <1>4 DEF Next, ServerStep

-----------------------------------------------------------------------------
(* What the argument rests on *)

\* A broadcast carries a revision that was given out.
Issued(m) == m.kind = "change" => m.colrev \in 1..colrev

\* So does every message on its way, and a mailbox holds nothing but broadcasts.
FeedIssued ==
    \A s \in Session :
        /\ \A i \in DOMAIN wire[s] : Issued(wire[s][i])
        /\ \A i \in DOMAIN mailbox[s] :
              Issued(mailbox[s][i]) /\ mailbox[s][i].kind = "change"

\* Only a subscriber with a connection has a backlog.
MailSubscribed ==
    \A s \in Session : mailbox[s] # <<>> => s \in subscribers /\ stage[s] = "open"

FeedInv ==
    /\ TypeOK /\ RowsOrdered
    /\ FeedIssued /\ MailSubscribed
    /\ FeedInOrder /\ FeedTruthful /\ FeedUnbroken

-----------------------------------------------------------------------------
(* The steps that move messages, index by index *)

LEMMA Lengths ==
    ASSUME TypeOK, NEW s \in Session
    PROVE  /\ Len(wire[s]) \in Nat /\ DOMAIN wire[s] = 1..Len(wire[s])
           /\ Len(mailbox[s]) \in Nat /\ DOMAIN mailbox[s] = 1..Len(mailbox[s])
BY LenProperties DEF TypeOK

LEMMA RepliedShape ==
    ASSUME TypeOK, NEW s \in Session, Replied(s)
    PROVE  \E n \in Nat :
              /\ DOMAIN wire'[s] = 1..(Len(wire[s]) + n)
              /\ \A i \in DOMAIN wire'[s] :
                    IF i <= Len(wire[s]) THEN wire'[s][i] = wire[s][i]
                    ELSE wire'[s][i].kind # "change"
<1> DEFINE w == wire[s]
<1>1. PICK msgs \in Seq(Answer) : wire'[s] = w \o msgs
  BY DEF Replied
<1>2. w \in Seq(ServerMessage) /\ Len(w) \in Nat
  BY LenProperties DEF TypeOK
<1>3. msgs \in Seq(ServerMessage) /\ Len(msgs) \in Nat
  BY LenProperties DEF Answer
<1>4. \A i \in 1..Len(msgs) : msgs[i].kind # "change"
  BY ElementOfSeq DEF Answer
<1>5. /\ DOMAIN (w \o msgs) = 1..(Len(w) + Len(msgs))
      /\ \A i \in 1..(Len(w) + Len(msgs)) :
            (w \o msgs)[i] = IF i <= Len(w) THEN w[i] ELSE msgs[i - Len(w)]
  BY <1>2, <1>3, ConcatProperties, LenProperties
<1>6. ASSUME NEW i \in 1..(Len(w) + Len(msgs))
      PROVE  IF i <= Len(w) THEN (w \o msgs)[i] = w[i] ELSE (w \o msgs)[i].kind # "change"
  <2>1. CASE i <= Len(w)
    BY <1>5, <2>1
  <2>2. CASE ~(i <= Len(w))
    <3>1. i - Len(w) \in 1..Len(msgs)
      BY <1>2, <1>3, <2>2
    <3> QED
      BY <1>4, <1>5, <2>2, <3>1
  <2> QED
    BY <2>1, <2>2
<1> QED
  BY <1>1, <1>3, <1>5, <1>6

LEMMA ForwardedShape ==
    ASSUME TypeOK, NEW s \in Session, Forwarded(s)
    PROVE  /\ Len(mailbox[s]) > 0
           /\ DOMAIN wire'[s] = 1..(Len(wire[s]) + 1)
           /\ \A i \in 1..Len(wire[s]) : wire'[s][i] = wire[s][i]
           /\ wire'[s][Len(wire[s]) + 1] = mailbox[s][1]
           /\ DOMAIN mailbox'[s] = 1..(Len(mailbox[s]) - 1)
           /\ \A i \in DOMAIN mailbox'[s] : mailbox'[s][i] = mailbox[s][i + 1]
<1> DEFINE w == wire[s]
           q == mailbox[s]
<1>1. w \in Seq(ServerMessage) /\ q \in Seq(ServerMessage) /\ q # <<>>
  BY DEF TypeOK, Forwarded
<1>2. /\ Len(q) > 0 /\ Head(q) \in ServerMessage /\ Head(q) = q[1]
      /\ DOMAIN Tail(q) = 1..(Len(q) - 1)
      /\ \A i \in 1..(Len(q) - 1) : Tail(q)[i] = q[i + 1]
  BY <1>1, HeadTailProperties, LenProperties, EmptySeq
<1>3. /\ DOMAIN Append(w, Head(q)) = 1..(Len(w) + 1)
      /\ \A i \in 1..Len(w) : Append(w, Head(q))[i] = w[i]
      /\ Append(w, Head(q))[Len(w) + 1] = q[1]
  BY <1>1, <1>2, AppendProperties, LenProperties
<1> QED
  BY <1>2, <1>3 DEF Forwarded

LEMMA ReceivedShape ==
    ASSUME TypeOK, NEW s \in Session, Received(s)
    PROVE  /\ DOMAIN wire'[s] = 1..(Len(wire[s]) - 1)
           /\ \A i \in DOMAIN wire'[s] : wire'[s][i] = wire[s][i + 1]
BY HeadTailProperties, LenProperties DEF Received, TypeOK

\* A message on its way after the step is a reply, or was on its way before.
LEMMA Origin ==
    ASSUME TypeOK, NEW s \in Session, Relayed(s)
    PROVE  /\ \A i \in DOMAIN wire'[s] :
                 \/ wire'[s][i].kind # "change"
                 \/ \E j \in DOMAIN wire[s] : wire'[s][i] = wire[s][j]
                 \/ \E j \in DOMAIN mailbox[s] : wire'[s][i] = mailbox[s][j]
           /\ \A i \in DOMAIN mailbox'[s] :
                 \E j \in DOMAIN mailbox[s] : mailbox'[s][i] = mailbox[s][j]
<1>1. CASE Same(s)
  BY <1>1 DEF Same
<1>2. CASE Replied(s)
  <2>1. ASSUME NEW i \in DOMAIN wire'[s]
        PROVE  \/ wire'[s][i].kind # "change"
               \/ i \in DOMAIN wire[s] /\ wire'[s][i] = wire[s][i]
    BY <1>2, Lengths, RepliedShape
  <2> QED
    BY <1>2, <2>1 DEF Replied
<1>3. CASE Forwarded(s)
  <2>1. ASSUME NEW i \in DOMAIN wire'[s]
        PROVE  \/ i \in DOMAIN wire[s] /\ wire'[s][i] = wire[s][i]
               \/ 1 \in DOMAIN mailbox[s] /\ wire'[s][i] = mailbox[s][1]
    BY <1>3, Lengths, ForwardedShape
  <2>2. ASSUME NEW i \in DOMAIN mailbox'[s]
        PROVE  i + 1 \in DOMAIN mailbox[s] /\ mailbox'[s][i] = mailbox[s][i + 1]
    BY <1>3, Lengths, ForwardedShape
  <2> QED
    BY <2>1, <2>2
<1>4. CASE Received(s)
  <2>1. ASSUME NEW i \in DOMAIN wire'[s]
        PROVE  i + 1 \in DOMAIN wire[s] /\ wire'[s][i] = wire[s][i + 1]
    BY <1>4, Lengths, ReceivedShape
  <2> QED
    BY <1>4, <2>1 DEF Received
<1>5. CASE Cut(s)
  BY <1>5 DEF Cut
<1> QED
  BY <1>1, <1>2, <1>3, <1>4, <1>5 DEF Relayed

-----------------------------------------------------------------------------
(* Steps that relay *)

LEMMA RelayIssued ==
    ASSUME FeedInv, \A t \in Session : Relayed(t), colrev' \in {colrev, colrev + 1}
    PROVE  FeedIssued'
<1>1. colrev \in Nat /\ TypeOK /\ FeedIssued
  BY DEF FeedInv, TypeOK
<1>2. ASSUME NEW m, Issued(m) PROVE Issued(m)'
  BY <1>1, <1>2 DEF Issued
<1>3. ASSUME NEW s \in Session, NEW i \in DOMAIN wire'[s] PROVE Issued(wire[s][i])'
  <2>1. CASE wire'[s][i].kind # "change"
    BY <2>1 DEF Issued
  <2>2. CASE \E j \in DOMAIN wire[s] : wire'[s][i] = wire[s][j]
    BY <1>1, <1>2, <2>2 DEF FeedIssued
  <2>3. CASE \E j \in DOMAIN mailbox[s] : wire'[s][i] = mailbox[s][j]
    BY <1>1, <1>2, <2>3 DEF FeedIssued
  <2> QED
    BY <1>1, <2>1, <2>2, <2>3, Origin
<1>4. ASSUME NEW s \in Session, NEW i \in DOMAIN mailbox'[s]
      PROVE  Issued(mailbox[s][i])' /\ mailbox'[s][i].kind = "change"
  <2>1. PICK j \in DOMAIN mailbox[s] : mailbox'[s][i] = mailbox[s][j]
    BY <1>1, Origin
  <2>2. Issued(mailbox[s][j]) /\ mailbox[s][j].kind = "change"
    BY <1>1 DEF FeedIssued
  <2> QED
    BY <1>2, <2>1, <2>2
<1> QED
  BY <1>3, <1>4 DEF FeedIssued

LEMMA RelayTruthful ==
    ASSUME FeedInv, \A t \in Session : Relayed(t), UNCHANGED docs
    PROVE  FeedTruthful'
<1>1. TypeOK /\ FeedTruthful
  BY DEF FeedInv
<1>2. ASSUME NEW m, Truthful(m) PROVE Truthful(m)'
  BY <1>2 DEF Truthful, Live
<1>3. ASSUME NEW s \in Session, NEW i \in DOMAIN wire'[s] PROVE Truthful(wire[s][i])'
  <2>1. CASE wire'[s][i].kind # "change"
    BY <2>1 DEF Truthful
  <2>2. CASE \E j \in DOMAIN wire[s] : wire'[s][i] = wire[s][j]
    BY <1>1, <1>2, <2>2 DEF FeedTruthful
  <2>3. CASE \E j \in DOMAIN mailbox[s] : wire'[s][i] = mailbox[s][j]
    BY <1>1, <1>2, <2>3 DEF FeedTruthful
  <2> QED
    BY <1>1, <2>1, <2>2, <2>3, Origin
<1>4. ASSUME NEW s \in Session, NEW i \in DOMAIN mailbox'[s]
      PROVE  Truthful(mailbox[s][i])'
  <2>1. PICK j \in DOMAIN mailbox[s] : mailbox'[s][i] = mailbox[s][j]
    BY <1>1, Origin
  <2>2. Truthful(mailbox[s][j])
    BY <1>1 DEF FeedTruthful
  <2> QED
    BY <1>2, <2>1, <2>2
<1> QED
  BY <1>3, <1>4 DEF FeedTruthful

\* Forwarding moves the first broadcast of the mailbox behind everything on the
\* websocket, where FeedInOrder says it belongs.
LEMMA RelayInOrder ==
    ASSUME FeedInv, \A t \in Session : Relayed(t)
    PROVE  FeedInOrder'
<1>1. TypeOK /\ FeedInOrder
  BY DEF FeedInv
<1> SUFFICES ASSUME NEW s \in Session
             PROVE  /\ InOrder(wire'[s]) /\ InOrder(mailbox'[s])
                    /\ \A i \in DOMAIN wire'[s], j \in DOMAIN mailbox'[s] :
                          Precedes(wire'[s][i], mailbox'[s][j])
  BY DEF FeedInOrder, InOrder, Precedes
<1>2. /\ \A i, j \in 1..Len(wire[s]) : i < j => Precedes(wire[s][i], wire[s][j])
      /\ \A i, j \in 1..Len(mailbox[s]) : i < j => Precedes(mailbox[s][i], mailbox[s][j])
      /\ \A i \in 1..Len(wire[s]), j \in 1..Len(mailbox[s]) :
            Precedes(wire[s][i], mailbox[s][j])
      /\ Len(wire[s]) \in Nat /\ Len(mailbox[s]) \in Nat
  BY <1>1, Lengths DEF FeedInOrder, InOrder
<1>3. CASE Same(s)
  BY <1>1, <1>3 DEF Same, FeedInOrder
<1>4. CASE Replied(s)
  <2>1. ASSUME NEW m, NEW n, m.kind # "change" \/ n.kind # "change"
        PROVE  Precedes(m, n)
    BY <2>1 DEF Precedes
  <2>2. ASSUME NEW i \in DOMAIN wire'[s]
        PROVE  \/ wire'[s][i].kind # "change"
               \/ i \in 1..Len(wire[s]) /\ wire'[s][i] = wire[s][i]
    BY <1>1, <1>4, <1>2, RepliedShape
  <2>3. mailbox'[s] = mailbox[s] /\ DOMAIN mailbox'[s] = 1..Len(mailbox[s])
    BY <1>1, <1>4, Lengths DEF Replied
  <2>4. InOrder(wire'[s])
    BY <1>2, <2>1, <2>2 DEF InOrder
  <2>5. InOrder(mailbox'[s])
    BY <1>2, <2>3 DEF InOrder
  <2>6. ASSUME NEW i \in DOMAIN wire'[s], NEW j \in DOMAIN mailbox'[s]
        PROVE  Precedes(wire'[s][i], mailbox'[s][j])
    BY <1>2, <2>1, <2>2, <2>3
  <2> QED
    BY <2>4, <2>5, <2>6
<1>5. CASE Forwarded(s)
  <2>1. ASSUME NEW i \in DOMAIN wire'[s]
        PROVE  \/ i \in 1..Len(wire[s]) /\ wire'[s][i] = wire[s][i]
               \/ i = Len(wire[s]) + 1 /\ wire'[s][i] = mailbox[s][1]
    BY <1>1, <1>2, <1>5, ForwardedShape
  <2>2. ASSUME NEW i \in DOMAIN mailbox'[s]
        PROVE  /\ i \in Nat /\ i + 1 \in 2..Len(mailbox[s])
               /\ mailbox'[s][i] = mailbox[s][i + 1]
    BY <1>1, <1>2, <1>5, ForwardedShape
  <2>3. 1 \in 1..Len(mailbox[s])
    BY <1>1, <1>2, <1>5, ForwardedShape
  <2>4. InOrder(wire'[s])
    BY <1>2, <2>1, <2>3 DEF InOrder
  <2>5. InOrder(mailbox'[s])
    BY <1>2, <2>2 DEF InOrder
  <2>6. ASSUME NEW i \in DOMAIN wire'[s], NEW j \in DOMAIN mailbox'[s]
        PROVE  Precedes(wire'[s][i], mailbox'[s][j])
    <3>1. /\ j + 1 \in 1..Len(mailbox[s]) /\ 1 < j + 1
          /\ mailbox'[s][j] = mailbox[s][j + 1]
      BY <1>2, <2>2
    <3> QED
      BY <1>2, <2>1, <2>3, <3>1
  <2> QED
    BY <2>4, <2>5, <2>6
<1>6. CASE Received(s)
  <2>1. ASSUME NEW i \in DOMAIN wire'[s]
        PROVE  i \in Nat /\ i + 1 \in 1..Len(wire[s]) /\ wire'[s][i] = wire[s][i + 1]
    BY <1>1, <1>2, <1>6, ReceivedShape
  <2>2. mailbox'[s] = mailbox[s] /\ DOMAIN mailbox'[s] = 1..Len(mailbox[s])
    BY <1>1, <1>6, Lengths DEF Received
  <2>3. InOrder(wire'[s])
    <3> SUFFICES ASSUME NEW i \in DOMAIN wire'[s], NEW j \in DOMAIN wire'[s], i < j
                 PROVE  Precedes(wire'[s][i], wire'[s][j])
      BY DEF InOrder
    <3>1. i + 1 < j + 1 /\ i + 1 \in DOMAIN wire[s] /\ j + 1 \in DOMAIN wire[s]
      BY <1>2, <2>1
    <3>2. Precedes(wire[s][i + 1], wire[s][j + 1])
      BY <1>2, <3>1 DEF InOrder
    <3> QED
      BY <2>1, <3>2
  <2>4. InOrder(mailbox'[s])
    BY <1>2, <2>2 DEF InOrder
  <2>5. ASSUME NEW i \in DOMAIN wire'[s], NEW j \in DOMAIN mailbox'[s]
        PROVE  Precedes(wire'[s][i], mailbox'[s][j])
    BY <1>2, <2>1, <2>2
  <2> QED
    BY <2>3, <2>4, <2>5
<1>7. CASE Cut(s)
  BY <1>7 DEF Cut, InOrder
<1> QED
  BY <1>3, <1>4, <1>5, <1>6, <1>7 DEF Relayed

LEMMA FirstOfMailbox ==
    ASSUME TypeOK, NEW s \in Session, mailbox[s] # <<>>
    PROVE  Len(mailbox[s]) > 0 /\ Head(mailbox[s]) = mailbox[s][1]
BY HeadTailProperties, LenProperties, EmptySeq DEF TypeOK

LEMMA RelayUnbroken ==
    ASSUME FeedInv, TypeOK', \A t \in Session : Relayed(t), UNCHANGED docs
    PROVE  FeedUnbroken'
<1>1. TypeOK /\ FeedInOrder /\ FeedUnbroken /\ FeedIssued /\ MailSubscribed
  BY DEF FeedInv
<1> SUFFICES ASSUME NEW s \in Session, NEW d \in Doc,
                    mailbox'[s] # <<>>, docs'[d].rev > Head(mailbox'[s]).colrev
             PROVE  \E i \in DOMAIN mailbox'[s] : mailbox'[s][i].colrev = docs'[d].rev
  BY DEF FeedUnbroken, TypeOK
<1>2. mailbox[s] # <<>> =>
        (docs[d].rev > Head(mailbox[s]).colrev =>
           \E i \in DOMAIN mailbox[s] : mailbox[s][i].colrev = docs[d].rev)
  BY <1>1 DEF MailSubscribed, FeedUnbroken
<1>3. CASE mailbox'[s] = mailbox[s]
  BY <1>2, <1>3
<1>4. CASE Forwarded(s)
  <2> DEFINE q == mailbox[s]
  <2>1. mailbox[s] # <<>>
    BY <1>4 DEF Forwarded
  <2>2. /\ Head(mailbox[s]) = q[1] /\ Len(q) \in Nat /\ DOMAIN q = 1..Len(q)
        /\ DOMAIN mailbox'[s] = 1..(Len(q) - 1)
        /\ \A i \in DOMAIN mailbox'[s] : mailbox'[s][i] = q[i + 1]
    BY <1>1, <1>4, <2>1, FirstOfMailbox, ForwardedShape, Lengths
  <2>3. Len(mailbox'[s]) > 0 /\ Head(mailbox'[s]) = mailbox'[s][1]
    BY HeadTailProperties, LenProperties, EmptySeq DEF TypeOK
  <2>4. DOMAIN mailbox'[s] = 1..Len(mailbox'[s]) /\ Len(mailbox'[s]) \in Nat
    BY LenProperties DEF TypeOK
  <2>5. Len(q) >= 2 /\ Head(mailbox'[s]) = q[2]
    BY <2>2, <2>3, <2>4
  <2>6. /\ q[1].colrev < q[2].colrev
        /\ q[1].colrev \in Nat /\ q[2].colrev \in Nat
    <3>1. 1 \in DOMAIN q /\ 2 \in DOMAIN q
      BY <2>2, <2>5
    <3>2. InOrder(q) /\ \A i \in DOMAIN q : q[i].kind = "change" /\ Issued(q[i])
      BY <1>1 DEF FeedInOrder, FeedIssued
    <3> QED
      BY <1>1, <3>1, <3>2 DEF InOrder, Precedes, Issued, TypeOK
  <2>7. docs[d].rev \in Nat /\ docs[d].rev > q[2].colrev
    BY <1>1, <2>5 DEF TypeOK
  <2>8. PICK i \in DOMAIN q : q[i].colrev = docs[d].rev
    BY <1>2, <2>1, <2>2, <2>6, <2>7
  <2>9. i # 1
    BY <2>6, <2>7, <2>8
  <2>10. i - 1 \in DOMAIN mailbox'[s] /\ mailbox'[s][i - 1] = q[i]
    <3>1. i - 1 \in 1..(Len(q) - 1) /\ (i - 1) + 1 = i
      BY <2>2, <2>9
    <3> QED
      BY <2>2, <3>1
  <2> QED
    BY <2>8, <2>10
<1>5. CASE Cut(s)
  BY <1>5 DEF Cut
<1> QED
  BY <1>3, <1>4, <1>5 DEF Relayed, Same, Replied, Received

\* A mailbox is filled for a subscriber with a connection, and emptied when the
\* connection is lost, before the subscription ends.
LEMMA MailStep ==
    ASSUME TypeOK, MailSubscribed, [Next]_colVars
    PROVE  MailSubscribed'
<1>1. ASSUME NEW src, NEW m \in ChangeRequest, Accepted(src, m) PROVE MailSubscribed'
  BY <1>1 DEF Accepted, Apply, Broadcast, MailSubscribed, links, TypeOK
<1>2. ASSUME NEW s \in Session, ServeSync(s) \/ ServeGet(s) \/ ServeChange(s) \/ Fail(s)
      PROVE  MailSubscribed'
  <2>1. CASE Answered(s)
    BY <2>1 DEF Answered, MailSubscribed, links
  <2> QED
    BY <1>1, <1>2, <2>1, ServeOutcome
<1>3. ASSUME NEW s \in Session, Subscribe(s) \/ Exit(s) \/ Close(s)
      PROVE  MailSubscribed'
  BY <1>3 DEF Subscribe, Exit, Close, MailSubscribed, channels, TypeOK
<1>4. ASSUME NEW s \in Session, Forward(s) PROVE MailSubscribed'
  BY <1>4 DEF Forward, MailSubscribed, links, TypeOK
<1>5. ASSUME NEW s \in Session,
             \/ Receive(s)
             \/ \E r \in Nat : Connect(s, r)
             \/ \E m \in ClientMessage : Take(s, m)
      PROVE  MailSubscribed'
  BY <1>5 DEF Receive, Connect, Take, MailSubscribed, links, TypeOK
<1>6. CASE \E m \in ChangeRequest : ApiChange(m)
  BY <1>1, <1>6 DEF ApiChange, Accepted
<1>7. CASE (\E d \in Doc : Lock(d)) \/ UNCHANGED colVars
  BY <1>7 DEF Lock, MailSubscribed, colVars, links, channels
<1> QED
  BY <1>2, <1>3, <1>4, <1>5, <1>6, <1>7 DEF Next, ServerStep

-----------------------------------------------------------------------------
(* Steps that broadcast *)

\* The broadcast of an accepted change, and the mailboxes after it.
LEMMA BroadcastShape ==
    ASSUME TypeOK, NEW src, NEW m \in ChangeRequest, Accepted(src, m), NEW s \in Session
    PROVE  LET msg == ServerChange(m.op, m.id, Outcome(m), colrev + 1)
               q   == mailbox[s]
           IN  /\ msg.kind = "change" /\ msg.id = m.id
               /\ msg.data = Outcome(m) /\ msg.colrev = colrev + 1
               /\ \/ /\ mailbox'[s] = q
                     /\ ~(s \in subscribers /\ stage[s] = "open")
                  \/ /\ s \in subscribers
                     /\ DOMAIN mailbox'[s] = 1..(Len(q) + 1)
                     /\ \A i \in 1..Len(q) : mailbox'[s][i] = q[i]
                     /\ mailbox'[s][Len(q) + 1] = msg
                     /\ Head(mailbox'[s]) = IF q = <<>> THEN msg ELSE Head(q)
               /\ subscribers' = subscribers
<1> DEFINE msg == ServerChange(m.op, m.id, Outcome(m), colrev + 1)
           q   == mailbox[s]
<1>1. msg.kind = "change" /\ msg.id = m.id /\ msg.data = Outcome(m) /\ msg.colrev = colrev + 1
  BY DEF ServerChange
<1>2. msg \in ServerMessage
  BY RequestTypes, OutcomeTypes DEF ServerChange, ServerMessage, TypeOK, Accepted
<1>3. q \in Seq(ServerMessage)
  BY DEF TypeOK
<1>4. /\ mailbox'[s] = IF s \in subscribers /\ stage[s] = "open" THEN Append(q, msg) ELSE q
      /\ subscribers' = subscribers
  BY DEF Accepted, Apply, Broadcast, links
<1>5. /\ DOMAIN Append(q, msg) = 1..(Len(q) + 1)
      /\ \A i \in 1..Len(q) : Append(q, msg)[i] = q[i]
      /\ Append(q, msg)[Len(q) + 1] = msg
      /\ Head(Append(q, msg)) = IF q = <<>> THEN msg ELSE Head(q)
  BY <1>2, <1>3, AppendProperties, LenProperties, HeadTailAppend
<1> QED
  BY <1>1, <1>4, <1>5

\* Every broadcast there is, and the new one.
LEMMA BroadcastOrigin ==
    ASSUME TypeOK, NEW src, NEW m \in ChangeRequest, Accepted(src, m),
           NEW s \in Session, NEW i \in DOMAIN mailbox'[s]
    PROVE  \/ i \in DOMAIN mailbox[s] /\ mailbox'[s][i] = mailbox[s][i]
           \/ /\ i = Len(mailbox[s]) + 1
              /\ mailbox'[s][i] = ServerChange(m.op, m.id, Outcome(m), colrev + 1)
BY BroadcastShape, Lengths

LEMMA BroadcastIssued ==
    ASSUME FeedInv, NEW src, NEW m \in ChangeRequest, Accepted(src, m), UNCHANGED wire
    PROVE  FeedIssued'
<1>1. TypeOK /\ FeedIssued /\ colrev \in Nat /\ colrev' = colrev + 1
  BY DEF FeedInv, Accepted, Apply, TypeOK
<1>2. ASSUME NEW n, Issued(n) PROVE Issued(n)'
  BY <1>1, <1>2 DEF Issued
<1>3. ASSUME NEW s \in Session, NEW i \in DOMAIN mailbox'[s]
      PROVE  Issued(mailbox[s][i])' /\ mailbox'[s][i].kind = "change"
  <2>1. CASE i \in DOMAIN mailbox[s] /\ mailbox'[s][i] = mailbox[s][i]
    BY <1>1, <1>2, <2>1 DEF FeedIssued
  <2>2. CASE mailbox'[s][i] = ServerChange(m.op, m.id, Outcome(m), colrev + 1)
    BY <1>1, <2>2 DEF ServerChange, Issued
  <2> QED
    BY <1>1, <2>1, <2>2, BroadcastOrigin
<1> QED
  BY <1>1, <1>2, <1>3 DEF FeedIssued

\* The new broadcast is the latest there is.
LEMMA BroadcastInOrder ==
    ASSUME FeedInv, NEW src, NEW m \in ChangeRequest, Accepted(src, m), UNCHANGED wire
    PROVE  FeedInOrder'
<1>1. TypeOK /\ FeedInOrder /\ FeedIssued /\ colrev \in Nat
  BY DEF FeedInv, TypeOK
<1> DEFINE msg == ServerChange(m.op, m.id, Outcome(m), colrev + 1)
<1>2. ASSUME NEW n, Issued(n) PROVE Precedes(n, msg)
  BY <1>1, <1>2 DEF Issued, Precedes, ServerChange
<1> SUFFICES ASSUME NEW s \in Session
             PROVE  /\ InOrder(wire'[s]) /\ InOrder(mailbox'[s])
                    /\ \A i \in DOMAIN wire'[s], j \in DOMAIN mailbox'[s] :
                          Precedes(wire'[s][i], mailbox'[s][j])
  BY DEF FeedInOrder, InOrder, Precedes
<1>3. ASSUME NEW j \in DOMAIN mailbox'[s]
      PROVE  \/ j \in 1..Len(mailbox[s]) /\ mailbox'[s][j] = mailbox[s][j]
             \/ j = Len(mailbox[s]) + 1 /\ mailbox'[s][j] = msg
  BY <1>1, BroadcastOrigin, Lengths
<1>4. /\ Len(mailbox[s]) \in Nat /\ DOMAIN mailbox[s] = 1..Len(mailbox[s])
      /\ \A j \in 1..Len(mailbox[s]) : Issued(mailbox[s][j])
      /\ \A i \in DOMAIN wire[s] : Issued(wire[s][i])
  BY <1>1, Lengths DEF FeedIssued
<1>5. InOrder(wire'[s])
  BY <1>1 DEF FeedInOrder
<1>6. ASSUME NEW i \in DOMAIN mailbox'[s], NEW j \in DOMAIN mailbox'[s], i < j
      PROVE  Precedes(mailbox'[s][i], mailbox'[s][j])
  <2>1. i \in 1..Len(mailbox[s]) /\ mailbox'[s][i] = mailbox[s][i]
    <3>1. i # Len(mailbox[s]) + 1
      BY <1>3, <1>4, <1>6
    <3> QED
      BY <1>3, <3>1
  <2>2. CASE j \in 1..Len(mailbox[s]) /\ mailbox'[s][j] = mailbox[s][j]
    BY <1>1, <1>4, <1>6, <2>1, <2>2 DEF FeedInOrder, InOrder
  <2>3. CASE mailbox'[s][j] = msg
    BY <1>2, <1>4, <2>1, <2>3
  <2> QED
    BY <1>3, <2>2, <2>3
<1>7. ASSUME NEW i \in DOMAIN wire'[s], NEW j \in DOMAIN mailbox'[s]
      PROVE  Precedes(wire'[s][i], mailbox'[s][j])
  <2>1. CASE j \in 1..Len(mailbox[s]) /\ mailbox'[s][j] = mailbox[s][j]
    BY <1>1, <1>4, <2>1 DEF FeedInOrder
  <2>2. CASE mailbox'[s][j] = msg
    BY <1>2, <1>4, <2>2
  <2> QED
    BY <1>3, <2>1, <2>2
<1> QED
  BY <1>5, <1>6, <1>7 DEF InOrder

\* A change that is accepted leaves what earlier broadcasts said true: the
\* document exists, so it is not created again, and is live, so none of them
\* said that it was deleted.
LEMMA StaysTruthful ==
    ASSUME TypeOK, NEW src, NEW m \in ChangeRequest, Accepted(src, m),
           NEW n \in ServerMessage, Issued(n), Truthful(n)
    PROVE  Truthful(n)'
<1>1. /\ m.id \in Doc /\ colrev \in Nat
      /\ docs'[m.id] = [rev |-> colrev + 1, data |-> Outcome(m)]
      /\ \A d \in Doc \ {m.id} : docs'[d] = docs[d]
  BY AcceptedRow DEF TypeOK
<1>2. CASE n.kind # "change"
  BY <1>2 DEF Truthful
<1>3. CASE n.kind = "change" /\ n.id # m.id
  <2>1. n.id \in Doc
    BY <1>3 DEF ServerMessage
  <2> QED
    BY <1>1, <1>3, <2>1 DEF Truthful, Live
<1>4. CASE n.kind = "change" /\ n.id = m.id
  <2>1. n.colrev \in 1..colrev
    BY <1>4 DEF Issued
  <2>2. docs[m.id].rev \in Nat /\ docs[m.id].rev >= n.colrev
    BY <1>1, <1>4, <2>1 DEF Truthful, TypeOK
  <2>3. Exists(m.id)
    BY <2>1, <2>2 DEF Exists
  <2>4. m.op # "+" /\ Live(m.id)
    BY <2>3, OutcomeTypes DEF Accepted
  <2>5. n.data # Null /\ n.data \subseteq docs[m.id].data
    BY <1>4, <2>4 DEF Truthful, Live
  <2>6. n.colrev < docs'[m.id].rev
    BY <1>1, <2>1
  <2>7. ASSUME docs'[m.id].data # Null PROVE n.data \subseteq docs'[m.id].data
    <3>1. m.op = "*"
      BY <1>1, <2>4, <2>7, OutcomeTypes, RequestTypes DEF Accepted, Op
    <3>2. docs[m.id].data \subseteq Outcome(m)
      BY <3>1, OutcomeTypes DEF Accepted
    <3> QED
      BY <1>1, <2>5, <3>2
  <2> QED
    BY <1>4, <2>5, <2>6, <2>7 DEF Truthful, Live
<1> QED
  BY <1>2, <1>3, <1>4

LEMMA BroadcastTruthful ==
    ASSUME FeedInv, NEW src, NEW m \in ChangeRequest, Accepted(src, m), UNCHANGED wire
    PROVE  FeedTruthful'
<1>1. TypeOK /\ FeedIssued /\ FeedTruthful
  BY DEF FeedInv
<1>2. ASSUME NEW s \in Session, NEW i \in DOMAIN wire[s] PROVE Truthful(wire[s][i])'
  <2>1. wire[s][i] \in ServerMessage
    BY <1>1, Lengths, ElementOfSeq DEF TypeOK
  <2>2. Issued(wire[s][i]) /\ Truthful(wire[s][i])
    BY <1>1 DEF FeedIssued, FeedTruthful
  <2>3. ASSUME NEW n \in ServerMessage, Issued(n), Truthful(n) PROVE Truthful(n)'
    BY <1>1, <2>3, StaysTruthful
  <2> QED
    BY <2>1, <2>2, <2>3
<1>3. ASSUME NEW s \in Session, NEW i \in DOMAIN mailbox'[s]
      PROVE  Truthful(mailbox[s][i])'
  <2>1. CASE i \in DOMAIN mailbox[s] /\ mailbox'[s][i] = mailbox[s][i]
    <3>1. mailbox[s][i] \in ServerMessage
      BY <1>1, <2>1, Lengths, ElementOfSeq DEF TypeOK
    <3>2. Issued(mailbox[s][i]) /\ Truthful(mailbox[s][i])
      BY <1>1, <2>1 DEF FeedIssued, FeedTruthful
    <3>3. ASSUME NEW n \in ServerMessage, Issued(n), Truthful(n) PROVE Truthful(n)'
      BY <1>1, <3>3, StaysTruthful
    <3> QED
      BY <2>1, <3>1, <3>2, <3>3
  <2>2. CASE mailbox'[s][i] = ServerChange(m.op, m.id, Outcome(m), colrev + 1)
    BY <1>1, <2>2, AcceptedRow DEF ServerChange, Truthful
  <2> QED
    BY <1>1, <2>1, <2>2, BroadcastOrigin
<1> QED
  BY <1>2, <1>3 DEF FeedTruthful

LEMMA BroadcastUnbroken ==
    ASSUME FeedInv, NEW src, NEW m \in ChangeRequest, Accepted(src, m)
    PROVE  FeedUnbroken'
<1>1. TypeOK /\ FeedUnbroken /\ MailSubscribed /\ RowsOrdered /\ colrev \in Nat
  BY DEF FeedInv, TypeOK
<1> DEFINE msg == ServerChange(m.op, m.id, Outcome(m), colrev + 1)
<1>2. /\ m.id \in Doc /\ docs'[m.id].rev = colrev + 1
      /\ \A d \in Doc \ {m.id} : docs'[d] = docs[d]
  BY <1>1, AcceptedRow
<1>3. \A d \in Doc : docs[d].rev \in Nat /\ docs[d].rev <= colrev
  BY <1>1 DEF RowsOrdered, TypeOK
<1> SUFFICES ASSUME NEW s \in subscribers', NEW d \in Doc,
                    mailbox'[s] # <<>>, docs'[d].rev > Head(mailbox'[s]).colrev
             PROVE  \E i \in DOMAIN mailbox'[s] : mailbox'[s][i].colrev = docs'[d].rev
  BY DEF FeedUnbroken
<1>4. s \in Session /\ s \in subscribers
  BY <1>1 DEF Accepted, Apply, links, TypeOK
<1>5. msg.colrev = colrev + 1 /\ Len(mailbox[s]) \in Nat
  BY <1>1, <1>4, Lengths DEF ServerChange
<1>6. CASE mailbox'[s] = mailbox[s] /\ stage[s] # "open"
  BY <1>1, <1>4, <1>6 DEF MailSubscribed
<1>7. CASE /\ DOMAIN mailbox'[s] = 1..(Len(mailbox[s]) + 1)
           /\ \A i \in 1..Len(mailbox[s]) : mailbox'[s][i] = mailbox[s][i]
           /\ mailbox'[s][Len(mailbox[s]) + 1] = msg
           /\ Head(mailbox'[s]) = IF mailbox[s] = <<>> THEN msg ELSE Head(mailbox[s])
  <2>1. CASE d = m.id
    <3>1. Len(mailbox[s]) + 1 \in DOMAIN mailbox'[s]
      BY <1>5, <1>7
    <3> QED
      BY <1>2, <1>5, <1>7, <2>1, <3>1
  <2>2. CASE d # m.id /\ mailbox[s] = <<>>
    BY <1>1, <1>2, <1>3, <1>5, <1>7, <2>2
  <2>3. CASE d # m.id /\ mailbox[s] # <<>>
    <3>1. PICK i \in DOMAIN mailbox[s] : mailbox[s][i].colrev = docs[d].rev
      BY <1>1, <1>2, <1>4, <1>7, <2>3 DEF FeedUnbroken
    <3>2. i \in 1..Len(mailbox[s]) /\ i \in DOMAIN mailbox'[s]
      BY <1>1, <1>4, <1>5, <1>7, Lengths
    <3> QED
      BY <1>2, <1>7, <2>3, <3>1, <3>2
  <2> QED
    BY <2>1, <2>2, <2>3
<1> QED
  BY <1>1, <1>4, <1>6, <1>7, BroadcastShape

-----------------------------------------------------------------------------
(* The invariant *)

LEMMA FeedInvInit == Init => FeedInv
BY TypeInit, RowsInit, EmptySeq
   DEF Init, FeedInv, FeedIssued, MailSubscribed, FeedInOrder, InOrder, FeedTruthful,
       FeedUnbroken

LEMMA FeedInvStep == FeedInv /\ [Next]_colVars => FeedInv'
<1> SUFFICES ASSUME FeedInv, [Next]_colVars PROVE FeedInv'
  OBVIOUS
<1>1. TypeOK' /\ RowsOrdered' /\ MailSubscribed'
  BY TypeStep, RowsStep, MailStep DEF FeedInv
<1>2. CASE /\ \A t \in Session : Relayed(t)
           /\ UNCHANGED docs /\ colrev' \in {colrev, colrev + 1}
  BY <1>1, <1>2, RelayIssued, RelayTruthful, RelayInOrder, RelayUnbroken DEF FeedInv
<1>3. ASSUME NEW src, NEW m \in ChangeRequest, Accepted(src, m), UNCHANGED wire
      PROVE  FeedInv'
  BY <1>1, <1>3, BroadcastIssued, BroadcastTruthful, BroadcastInOrder,
     BroadcastUnbroken DEF FeedInv
<1> QED
  BY <1>2, <1>3, FeedStep DEF FeedInv

LEMMA FeedAlways == Spec => []FeedInv
<1>1. FeedInv /\ [Next]_colVars => FeedInv'
  BY FeedInvStep
<1> QED
  BY <1>1, FeedInvInit, PTL DEF Spec

\* A session is sent broadcasts in the order of their revisions, however replies
\* overtake them between the mailbox and the websocket (the biased select of the
\* client's actor).
THEOREM BroadcastsInOrder == Spec => []FeedInOrder
<1>1. FeedInv => FeedInOrder
  BY DEF FeedInv
<1> QED
  BY <1>1, FeedAlways, PTL

\* Whatever is broadcast stays true of the document until it is received: it
\* holds at least as much, or has been deleted.
THEOREM BroadcastsTruthful == Spec => []FeedTruthful
<1>1. FeedInv => FeedTruthful
  BY DEF FeedInv
<1> QED
  BY <1>1, FeedAlways, PTL

\* A subscriber misses nothing behind the oldest broadcast in its mailbox.
THEOREM BroadcastsUnbroken == Spec => []FeedUnbroken
<1>1. FeedInv => FeedUnbroken
  BY DEF FeedInv
<1> QED
  BY <1>1, FeedAlways, PTL
=============================================================================
