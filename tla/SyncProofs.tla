----------------------------- MODULE SyncProofs -----------------------------
(***************************************************************************)
(* Users who edit: for every set of clients, connections, documents and    *)
(* edits, the clients of module Sync follow the collection as module Feed  *)
(* says, so what is proved there holds of them; an edit is never without   *)
(* the edits it was made on top of, and leaves its author's copy only for  *)
(* a reason.  What a user deletes stays deleted, and while no connection   *)
(* is lost, all that users do settles.                                     *)
(***************************************************************************)
EXTENDS MCSync, CollectionProofs, ReplicaProofs

-----------------------------------------------------------------------------
(* What a client sends *)

\* Message m is a change that k holds, and that is sent in l.
Flushed(k, l, m) ==
    \E d \in Doc : /\ Has(k, d) /\ l.items[d].state = "sent"
                   /\ m = FlushMessage(d, k.items[d])

\* Client c is as in k, and has sent changes that k holds, a `get`, or nothing.
Posted(c, k) ==
    \E l :
       /\ Alike(k, l) /\ replica' = [replica EXCEPT ![c] = l]
       /\ \/ UNCHANGED toServer
          \/ /\ link[c] # NoSlot
             /\ \E msgs \in Seq(ClientMessage) :
                   /\ toServer' = [toServer EXCEPT ![Conn(c)] = @ \o msgs]
                   /\ \A m \in Range(msgs) : m \in Garbled \/ Flushed(k, l, m)

LEMMA PostedSteps ==
    ASSUME NEW c \in Client, NEW k \in Replica,
           FlushFrom(c, k) \/ FlushNow(c, k) \/ FlushSoon(c, k)
    PROVE  Posted(c, k)
<1>1. ASSUME NEW l, Alike(k, l), Become(c, l), UNCHANGED toServer PROVE Posted(c, k)
  BY <1>1 DEF Posted, Become
<1>2. Alike(k, k)
  BY DEF Alike
<1>3. \A b \in BOOLEAN : [k EXCEPT !.flushTimer = b] \in Replica
                         /\ Alike(k, [k EXCEPT !.flushTimer = b])
  BY DEF Alike, Replica
<1>4. ASSUME NEW j \in Replica, Alike(k, j), j.items = k.items, FlushFrom(c, j)
      PROVE  Posted(c, k)
  <2>1. Alike(k, Flush(j))
    BY <1>4, FlushFacts DEF Alike
  <2>2. CASE link[c] = NoSlot
    <3>1. UNCHANGED toServer /\ (Become(c, j) \/ Become(c, Flush(j)))
      BY <1>4, <2>2 DEF FlushFrom
    <3> QED
      BY <1>1, <1>4, <2>1, <3>1
  <2>3. CASE link[c] # NoSlot
    <3>1. PICK order \in SetToSeqs(ToFlush(j)) :
             /\ Become(c, Flush(j))
             /\ Send(c, [i \in DOMAIN order |-> FlushMessage(order[i], j.items[order[i]])])
      BY <1>4, <2>3 DEF FlushFrom
    <3> DEFINE msgs == [i \in DOMAIN order |-> FlushMessage(order[i], j.items[order[i]])]
    <3>2. /\ msgs \in Seq(ClientMessage)
          /\ \A m \in Range(msgs) :
                \E d \in ToFlush(j) : Has(j, d) /\ m = FlushMessage(d, j.items[d])
      BY FlushMessages, CollectionAssumption
    <3>3. \A d \in ToFlush(j) : d \in Doc /\ Has(k, d) /\ j.items[d] = k.items[d]
                                /\ Flush(j).items[d].state = "sent"
      BY <1>4, FlushFacts DEF Has, ToFlush, Replica
    <3>4. toServer' = [toServer EXCEPT ![Conn(c)] = @ \o msgs]
      BY <3>1 DEF Send
    <3>5. \A m \in Range(msgs) : Flushed(k, Flush(j), m)
      BY <3>2, <3>3 DEF Flushed
    <3>6. replica' = [replica EXCEPT ![c] = Flush(j)]
      BY <3>1 DEF Become
    <3> HIDE DEF msgs
    <3> QED
      BY <2>1, <2>3, <3>2, <3>4, <3>5, <3>6 DEF Posted
  <2> QED
    BY <2>2, <2>3
<1>5. CASE FlushFrom(c, k)
  BY <1>2, <1>4, <1>5
<1>6. CASE FlushNow(c, k)
  <2>1. CASE k.status = "ready"
    <3>1. [k EXCEPT !.flushTimer = FALSE].items = k.items
      BY DEF Replica
    <3> QED
      BY <1>3, <1>4, <1>6, <2>1, <3>1 DEF FlushNow
  <2>2. CASE k.status # "ready"
    BY <1>1, <1>2, <1>6, <2>2 DEF FlushNow
  <2> QED
    BY <2>1, <2>2
<1>7. CASE FlushSoon(c, k)
  <2>1. (k.flushTimer \/ k.status = "ready") \in BOOLEAN
    BY DEF Replica
  <2> QED
    BY <1>1, <1>3, <1>7, <2>1 DEF FlushSoon
<1> QED
  BY <1>5, <1>6, <1>7

-----------------------------------------------------------------------------
(* The clients of module Sync as clients of module Feed *)

\* What is proved of module Feed, for the clients of module Sync.
FP == INSTANCE FeedProofs WITH
        view    <- [c \in Client |-> [d \in Doc |-> Remote(c, d)]],
        cursor  <- [c \in Client |-> replica[c].colrev],
        stopped <- {c \in Client : replica[c].stopped}

LEMMA FeedStepSame == [F!FeedNext]_F!feedVars <=> [FP!FeedNext]_FP!feedVars
BY DEF F!FeedNext, FP!FeedNext, F!Dial, FP!Dial, F!Connect, FP!Connect, F!storage,
       FP!storage, F!links, FP!links, F!channels, FP!channels, F!colVars,
       FP!colVars, F!HangUp, FP!HangUp, F!Close, FP!Close, F!Conn, FP!Conn, F!Read,
       FP!Read, F!Receive, FP!Receive, F!ReadData, FP!ReadData, F!Applied,
       FP!Applied, F!Merge, FP!Merge, F!ReadSyncComplete, FP!ReadSyncComplete,
       F!ReadRefusal, FP!ReadRefusal, F!GiveUp, FP!GiveUp, F!Lose, FP!Lose,
       F!Requests, FP!Requests, F!ChangeRequest, FP!ChangeRequest, F!Op, FP!Op,
       F!Data, FP!Data, F!Version, FP!Version, F!Garbled, FP!Garbled, F!ServerStep,
       FP!ServerStep, F!Subscribe, FP!Subscribe, F!Exit, FP!Exit, F!Forward,
       FP!Forward, F!ServeSync, FP!ServeSync, F!SyncReply, FP!SyncReply, F!Reply,
       FP!Reply, F!NoCall, FP!NoCall, F!SyncError, FP!SyncError, F!SyncComplete,
       FP!SyncComplete, F!Missing, FP!Missing, F!Live, FP!Live, F!DocMessage,
       FP!DocMessage, F!SetToSeqs, FP!SetToSeqs, F!ServeGet, FP!ServeGet, F!Exists,
       FP!Exists, F!GetError, FP!GetError, F!ServeChange, FP!ServeChange, F!Refusal,
       FP!Refusal, F!CreateRefusal, FP!CreateRefusal, F!EditRefusal, FP!EditRefusal,
       F!MayCreate, FP!MayCreate, F!MayEdit, FP!MayEdit, F!NoError, FP!NoError,
       F!Apply, FP!Apply, F!Outcome, FP!Outcome, F!Broadcast, FP!Broadcast,
       F!ServerChange, FP!ServerChange, F!ChangeError, FP!ChangeError, F!Fail,
       FP!Fail, F!ApiChange, FP!ApiChange, F!Lock, FP!Lock, F!followVars,
       FP!followVars, F!feedVars, FP!feedVars, F!Take, FP!Take, F!Cardinality,
       FP!Cardinality

LEMMA FeedStartSame == F!FeedInit <=> FP!FeedInit
BY DEF F!FeedInit, FP!FeedInit, F!Init, FP!Init, F!NoCall, FP!NoCall, F!NoRow, FP!NoRow

\* To module Feed the server does what it does here.
LEMMA ServerSame ==
    /\ \A s, r : F!Connect(s, r) <=> Connect(s, r)
    /\ \A s : /\ F!Close(s) <=> Close(s)
              /\ F!Receive(s) <=> Receive(s)
              /\ F!ServerStep(s) <=> ServerStep(s)
    /\ \A s, m : F!Take(s, m) <=> Take(s, m)
    /\ \A m : F!ApiChange(m) <=> ApiChange(m)
    /\ \A d : F!Lock(d) <=> Lock(d)
BY DEF F!Connect, Connect, F!Close, Close, F!Receive, Receive, F!Take, Take,
       F!Garbled, Garbled, F!ServerStep, ServerStep, F!Subscribe, Subscribe, F!Exit,
       Exit, F!Forward, Forward, F!ServeSync, ServeSync, F!SyncReply, SyncReply,
       F!Reply, Reply, F!NoCall, NoCall, F!SyncError, SyncError, F!SyncComplete,
       SyncComplete, F!Missing, Missing, F!Live, Live, F!DocMessage, DocMessage,
       F!SetToSeqs, SetToSeqs, F!ServeGet, ServeGet, F!Exists, Exists, F!GetError,
       GetError, F!ServeChange, ServeChange, F!Refusal, Refusal, F!CreateRefusal,
       CreateRefusal, F!EditRefusal, EditRefusal, F!MayCreate, MayCreate, F!MayEdit,
       MayEdit, F!NoError, NoError, F!Apply, Apply, F!Outcome, Outcome, F!Merge,
       Merge, F!Broadcast, Broadcast, F!ServerChange, ServerChange, F!ChangeError,
       ChangeError, F!Fail, Fail, F!ApiChange, ApiChange, F!Lock, Lock, F!storage,
       storage, F!links, links, F!channels, channels, F!colVars, colVars,
       F!Cardinality, Cardinality

LEMMA KnownStart == SyncInit => FP!KnownInv
<1>1. FP!FeedInit => FP!KnownInv
  BY FP!FollowInit, FP!FollowKnown, NullAssumption, CollectionAssumption, SyncAssumption, SMTT(60)
     DEF FP!FollowInit, FP!FollowKnown, FP!IsFiniteSet, IsFiniteSet
<1>2. SyncInit => F!FeedInit
  BY DEF SyncInit, F!FeedInit, F!Init, Init, F!NoCall, NoCall, F!NoRow, NoRow, NewReplica,
         Absent, Remote
<1> QED
  BY <1>1, <1>2, FeedStartSame

LEMMA KnownKept == FP!KnownInv /\ [F!FeedNext]_F!feedVars => FP!KnownInv'
<1>1. FP!KnownInv /\ [FP!FeedNext]_FP!feedVars => FP!KnownInv'
  BY FP!KnownStep, NullAssumption, CollectionAssumption, SyncAssumption, SMTT(60)
     DEF FP!KnownStep, FP!IsFiniteSet, IsFiniteSet
<1> QED
  BY <1>1, FeedStepSame

\* A client's copy of a document is of one that exists, and in it while it is live.
LEMMA RemoteKnown ==
    ASSUME FP!KnownInv, NEW c \in Client, NEW d \in Doc, Remote(c, d) # Null
    PROVE  Exists(d) /\ (Live(d) => Remote(c, d) \subseteq docs[d].data)
BY DEF FP!KnownInv, FP!ViewKnown, FP!Exists, FP!Live, Exists, Live

-----------------------------------------------------------------------------
(* What is known of a state *)

\* The requests of session s that are not answered, and what is on its way to it.
Sent(s)    == Range(toServer[s]) \cup {call[s]}

Letters(s) == Range(wire[s]) \cup Range(mailbox[s])

\* A request is about a document that was created; unless it is to create it, the
\* collection has it.
Pinned(m) ==
    /\ m.kind # "get"
    /\ m.kind = "change" => m.id \in born /\ (m.op # "+" => Exists(m.id))

\* No one is told that a document does not exist.
Found(m) == m.kind # "get_error" /\ (m.kind = "change_error" => m.code # "not_found")

\* Ids are made by the clients that create the documents.
Born ==
    /\ \A d \in Doc : Exists(d) => d \in born
    /\ \A c \in Client, d \in Doc : Has(replica[c], d) => d \in born

SyncInv ==
    /\ SyncTypeOK /\ FP!KnownInv
    /\ \A c \in Client : Blank(replica[c])
    /\ Born
    /\ \A s \in Session : /\ \A m \in Sent(s) : Pinned(m)
                          /\ \A m \in Letters(s) : Found(m)

LEMMA KnownFeed == FP!KnownInv => FeedInv
BY DEF FP!KnownInv, FP!FeedInv, FeedInv, FP!TypeOK, TypeOK, FP!RowsOrdered, RowsOrdered,
       FP!FeedIssued, FeedIssued, FP!Issued, Issued, FP!MailSubscribed, MailSubscribed,
       FP!FeedInOrder, FeedInOrder, FP!InOrder, InOrder, FP!Precedes, Precedes,
       FP!FeedTruthful, FeedTruthful, FP!Truthful, Truthful, FP!FeedUnbroken, FeedUnbroken,
       FP!NoRow, NoRow, FP!NoCall, NoCall, FP!Live, Live, FP!Data, Data, FP!Version, Version,
       FP!ChangeRequest, ChangeRequest, FP!Op, Op, FP!GetRequest, GetRequest,
       FP!SyncRequest, SyncRequest, FP!ServerMessage, ServerMessage, FP!ErrorCode, ErrorCode

\* What a client is about to read.
LEMMA ArrivingProper ==
    ASSUME SyncInv, NEW c \in Client, Arriving(c) # <<>>
    PROVE  LET m == Head(Arriving(c)) IN
           /\ link[c] # NoSlot /\ Conn(c) \in Session /\ Arriving(c) = wire[Conn(c)]
           /\ m \in Range(wire[Conn(c)]) /\ m \in ServerMessage
           /\ m.kind # "get_error" /\ Proper(m)
<1> DEFINE m == Head(Arriving(c))
<1>1. link[c] # NoSlot /\ Conn(c) \in Session /\ Arriving(c) = wire[Conn(c)]
  BY SyncAssumption DEF Arriving, SyncInv, SyncTypeOK, Conn
<1>2. wire[Conn(c)] \in Seq(ServerMessage)
  BY <1>1 DEF SyncInv, SyncTypeOK, TypeOK
<1>3. m \in ServerMessage /\ m = wire[Conn(c)][1] /\ 1 \in DOMAIN wire[Conn(c)]
  BY <1>1, <1>2, HeadTailProperties, LenProperties, EmptySeq
<1>4. m \in Range(wire[Conn(c)])
  BY <1>3 DEF Range
<1>5. Found(m)
  BY <1>1, <1>4 DEF SyncInv, Letters
<1>6. ASSUME m.kind = "change"
      PROVE  (m.op = "*" => m.data \in Version) /\ (m.op = "-" => m.data = Null)
  <2>1. m \in FP!Pending(Conn(c))
    BY <1>4, <1>6 DEF FP!Pending, FP!Range, Range, FP!Refusals
  <2> QED
    BY <1>1, <1>6, <2>1 DEF SyncInv, FP!KnownInv, FP!UpdatesWhole, FP!Version, Version
<1> QED
  BY <1>1, <1>3, <1>4, <1>5, <1>6 DEF Found, Proper

-----------------------------------------------------------------------------
(* Steps of a client *)

Views   == [c \in Client |-> [d \in Doc |-> Remote(c, d)]]

Cursors == [c \in Client |-> replica[c].colrev]

Stopped == {c \in Client : replica[c].stopped}

LEMMA PostedViews ==
    ASSUME SyncTypeOK, NEW c \in Client, NEW k, Posted(c, k)
    PROVE  /\ Views' = [Views EXCEPT ![c] = [d \in Doc |-> k.items[d].remote]]
           /\ Cursors' = [Cursors EXCEPT ![c] = k.colrev]
           /\ Stopped' = IF k.stopped THEN Stopped \cup {c} ELSE Stopped \ {c}
<1>1. PICK l : Alike(k, l) /\ replica' = [replica EXCEPT ![c] = l]
  BY DEF Posted
<1>2. DOMAIN replica = Client /\ replica'[c] = l
      /\ \A b \in Client : b # c => replica'[b] = replica[b]
  BY <1>1 DEF SyncTypeOK
<1>3. Views' = [b \in Client |-> IF b = c THEN [d \in Doc |-> k.items[d].remote] ELSE Views[b]]
  BY <1>1, <1>2 DEF Views, Remote, Alike
<1>4. Cursors' = [b \in Client |-> IF b = c THEN k.colrev ELSE Cursors[b]]
  BY <1>1, <1>2 DEF Cursors, Alike
<1>5. Stopped' = IF k.stopped THEN Stopped \cup {c} ELSE Stopped \ {c}
  BY <1>1, <1>2 DEF Stopped, Alike
<1> QED
  BY <1>3, <1>4, <1>5 DEF Views, Cursors

LEMMA PostedSame ==
    ASSUME SyncTypeOK, NEW c \in Client, NEW k, Posted(c, k),
           k.colrev = replica[c].colrev, k.stopped = replica[c].stopped,
           \A d \in Doc : k.items[d].remote = Remote(c, d)
    PROVE  UNCHANGED <<Views, Cursors, Stopped>>
<1>1. /\ [d \in Doc |-> k.items[d].remote] = Views[c] /\ k.colrev = Cursors[c]
      /\ k.stopped <=> c \in Stopped
  BY DEF Views, Cursors, Stopped
<1>2. /\ Views' = [Views EXCEPT ![c] = Views[c]]
      /\ Cursors' = [Cursors EXCEPT ![c] = Cursors[c]]
      /\ Stopped' = IF k.stopped THEN Stopped \cup {c} ELSE Stopped \ {c}
  BY <1>1, PostedViews
<1>3. Views' = Views /\ Cursors' = Cursors
  <2>1. \A f : f = [b \in Client |-> f[b]] => [f EXCEPT ![c] = f[c]] = f
    OBVIOUS
  <2> QED
    BY <1>2, <2>1 DEF Views, Cursors
<1>4. Stopped' = Stopped
  BY <1>1, <1>2
<1> QED
  BY <1>3, <1>4

\* Nothing that module Feed speaks of has changed.
LEMMA PostedStutters ==
    ASSUME SyncTypeOK, NEW c \in Client, NEW k, Posted(c, k), UNCHANGED <<colVars, link>>,
           k.colrev = replica[c].colrev, k.stopped = replica[c].stopped,
           \A d \in Doc : k.items[d].remote = Remote(c, d)
    PROVE  UNCHANGED F!feedVars
BY PostedSame DEF Views, Cursors, Stopped, F!feedVars, F!followVars, F!colVars, colVars,
                  F!storage, storage, F!links, links, F!channels, channels

\* What a client's step leaves alone, or takes from what is on its way.
Framed ==
    /\ UNCHANGED <<docs, drafts>>
    /\ \A s \in Session : /\ Range(wire'[s]) \subseteq Range(wire[s])
                          /\ Range(mailbox'[s]) \subseteq Range(mailbox[s])
                          /\ call'[s] = call[s] \/ call'[s].kind = "sync"

\* The edits in k are those of the client, with edit e of document d ...
Wrote(c, k, d, e) ==
    /\ \A b \in Doc : b # d => k.items[b] = replica[c].items[b]
    /\ k.items[d].remote = Remote(c, d) /\ Has(k, d)
    /\ basis[e] = Null /\ born' = born \cup {d}
    /\ \E v \in Version :
          /\ k.items[d].local = v \cup {e} /\ basis' = [basis EXCEPT ![e] = v]
          /\ v = Local(c, d) \/ (Local(c, d) = Null /\ v = {} /\ d \notin born)

\* ... without document d ...
Removed(c, k, d) ==
    /\ UserDelete(c, d) /\ Has(replica[c], d) /\ UNCHANGED <<born, basis>>
    /\ \A b \in Doc : b # d => k.items[b] = replica[c].items[b]
    /\ k.items[d].remote = Remote(c, d) /\ k.items[d].local = Null
    /\ Remote(c, d) = Null => k.items[d] = Absent

\* ... or as message m of the server leaves them ...
Heard(c, k, m) ==
    /\ Arriving(c) # <<>> /\ m = Head(Arriving(c))
    /\ m.kind \in {"doc", "change", "change_error"} /\ m.id \in Doc
    /\ UNCHANGED <<born, basis>>
    /\ \A b \in Doc : b # m.id => k.items[b] = replica[c].items[b]
    /\ Effect(replica[c].items[m.id], k.items[m.id], m)

\* ... or as they were.
Kept(c, k) ==
    /\ UNCHANGED <<born, basis>>
    /\ \A d \in Doc : k.items[d] = replica[c].items[d]

\* The client's step is one of module Feed, and changes what the client has so.
Moved(c, k) ==
    /\ [F!FeedNext]_F!feedVars /\ Framed
    /\ k \in Replica /\ Blank(k) /\ Posted(c, k)

Moves(c) ==
    \E k \in Replica :
       /\ Moved(c, k)
       /\ \/ Kept(c, k)
          \/ \E d \in Doc, e \in Edit : Wrote(c, k, d, e)
          \/ \E d \in Doc : Removed(c, k, d)
          \/ \E m : Heard(c, k, m)

LEMMA StillFramed ==
    ASSUME UNCHANGED <<colVars, drafts>>
    PROVE  Framed
BY DEF Framed, colVars, storage, channels

LEMMA CreateMoves ==
    ASSUME SyncInv, NEW c \in Client, NEW d \in Doc, NEW e \in Edit, UserCreate(c, d, e)
    PROVE  \E k \in Replica : Moved(c, k) /\ Wrote(c, k, d, e)
<1> DEFINE k == Create(replica[c], d, {e})
<1>1. replica[c] \in Replica /\ Blank(replica[c]) /\ SyncTypeOK
  BY DEF SyncInv, SyncTypeOK
<1>2. {e} \in Version
  BY DEF Version
<1>3. /\ Alters(replica[c], k, d) /\ k.colrev = replica[c].colrev
      /\ k.items[d] = [remote |-> Null, local |-> {e}, state |-> "changed"]
  BY <1>1, <1>2, CreateFacts
<1> HIDE DEF k
<1>4. replica[c].items[d] = Absent
  BY DEF SyncInv, Born, Blank, UserCreate
<1>5. Local(c, d) = Null /\ Remote(c, d) = Null
  BY <1>4 DEF Absent, Local, Remote
<1>6. k \in Replica /\ Blank(k) /\ k.stopped = replica[c].stopped /\ Has(k, d)
  BY <1>1, <1>3 DEF Alters, Blank, Has
<1>7. Posted(c, k)
  BY <1>6, PostedSteps DEF UserCreate, k
<1>8. UNCHANGED F!feedVars
  <2>1. \A b \in Doc : k.items[b].remote = Remote(c, b)
    BY <1>3, <1>5 DEF Alters, Remote
  <2> QED
    BY <1>1, <1>3, <1>6, <1>7, <2>1, PostedStutters DEF UserCreate
<1>9. Wrote(c, k, d, e)
  <2>1. {} \in Version /\ {e} = {} \cup {e}
    BY DEF Version
  <2>2. k.items[d].local = {} \cup {e} /\ basis' = [basis EXCEPT ![e] = {}]
    BY <1>3, <2>1 DEF UserCreate
  <2>3. /\ k.items[d].remote = Remote(c, d) /\ basis[e] = Null
        /\ d \notin born /\ born' = born \cup {d}
    BY <1>3, <1>5 DEF UserCreate
  <2>4. \A b \in Doc : b # d => k.items[b] = replica[c].items[b]
    BY <1>3 DEF Alters
  <2> QED
    BY <1>5, <1>6, <2>1, <2>2, <2>3, <2>4 DEF Wrote
<1> QED
  BY <1>6, <1>7, <1>8, <1>9, StillFramed DEF Moved, UserCreate

LEMMA ChangeMoves ==
    ASSUME SyncInv, NEW c \in Client, NEW d \in Doc, NEW e \in Edit, UserChange(c, d, e)
    PROVE  \E k \in Replica : Moved(c, k) /\ Wrote(c, k, d, e)
<1> DEFINE k == Edited(replica[c], d, e)
<1>1. replica[c] \in Replica /\ Blank(replica[c]) /\ SyncTypeOK
  BY DEF SyncInv, SyncTypeOK
<1>2. /\ Alters(replica[c], k, d) /\ k.colrev = replica[c].colrev
      /\ k.items[d].remote = Remote(c, d) /\ k.items[d].local = Local(c, d) \cup {e}
      /\ k.items[d].state = "changed"
  BY <1>1, EditedFacts DEF UserChange, Local, Remote
<1> HIDE DEF k
<1>3. k \in Replica /\ Blank(k) /\ k.stopped = replica[c].stopped /\ Has(k, d)
  BY <1>1, <1>2 DEF Alters, Blank, Has
<1>4. Posted(c, k)
  BY <1>3, PostedSteps DEF UserChange, k
<1>5. UNCHANGED F!feedVars
  <2>1. \A b \in Doc : k.items[b].remote = Remote(c, b)
    BY <1>2 DEF Alters, Remote
  <2> QED
    BY <1>1, <1>2, <1>3, <1>4, <2>1, PostedStutters DEF UserChange
<1>6. Wrote(c, k, d, e)
  <2>1. Local(c, d) # Null /\ Local(c, d) \in Version
    BY <1>1, ItemTypes DEF UserChange, CanEdit, Local
  <2>2. Has(replica[c], d)
    BY <1>1, <2>1 DEF Blank, Local, Absent
  <2>3. born' = born \cup {d}
    BY <2>2 DEF UserChange, SyncInv, Born
  <2>4. basis[e] = Null /\ basis' = [basis EXCEPT ![e] = Local(c, d)]
    BY DEF UserChange, Local
  <2> QED
    BY <1>2, <1>3, <2>1, <2>3, <2>4 DEF Wrote, Alters
<1> QED
  BY <1>3, <1>4, <1>5, <1>6, StillFramed DEF Moved, UserChange

LEMMA DeleteMoves ==
    ASSUME SyncInv, NEW c \in Client, NEW d \in Doc, UserDelete(c, d)
    PROVE  \E k \in Replica : Moved(c, k) /\ Removed(c, k, d)
<1> DEFINE k == Delete(replica[c], d)
<1>1. replica[c] \in Replica /\ Blank(replica[c]) /\ SyncTypeOK
  BY DEF SyncInv, SyncTypeOK
<1>2. /\ Alters(replica[c], k, d) /\ k.colrev = replica[c].colrev
      /\ k.items[d].remote = Remote(c, d) /\ k.items[d].local = Null
      /\ ~Has(k, d) => k.items[d] = Absent
      /\ Remote(c, d) = Null => k.items[d] = Absent
  BY <1>1, RemovedFacts DEF Remote
<1>3. \/ FlushNow(c, k)
      \/ Become(c, k) /\ UNCHANGED toServer
  BY DEF UserDelete
<1> HIDE DEF k
<1>4. k \in Replica /\ Blank(k) /\ k.stopped = replica[c].stopped
  BY <1>1, <1>2 DEF Alters, Blank, Has
<1>5. Posted(c, k)
  <2>1. Alike(k, k)
    BY <1>4 DEF Alike
  <2>2. CASE Become(c, k) /\ UNCHANGED toServer
    BY <2>1, <2>2 DEF Posted, Become
  <2>3. CASE FlushNow(c, k)
    BY <1>4, <2>3, PostedSteps
  <2> QED
    BY <1>3, <2>2, <2>3
<1>6. UNCHANGED <<colVars, link, userVars>>
  BY DEF UserDelete
<1>7. UNCHANGED F!feedVars
  <2>1. \A b \in Doc : k.items[b].remote = Remote(c, b)
    BY <1>2 DEF Alters, Remote
  <2> QED
    BY <1>1, <1>2, <1>4, <1>5, <1>6, <2>1, PostedStutters
<1>8. Removed(c, k, d)
  BY <1>2, <1>6 DEF Removed, Alters, UserDelete, userVars
<1> QED
  BY <1>4, <1>5, <1>6, <1>7, <1>8, StillFramed DEF Moved, userVars

\* The timer, and what becomes of a connection, concern no document.
LEMMA LinkMoves ==
    ASSUME SyncInv, NEW c \in Client, FlushTimer(c) \/ OnClose(c) \/ Open(c) \/ Lose(c)
    PROVE  \E k \in Replica : Moved(c, k) /\ Kept(c, k)
<1>1. replica[c] \in Replica /\ Blank(replica[c]) /\ SyncTypeOK
  BY DEF SyncInv, SyncTypeOK
<1>2. ASSUME NEW k \in Replica, k.items = replica[c].items, Posted(c, k),
             UNCHANGED userVars, [F!FeedNext]_F!feedVars, Framed
      PROVE  \E j \in Replica : Moved(c, j) /\ Kept(c, j)
  <2>1. Kept(c, k) /\ Blank(k)
    BY <1>1, <1>2 DEF Kept, Blank, Has, userVars
  <2> QED
    BY <1>2, <2>1 DEF Moved
<1>3. ASSUME NEW k \in Replica, k.items = replica[c].items, Posted(c, k),
             k.colrev = replica[c].colrev, k.stopped = replica[c].stopped,
             UNCHANGED <<colVars, link, userVars>>
      PROVE  \E j \in Replica : Moved(c, j) /\ Kept(c, j)
  <2>1. UNCHANGED F!feedVars
    BY <1>1, <1>3, PostedStutters DEF Remote
  <2> QED
    BY <1>2, <1>3, <2>1, StillFramed DEF userVars
<1>4. ASSUME NEW k \in Replica, Become(c, k), UNCHANGED toServer PROVE Posted(c, k)
  BY <1>4 DEF Posted, Become, Alike
<1>5. ASSUME NEW k, k = [replica[c] EXCEPT !.status = "connected"]
                 \/ k = [replica[c] EXCEPT !.status = "disconnected", !.flushTimer = FALSE]
                 \/ k = [replica[c] EXCEPT !.flushTimer = FALSE]
                 \/ k = replica[c]
      PROVE  /\ k \in Replica /\ k.items = replica[c].items
             /\ k.colrev = replica[c].colrev /\ k.stopped = replica[c].stopped
  BY <1>1, <1>5 DEF Replica
<1>6. CASE FlushTimer(c)
  <2>1. PICK k : k = [replica[c] EXCEPT !.flushTimer = FALSE]
    OBVIOUS
  <2>2. Posted(c, k)
    BY <1>5, <1>6, <2>1, PostedSteps DEF FlushTimer
  <2> QED
    BY <1>3, <1>5, <1>6, <2>1, <2>2 DEF FlushTimer
<1>7. CASE OnClose(c)
  <2>1. PICK k : k = [replica[c] EXCEPT !.status = "disconnected", !.flushTimer = FALSE]
    OBVIOUS
  <2>2. Posted(c, k)
    BY <1>4, <1>5, <1>7, <2>1 DEF OnClose
  <2> QED
    BY <1>3, <1>5, <1>7, <2>1, <2>2 DEF OnClose
<1>8. CASE Open(c)
  <2>1. PICK k : k = [replica[c] EXCEPT !.status = "connected"]
    OBVIOUS
  <2>2. Posted(c, k) /\ UNCHANGED userVars
    BY <1>4, <1>5, <1>8, <2>1 DEF Open
  <2>3. PICK n \in Slot : /\ Connect(<<c, n>>, replica[c].colrev)
                          /\ link' = [link EXCEPT ![c] = n]
    BY <1>8 DEF Open
  <2>4. \A d \in Doc : k.items[d].remote = Remote(c, d)
    BY <1>5, <2>1 DEF Remote
  <2>5. Framed
    BY <1>1, <2>2, <2>3, SyncAssumption
       DEF Framed, Connect, storage, userVars, SyncTypeOK, TypeOK
  <2>6. UNCHANGED <<Views, Cursors, Stopped>>
    BY <1>1, <1>5, <2>1, <2>2, <2>4, PostedSame
  <2>7. F!Dial(c)
    BY <1>8, <2>3, <2>6, ServerSame DEF F!Dial, Open, Views, Cursors, Stopped
  <2> QED
    BY <1>2, <1>5, <2>1, <2>2, <2>5, <2>7 DEF F!FeedNext
<1>9. CASE Lose(c)
  <2>1. PICK k : k = replica[c]
    OBVIOUS
  <2>2. Become(c, k) /\ UNCHANGED <<toServer, userVars>>
    BY <1>1, <1>9, <2>1 DEF Lose, Become, SyncTypeOK
  <2>3. Close(Conn(c)) /\ link[c] # NoSlot /\ link' = [link EXCEPT ![c] = NoSlot]
    BY <1>9 DEF Lose, Drop
  <2>4. Framed
    BY <1>1, <2>2, <2>3, EmptySeq DEF Framed, Close, storage, userVars, SyncTypeOK, TypeOK, Range
  <2>5. F!Lose(c)
    BY <1>9, <2>3, ServerSame DEF F!Lose, F!HangUp, F!Conn, Conn, Lose, Remote
  <2> QED
    BY <1>2, <1>4, <1>5, <2>1, <2>2, <2>4, <2>5 DEF F!FeedNext
<1> QED
  BY <1>6, <1>7, <1>8, <1>9

LEMMA ErrorMoves ==
    ASSUME SyncInv, NEW c \in Client, OnSyncError(c)
    PROVE  \E k \in Replica : Moved(c, k) /\ Kept(c, k)
<1>1. replica[c] \in Replica /\ Blank(replica[c]) /\ SyncTypeOK
  BY DEF SyncInv, SyncTypeOK
<1>2. PICK k : k = [replica[c] EXCEPT !.status = "error", !.stopped = TRUE]
  OBVIOUS
<1>3. /\ k \in Replica /\ k.items = replica[c].items
      /\ k.colrev = replica[c].colrev /\ k.stopped = TRUE
  BY <1>1, <1>2 DEF Replica
<1>4. Posted(c, k) /\ UNCHANGED userVars
  BY <1>2, <1>3 DEF OnSyncError, Posted, Become, Alike
<1>5. Close(Conn(c)) /\ link[c] # NoSlot /\ link' = [link EXCEPT ![c] = NoSlot]
  BY DEF OnSyncError, Drop
<1>6. Framed
  BY <1>1, <1>4, <1>5, EmptySeq DEF Framed, Close, storage, userVars, SyncTypeOK, TypeOK, Range
<1>7. UNCHANGED <<Views, Cursors>> /\ Stopped' = Stopped \cup {c}
  <2>1. /\ Views' = [Views EXCEPT ![c] = Views[c]]
        /\ Cursors' = [Cursors EXCEPT ![c] = Cursors[c]]
        /\ Stopped' = Stopped \cup {c}
    <3>1. [d \in Doc |-> k.items[d].remote] = Views[c] /\ k.colrev = Cursors[c]
      BY <1>3 DEF Views, Cursors, Remote
    <3> QED
      BY <1>1, <1>3, <1>4, <3>1, PostedViews
  <2>2. \A f : f = [b \in Client |-> f[b]] => [f EXCEPT ![c] = f[c]] = f
    OBVIOUS
  <2> QED
    BY <2>1, <2>2 DEF Views, Cursors
<1>8. wire[Conn(c)] # <<>> /\ Head(wire[Conn(c)]).kind = "sync_error"
  BY <1>5 DEF OnSyncError, Arriving
<1>9. F!GiveUp(c)
  BY <1>5, <1>7, <1>8, ServerSame
     DEF F!GiveUp, F!HangUp, F!Conn, Conn, Views, Cursors, Stopped
<1>10. Kept(c, k) /\ Blank(k)
  BY <1>1, <1>3, <1>4 DEF Kept, Blank, Has, userVars
<1> QED
  BY <1>3, <1>4, <1>6, <1>9, <1>10 DEF Moved, F!FeedNext

LEMMA ReceiveFramed ==
    ASSUME SyncTypeOK, NEW s \in Session, Receive(s), UNCHANGED drafts
    PROVE  Framed
<1>1. wire[s] \in Seq(ServerMessage) /\ wire[s] # <<>> /\ wire' = [wire EXCEPT ![s] = Tail(@)]
  BY DEF Receive, SyncTypeOK, TypeOK
<1>2. Range(Tail(wire[s])) \subseteq Range(wire[s])
  BY <1>1, HeadTailProperties, LenProperties DEF Range
<1>3. \A t \in Session : Range(wire'[t]) \subseteq Range(wire[t])
  BY <1>1, <1>2 DEF SyncTypeOK, TypeOK
<1> QED
  BY <1>3 DEF Framed, Receive, storage

LEMMA CompleteMoves ==
    ASSUME SyncInv, NEW c \in Client, OnSyncComplete(c)
    PROVE  \E k \in Replica : Moved(c, k) /\ Kept(c, k)
<1>1. replica[c] \in Replica /\ Blank(replica[c]) /\ SyncTypeOK
  BY DEF SyncInv, SyncTypeOK
<1>2. PICK m : m = Head(Arriving(c))
  OBVIOUS
<1>3. /\ link[c] # NoSlot /\ Conn(c) \in Session /\ Arriving(c) = wire[Conn(c)]
      /\ m.kind = "sync_complete" /\ m \in ServerMessage
  BY <1>2, ArrivingProper DEF OnSyncComplete
<1>4. m.colrev \in Nat
  BY <1>3 DEF ServerMessage
<1>5. PICK k : k = [replica[c] EXCEPT !.colrev = m.colrev, !.status = "ready"]
  OBVIOUS
<1>6. /\ k \in Replica /\ k.items = replica[c].items
      /\ k.colrev = m.colrev /\ k.stopped = replica[c].stopped
  BY <1>1, <1>4, <1>5 DEF Replica
<1>7. Posted(c, k) /\ Receive(Conn(c)) /\ UNCHANGED <<link, userVars>>
  BY <1>2, <1>5, <1>6, PostedSteps DEF OnSyncComplete
<1>8. UNCHANGED <<Views, Stopped>> /\ Cursors' = [Cursors EXCEPT ![c] = m.colrev]
  <2>1. /\ Views' = [Views EXCEPT ![c] = Views[c]]
        /\ Cursors' = [Cursors EXCEPT ![c] = m.colrev]
        /\ Stopped' = IF k.stopped THEN Stopped \cup {c} ELSE Stopped \ {c}
    <3>1. [d \in Doc |-> k.items[d].remote] = Views[c]
      BY <1>6 DEF Views, Remote
    <3> QED
      BY <1>1, <1>6, <1>7, <3>1, PostedViews
  <2>2. k.stopped <=> c \in Stopped
    BY <1>6 DEF Stopped
  <2>3. \A f : f = [b \in Client |-> f[b]] => [f EXCEPT ![c] = f[c]] = f
    OBVIOUS
  <2>4. Views' = Views
    BY <2>1, <2>3 DEF Views
  <2> QED
    BY <2>1, <2>2, <2>4
<1>9. F!Read(c)
  <2>1. F!ReadSyncComplete(c)
    BY <1>2, <1>3, <1>8 DEF F!ReadSyncComplete, F!Conn, Conn, Views, Cursors
  <2> QED
    BY <1>3, <1>7, <1>8, <2>1, ServerSame DEF F!Read, F!Conn, Conn, Stopped
<1>10. Kept(c, k) /\ Blank(k)
  BY <1>1, <1>6, <1>7 DEF Kept, Blank, Has, userVars
<1>11. Framed
  BY <1>1, <1>3, <1>7, ReceiveFramed DEF userVars
<1> QED
  BY <1>6, <1>7, <1>9, <1>10, <1>11 DEF Moved, F!FeedNext

LEMMA MessageMoves ==
    ASSUME SyncInv, NEW c \in Client, OnMessage(c)
    PROVE  \E k \in Replica : Moved(c, k) /\ Heard(c, k, Head(Arriving(c)))
<1>1. replica[c] \in Replica /\ Blank(replica[c]) /\ SyncTypeOK
  BY DEF SyncInv, SyncTypeOK
<1>2. PICK m : m = Head(Arriving(c))
  OBVIOUS
<1>3. /\ link[c] # NoSlot /\ Conn(c) \in Session /\ Arriving(c) = wire[Conn(c)]
      /\ m.kind \in {"doc", "change", "change_error"} /\ Proper(m)
  BY <1>2, ArrivingProper DEF OnMessage
<1>4. m.id \in Doc /\ (m.kind = "change" => m.colrev \in Nat)
  BY <1>3, ProperTypes
<1>5. PICK k : k = HandleMessage(replica[c], m)
  OBVIOUS
<1>6. /\ k \in Replica /\ k.stopped = replica[c].stopped
      /\ k.colrev = IF m.kind = "change" THEN m.colrev ELSE replica[c].colrev
      /\ \A b \in Doc : b # m.id => k.items[b] = replica[c].items[b]
      /\ k.items[m.id].remote = IF m.kind = "change_error" THEN Remote(c, m.id)
                                ELSE F!Applied(Remote(c, m.id), m)
      /\ Effect(replica[c].items[m.id], k.items[m.id], m)
  BY <1>1, <1>3, <1>5, MessageFacts DEF Remote, Applied, F!Applied, Merge, F!Merge
<1>7. /\ Become(c, k) /\ Receive(Conn(c)) /\ UNCHANGED <<link, userVars>>
      /\ UNCHANGED toServer \/ Send(c, <<Get(m.id)>>)
  BY <1>2, <1>5 DEF OnMessage
<1>8. Posted(c, k)
  <2>1. Alike(k, k)
    BY <1>6 DEF Alike
  <2>2. ASSUME Send(c, <<Get(m.id)>>) PROVE Posted(c, k)
    <3>1. Get(m.id) \in Garbled /\ Get(m.id) \in ClientMessage
      BY <1>4 DEF Get, Garbled, ClientMessage
    <3>2. <<Get(m.id)>> \in Seq(ClientMessage)
      BY <3>1
    <3>3. \A n \in Range(<<Get(m.id)>>) : n \in Garbled
      BY <3>1 DEF Range
    <3>4. toServer' = [toServer EXCEPT ![Conn(c)] = @ \o <<Get(m.id)>>]
      BY <2>2 DEF Send
    <3>5. replica' = [replica EXCEPT ![c] = k]
      BY <1>7 DEF Become
    <3> QED
      BY <1>3, <2>1, <3>2, <3>3, <3>4, <3>5 DEF Posted
  <2> QED
    BY <1>7, <2>1, <2>2 DEF Posted, Become
<1>9. Blank(k)
  BY <1>1, <1>6 DEF Blank, Has, Effect
<1>10. Heard(c, k, m)
  BY <1>2, <1>3, <1>4, <1>6, <1>7 DEF Heard, OnMessage, userVars
<1>11. Framed
  BY <1>1, <1>3, <1>7, ReceiveFramed DEF userVars
<1>12. F!Read(c)
  <2>1. /\ Views' = [Views EXCEPT ![c] = [d \in Doc |-> k.items[d].remote]]
        /\ Cursors' = [Cursors EXCEPT ![c] = k.colrev]
        /\ Stopped' = IF k.stopped THEN Stopped \cup {c} ELSE Stopped \ {c}
    BY <1>1, <1>8, PostedViews
  <2>2. Stopped' = Stopped
    BY <1>6, <2>1 DEF Stopped
  <2>3. \A f : f = [b \in Client |-> f[b]] => [f EXCEPT ![c] = f[c]] = f
    OBVIOUS
  <2>4. /\ Head(wire[Conn(c)]) = m
        /\ m.kind # "change" => Cursors' = Cursors
    <3>1. m.kind # "change" => Cursors' = [Cursors EXCEPT ![c] = Cursors[c]]
      BY <1>6, <2>1 DEF Cursors
    <3> QED
      BY <1>2, <1>3, <2>3, <3>1 DEF Cursors
  <2>5. CASE m.kind = "change_error"
    <3>1. [d \in Doc |-> k.items[d].remote] = Views[c]
      BY <1>6, <2>5 DEF Views, Remote
    <3>2. Views' = Views
      BY <2>1, <2>3, <3>1 DEF Views
    <3>3. F!ReadRefusal(c)
      BY <2>4, <2>5, <3>2 DEF F!ReadRefusal, F!Conn, Conn, Views, Cursors
    <3> QED
      BY <1>3, <1>7, <2>2, <3>3, ServerSame DEF F!Read, F!Conn, Conn, Stopped
  <2>6. CASE m.kind # "change_error"
    <3>1. PICK a : a = F!Applied(Remote(c, m.id), m)
      OBVIOUS
    <3>2. [d \in Doc |-> k.items[d].remote] = [Views[c] EXCEPT ![m.id] = a]
      BY <1>6, <2>6, <3>1 DEF Views, Remote
    <3>3. Views' = [Views EXCEPT ![c][m.id] = a]
      BY <2>1, <3>2 DEF Views
    <3>4. a = F!Applied(Views[c][m.id], m)
      BY <1>4, <3>1 DEF Views
    <3>5. Views' = [Views EXCEPT ![c][m.id] = F!Applied(@, m)]
      BY <3>3, <3>4
    <3>6. Cursors' = IF m.kind = "change" THEN [Cursors EXCEPT ![c] = m.colrev] ELSE Cursors
      BY <1>6, <2>1, <2>4
    <3>7. F!ReadData(c)
      BY <1>3, <2>4, <2>6, <3>5, <3>6 DEF F!ReadData, F!Conn, Conn, Views, Cursors
    <3> QED
      BY <1>3, <1>7, <2>2, <3>7, ServerSame DEF F!Read, F!Conn, Conn, Stopped
  <2> QED
    BY <2>5, <2>6
<1> QED
  BY <1>2, <1>6, <1>8, <1>9, <1>10, <1>11, <1>12 DEF Moved, F!FeedNext

LEMMA ClientMoves ==
    ASSUME SyncInv, NEW c \in Client, ClientStep(c) \/ UserStep(c) \/ Lose(c)
    PROVE  Moves(c)
<1>1. ASSUME NEW d \in Doc, NEW e \in Edit, UserCreate(c, d, e) \/ UserChange(c, d, e)
      PROVE  Moves(c)
  BY <1>1, CreateMoves, ChangeMoves DEF Moves
<1>2. ASSUME NEW d \in Doc, UserDelete(c, d) PROVE Moves(c)
  BY <1>2, DeleteMoves DEF Moves
<1>3. CASE \/ FlushTimer(c) \/ OnClose(c) \/ Open(c) \/ Lose(c)
           \/ OnSyncError(c) \/ OnSyncComplete(c)
  BY <1>3, LinkMoves, ErrorMoves, CompleteMoves DEF Moves
<1>4. CASE OnMessage(c)
  BY <1>4, MessageMoves DEF Moves
<1> QED
  BY <1>1, <1>2, <1>3, <1>4 DEF ClientStep, UserStep

-----------------------------------------------------------------------------
(* Steps of the server *)

\* A document that is sent is as it is.
IsAnswer(m) ==
    /\ Found(m) /\ m.kind # "change"
    /\ m.kind = "doc" => m.id \in Doc /\ m.data = docs[m.id].data

\* Sessions are told what was on its way to them, and answers.
Tells ==
    /\ UNCHANGED docs
    /\ \A s \in Session : \A m \in Letters(s)' : m \in Letters(s) \/ IsAnswer(m)

\* A request that was sent, or a change of the application, is accepted.
Asked(src, m) ==
    \/ src \in Session /\ m = call[src]
    \/ m.op = "-"
    \/ m.op = "*" /\ \E e \in Edit : <<m.id, e>> \in drafts /\ m.data = {e}

Accepts ==
    \E src \in Session \cup {Api}, m \in ChangeRequest :
        Accepted(src, m) /\ Asked(src, m) /\ UNCHANGED wire

LEMMA ReplyTells ==
    ASSUME TypeOK, NEW s \in Session, NEW msgs \in Seq(ServerMessage), Reply(s, msgs),
           \A m \in Range(msgs) : IsAnswer(m), UNCHANGED <<docs, mailbox>>
    PROVE  Tells
<1> SUFFICES ASSUME NEW t \in Session, NEW m \in Letters(t)'
             PROVE  m \in Letters(t) \/ IsAnswer(m)
  BY DEF Tells
<1>1. Range(wire[s] \o msgs) = Range(wire[s]) \cup Range(msgs)
  BY RangeConcatenation DEF TypeOK
<1>2. wire'[t] = wire[t] \/ (t = s /\ wire'[t] = wire[t] \o msgs)
  BY DEF Reply, TypeOK
<1> QED
  BY <1>1, <1>2 DEF Letters

LEMMA SyncTells ==
    ASSUME SyncInv, NEW s \in Session, ServeSync(s)
    PROVE  Tells
<1>1. TypeOK /\ call[s].colrev \in Nat /\ UNCHANGED <<docs, mailbox>>
  BY CallTypes DEF SyncInv, SyncTypeOK, ServeSync, storage
<1>2. ASSUME NEW m, m.kind \in {"sync_error", "sync_complete"} PROVE IsAnswer(m)
  BY <1>2 DEF IsAnswer, Found
<1>3. ASSUME NEW m \in ServerMessage, IsAnswer(m), Reply(s, <<m>>) PROVE Tells
  <2>1. <<m>> \in Seq(ServerMessage) /\ Range(<<m>>) = {m}
    BY DEF Range
  <2> QED
    BY <1>1, <1>3, <2>1, ReplyTells
<1>4. ASSUME NEW order \in SetToSeqs(Missing(call[s].colrev)),
             Reply(s, [i \in DOMAIN order |-> DocMessage(order[i], docs[order[i]].data)]
                          \o <<SyncComplete(colrev)>>)
      PROVE  Tells
  <2> DEFINE ds   == [i \in DOMAIN order |-> DocMessage(order[i], docs[order[i]].data)]
             done == SyncComplete(colrev)
             n    == Cardinality(Missing(call[s].colrev))
  <2>1. Missing(call[s].colrev) \subseteq Doc
    BY DEF Missing
  <2>2. n \in Nat
    BY <2>1, CollectionAssumption, FS_Subset, FS_CardinalityType
  <2>3. order \in [1..n -> Missing(call[s].colrev)]
    BY DEF SetToSeqs
  <2>4. ASSUME NEW i \in 1..n PROVE ds[i] \in ServerMessage /\ IsAnswer(ds[i])
    <3>1. order[i] \in Doc /\ docs[order[i]].data \in Data
      BY <1>1, <2>1, <2>3 DEF TypeOK
    <3>2. ds[i] = DocMessage(order[i], docs[order[i]].data)
      BY <2>3
    <3> QED
      BY <3>1, <3>2 DEF DocMessage, ServerMessage, IsAnswer, Found
  <2>5. ds \in Seq(ServerMessage) /\ DOMAIN ds = 1..n
    BY <2>2, <2>3, <2>4, IsASeq
  <2>6. done \in ServerMessage /\ IsAnswer(done)
    BY <1>1, <1>2 DEF SyncComplete, ServerMessage, TypeOK
  <2>7. <<done>> \in Seq(ServerMessage) /\ Range(<<done>>) = {done}
    BY <2>6 DEF Range
  <2>8. /\ ds \o <<done>> \in Seq(ServerMessage)
        /\ Range(ds \o <<done>>) = Range(ds) \cup Range(<<done>>)
    <3> HIDE DEF ds, done
    <3>1. PICK e : e = <<done>>
      OBVIOUS
    <3>2. ds \in Seq(ServerMessage) /\ e \in Seq(ServerMessage)
      BY <2>5, <2>7, <3>1
    <3>3. /\ ds \o e \in Seq(ServerMessage)
          /\ Range(ds \o e) = Range(ds) \cup Range(e)
      BY <3>2, ConcatProperties, RangeConcatenation
    <3> QED
      BY <3>1, <3>3
  <2>9. \A m \in Range(ds) : IsAnswer(m)
    BY <2>4, <2>5 DEF Range
  <2>10. \A m \in Range(ds \o <<done>>) : IsAnswer(m)
    BY <2>6, <2>7, <2>8, <2>9
  <2> QED
    BY <1>1, <1>4, <2>8, <2>10, ReplyTells
<1>5. /\ SyncError("forbidden") \in ServerMessage
      /\ SyncError("unprocessable_content") \in ServerMessage
      /\ SyncComplete(colrev) \in ServerMessage
      /\ \A e : SyncError(e).kind = "sync_error"
      /\ SyncComplete(colrev).kind = "sync_complete"
  BY <1>1 DEF SyncError, SyncComplete, ServerMessage, ErrorCode, TypeOK
<1>6. \/ Reply(s, <<SyncError("forbidden")>>)
      \/ Reply(s, <<SyncError("unprocessable_content")>>)
      \/ s \in Readers /\ call[s].colrev = colrev /\ Reply(s, <<SyncComplete(colrev)>>)
      \/ \E order \in SetToSeqs(Missing(call[s].colrev)) :
            Reply(s, [i \in DOMAIN order |-> DocMessage(order[i], docs[order[i]].data)]
                         \o <<SyncComplete(colrev)>>)
  BY DEF ServeSync, SyncReply
<1>7. CASE \/ Reply(s, <<SyncError("forbidden")>>)
           \/ Reply(s, <<SyncError("unprocessable_content")>>)
           \/ Reply(s, <<SyncComplete(colrev)>>)
  BY <1>2, <1>3, <1>5, <1>7
<1> QED
  BY <1>4, <1>6, <1>7

LEMMA ChangeTells ==
    ASSUME SyncInv, NEW s \in Session, ServeChange(s)
    PROVE  Tells \/ Accepts
<1>1. TypeOK /\ call[s] \in ChangeRequest /\ Pinned(call[s])
  BY CallTypes DEF SyncInv, SyncTypeOK, ServeChange, Sent
<1>2. CASE Refusal(s, call[s]) = NoError /\ Apply(call[s]) /\ Reply(s, <<>>)
  <2>1. wire[s] \o <<>> = wire[s]
    BY <1>1, ConcatEmptySeq DEF TypeOK
  <2>2. UNCHANGED wire
    BY <1>1, <1>2, <2>1 DEF Reply, TypeOK
  <2> QED
    BY <1>1, <1>2, <2>2 DEF Accepts, Accepted, Asked
<1>3. CASE /\ Refusal(s, call[s]) # NoError
           /\ Reply(s, <<ChangeError(call[s].id, Refusal(s, call[s]))>>)
           /\ UNCHANGED <<storage, links, mailbox>>
  <2> DEFINE m == ChangeError(call[s].id, Refusal(s, call[s]))
  <2>1. m \in ServerMessage
    BY <1>1, <1>3, RefusalTypes, RequestTypes DEF ChangeError, ServerMessage
  <2>2. Refusal(s, call[s]) # "not_found"
    BY <1>1, RequestTypes DEF Pinned, Refusal, CreateRefusal, EditRefusal, NoError
  <2>3. IsAnswer(m)
    BY <2>2 DEF ChangeError, IsAnswer, Found
  <2>4. <<m>> \in Seq(ServerMessage) /\ Range(<<m>>) = {m}
    BY <2>1 DEF Range
  <2> QED
    BY <1>1, <1>3, <2>3, <2>4, ReplyTells DEF storage
<1> QED
  BY <1>2, <1>3 DEF ServeChange

LEMMA FailTells ==
    ASSUME SyncInv, NEW s \in Session, Fail(s)
    PROVE  Tells
<1>1. TypeOK /\ Pinned(call[s])
  BY DEF SyncInv, SyncTypeOK, Sent
<1>2. ASSUME NEW m \in ServerMessage, IsAnswer(m), Reply(s, <<m>>) PROVE Tells
  <2>1. <<m>> \in Seq(ServerMessage) /\ Range(<<m>>) = {m}
    BY DEF Range
  <2> QED
    BY <1>1, <1>2, <2>1, ReplyTells DEF Fail
<1>3. SyncError("internal_server_error") \in ServerMessage
      /\ IsAnswer(SyncError("internal_server_error"))
  BY DEF SyncError, ServerMessage, ErrorCode, IsAnswer, Found
<1>4. ASSUME call[s].kind = "change"
      PROVE  /\ ChangeError(call[s].id, "internal_server_error") \in ServerMessage
             /\ IsAnswer(ChangeError(call[s].id, "internal_server_error"))
  <2>1. call[s].id \in Doc
    BY <1>1, <1>4, CallTypes, RequestTypes
  <2> QED
    BY <2>1 DEF ChangeError, ServerMessage, ErrorCode, IsAnswer, Found
<1> QED
  BY <1>1, <1>2, <1>3, <1>4 DEF Fail, Pinned

\* The application reads a document that it will edit, posts an edit, or neither.
Noted ==
    \/ UNCHANGED basis /\ drafts' \subseteq drafts
    \/ \E d \in Doc, e \in Edit :
          /\ Live(d) /\ basis[e] = Null /\ UNCHANGED colVars
          /\ basis' = [basis EXCEPT ![e] = docs[d].data]
          /\ drafts' = drafts \cup {<<d, e>>}

\* A step of the server is one of module Feed, asks for nothing, and tells its
\* sessions what is so.
Serves ==
    /\ [F!FeedNext]_F!feedVars
    /\ UNCHANGED <<replica, born>> /\ Noted
    /\ toServer' \in [Session -> Seq(ClientMessage)]
    /\ \A s \in Session : \A m \in Sent(s)' : m \in Sent(s) \/ m = NoCall
    /\ Tells \/ Accepts

\* What was appended is in the sequence, and nothing else new is.
LEMMA RangeAppend ==
    ASSUME NEW S, NEW q \in Seq(S), NEW e \in S
    PROVE  Range(Append(q, e)) = Range(q) \cup {e}
<1>1. PICK n : n = Len(q)
  OBVIOUS
<1>2. PICK more : more = Append(q, e)
  OBVIOUS
<1>3. /\ n \in Nat /\ DOMAIN q = 1..n /\ DOMAIN more = 1..(n + 1)
      /\ \A i \in 1..n : more[i] = q[i]
      /\ more[n + 1] = e
  BY <1>1, <1>2, AppendProperties, LenProperties
<1>4. \A i \in 1..(n + 1) : i \in 1..n \/ i = n + 1
  BY <1>3
<1>5. (\A i \in 1..n : i \in 1..(n + 1)) /\ n + 1 \in 1..(n + 1)
  BY <1>3
<1>6. Range(more) = Range(q) \cup {e}
  BY <1>3, <1>4, <1>5 DEF Range
<1> QED
  BY <1>2, <1>6

\* Sessions are told nothing new.
Passes ==
    /\ UNCHANGED docs
    /\ \A s \in Session : Letters(s)' \subseteq Letters(s)

LEMMA SessionPasses ==
    ASSUME SyncTypeOK, NEW s \in Session,
           \/ ServerTake(s) \/ ServerExit(s) \/ Subscribe(s) \/ Forward(s)
    PROVE  Passes
<1>1. CASE UNCHANGED <<docs, wire, mailbox>>
  BY <1>1 DEF Passes, Letters
<1>2. CASE Forward(s)
  <2>1. mailbox[s] \in Seq(ServerMessage) /\ mailbox[s] # <<>> /\ wire[s] \in Seq(ServerMessage)
    BY <1>2 DEF Forward, SyncTypeOK, TypeOK
  <2>2. Head(mailbox[s]) \in Range(mailbox[s]) /\ Range(Tail(mailbox[s])) \subseteq Range(mailbox[s])
    <3> DEFINE q == mailbox[s]
    <3>1. q \in Seq(ServerMessage) /\ q # <<>>
      BY <2>1
    <3> HIDE DEF q
    <3>2. Head(q) \in Range(q) /\ Range(Tail(q)) \subseteq Range(q)
      BY <3>1, HeadTailProperties, LenProperties, EmptySeq DEF Range
    <3> QED
      BY <3>2 DEF q
  <2>3. Head(mailbox[s]) \in ServerMessage
    BY <2>1, HeadTailProperties
  <2>4. Range(Append(wire[s], Head(mailbox[s]))) = Range(wire[s]) \cup {Head(mailbox[s])}
    BY <2>1, <2>3, RangeAppend
  <2>5. \A t \in Session : Letters(t)' \subseteq Letters(t)
    BY <1>2, <2>2, <2>4 DEF Forward, Letters, SyncTypeOK, TypeOK
  <2> QED
    BY <1>2, <2>5 DEF Passes, Forward, storage
<1> QED
  BY <1>1, <1>2 DEF ServerTake, ServerExit, Take, Exit, Subscribe, storage, channels

LEMMA SessionSent ==
    ASSUME SyncInv, NEW s \in Session, SessionStep(s)
    PROVE  \A t \in Session : \A m \in Sent(t)' : m \in Sent(t) \/ m = NoCall
<1>1. SyncTypeOK /\ TypeOK
  BY DEF SyncInv, SyncTypeOK
<1>2. CASE /\ Subscribe(s) \/ Forward(s) \/ ServeSync(s) \/ ServeChange(s) \/ Fail(s)
           /\ UNCHANGED toServer
  <2>1. \A t \in Session : call'[t] = call[t] \/ call'[t] = NoCall
    BY <1>1, <1>2 DEF Subscribe, Forward, ServeSync, SyncReply, ServeChange, Fail, Reply, channels, TypeOK
  <2> QED
    BY <1>2, <2>1 DEF Sent
<1>3. CASE ServerTake(s)
  <2>1. toServer[s] \in Seq(ClientMessage) /\ toServer[s] # <<>>
    BY <1>1, <1>3 DEF ServerTake, SyncTypeOK
  <2>2. Head(toServer[s]) \in Range(toServer[s]) /\ Range(Tail(toServer[s])) \subseteq Range(toServer[s])
    BY <2>1, HeadTailProperties, LenProperties, EmptySeq DEF Range
  <2>3. call' = call \/ call' = [call EXCEPT ![s] = Head(toServer[s])]
    BY <1>3 DEF ServerTake, Take
  <2>4. \A t \in Session : call'[t] = call[t] \/ (t = s /\ call'[t] = Head(toServer[s]))
    BY <1>1, <2>3 DEF TypeOK
  <2>5. \A t \in Session : toServer'[t] = toServer[t] \/ (t = s /\ toServer'[t] = Tail(toServer[s]))
    BY <1>1, <1>3 DEF ServerTake, SyncTypeOK
  <2> QED
    BY <2>2, <2>4, <2>5 DEF Sent
<1>4. CASE ServerExit(s)
  <2>1. \A t \in Session : Range(toServer'[t]) \subseteq Range(toServer[t]) /\ call'[t] = call[t]
    BY <1>1, <1>4, EmptySeq DEF ServerExit, Exit, SyncTypeOK, channels, Range
  <2> QED
    BY <2>1 DEF Sent
<1> QED
  BY <1>2, <1>3, <1>4 DEF SessionStep

LEMMA SessionServes ==
    ASSUME SyncInv, NEW s \in Session, SessionStep(s)
    PROVE  Serves
<1>1. SyncTypeOK /\ TypeOK
  BY DEF SyncInv, SyncTypeOK
<1>2. UNCHANGED F!followVars /\ UNCHANGED <<replica, born>> /\ Noted
  BY DEF SessionStep, F!followVars, Remote, userVars, Noted
<1>3. ASSUME ServerStep(s) PROVE F!FeedNext
  BY <1>2, <1>3, ServerSame DEF F!FeedNext
<1>4. ASSUME ServerTake(s) PROVE F!FeedNext
  <2>1. Take(s, Head(toServer[s])) /\ toServer[s] \in Seq(ClientMessage) /\ toServer[s] # <<>>
    BY <1>1, <1>4 DEF ServerTake, SyncTypeOK
  <2>2. Head(toServer[s]) \in Range(toServer[s]) /\ Head(toServer[s]) \in ClientMessage
    BY <2>1, HeadTailProperties, LenProperties, EmptySeq DEF Range
  <2>3. Head(toServer[s]).kind # "get"
    BY <2>2 DEF SyncInv, Sent, Pinned
  <2>4. Head(toServer[s]) \in F!Requests
    BY <2>2, <2>3 DEF ClientMessage, GetRequest, ChangeRequest, Garbled, Op, Data, Version,
                      F!Requests, F!ChangeRequest, F!Garbled, F!Op, F!Data, F!Version
  <2> QED
    BY <1>2, <2>1, <2>4, ServerSame DEF F!FeedNext
<1>5. F!FeedNext
  BY <1>3, <1>4 DEF SessionStep, ServerStep, ServerExit
<1>6. ASSUME Passes PROVE Tells
  BY <1>6 DEF Passes, Tells
<1>7. Tells \/ Accepts
  BY <1>1, <1>6, SessionPasses, SyncTells, ChangeTells, FailTells DEF SessionStep
<1>8. toServer' \in [Session -> Seq(ClientMessage)]
  <2>1. ASSUME toServer[s] # <<>> PROVE Tail(toServer[s]) \in Seq(ClientMessage)
    BY <1>1, <2>1, HeadTailProperties DEF SyncTypeOK
  <2>2. <<>> \in Seq(ClientMessage)
    BY EmptySeq
  <2> QED
    BY <1>1, <2>1, <2>2 DEF SessionStep, ServerTake, ServerExit, SyncTypeOK
<1> QED
  BY <1>2, <1>5, <1>7, <1>8, SessionSent DEF Serves

LEMMA ApiServes ==
    ASSUME SyncInv, NEW d \in Doc, ApiStep(d)
    PROVE  Serves
<1>1. /\ UNCHANGED <<link, replica, born, toServer>>
      /\ toServer' \in [Session -> Seq(ClientMessage)]
  BY DEF ApiStep, ApiRead, ApiUpdate, ApiDelete, ApiLock, userVars, SyncInv, SyncTypeOK
<1>2. UNCHANGED F!followVars
  BY <1>1 DEF F!followVars, Remote
<1>3. UNCHANGED call
  BY DEF ApiStep, ApiRead, ApiUpdate, ApiDelete, ApiLock, ApiChange, Lock, colVars, channels
<1>4. \A s \in Session : \A m \in Sent(s)' : m \in Sent(s) \/ m = NoCall
  BY <1>1, <1>3 DEF Sent
<1>5. ASSUME NEW m \in ChangeRequest, ApiChange(m), Asked(Api, m)
      PROVE  F!FeedNext /\ Accepts
  <2>1. m \in F!ChangeRequest
    BY DEF ChangeRequest, F!ChangeRequest, Op, F!Op, Data, F!Data, Version, F!Version
  <2> QED
    BY <1>2, <1>5, <2>1, ServerSame DEF F!FeedNext, Accepts, Accepted, ApiChange
<1>6. ASSUME UNCHANGED colVars PROVE UNCHANGED F!feedVars /\ Tells
  BY <1>2, <1>6 DEF F!feedVars, F!colVars, F!storage, F!links, F!channels, colVars, storage,
                    links, channels, Tells, Letters
<1>7. CASE \E e \in Edit : ApiRead(d, e)
  <2>1. Noted
    BY <1>7 DEF ApiRead, Noted
  <2> QED
    BY <1>1, <1>4, <1>6, <1>7, <2>1 DEF ApiRead, Serves
<1>8. ASSUME NEW e \in Edit, ApiUpdate(d, e) PROVE Serves
  <2>1. <<d, e>> \in drafts /\ (ApiChange(Change("*", d, {e})) \/ UNCHANGED colVars)
    BY <1>8 DEF ApiUpdate
  <2>2. Change("*", d, {e}) \in ChangeRequest /\ Asked(Api, Change("*", d, {e}))
    BY <2>1, NullAssumption DEF Change, ChangeRequest, Op, Data, Version, Asked
  <2>3. Noted
    BY <1>8 DEF ApiUpdate, Noted
  <2> QED
    BY <1>1, <1>4, <1>5, <1>6, <2>1, <2>2, <2>3 DEF Serves
<1>9. CASE ApiDelete(d)
  <2>1. Change("-", d, Null) \in ChangeRequest /\ Asked(Api, Change("-", d, Null))
    BY DEF Change, ChangeRequest, Op, Data, Asked
  <2>2. Noted
    BY <1>9 DEF ApiDelete, Noted, userVars
  <2> QED
    BY <1>1, <1>4, <1>5, <1>9, <2>1, <2>2 DEF ApiDelete, Serves
<1>10. CASE ApiLock(d)
  <2>1. F!FeedNext
    BY <1>2, <1>10, ServerSame DEF ApiLock, F!FeedNext
  <2>2. Tells
    BY <1>10 DEF ApiLock, Lock, Tells, Letters, channels
  <2>3. Noted
    BY <1>10 DEF ApiLock, Noted, userVars
  <2> QED
    BY <1>1, <1>4, <2>1, <2>2, <2>3 DEF Serves
<1> QED
  BY <1>7, <1>8, <1>9, <1>10 DEF ApiStep

\* Every step of the system.
LEMMA SyncMoves ==
    ASSUME SyncInv, SyncNext
    PROVE  (\E c \in Client : Moves(c)) \/ Serves
BY ClientMoves, SessionServes, ApiServes DEF SyncNext

-----------------------------------------------------------------------------
(* The clients follow *)

LEMMA FollowsStep == SyncInv /\ [SyncNext]_syncVars => [F!FeedNext]_F!feedVars
<1>1. UNCHANGED syncVars => UNCHANGED F!feedVars
  BY DEF syncVars, colVars, storage, links, channels, F!feedVars, F!colVars, F!storage,
         F!links, F!channels, F!followVars, Remote
<1> QED
  BY <1>1, SyncMoves DEF Moves, Moved, Serves

\* What is said of a document is of one there is, and of its deletion true.
LEMMA LetterTrue ==
    ASSUME SyncInv, NEW s \in Session, NEW m \in Letters(s), m.kind \in {"doc", "change"}
    PROVE  Exists(m.id) /\ (m.data = Null => ~Live(m.id))
<1>1. FeedInv
  BY KnownFeed DEF SyncInv
<1>2. CASE m.kind = "doc"
  <2>1. m \in FP!Pending(s)
    BY <1>2 DEF Letters, FP!Pending, FP!Refusals, FP!Range, Range
  <2>2. FP!DocTrue(m)
    BY <2>1 DEF SyncInv, FP!KnownInv
  <2> QED
    BY <1>2, <2>2 DEF FP!DocTrue, FP!Live, Live, Exists
<1>3. CASE m.kind = "change"
  <2>1. m \in ServerMessage /\ Truthful(m) /\ Issued(m)
    <3>1. /\ \A i \in DOMAIN wire[s] : Truthful(wire[s][i]) /\ Issued(wire[s][i])
          /\ \A i \in DOMAIN mailbox[s] : Truthful(mailbox[s][i]) /\ Issued(mailbox[s][i])
      BY <1>1 DEF FeedInv, FeedTruthful, FeedIssued
    <3>2. TypeOK
      BY <1>1 DEF FeedInv
    <3> QED
      BY <3>1, <3>2, Lengths, ElementOfSeq DEF Letters, Range, TypeOK
  <2>2. m.id \in Doc /\ m.colrev \in Nat /\ m.colrev > 0 /\ docs[m.id].rev \in Nat
    <3>1. m.id \in Doc
      BY <1>3, <2>1 DEF ServerMessage
    <3>2. colrev \in Nat /\ docs[m.id].rev \in Nat
      BY <1>1, <3>1 DEF FeedInv, TypeOK
    <3> QED
      BY <1>3, <2>1, <3>1, <3>2 DEF Issued
  <2> QED
    BY <1>3, <2>1, <2>2 DEF Truthful, Exists, Live
<1> QED
  BY <1>2, <1>3

LEMMA AcceptedLetters ==
    ASSUME TypeOK, NEW src, NEW m \in ChangeRequest, Accepted(src, m), UNCHANGED wire,
           NEW s \in Session, NEW n \in Letters(s)'
    PROVE  n \in Letters(s) \/ n = ServerChange(m.op, m.id, Outcome(m), colrev + 1)
<1>1. CASE n \in Range(wire'[s])
  BY <1>1 DEF Letters
<1>2. CASE n \in Range(mailbox'[s])
  <2>1. PICK i \in DOMAIN mailbox'[s] : n = mailbox'[s][i]
    BY <1>2 DEF Range
  <2> QED
    BY <2>1, BroadcastOrigin DEF Letters, Range
<1> QED
  BY <1>1, <1>2 DEF Letters

\* A document that exists goes on existing, and while it is live holds what it held.
LEMMA RowsGrow ==
    ASSUME TypeOK, Tells \/ Accepts \/ UNCHANGED docs, NEW d \in Doc, Exists(d)
    PROVE  /\ Exists(d)'
           /\ Live(d)' => Live(d) /\ docs[d].data \subseteq docs'[d].data
<1>1. CASE UNCHANGED docs
  BY <1>1 DEF Exists, Live
<1>2. ASSUME NEW src, NEW m \in ChangeRequest, Accepted(src, m)
      PROVE  /\ Exists(d)'
             /\ Live(d)' => Live(d) /\ docs[d].data \subseteq docs'[d].data
  <2>1. /\ m.id \in Doc /\ colrev \in Nat /\ docs'[m.id].rev = colrev + 1
        /\ docs'[m.id].data = Outcome(m)
        /\ \A b \in Doc \ {m.id} : docs'[b] = docs[b]
    <3>1. /\ m.id \in Doc /\ docs'[m.id] = [rev |-> colrev + 1, data |-> Outcome(m)]
          /\ \A b \in Doc \ {m.id} : docs'[b] = docs[b]
      BY <1>2, AcceptedRow
    <3> QED
      BY <3>1 DEF TypeOK
  <2>2. CASE d # m.id
    BY <2>1, <2>2 DEF Exists, Live
  <2>3. CASE d = m.id
    <3>1. Exists(d)'
      BY <2>1, <2>3 DEF Exists
    <3>2. m.op # "+" /\ Live(d)
      BY <1>2, <2>3, OutcomeTypes DEF Accepted
    <3>3. ASSUME Live(d)' PROVE docs[d].data \subseteq docs'[d].data
      <4>1. m.op = "*"
        BY <1>2, <2>1, <2>3, <3>2, <3>3, OutcomeTypes, RequestTypes DEF Accepted, Op, Live
      <4> QED
        BY <1>2, <2>1, <2>3, <4>1, OutcomeTypes DEF Accepted
    <3> QED
      BY <3>1, <3>2, <3>3
  <2> QED
    BY <2>2, <2>3
<1> QED
  BY <1>1, <1>2 DEF Tells, Accepts

-----------------------------------------------------------------------------
(* The invariant is kept *)

LEMMA KnownTypes == FP!KnownInv => TypeOK /\ link \in [Client -> Slot \cup {NoSlot}]
<1>1. FP!KnownInv => TypeOK
  BY KnownFeed DEF FeedInv
<1> QED
  BY <1>1 DEF FP!KnownInv, FP!FeedTypeOK

LEMMA KnownTypesNext == FP!KnownInv' => TypeOK' /\ link' \in [Client -> Slot \cup {NoSlot}]
<1>1. (FP!KnownInv => TypeOK /\ link \in [Client -> Slot \cup {NoSlot}])'
  BY KnownTypes, PTL
<1> QED
  BY <1>1

LEMMA KnownNext ==
    ASSUME SyncInv, [SyncNext]_syncVars
    PROVE  /\ FP!KnownInv' /\ TypeOK' /\ link' \in [Client -> Slot \cup {NoSlot}]
           /\ \A c \in Client, d \in Doc :
                 Remote(c, d)' # Null => Exists(d)' /\ (Live(d)' => Remote(c, d)' \subseteq docs'[d].data)
<1>1. FP!KnownInv'
  BY FollowsStep, KnownKept DEF SyncInv
<1>2. FP!KnownInv' => TypeOK' /\ link' \in [Client -> Slot \cup {NoSlot}]
  BY KnownTypesNext
<1>3. ASSUME NEW c \in Client, NEW d \in Doc, Remote(c, d)' # Null
      PROVE  Exists(d)' /\ (Live(d)' => Remote(c, d)' \subseteq docs'[d].data)
  BY <1>1, <1>3 DEF FP!KnownInv, FP!ViewKnown, FP!Exists, FP!Live, Exists, Live
<1> QED
  BY <1>1, <1>2, <1>3

\* What is posted is well-typed.
LEMMA PostedTypes ==
    ASSUME SyncTypeOK, NEW c \in Client, NEW k \in Replica, Blank(k), Posted(c, k)
    PROVE  /\ replica' \in [Client -> Replica]
           /\ toServer' \in [Session -> Seq(ClientMessage)]
           /\ Blank(replica'[c])
           /\ \A b \in Client : b # c => replica'[b] = replica[b]
           /\ \A d \in Doc : /\ Local(c, d)' = k.items[d].local
                             /\ Remote(c, d)' = k.items[d].remote
                             /\ Has(replica'[c], d) <=> Has(k, d)
<1>1. PICK l : Alike(k, l) /\ replica' = [replica EXCEPT ![c] = l]
  BY DEF Posted
<1>2. l \in Replica /\ replica' \in [Client -> Replica] /\ replica'[c] = l
      /\ \A b \in Client : b # c => replica'[b] = replica[b]
  BY <1>1 DEF SyncTypeOK, Alike
<1>3. \A d \in Doc : /\ l.items[d].local = k.items[d].local
                     /\ l.items[d].remote = k.items[d].remote
                     /\ Has(l, d) <=> Has(k, d)
  BY <1>1 DEF Alike, Has
<1>4. ASSUME NEW d \in Doc, ~Has(l, d) PROVE l.items[d] = Absent
  <2>1. l.items[d] \in Item /\ k.items[d] = Absent
    BY <1>2, <1>3, <1>4, ItemTypes DEF Blank
  <2>2. /\ l.items[d].local = Null /\ l.items[d].remote = Null
        /\ l.items[d].state = "absent"
    BY <1>3, <1>4, <2>1 DEF Absent, Has
  <2> QED
    BY <2>1, <2>2 DEF Item, Absent
<1>5. toServer' \in [Session -> Seq(ClientMessage)]
  <2>1. CASE UNCHANGED toServer
    BY <2>1 DEF SyncTypeOK
  <2>2. ASSUME NEW msgs \in Seq(ClientMessage), link[c] # NoSlot,
               toServer' = [toServer EXCEPT ![Conn(c)] = @ \o msgs]
        PROVE  toServer' \in [Session -> Seq(ClientMessage)]
    <3>1. Conn(c) \in Session
      BY <2>2, SyncAssumption DEF Conn, SyncTypeOK
    <3>2. toServer[Conn(c)] \o msgs \in Seq(ClientMessage)
      BY <3>1, ConcatProperties DEF SyncTypeOK
    <3> QED
      BY <2>2, <3>1, <3>2 DEF SyncTypeOK
  <2> QED
    BY <2>1, <2>2 DEF Posted
<1> QED
  BY <1>2, <1>3, <1>4, <1>5 DEF Blank, Local, Remote

\* What is sent is a `get`, or what flush() makes of an item there is.
LEMMA PostedSent ==
    ASSUME SyncTypeOK, NEW c \in Client, NEW k, Posted(c, k), Framed,
           NEW s \in Session, NEW m \in Sent(s)'
    PROVE  m \in Sent(s) \/ m.kind = "sync" \/ m \in Garbled \/ Flushed(k, replica'[c], m)
<1>0. PICK l : /\ Alike(k, l) /\ replica' = [replica EXCEPT ![c] = l]
              /\ \/ UNCHANGED toServer
                 \/ /\ link[c] # NoSlot
                    /\ \E msgs \in Seq(ClientMessage) :
                          /\ toServer' = [toServer EXCEPT ![Conn(c)] = @ \o msgs]
                          /\ \A n \in Range(msgs) : n \in Garbled \/ Flushed(k, l, n)
  BY DEF Posted
<1>1. CASE m = call'[s]
  BY <1>1 DEF Framed, Sent
<1>2. replica'[c] = l
  BY <1>0 DEF SyncTypeOK
<1>3. CASE m \in Range(toServer'[s])
  <2>1. CASE UNCHANGED toServer
    BY <1>3, <2>1 DEF Sent
  <2>2. ASSUME NEW msgs \in Seq(ClientMessage), link[c] # NoSlot,
               toServer' = [toServer EXCEPT ![Conn(c)] = @ \o msgs]
        PROVE  m \in Sent(s) \/ m \in Range(msgs)
    <3>1. Conn(c) \in Session
      BY <2>2, SyncAssumption DEF Conn, SyncTypeOK
    <3>2. Range(toServer[Conn(c)] \o msgs) = Range(toServer[Conn(c)]) \cup Range(msgs)
      BY <3>1, RangeConcatenation DEF SyncTypeOK
    <3> QED
      BY <1>3, <2>2, <3>1, <3>2 DEF Sent, SyncTypeOK
  <2> QED
    BY <1>0, <1>2, <2>1, <2>2
<1> QED
  BY <1>1, <1>3 DEF Sent

\* An id is known to a client only when it was made.
LEMMA MovesBorn ==
    ASSUME SyncInv, NEW c \in Client, NEW k \in Replica,
           \/ Kept(c, k)
           \/ \E d \in Doc, e \in Edit : Wrote(c, k, d, e)
           \/ \E d \in Doc : Removed(c, k, d)
           \/ \E m : Heard(c, k, m)
    PROVE  /\ born \subseteq born' /\ born' \subseteq Doc /\ basis' \in [Edit -> Data]
           /\ \A d \in Doc : Has(k, d) => d \in born'
<1>1. /\ born \subseteq Doc /\ basis \in [Edit -> Data] /\ Born
      /\ \A d \in Doc : Has(replica[c], d) => d \in born
  BY DEF SyncInv, SyncTypeOK, Born
<1>2. CASE Kept(c, k)
  BY <1>1, <1>2 DEF Kept, Has
<1>3. ASSUME NEW d \in Doc, NEW e \in Edit, Wrote(c, k, d, e)
      PROVE  /\ born \subseteq born' /\ born' \subseteq Doc /\ basis' \in [Edit -> Data]
             /\ \A b \in Doc : Has(k, b) => b \in born'
  <2>1. basis' \in [Edit -> Data]
    BY <1>1, <1>3 DEF Wrote, Data
  <2> QED
    BY <1>1, <1>3, <2>1 DEF Wrote, Has
<1>4. CASE \E d \in Doc : Removed(c, k, d)
  BY <1>1, <1>4 DEF Removed, Has
<1>5. ASSUME NEW m, Heard(c, k, m)
      PROVE  /\ born \subseteq born' /\ born' \subseteq Doc /\ basis' \in [Edit -> Data]
             /\ \A b \in Doc : Has(k, b) => b \in born'
  <2>1. /\ UNCHANGED <<born, basis>> /\ m.id \in Doc
        /\ \A b \in Doc : b # m.id => (Has(k, b) <=> Has(replica[c], b))
        /\ Has(k, m.id) => Has(replica[c], m.id) \/ m.kind # "change_error"
    BY <1>5 DEF Heard, Effect, Has
  <2>2. m.kind # "change_error" => Exists(m.id)
    <3>1. /\ Conn(c) \in Session /\ m \in Letters(Conn(c))
          /\ m.kind \in {"doc", "change", "change_error"}
      BY <1>5, ArrivingProper DEF Heard, Letters
    <3> QED
      BY <3>1, LetterTrue
  <2> QED
    BY <1>1, <2>1, <2>2 DEF Born
<1> QED
  BY <1>2, <1>3, <1>4, <1>5

LEMMA MovesKeep ==
    ASSUME SyncInv, [SyncNext]_syncVars, NEW c \in Client, Moves(c)
    PROVE  SyncInv'
<1>1. PICK k \in Replica :
         /\ Blank(k) /\ Posted(c, k)
         /\ \/ Kept(c, k)
            \/ \E d \in Doc, e \in Edit : Wrote(c, k, d, e)
            \/ \E d \in Doc : Removed(c, k, d)
            \/ \E m : Heard(c, k, m)
  BY DEF Moves, Moved
<1>2. /\ SyncTypeOK /\ Framed /\ UNCHANGED docs
      /\ \A b \in Client : Blank(replica[b])
  BY DEF Moves, Moved, Framed, SyncInv
<1>3. /\ born \subseteq born' /\ born' \subseteq Doc /\ basis' \in [Edit -> Data]
      /\ \A d \in Doc : Has(k, d) => d \in born'
  BY <1>1, MovesBorn
<1>4. /\ replica' \in [Client -> Replica] /\ toServer' \in [Session -> Seq(ClientMessage)]
      /\ Blank(replica'[c])
      /\ \A b \in Client : b # c => replica'[b] = replica[b]
      /\ \A d \in Doc : /\ Remote(c, d)' = k.items[d].remote
                        /\ Has(replica'[c], d) <=> Has(k, d)
  BY <1>1, <1>2, PostedTypes
<1>5. SyncTypeOK'
  BY <1>2, <1>3, <1>4, KnownNext DEF SyncTypeOK, Framed
<1>6. \A b \in Client : Blank(replica[b])'
  BY <1>2, <1>4 DEF Blank, Has
<1>7. Born'
  <2>1. \A d \in Doc : Exists(d)' => d \in born'
    BY <1>2, <1>3 DEF SyncInv, Born, Exists
  <2>2. \A b \in Client, d \in Doc : Has(replica'[b], d) => d \in born'
    BY <1>3, <1>4 DEF SyncInv, Born
  <2> QED
    BY <2>1, <2>2 DEF Born, Has
<1>8. ASSUME NEW s \in Session, NEW m \in Sent(s)' PROVE Pinned(m)'
  <2>1. CASE m \in Sent(s)
    <3>1. Pinned(m)
      BY <2>1 DEF SyncInv
    <3> QED
      BY <1>2, <1>3, <3>1 DEF Pinned, Exists
  <2>2. CASE m.kind = "sync" \/ m \in Garbled
    BY <2>2 DEF Pinned, Garbled
  <2>3. ASSUME NEW d \in Doc, Has(k, d), m = FlushMessage(d, k.items[d]) PROVE Pinned(m)'
    <3>1. /\ m.kind = "change" => m.id = d /\ (m.op # "+" => k.items[d].remote # Null)
          /\ m.kind \in {"change", "garbled"}
      BY <2>3, FlushTypes
    <3>2. m.op # "+" /\ m.kind = "change" => Exists(d)'
      BY <1>4, <3>1, KnownNext
    <3> QED
      BY <1>3, <2>3, <3>1, <3>2 DEF Pinned, Exists
  <2> QED
    BY <1>1, <1>2, <2>1, <2>2, <2>3, PostedSent DEF Flushed
<1>9. ASSUME NEW s \in Session, NEW m \in Letters(s)' PROVE Found(m)
  BY <1>2, <1>9 DEF SyncInv, Framed, Letters
<1> QED
  BY <1>5, <1>6, <1>7, <1>8, <1>9, KnownNext DEF SyncInv, Found

\* A document that comes to be was asked for.
LEMMA AskedFor ==
    ASSUME SyncInv, Serves, NEW d \in Doc, ~Exists(d), Exists(d)'
    PROVE  \E s \in Session : \E m \in Sent(s) : m.kind = "change" /\ m.id = d /\ Pinned(m)
<1>1. SyncTypeOK /\ TypeOK /\ (Tells \/ Accepts)
  BY DEF SyncInv, SyncTypeOK, Serves
<1>2. docs' # docs
  BY DEF Exists
<1>3. PICK src \in Session \cup {Api}, m \in ChangeRequest :
         Accepted(src, m) /\ Asked(src, m) /\ UNCHANGED wire
  BY <1>1, <1>2 DEF Tells, Accepts
<1>4. d = m.id /\ m.kind = "change"
  BY <1>1, <1>3, AcceptedRow, RequestTypes DEF Exists
<1>5. m.op = "+"
  BY <1>1, <1>3, <1>4, OutcomeTypes, RequestTypes DEF Accepted
<1>6. src \in Session /\ m = call[src]
  BY <1>3, <1>5 DEF Asked
<1> QED
  BY <1>4, <1>6 DEF SyncInv, Sent

LEMMA ServesKeep ==
    ASSUME SyncInv, [SyncNext]_syncVars, Serves
    PROVE  SyncInv'
<1>1. /\ SyncTypeOK /\ TypeOK /\ UNCHANGED <<replica, born>> /\ Noted
      /\ toServer' \in [Session -> Seq(ClientMessage)]
      /\ \A s \in Session : \A m \in Sent(s)' : m \in Sent(s) \/ m = NoCall
      /\ Tells \/ Accepts
  BY DEF SyncInv, SyncTypeOK, Serves
<1>2. basis' \in [Edit -> Data] /\ drafts' \subseteq Doc \X Edit
  <2>1. CASE UNCHANGED basis /\ drafts' \subseteq drafts
    BY <1>1, <2>1 DEF SyncTypeOK
  <2>2. ASSUME NEW d \in Doc, NEW e \in Edit, basis' = [basis EXCEPT ![e] = docs[d].data],
               drafts' = drafts \cup {<<d, e>>}
        PROVE  basis' \in [Edit -> Data] /\ drafts' \subseteq Doc \X Edit
    <3>1. docs[d].data \in Data
      BY <1>1 DEF TypeOK
    <3> QED
      BY <1>1, <2>2, <3>1 DEF SyncTypeOK
  <2> QED
    BY <1>1, <2>1, <2>2 DEF Noted
<1>3. SyncTypeOK'
  BY <1>1, <1>2, KnownNext DEF SyncTypeOK
<1>4. Born'
  <2>1. ASSUME NEW d \in Doc, Exists(d)' PROVE d \in born
    <3>1. CASE Exists(d)
      BY <3>1 DEF SyncInv, Born
    <3>2. CASE ~Exists(d)
      <4>1. \E s \in Session : \E m \in Sent(s) : m.kind = "change" /\ m.id = d /\ Pinned(m)
        BY <2>1, <3>2, AskedFor
      <4> QED
        BY <4>1 DEF Pinned
    <3> QED
      BY <3>1, <3>2
  <2> QED
    BY <1>1, <2>1 DEF SyncInv, Born, Has, Exists
<1>5. ASSUME NEW s \in Session, NEW m \in Sent(s)' PROVE Pinned(m)'
  <2>1. CASE m = NoCall
    BY <2>1 DEF NoCall, Pinned
  <2>2. CASE m \in Sent(s)
    <3>1. Pinned(m)
      BY <2>2 DEF SyncInv
    <3>2. m.kind = "change" => m.id \in Doc
      BY <1>1, <3>1 DEF Pinned, SyncTypeOK
    <3>3. m.kind = "change" /\ m.op # "+" => Exists(m.id)'
      BY <1>1, <3>1, <3>2, RowsGrow DEF Pinned
    <3> QED
      BY <1>1, <3>1, <3>3 DEF Pinned, Exists
  <2> QED
    BY <1>1, <2>1, <2>2
<1>6. ASSUME NEW s \in Session, NEW m \in Letters(s)' PROVE Found(m)
  <2>1. m \in Letters(s) => Found(m)
    BY DEF SyncInv
  <2>2. CASE Tells
    BY <1>6, <2>1, <2>2 DEF Tells, IsAnswer
  <2>3. CASE Accepts
    <3>1. PICK src \in Session \cup {Api}, n \in ChangeRequest :
             Accepted(src, n) /\ UNCHANGED wire
      BY <2>3 DEF Accepts
    <3>2. m \in Letters(s) \/ m = ServerChange(n.op, n.id, Outcome(n), colrev + 1)
      BY <1>1, <1>6, <3>1, AcceptedLetters
    <3> QED
      BY <2>1, <3>2 DEF ServerChange, Found
  <2> QED
    BY <1>1, <2>2, <2>3
<1> QED
  BY <1>1, <1>3, <1>4, <1>5, <1>6, KnownNext DEF SyncInv, Blank, Has, Found

LEMMA SyncInvInit == SyncInit => SyncInv
<1> SUFFICES ASSUME SyncInit PROVE SyncInv
  OBVIOUS
<1>1. FP!KnownInv
  BY KnownStart
<1>2. NewReplica \in Replica /\ Blank(NewReplica) /\ \A d \in Doc : ~Has(NewReplica, d)
  BY DEF NewReplica, Replica, Item, Absent, Data, Blank, Has
<1>3. SyncTypeOK
  <2>1. TypeOK
    BY <1>1, KnownTypes
  <2>2. <<>> \in Seq(ClientMessage)
    BY EmptySeq
  <2> QED
    BY <1>2, <2>1, <2>2 DEF SyncInit, SyncTypeOK, Data
<1>4. Born /\ \A c \in Client : Blank(replica[c])
  BY <1>2 DEF SyncInit, Init, NoRow, Born, Exists
<1>5. ASSUME NEW s \in Session
      PROVE  Sent(s) = {NoCall} /\ Letters(s) = {}
  BY DEF SyncInit, Init, Sent, Letters, Range
<1>6. Pinned(NoCall)
  BY DEF Pinned, NoCall
<1> QED
  BY <1>1, <1>3, <1>4, <1>5, <1>6 DEF SyncInv

LEMMA SyncInvStep == SyncInv /\ [SyncNext]_syncVars => SyncInv'
<1> SUFFICES ASSUME SyncInv, [SyncNext]_syncVars PROVE SyncInv'
  OBVIOUS
<1>1. CASE SyncNext
  BY <1>1, SyncMoves, MovesKeep, ServesKeep
<1>2. CASE UNCHANGED syncVars
  <2>1. /\ UNCHANGED <<docs, call, mailbox, wire, replica, toServer, born, basis, drafts>>
    BY <1>2 DEF syncVars, colVars, storage, channels, userVars
  <2> QED
    BY <2>1, KnownNext
       DEF SyncInv, SyncTypeOK, Blank, Has, Born, Exists, Sent, Letters, Pinned, Found
<1> QED
  BY <1>1, <1>2

LEMMA SyncInvAlways == SyncSpec => []SyncInv
BY SyncInvInit, SyncInvStep, PTL DEF SyncSpec

-----------------------------------------------------------------------------

\* Types: whatever the users do and the network loses, a client's copies, its queue
\* and its requests are what the protocol can carry (SinkronCollection,
\* packages/client/src/collection.ts).
THEOREM SyncTypeCorrect == SyncSpec => []SyncTypeOK
<1>1. SyncInv => SyncTypeOK
  BY DEF SyncInv
<1> QED
  BY <1>1, SyncInvAlways, PTL

\* Implementation of module Feed: however its user edits and deletes, flushes and
\* reconnects, a client's `remote` copies and its `colrev` are what the server's
\* messages alone make them (handleDocMessage, handleChangeMessage,
\* handleSyncCompleteMessage and handleChangeErrorMessage of
\* packages/client/src/collection.ts).
THEOREM FollowsFeed == SyncSpec => Follows
<1>1. SyncInit => F!FeedInit
  BY DEF SyncInit, F!FeedInit, F!Init, Init, F!NoCall, NoCall, F!NoRow, NoRow, NewReplica,
         Absent, Remote
<1>2. SyncInv /\ [SyncNext]_syncVars => [F!FeedNext]_F!feedVars
  BY FollowsStep
<1> QED
  BY <1>1, <1>2, SyncInvAlways, PTL DEF SyncSpec, Follows, F!FeedSpec

-----------------------------------------------------------------------------
(* Edits are kept *)

\* What is in a user's copy stays there, or is gone for a reason.
Keeps(c, d) ==
    \/ Local(c, d) = Null
    \/ Local(c, d)' # Null /\ Local(c, d) \subseteq Local(c, d)'
    \/ UserDelete(c, d)
    \/ Exists(d) /\ ~Live(d)
    \/ /\ Arriving(c) # <<>>
       /\ Head(Arriving(c)) = ChangeError(d, "forbidden")

LEMMA SameKeeps ==
    ASSUME NEW c \in Client, NEW d \in Doc, Local(c, d)' = Local(c, d)
    PROVE  Keeps(c, d)
BY DEF Keeps

LEMMA RefusalIs ==
    ASSUME NEW m \in ServerMessage, m.kind = "change_error", m.code = "forbidden"
    PROVE  m = ChangeError(m.id, "forbidden")
<1>1. m \in [kind: {"get_error", "change_error"}, id: Doc, code: ErrorCode]
  BY DEF ServerMessage
<1>2. m = [kind |-> m.kind, id |-> m.id, code |-> m.code]
  BY <1>1
<1> QED
  BY <1>2 DEF ChangeError

\* A message takes a user's copy away only if it refuses the user's change, or if
\* the document was deleted.
LEMMA HeardKeeps ==
    ASSUME SyncInv, NEW c \in Client, NEW k \in Replica, NEW m, Heard(c, k, m),
           Local(c, m.id)' = k.items[m.id].local
    PROVE  Keeps(c, m.id)
<1> DEFINE d == m.id
           i == replica[c].items[d]
<1>1. /\ Arriving(c) # <<>> /\ m = Head(Arriving(c)) /\ d \in Doc
      /\ m.kind \in {"doc", "change", "change_error"}
      /\ Effect(i, k.items[d], m)
  BY DEF Heard
<1>2. Conn(c) \in Session /\ m \in Letters(Conn(c)) /\ m \in ServerMessage
  BY <1>1, ArrivingProper DEF Letters
<1>3. \/ i.local = Null
      \/ k.items[d].local # Null /\ i.local \subseteq k.items[d].local
      \/ IF m.kind = "change_error" THEN m.code = "forbidden" ELSE m.data = Null
  BY <1>1 DEF Effect
<1>4. ASSUME m.kind = "change_error", m.code = "forbidden"
      PROVE  m = ChangeError(d, "forbidden")
  BY <1>2, <1>4, RefusalIs
<1>5. ASSUME m.kind # "change_error", m.data = Null PROVE Exists(d) /\ ~Live(d)
  BY <1>1, <1>2, <1>5, LetterTrue
<1> QED
  BY <1>1, <1>3, <1>4, <1>5 DEF Keeps, Local

LEMMA MovesKeeps ==
    ASSUME SyncInv, NEW c \in Client, Moves(c), NEW b \in Client, NEW d \in Doc
    PROVE  Keeps(b, d)
<1>1. PICK k \in Replica :
         /\ Blank(k) /\ Posted(c, k)
         /\ \/ Kept(c, k)
            \/ \E a \in Doc, e \in Edit : Wrote(c, k, a, e)
            \/ \E a \in Doc : Removed(c, k, a)
            \/ \E m : Heard(c, k, m)
  BY DEF Moves, Moved
<1>2. /\ \A a \in Client : a # c => replica'[a] = replica[a]
      /\ \A a \in Doc : Local(c, a)' = k.items[a].local
  BY <1>1, PostedTypes DEF SyncInv
<1>3. CASE b # c
  BY <1>2, <1>3, SameKeeps DEF Local
<1>4. ASSUME k.items[d] = replica[c].items[d] PROVE Keeps(c, d)
  BY <1>2, <1>4, SameKeeps DEF Local
<1>5. ASSUME Kept(c, k) PROVE Keeps(c, d)
  BY <1>4, <1>5 DEF Kept
<1>6. ASSUME NEW a \in Doc, NEW e \in Edit, Wrote(c, k, a, e) PROVE Keeps(c, d)
  <2>1. CASE d # a
    BY <1>4, <1>6, <2>1 DEF Wrote
  <2>2. CASE d = a
    <3>1. PICK v \in Version : /\ k.items[d].local = v \cup {e}
                               /\ v = Local(c, d) \/ (Local(c, d) = Null /\ v = {})
      BY <1>6, <2>2 DEF Wrote
    <3>2. v \cup {e} # Null
      BY NullAssumption DEF Version
    <3> QED
      BY <1>2, <3>1, <3>2 DEF Keeps
  <2> QED
    BY <2>1, <2>2
<1>7. ASSUME NEW a \in Doc, Removed(c, k, a) PROVE Keeps(c, d)
  BY <1>4, <1>7 DEF Removed, Keeps
<1>8. ASSUME NEW m, Heard(c, k, m) PROVE Keeps(c, d)
  <2>1. m.id \in Doc
    BY <1>8 DEF Heard
  <2>2. CASE d = m.id
    BY <1>2, <1>8, <2>1, <2>2, HeardKeeps
  <2>3. CASE d # m.id
    BY <1>4, <1>8, <2>3 DEF Heard
  <2> QED
    BY <2>2, <2>3
<1> QED
  BY <1>1, <1>3, <1>5, <1>6, <1>7, <1>8

\* An edit leaves its author's copy only with the document, when a user or the
\* application deleted it, or when the server refuses the change: no merge, no late
\* answer and no reconnection costs a user an edit (handleDocMessage,
\* handleUpdateMessage, handleChangeMessage and handleChangeErrorMessage of
\* packages/client/src/collection.ts).
THEOREM EditsAlwaysKept == SyncSpec => EditsKept
<1>1. SyncInv /\ [SyncNext]_syncVars => [\A c \in Client, d \in Doc : Keeps(c, d)]_syncVars
  <2> SUFFICES ASSUME SyncInv, SyncNext, NEW c \in Client, NEW d \in Doc PROVE Keeps(c, d)
    OBVIOUS
  <2>1. CASE Serves
    <3>1. Local(c, d)' = Local(c, d)
      BY <2>1 DEF Serves, Local
    <3> QED
      BY <3>1, SameKeeps
  <2> QED
    BY <2>1, SyncMoves, MovesKeeps
<1> QED
  BY <1>1, SyncInvAlways, PTL DEF SyncSpec, EditsKept, Keeps

-----------------------------------------------------------------------------
(* No edit is without those it was made on top of *)

\* v is all there is of a document, if the edits were made on top of those in b.
Whole(b, v) == v = Null \/ \A e \in v : b[e] # Null /\ b[e] \subseteq v

\* The document that m creates is whole; the one that m updates will be.
Sound(m) ==
    m.kind = "change" =>
        /\ m.op = "+" => Whole(basis, m.data)
        /\ m.op = "*" /\ Live(m.id) =>
              \A e \in m.data : basis[e] # Null /\ basis[e] \subseteq docs[m.id].data \cup m.data

Drafted(d, e) ==
    basis[e] # Null /\ Exists(d) /\ (Live(d) => basis[e] \subseteq docs[d].data)

WholeInv ==
    /\ \A d \in Doc : Whole(basis, docs[d].data)
    /\ \A c \in Client, d \in Doc : Whole(basis, Local(c, d)) /\ Whole(basis, Remote(c, d))
    /\ \A s \in Session :
          /\ \A m \in Letters(s) : m.kind \in {"doc", "change"} => Whole(basis, m.data)
          /\ \A m \in Sent(s) : Sound(m)
    /\ \A d \in Doc, e \in Edit : <<d, e>> \in drafts => Drafted(d, e)

\* What an edit was made on top of is said once.
BasisKept == \A e \in Edit : basis[e] # Null => basis'[e] = basis[e]

LEMMA WholeStays ==
    ASSUME BasisKept, NEW v \in Data, Whole(basis, v)
    PROVE  Whole(basis', v)
BY DEF BasisKept, Whole, Data, Version

LEMMA WholeTogether ==
    ASSUME NEW b, NEW v \in Version, NEW w \in Version, Whole(b, v), Whole(b, w)
    PROVE  Whole(b, v \cup w)
BY NullAssumption DEF Whole, Version

\* With what a client or an application adds to it.
LEMMA WholeWith ==
    ASSUME NEW b, NEW v \in Version, NEW w \in Version, Whole(b, v),
           \A e \in w : b[e] # Null /\ b[e] \subseteq v \cup w
    PROVE  Whole(b, v \cup w)
BY NullAssumption DEF Whole, Version

LEMMA SentTypes ==
    ASSUME SyncTypeOK, NEW s \in Session, NEW m \in Sent(s), m.kind = "change"
    PROVE  m \in ChangeRequest
<1>1. CASE m = call[s]
  BY <1>1, CallTypes DEF SyncTypeOK
<1>2. CASE m \in Range(toServer[s])
  <2>1. m \in ClientMessage
    BY <1>2, ElementOfSeq, LenProperties DEF SyncTypeOK, Range
  <2> QED
    BY <2>1 DEF ClientMessage, GetRequest, Garbled
<1> QED
  BY <1>1, <1>2 DEF Sent

\* A request stays sound while documents grow.
LEMMA SoundStays ==
    ASSUME SyncInv, BasisKept, Tells \/ Accepts \/ UNCHANGED docs,
           NEW s \in Session, NEW m \in Sent(s), Sound(m)
    PROVE  Sound(m)'
<1> SUFFICES ASSUME m.kind = "change" PROVE Sound(m)'
  BY DEF Sound
<1>1. m \in ChangeRequest /\ m.id \in Doc /\ m.data \in Data /\ TypeOK
  BY SentTypes, RequestTypes DEF SyncInv, SyncTypeOK
<1>2. Pinned(m)
  BY DEF SyncInv
<1>3. m.op = "+" => Whole(basis', m.data)
  BY <1>1, WholeStays DEF Sound
<1>4. ASSUME m.op = "*", Live(m.id)', NEW e \in m.data
      PROVE  basis'[e] # Null /\ basis'[e] \subseteq docs'[m.id].data \cup m.data
  <2>1. Live(m.id) /\ docs[m.id].data \subseteq docs'[m.id].data
    BY <1>1, <1>2, <1>4, RowsGrow DEF Pinned
  <2>2. e \in Edit
    BY <1>1, <1>4, RequestTypes DEF Version
  <2>3. basis[e] # Null /\ basis[e] \subseteq docs[m.id].data \cup m.data
    BY <1>4, <2>1 DEF Sound
  <2>4. basis'[e] = basis[e]
    BY <2>2, <2>3 DEF BasisKept
  <2> QED
    BY <2>1, <2>3, <2>4
<1> QED
  BY <1>3, <1>4 DEF Sound, Live

LEMMA DraftStays ==
    ASSUME SyncInv, BasisKept, Tells \/ Accepts \/ UNCHANGED docs,
           NEW d \in Doc, NEW e \in Edit, Drafted(d, e)
    PROVE  Drafted(d, e)'
<1>1. Exists(d)' /\ (Live(d)' => Live(d) /\ docs[d].data \subseteq docs'[d].data)
  BY RowsGrow DEF SyncInv, SyncTypeOK, Drafted
<1>2. basis'[e] = basis[e] /\ basis[e] # Null
  BY DEF Drafted, BasisKept
<1> QED
  BY <1>1, <1>2 DEF Drafted, Exists, Live

\* The client's copies in state k.
WholeCopies(k) ==
    \A d \in Doc : Whole(basis', k.items[d].local) /\ Whole(basis', k.items[d].remote)

LEMMA WroteWhole ==
    ASSUME SyncInv, WholeInv, NEW c \in Client, NEW k \in Replica,
           NEW d \in Doc, NEW e \in Edit, Wrote(c, k, d, e)
    PROVE  BasisKept /\ WholeCopies(k)
<1>1. PICK v \in Version :
         /\ k.items[d].local = v \cup {e} /\ basis' = [basis EXCEPT ![e] = v]
         /\ v = Local(c, d) \/ (Local(c, d) = Null /\ v = {})
  BY DEF Wrote
<1>2. basis[e] = Null /\ basis'[e] = v /\ BasisKept
  BY <1>1 DEF Wrote, SyncInv, SyncTypeOK, BasisKept
<1>3. replica[c] \in Replica
  BY DEF SyncInv, SyncTypeOK
<1>4. ASSUME NEW b \in Doc
      PROVE  Whole(basis', Local(c, b)) /\ Whole(basis', Remote(c, b))
  BY <1>2, <1>3, WholeStays, ItemTypes DEF WholeInv, Local, Remote
<1>5. \A b \in Doc : b # d => k.items[b] = replica[c].items[b]
  BY DEF Wrote
<1>6. Whole(basis', k.items[d].remote)
  BY <1>4 DEF Wrote
<1>7. Whole(basis', k.items[d].local)
  <2>1. Whole(basis', v)
    BY <1>1, <1>4 DEF Whole
  <2>2. v # Null /\ basis'[e] # Null /\ {e} \in Version
    BY <1>2, NullAssumption DEF Version
  <2>3. \A f \in {e} : basis'[f] # Null /\ basis'[f] \subseteq v \cup {e}
    BY <1>2, <2>2
  <2>4. Whole(basis', v \cup {e})
    BY <2>1, <2>2, <2>3, WholeWith
  <2> QED
    BY <1>1, <2>4
<1> QED
  BY <1>2, <1>4, <1>5, <1>6, <1>7 DEF WholeCopies, Local, Remote

LEMMA HeardWhole ==
    ASSUME SyncInv, WholeInv, NEW c \in Client, NEW k \in Replica, NEW m, Heard(c, k, m)
    PROVE  WholeCopies(k)
<1> DEFINE i == replica[c].items[m.id]
           j == k.items[m.id]
<1>1. /\ m.id \in Doc /\ Arriving(c) # <<>> /\ m = Head(Arriving(c)) /\ UNCHANGED basis
      /\ m.kind \in {"doc", "change", "change_error"}
      /\ \A b \in Doc : b # m.id => k.items[b] = replica[c].items[b]
      /\ Effect(i, j, m)
  BY DEF Heard
<1>2. replica[c] \in Replica
  BY DEF SyncInv, SyncTypeOK
<1>3. \A b \in Doc : /\ Whole(basis', replica[c].items[b].local)
                     /\ Whole(basis', replica[c].items[b].remote)
  BY <1>1 DEF WholeInv, Local, Remote
<1>4. Whole(basis', Null)
  BY DEF Whole
<1>5. ASSUME m.kind # "change_error"
      PROVE  m.data \in Data /\ Whole(basis', m.data)
  <2>1. Conn(c) \in Session /\ m \in Letters(Conn(c)) /\ Proper(m)
    BY <1>1, ArrivingProper DEF Letters
  <2> QED
    BY <1>1, <1>5, <2>1, ProperTypes DEF WholeInv
<1>6. ASSUME NEW v \in Data, v # Null, Whole(basis', v), m.kind # "change_error", m.data # Null
      PROVE  Whole(basis', v \cup m.data)
  BY <1>5, <1>6, WholeTogether DEF Data
<1>7. /\ i.local \in Data /\ Whole(basis', i.local)
      /\ i.remote \in Data /\ Whole(basis', i.remote)
  BY <1>1, <1>2, <1>3, ItemTypes
<1>8. \/ j.local \in {Null, i.local, i.remote}
      \/ /\ m.kind # "change_error"
         /\ j.local = m.data \/ (i.local # Null /\ m.data # Null /\ j.local = i.local \cup m.data)
  BY <1>1 DEF Effect
<1>9. \/ j.remote \in {Null, i.remote}
      \/ /\ m.kind # "change_error"
         /\ j.remote = m.data \/ (i.remote # Null /\ m.data # Null /\ j.remote = i.remote \cup m.data)
  BY <1>1 DEF Effect
<1> HIDE DEF i, j
<1>10. Whole(basis', j.local) /\ Whole(basis', j.remote)
  BY <1>4, <1>5, <1>6, <1>7, <1>8, <1>9
<1> QED
  BY <1>1, <1>3, <1>10 DEF WholeCopies, j

LEMMA MovesWhole ==
    ASSUME SyncInv, WholeInv, [SyncNext]_syncVars, NEW c \in Client, Moves(c)
    PROVE  WholeInv'
<1>1. PICK k \in Replica :
         /\ Blank(k) /\ Posted(c, k)
         /\ \/ Kept(c, k)
            \/ \E d \in Doc, e \in Edit : Wrote(c, k, d, e)
            \/ \E d \in Doc : Removed(c, k, d)
            \/ \E m : Heard(c, k, m)
  BY DEF Moves, Moved
<1>2. SyncTypeOK /\ Framed /\ UNCHANGED docs /\ TypeOK
  BY DEF Moves, Moved, Framed, SyncInv, SyncTypeOK
<1>3. BasisKept /\ WholeCopies(k)
  <2>1. ASSUME UNCHANGED basis PROVE BasisKept
    BY <2>1 DEF BasisKept
  <2>2. CASE Kept(c, k)
    BY <2>1, <2>2 DEF Kept, WholeCopies, WholeInv, Local, Remote
  <2>3. CASE \E d \in Doc, e \in Edit : Wrote(c, k, d, e)
    BY <2>3, WroteWhole
  <2>4. ASSUME NEW d \in Doc, Removed(c, k, d) PROVE BasisKept /\ WholeCopies(k)
    <3>1. Whole(basis', Null)
      BY DEF Whole
    <3> QED
      BY <2>1, <2>4, <3>1 DEF Removed, WholeCopies, WholeInv, Local, Remote
  <2>5. ASSUME NEW m, Heard(c, k, m) PROVE BasisKept /\ WholeCopies(k)
    BY <2>1, <2>5, HeardWhole DEF Heard
  <2> QED
    BY <1>1, <2>2, <2>3, <2>4, <2>5
<1>4. /\ \A b \in Client : b # c => replica'[b] = replica[b]
      /\ \A d \in Doc : /\ Local(c, d)' = k.items[d].local
                        /\ Remote(c, d)' = k.items[d].remote
  BY <1>1, <1>2, PostedTypes
<1>5. \A d \in Doc : Whole(basis', docs'[d].data)
  BY <1>2, <1>3, WholeStays DEF WholeInv, TypeOK
<1>6. ASSUME NEW b \in Client, NEW d \in Doc
      PROVE  Whole(basis', Local(b, d)') /\ Whole(basis', Remote(b, d)')
  <2>1. CASE b = c
    BY <1>3, <1>4, <2>1 DEF WholeCopies
  <2>2. CASE b # c
    <3>1. replica[b] \in Replica /\ Local(b, d)' = Local(b, d) /\ Remote(b, d)' = Remote(b, d)
      BY <1>2, <1>4, <2>2 DEF Local, Remote, SyncTypeOK
    <3>2. Local(b, d) \in Data /\ Remote(b, d) \in Data
      BY <3>1, ItemTypes DEF Local, Remote
    <3> QED
      BY <1>3, <3>1, <3>2, WholeStays DEF WholeInv
  <2> QED
    BY <2>1, <2>2
<1>7. ASSUME NEW s \in Session, NEW m \in Letters(s)', m.kind \in {"doc", "change"}
      PROVE  Whole(basis', m.data)
  <2>1. m \in Letters(s)
    BY <1>2, <1>7 DEF Framed, Letters
  <2>2. m \in ServerMessage
    BY <1>2, <2>1, ElementOfSeq, LenProperties DEF Letters, Range, TypeOK
  <2>3. m.data \in Data
    BY <1>7, <2>2 DEF ServerMessage
  <2> QED
    BY <1>3, <1>7, <2>1, <2>3, WholeStays DEF WholeInv
<1>8. ASSUME NEW s \in Session, NEW m \in Sent(s)' PROVE Sound(m)'
  <2>1. CASE m \in Sent(s)
    BY <1>2, <1>3, <2>1, SoundStays DEF WholeInv
  <2>2. CASE m.kind = "sync" \/ m \in Garbled
    BY <2>2 DEF Sound, Garbled
  <2>3. ASSUME NEW d \in Doc, Has(k, d), m = FlushMessage(d, k.items[d]) PROVE Sound(m)'
    <3> DEFINE l == k.items[d].local
               r == k.items[d].remote
    <3>1. m.kind = "change" =>
             /\ m.id = d
             /\ m.op = "+" => m.data = l
             /\ m.op # "+" => r # Null
             /\ m.op = "*" => l # Null /\ m.data = l \ r
      BY <2>3, FlushTypes
    <3>2. Whole(basis', l) /\ r = Remote(c, d)'
      BY <1>3, <1>4 DEF WholeCopies
    <3>3. r # Null /\ Live(d)' => r \subseteq docs'[d].data
      BY <3>2, KnownNext
    <3> HIDE DEF l, r
    <3>4. ASSUME m.kind = "change", m.op = "*", Live(d)', NEW e \in m.data
          PROVE  basis'[e] # Null /\ basis'[e] \subseteq docs'[d].data \cup m.data
      BY <3>1, <3>2, <3>3, <3>4 DEF Whole
    <3> QED
      BY <3>1, <3>2, <3>4 DEF Sound, Live
  <2> QED
    BY <1>1, <1>2, <2>1, <2>2, <2>3, PostedSent DEF Flushed
<1>9. ASSUME NEW d \in Doc, NEW e \in Edit, <<d, e>> \in drafts' PROVE Drafted(d, e)'
  BY <1>2, <1>3, <1>9, DraftStays DEF Framed, WholeInv
<1> QED
  BY <1>5, <1>6, <1>7, <1>8, <1>9 DEF WholeInv

\* What an accepted change leaves is whole.
LEMMA OutcomeWhole ==
    ASSUME SyncInv, WholeInv, NEW src \in Session \cup {Api}, NEW m \in ChangeRequest,
           Accepted(src, m), Asked(src, m)
    PROVE  Outcome(m) \in Data /\ Whole(basis, Outcome(m))
<1>1. /\ Outcome(m) \in Data /\ m.id \in Doc /\ TypeOK
      /\ m.kind = "change" /\ m.op \in Op
      /\ m.op = "-" <=> m.data = Null
      /\ m.op # "-" => m.data \in Version
      /\ m.op # "+" => Live(m.id) /\ Exists(m.id)
  BY RequestTypes, OutcomeTypes DEF Accepted, SyncInv, SyncTypeOK
<1>2. CASE m.op = "-"
  BY <1>1, <1>2 DEF Outcome, Whole
<1>3. CASE m.op = "+"
  <2>1. m \in Sent(src) /\ src \in Session
    BY <1>3 DEF Asked, Sent
  <2> QED
    BY <1>1, <1>3, <2>1 DEF WholeInv, Sound, Outcome
<1>4. CASE m.op = "*"
  <2>1. docs[m.id].data \in Version /\ Whole(basis, docs[m.id].data)
    BY <1>1, <1>4 DEF TypeOK, Data, Live, WholeInv
  <2>2. \A e \in m.data : basis[e] # Null /\ basis[e] \subseteq docs[m.id].data \cup m.data
    <3>1. CASE src \in Session /\ m = call[src]
      BY <1>1, <1>4, <3>1 DEF WholeInv, Sound, Sent
    <3>2. CASE \E e \in Edit : <<m.id, e>> \in drafts /\ m.data = {e}
      BY <1>1, <1>4, <3>2 DEF WholeInv, Drafted
    <3> QED
      BY <1>4, <3>1, <3>2 DEF Asked
  <2>3. Outcome(m) = docs[m.id].data \cup m.data
    BY <1>4 DEF Outcome, Merge
  <2> QED
    BY <1>1, <1>4, <2>1, <2>2, <2>3, WholeWith
<1> QED
  BY <1>1, <1>2, <1>3, <1>4 DEF Op

LEMMA ServesWhole ==
    ASSUME SyncInv, WholeInv, Serves
    PROVE  WholeInv'
<1>1. /\ SyncTypeOK /\ TypeOK /\ UNCHANGED <<replica, born>> /\ Noted
      /\ \A s \in Session : \A m \in Sent(s)' : m \in Sent(s) \/ m = NoCall
      /\ Tells \/ Accepts
  BY DEF SyncInv, SyncTypeOK, Serves
<1>2. BasisKept
  BY <1>1 DEF Noted, BasisKept, SyncTypeOK
<1>3. ASSUME NEW v \in Data, Whole(basis, v) PROVE Whole(basis', v)
  BY <1>2, <1>3, WholeStays
<1>4. \A d \in Doc : Whole(basis', docs'[d].data)
  <2>1. CASE Tells
    BY <1>1, <1>3, <2>1 DEF Tells, WholeInv, TypeOK
  <2>2. CASE Accepts
    <3>1. PICK src \in Session \cup {Api}, n \in ChangeRequest :
             Accepted(src, n) /\ Asked(src, n) /\ UNCHANGED wire
      BY <2>2 DEF Accepts
    <3>2. Whole(basis', Outcome(n))
      BY <1>3, <3>1, OutcomeWhole
    <3>3. /\ docs'[n.id] = [rev |-> colrev + 1, data |-> Outcome(n)]
          /\ \A d \in Doc \ {n.id} : docs'[d] = docs[d]
      BY <1>1, <3>1, AcceptedRow
    <3>4. \A d \in Doc : Whole(basis', docs[d].data)
      BY <1>1, <1>3 DEF WholeInv, TypeOK
    <3>5. docs'[n.id].data = Outcome(n)
      BY <3>3
    <3> QED
      BY <3>2, <3>3, <3>4, <3>5
  <2> QED
    BY <1>1, <2>1, <2>2
<1>5. ASSUME NEW c \in Client, NEW d \in Doc
      PROVE  Whole(basis', Local(c, d)') /\ Whole(basis', Remote(c, d)')
  <2>1. replica[c] \in Replica /\ Local(c, d)' = Local(c, d) /\ Remote(c, d)' = Remote(c, d)
    BY <1>1 DEF Local, Remote, SyncTypeOK
  <2>2. Local(c, d) \in Data /\ Remote(c, d) \in Data
    BY <2>1, ItemTypes DEF Local, Remote
  <2> QED
    BY <1>3, <2>1, <2>2 DEF WholeInv
<1>6. ASSUME NEW s \in Session, NEW m \in Letters(s)', m.kind \in {"doc", "change"}
      PROVE  Whole(basis', m.data)
  <2>1. CASE m \in Letters(s)
    <3>1. m \in ServerMessage
      BY <1>1, <2>1, ElementOfSeq, LenProperties DEF Letters, Range, TypeOK
    <3>2. m.data \in Data
      BY <1>6, <3>1 DEF ServerMessage
    <3> QED
      BY <1>3, <1>6, <2>1, <3>2 DEF WholeInv
  <2>2. CASE IsAnswer(m)
    <3>1. m.id \in Doc /\ m.data = docs[m.id].data
      BY <1>6, <2>2 DEF IsAnswer
    <3> QED
      BY <1>1, <1>3, <3>1 DEF WholeInv, TypeOK
  <2>3. ASSUME Accepts, m \notin Letters(s) PROVE Whole(basis', m.data)
    <3>1. PICK src \in Session \cup {Api}, n \in ChangeRequest :
             Accepted(src, n) /\ Asked(src, n) /\ UNCHANGED wire
      BY <2>3 DEF Accepts
    <3>2. m = ServerChange(n.op, n.id, Outcome(n), colrev + 1)
      BY <1>1, <1>6, <2>3, <3>1, AcceptedLetters
    <3>3. m.data = Outcome(n)
      BY <3>2 DEF ServerChange
    <3> QED
      BY <1>3, <3>1, <3>3, OutcomeWhole
  <2> QED
    BY <1>1, <1>6, <2>1, <2>2, <2>3 DEF Tells
<1>7. ASSUME NEW s \in Session, NEW m \in Sent(s)' PROVE Sound(m)'
  <2>1. CASE m = NoCall
    BY <2>1 DEF NoCall, Sound
  <2>2. CASE m \in Sent(s)
    BY <1>1, <1>2, <2>2, SoundStays DEF WholeInv
  <2> QED
    BY <1>1, <2>1, <2>2
<1>8. ASSUME NEW d \in Doc, NEW e \in Edit, <<d, e>> \in drafts' PROVE Drafted(d, e)'
  <2>1. CASE <<d, e>> \in drafts
    BY <1>1, <1>2, <2>1, DraftStays DEF WholeInv
  <2>2. ASSUME Live(d), basis' = [basis EXCEPT ![e] = docs[d].data], UNCHANGED colVars
        PROVE  Drafted(d, e)'
    <3>1. RowsOrdered
      BY KnownFeed DEF SyncInv, FeedInv
    <3>2. Exists(d)
      BY <1>1, <2>2, <3>1 DEF RowsOrdered, NoRow, Live, Exists, TypeOK
    <3>3. basis'[e] = docs[d].data /\ docs' = docs
      BY <1>1, <2>2 DEF SyncTypeOK, colVars, storage
    <3> QED
      BY <2>2, <3>2, <3>3 DEF Drafted, Exists, Live
  <2> QED
    BY <1>1, <1>8, <2>1, <2>2 DEF Noted
<1> QED
  BY <1>4, <1>5, <1>6, <1>7, <1>8 DEF WholeInv

LEMMA WholeInit == SyncInit => WholeInv
<1> SUFFICES ASSUME SyncInit PROVE WholeInv
  OBVIOUS
<1>1. \A s \in Session : Sent(s) = {NoCall} /\ Letters(s) = {}
  BY DEF SyncInit, Init, Sent, Letters, Range
<1>2. Sound(NoCall)
  BY DEF Sound, NoCall
<1> QED
  BY <1>1, <1>2 DEF SyncInit, Init, NoRow, NewReplica, Absent, WholeInv, Whole, Local, Remote

LEMMA WholeStep == SyncInv /\ WholeInv /\ [SyncNext]_syncVars => WholeInv'
<1> SUFFICES ASSUME SyncInv, WholeInv, [SyncNext]_syncVars PROVE WholeInv'
  OBVIOUS
<1>1. CASE SyncNext
  BY <1>1, SyncMoves, MovesWhole, ServesWhole
<1>2. CASE UNCHANGED syncVars
  <2>1. /\ UNCHANGED <<docs, call, mailbox, wire, replica, toServer, born, basis, drafts>>
    BY <1>2 DEF syncVars, colVars, storage, channels, userVars
  <2> QED
    BY <2>1 DEF WholeInv, Whole, Local, Remote, Letters, Sent, Sound, Drafted, Live, Exists
<1> QED
  BY <1>1, <1>2

\* Wherever an edit is, on the server or at any client, so are the edits it was made
\* on top of: an update that flush exports from `remote` is never pending in the
\* document it reaches, however messages cross and connections are lost
\* (flush and handleUpdateMessage of packages/client/src/collection.ts).
THEOREM CausallyClosedAlways == SyncSpec => []CausallyClosed
<1>1. WholeInv => CausallyClosed
  BY DEF WholeInv, Whole, CausallyClosed
<1>2. SyncInv /\ WholeInv /\ [SyncNext]_syncVars => WholeInv'
  BY WholeStep
<1> QED
  BY <1>1, <1>2, WholeInit, SyncInvAlways, PTL DEF SyncSpec

\* Nobody is told that a document does not exist: `remote` is never reset, and no
\* document is created a second time, on such an answer (handleChangeErrorMessage
\* and handleGetErrorMessage of packages/client/src/collection.ts).
THEOREM NeverNotFound == SyncSpec => [](\A s \in Session : \A m \in Letters(s) : Found(m))
<1>1. SyncInv => \A s \in Session : \A m \in Letters(s) : Found(m)
  BY DEF SyncInv
<1> QED
  BY <1>1, SyncInvAlways, PTL

\* What is proved of the clients of module Feed, for users who edit: a client that
\* will ask for what changed after `colrev` has every live document last changed at
\* or before it, as the server has it (handleSyncCompleteMessage of
\* packages/client/src/collection.ts).
THEOREM EditorsResumeSafe ==
    ASSUME SubscribeFirst
    PROVE  SyncSpec => [](\A c \in Client, d \in Doc :
              Live(d) /\ docs[d].rev <= replica[c].colrev => Remote(c, d) = docs[d].data)
<1>1. FP!FeedSpec => []FP!ResumeSafe
  BY FP!ResumeAlwaysSafe, NullAssumption, CollectionAssumption, SyncAssumption, SMTT(60)
     DEF FP!ResumeAlwaysSafe, FP!IsFiniteSet, IsFiniteSet
<1>2. F!FeedSpec => FP!FeedSpec
  BY FeedStepSame, FeedStartSame, PTL DEF F!FeedSpec, FP!FeedSpec
<1>3. FP!ResumeSafe => \A c \in Client, d \in Doc :
         Live(d) /\ docs[d].rev <= replica[c].colrev => Remote(c, d) = docs[d].data
  BY DEF FP!ResumeSafe, FP!Live, Live
<1> QED
  BY <1>1, <1>2, <1>3, FollowsFeed, PTL DEF Follows

-----------------------------------------------------------------------------
(* What a user deletes stays deleted *)

\* The server has nothing of document d, and is asked nothing about it.
Unknown(d) ==
    /\ ~Exists(d)
    /\ \A s \in Session : \A m \in Sent(s) : ~(m.kind = "change" /\ m.id = d)

\* Document d is of client c, which has not sent it.
Young(c, d) ==
    Has(replica[c], d) /\ Remote(c, d) = Null /\ replica[c].items[d].state # "sent"

\* Such a document is nowhere else.
YoungAlone ==
    \A c \in Client, d \in Doc : Young(c, d) =>
        Unknown(d) /\ \A b \in Client : Has(replica[b], d) => b = c

\* Document d was made, and is nowhere.
Nowhere(d) == d \in born /\ Unknown(d) /\ \A b \in Client : ~Has(replica[b], d)

\* Client c has deleted document d, and nothing that comes can bring it back: it
\* has yet to hear of the deletion, has heard, or dropped it before it was sent.
Forgotten(c, d) ==
    /\ d \in born /\ Local(c, d) = Null
    /\ Remote(c, d) # Null \/ FP!Dropped(c, d) \/ Nowhere(d)

DeletedInv ==
    /\ gone \in [Client -> SUBSET Doc]
    /\ FP!Earlys
    /\ ~hasty => YoungAlone /\ \A c \in Client : \A d \in gone[c] : Forgotten(c, d)

LEMMA EarlysStart == SyncInit => FP!Earlys
<1>1. FP!FeedInit => FP!Earlys
  BY FP!EarlysInit, NullAssumption, CollectionAssumption, SyncAssumption, SMTT(60)
     DEF FP!EarlysInit, FP!IsFiniteSet, IsFiniteSet
<1>2. SyncInit => F!FeedInit
  BY DEF SyncInit, F!FeedInit, F!Init, Init, F!NoCall, NoCall, F!NoRow, NoRow, NewReplica,
         Absent, Remote
<1> QED
  BY <1>1, <1>2, FeedStartSame

\* What module Feed says of a step, for the clients of module Sync.
LEMMA DroppedKept ==
    ASSUME SyncInv, FP!Earlys, [SyncNext]_syncVars
    PROVE  /\ FP!Earlys'
           /\ \A c \in Client, d \in Doc :
                 /\ FP!Dropped(c, d) => FP!Dropped(c, d)'
                 /\ Remote(c, d) # Null => Remote(c, d)' # Null \/ FP!Dropped(c, d)'
<1>1. FP!KnownInv /\ [FP!FeedNext]_FP!feedVars
  BY FollowsStep, FeedStepSame DEF SyncInv
<1>2. FP!Earlys'
  <2>1. FP!KnownInv /\ FP!Earlys /\ [FP!FeedNext]_FP!feedVars => FP!Earlys'
    BY FP!EarlysStep, NullAssumption, CollectionAssumption, SyncAssumption, SMTT(60)
       DEF FP!EarlysStep, FP!IsFiniteSet, IsFiniteSet
  <2> QED
    BY <1>1, <2>1
<1>3. \A c \in Client, d \in Doc : FP!Dropped(c, d) \/ FP!Drops(c, d) => FP!Dropped(c, d)'
  <2>1. FP!KnownInv /\ FP!Earlys /\ [FP!FeedNext]_FP!feedVars =>
           \A c \in Client, d \in Doc : FP!Dropped(c, d) \/ FP!Drops(c, d) => FP!Dropped(c, d)'
    BY FP!DroppedStays, NullAssumption, CollectionAssumption, SyncAssumption, SMTT(60)
       DEF FP!DroppedStays, FP!IsFiniteSet, IsFiniteSet
  <2> QED
    BY <1>1, <2>1
<1>4. \A c \in Client, d \in Doc : Remote(c, d) # Null /\ Remote(c, d)' = Null => FP!Drops(c, d)
  BY DEF FP!Drops
<1> QED
  BY <1>2, <1>3, <1>4

\* Nobody is told of a document that the server does not have.
LEMMA NoLetter ==
    ASSUME SyncInv, NEW d \in Doc, ~Exists(d), NEW s \in Session, NEW m \in Letters(s),
           m.kind \in {"doc", "change"}
    PROVE  m.id # d
BY LetterTrue

\* What client c becomes in its step.
Turns(c, k) ==
    \/ Kept(c, k)
    \/ \E d \in Doc, e \in Edit : Wrote(c, k, d, e)
    \/ \E d \in Doc : Removed(c, k, d)
    \/ \E m : Heard(c, k, m)

LEMMA UnknownMoved ==
    ASSUME SyncInv, NEW c \in Client, NEW k \in Replica, Moved(c, k), NEW d \in Doc,
           Unknown(d), ~Has(k, d) \/ replica'[c].items[d].state # "sent"
    PROVE  Unknown(d)'
<1>1. SyncTypeOK /\ Framed /\ Posted(c, k) /\ ~Exists(d)'
  BY DEF SyncInv, Moved, Framed, Unknown, Exists
<1>2. ASSUME NEW s \in Session, NEW m \in Sent(s)', m.kind = "change", m.id = d PROVE FALSE
  <2>1. ASSUME NEW e \in Doc, Has(k, e), replica'[c].items[e].state = "sent",
               m = FlushMessage(e, k.items[e])
        PROVE  FALSE
    <3>1. m.id = e
      BY <1>2, <2>1, FlushTypes
    <3> QED
      BY <1>2, <2>1, <3>1
  <2>2. m \notin Sent(s) /\ m \notin Garbled
    BY <1>2 DEF Unknown, Garbled
  <2> QED
    BY <1>1, <1>2, <2>1, <2>2, PostedSent DEF Flushed
<1> QED
  BY <1>1, <1>2 DEF Unknown

LEMMA NotGained ==
    ASSUME SyncInv, NEW c \in Client, NEW k \in Replica, Turns(c, k), NEW d \in Doc,
           d \in born, ~Exists(d), ~Has(replica[c], d)
    PROVE  ~Has(k, d)
<1>1. CASE Kept(c, k)
  BY <1>1 DEF Kept, Has
<1>2. ASSUME NEW a \in Doc, NEW e \in Edit, Wrote(c, k, a, e) PROVE ~Has(k, d)
  <2>1. Local(c, d) = Null
    BY DEF SyncInv, Blank, Local, Absent
  <2>2. d # a
    BY <1>2, <2>1, NullAssumption DEF Wrote, Version
  <2> QED
    BY <1>2, <2>2 DEF Wrote, Has
<1>3. ASSUME NEW a \in Doc, Removed(c, k, a) PROVE ~Has(k, d)
  BY <1>3 DEF Removed, Has
<1>4. ASSUME NEW m, Heard(c, k, m) PROVE ~Has(k, d)
  <2>1. CASE m.id # d
    BY <1>4, <2>1 DEF Heard, Has
  <2>2. CASE m.id = d
    <3>1. Conn(c) \in Session /\ m \in Letters(Conn(c))
      BY <1>4, ArrivingProper DEF Heard, Letters
    <3>2. m.kind = "change_error"
      BY <1>4, <2>2, <3>1, NoLetter DEF Heard
    <3> QED
      BY <1>4, <2>2, <3>2 DEF Heard, Effect, Has
  <2> QED
    BY <2>1, <2>2
<1> QED
  BY <1>1, <1>2, <1>3, <1>4 DEF Turns

\* A client's step, by what it becomes.
LEMMA MovedFacts ==
    ASSUME SyncInv, NEW c \in Client, NEW k \in Replica, Moved(c, k), Turns(c, k)
    PROVE  /\ born \subseteq born'
           /\ \A b \in Client : b # c => replica'[b] = replica[b]
           /\ \A d \in Doc : /\ Local(c, d)' = k.items[d].local
                             /\ Remote(c, d)' = k.items[d].remote
                             /\ Has(replica'[c], d) <=> Has(k, d)
                             /\ replica'[c].items[d].state \in {k.items[d].state, "sent"}
<1>1. SyncTypeOK /\ Blank(k) /\ Posted(c, k)
  BY DEF SyncInv, Moved
<1>2. PICK l : Alike(k, l) /\ replica' = [replica EXCEPT ![c] = l]
  BY <1>1 DEF Posted
<1>3. replica'[c] = l
  BY <1>1, <1>2 DEF SyncTypeOK
<1>4. \A d \in Doc : replica'[c].items[d].state \in {k.items[d].state, "sent"}
  BY <1>2, <1>3 DEF Alike
<1>5. born \subseteq born'
  BY MovesBorn DEF Turns
<1> QED
  BY <1>1, <1>4, <1>5, PostedTypes

LEMMA NowhereMoved ==
    ASSUME SyncInv, NEW c \in Client, NEW k \in Replica, Moved(c, k), Turns(c, k),
           NEW d \in Doc, Nowhere(d)
    PROVE  Nowhere(d)'
<1>1. ~Has(k, d)
  BY NotGained DEF Nowhere, Unknown
<1>2. Unknown(d)'
  BY <1>1, UnknownMoved DEF Nowhere
<1>3. d \in born' /\ \A b \in Client : ~Has(replica'[b], d)
  BY <1>1, MovedFacts DEF Nowhere
<1> QED
  BY <1>2, <1>3 DEF Nowhere, Has
\* A document that client c has in k and never sent, it had before, or makes.
YoungBefore(c, k) ==
    \A d \in Doc :
        Has(k, d) /\ k.items[d].remote = Null /\ k.items[d].state # "sent" =>
            Young(c, d) \/ d \notin born

LEMMA TurnsYoung ==
    ASSUME SyncInv, NEW c \in Client, NEW k \in Replica,
           \/ Kept(c, k)
           \/ \E d \in Doc, e \in Edit : Wrote(c, k, d, e) /\ ~BeingCreated(c, d)
           \/ \E d \in Doc : Removed(c, k, d)
           \/ \E m : Heard(c, k, m)
    PROVE  YoungBefore(c, k)
<1> SUFFICES ASSUME NEW d \in Doc, Has(k, d), k.items[d].remote = Null,
                    k.items[d].state # "sent", d \in born
             PROVE  Young(c, d)
  BY DEF YoungBefore
<1>1. ASSUME k.items[d] = replica[c].items[d] PROVE Young(c, d)
  BY <1>1 DEF Young, Has, Remote
<1>2. CASE Kept(c, k)
  BY <1>1, <1>2 DEF Kept
<1>3. ASSUME NEW a \in Doc, NEW e \in Edit, Wrote(c, k, a, e), ~BeingCreated(c, a)
      PROVE  Young(c, d)
  <2>1. CASE d # a
    BY <1>1, <1>3, <2>1 DEF Wrote
  <2>2. CASE d = a
    <3>1. Local(c, d) # Null /\ Remote(c, d) = Null
      BY <1>3, <2>2, NullAssumption DEF Wrote, Version
    <3>2. Has(replica[c], d)
      BY <3>1 DEF SyncInv, Blank, Local, Absent
    <3> QED
      BY <1>3, <2>2, <3>1, <3>2 DEF BeingCreated, Young
  <2> QED
    BY <2>1, <2>2
<1>4. ASSUME NEW a \in Doc, Removed(c, k, a) PROVE Young(c, d)
  BY <1>1, <1>4 DEF Removed, Has, Absent
<1>5. ASSUME NEW m, Heard(c, k, m) PROVE Young(c, d)
  BY <1>1, <1>5 DEF Heard, Effect, Has
<1> QED
  BY <1>2, <1>3, <1>4, <1>5

LEMMA YoungMoved ==
    ASSUME SyncInv, YoungAlone, NEW c \in Client, NEW k \in Replica, Moved(c, k),
           Turns(c, k), YoungBefore(c, k)
    PROVE  YoungAlone'
<1> SUFFICES ASSUME NEW b \in Client, NEW d \in Doc, Young(b, d)'
             PROVE  /\ Unknown(d)'
                    /\ \A a \in Client : Has(replica'[a], d) => a = b
  BY DEF YoungAlone, Has
<1>1. /\ \A a \in Client : a # c => replica'[a] = replica[a]
      /\ Remote(c, d)' = k.items[d].remote
      /\ Has(replica'[c], d) <=> Has(k, d)
      /\ replica'[c].items[d].state \in {k.items[d].state, "sent"}
  BY MovedFacts
<1>2. \A a \in Client : Has(replica[a], d) => d \in born
  BY DEF SyncInv, Born
<1>3. CASE b = c
  <2>1. Has(k, d) /\ k.items[d].remote = Null /\ k.items[d].state # "sent"
        /\ replica'[c].items[d].state # "sent"
    BY <1>1, <1>3 DEF Young, Has
  <2>2. Young(c, d) \/ d \notin born
    BY <2>1 DEF YoungBefore
  <2>3. Unknown(d) /\ \A a \in Client : Has(replica[a], d) => a = c
    <3>1. CASE Young(c, d)
      BY <3>1 DEF YoungAlone
    <3>2. CASE d \notin born
      <4>1. ~Exists(d) /\ \A s \in Session : \A m \in Sent(s) : Pinned(m)
        BY <3>2 DEF SyncInv, Born
      <4> QED
        BY <1>2, <3>2, <4>1 DEF Unknown, Pinned
    <3> QED
      BY <2>2, <3>1, <3>2
  <2>4. Unknown(d)'
    BY <2>1, <2>3, UnknownMoved
  <2> QED
    BY <1>1, <1>3, <2>3, <2>4
<1>4. CASE b # c
  <2>1. Young(b, d)
    BY <1>1, <1>4 DEF Young, Has, Remote
  <2>2. /\ Unknown(d) /\ d \in born /\ ~Has(replica[c], d)
        /\ \A a \in Client : Has(replica[a], d) => a = b
    BY <1>2, <1>4, <2>1 DEF YoungAlone, Young
  <2>3. ~Has(k, d)
    BY <2>2, NotGained DEF Unknown
  <2>4. Unknown(d)'
    BY <2>2, <2>3, UnknownMoved
  <2> QED
    BY <1>1, <1>4, <2>2, <2>3, <2>4
<1> QED
  BY <1>3, <1>4

\* Nothing but a refusal gives a client back what it deleted.
LEMMA LocalForgotten ==
    ASSUME SyncInv, NEW c \in Client, NEW k \in Replica, NEW d \in Doc, Forgotten(c, d),
           \/ Kept(c, k)
           \/ \E a \in Doc, e \in Edit : Wrote(c, k, a, e)
           \/ \E a \in Doc : Removed(c, k, a)
           \/ (\E m : Heard(c, k, m)) /\ ~Refused(c, d)
    PROVE  k.items[d].local = Null
<1>1. ASSUME k.items[d] = replica[c].items[d] PROVE k.items[d].local = Null
  BY <1>1 DEF Forgotten, Local
<1>2. CASE Kept(c, k)
  BY <1>1, <1>2 DEF Kept
<1>3. ASSUME NEW a \in Doc, NEW e \in Edit, Wrote(c, k, a, e) PROVE k.items[d].local = Null
  <2>1. d # a
    BY <1>3, NullAssumption DEF Wrote, Version, Forgotten
  <2> QED
    BY <1>1, <1>3, <2>1 DEF Wrote
<1>4. ASSUME NEW a \in Doc, Removed(c, k, a) PROVE k.items[d].local = Null
  BY <1>1, <1>4 DEF Removed
<1>5. ASSUME NEW m, Heard(c, k, m), ~Refused(c, d), k.items[d].local # Null PROVE FALSE
  <2>1. m.id = d
    BY <1>1, <1>5 DEF Heard
  <2>2. /\ Arriving(c) # <<>> /\ m = Head(Arriving(c))
        /\ m.kind \in {"doc", "change", "change_error"}
        /\ \/ m.kind = "change_error" /\ m.code = "forbidden"
           \/ replica[c].items[d].state = "absent" /\ Brings(m)
    BY <1>5, <2>1 DEF Heard, Effect, Forgotten, Local
  <2>3. /\ link[c] # NoSlot /\ Conn(c) \in Session /\ m \in Range(wire[Conn(c)])
        /\ m \in ServerMessage
    BY <2>2, ArrivingProper
  <2>4. CASE m.kind = "change_error" /\ m.code = "forbidden"
    BY <1>5, <2>1, <2>2, <2>3, <2>4, RefusalIs DEF Refused
  <2>5. CASE replica[c].items[d].state = "absent" /\ Brings(m)
    <3>1. Remote(c, d) = Null
      BY <2>5 DEF SyncInv, Blank, Has, Absent, Remote
    <3>2. CASE FP!Dropped(c, d)
      <4>1. m \in FP!Pending(Conn(c))
        BY <2>3, <2>5 DEF FP!Pending, FP!Range, Range, FP!Refusals, Brings
      <4>2. link[c] \in Slot /\ m \in FP!Pending(<<c, link[c]>>)
        BY <2>3, <4>1 DEF Conn, SyncInv, SyncTypeOK
      <4>3. FP!Gives(m, d)
        BY <2>1, <2>5 DEF Brings, FP!Gives, FP!Says
      <4> QED
        BY <3>2, <4>2, <4>3 DEF FP!Dropped
    <3>3. CASE Nowhere(d)
      BY <2>1, <2>3, <2>5, <3>3, NoLetter DEF Nowhere, Unknown, Letters, Brings
    <3> QED
      BY <3>1, <3>2, <3>3 DEF Forgotten
  <2> QED
    BY <2>2, <2>4, <2>5
<1> QED
  BY <1>2, <1>3, <1>4, <1>5

LEMMA ForgottenMoved ==
    ASSUME SyncInv, FP!Earlys, [SyncNext]_syncVars, NEW c \in Client, NEW k \in Replica,
           Moved(c, k), Turns(c, k), NEW b \in Client, NEW d \in Doc, Forgotten(b, d),
           b = c => k.items[d].local = Null
    PROVE  Forgotten(b, d)'
<1>1. Local(b, d)' = Null /\ d \in born'
  BY MovedFacts DEF Forgotten, Local
<1>2. Remote(b, d) # Null \/ FP!Dropped(b, d) => Remote(b, d)' # Null \/ FP!Dropped(b, d)'
  BY DroppedKept
<1>3. Nowhere(d) => Nowhere(d)'
  BY NowhereMoved
<1> QED
  BY <1>1, <1>2, <1>3 DEF Forgotten

-----------------------------------------------------------------------------

LEMMA UnknownServed ==
    ASSUME SyncInv, Serves, NEW d \in Doc, Unknown(d)
    PROVE  Unknown(d)'
<1>1. ~Exists(d)'
  BY AskedFor DEF Unknown
<1>2. \A s \in Session : \A m \in Sent(s)' : m \in Sent(s) \/ m.kind # "change"
  BY DEF Serves, NoCall
<1> QED
  BY <1>1, <1>2 DEF Unknown

LEMMA ServedDeleted ==
    ASSUME SyncInv, DeletedInv, [SyncNext]_syncVars, Serves, UNCHANGED <<hasty, gone>>
    PROVE  DeletedInv'
<1>1. UNCHANGED <<replica, born>>
  BY DEF Serves
<1>2. FP!Earlys'
  BY DroppedKept DEF DeletedInv
<1> SUFFICES ASSUME ~hasty
             PROVE  YoungAlone' /\ \A c \in Client : \A d \in gone[c] : Forgotten(c, d)'
  BY <1>2 DEF DeletedInv, Forgotten
<1>3. YoungAlone'
  BY <1>1, UnknownServed DEF DeletedInv, YoungAlone, Young, Remote, Has
<1>4. ASSUME NEW c \in Client, NEW d \in gone[c] PROVE Forgotten(c, d)'
  <2>1. d \in Doc /\ Forgotten(c, d)
    BY DEF DeletedInv
  <2>2. Local(c, d)' = Null /\ d \in born'
    BY <1>1, <2>1 DEF Forgotten, Local
  <2>3. Nowhere(d) => Nowhere(d)'
    BY <1>1, <2>1, UnknownServed DEF Nowhere, Has
  <2>4. Remote(c, d) # Null \/ FP!Dropped(c, d) => Remote(c, d)' # Null \/ FP!Dropped(c, d)'
    BY <2>1, DroppedKept DEF DeletedInv
  <2> QED
    BY <2>1, <2>2, <2>3, <2>4 DEF Forgotten
<1> QED
  BY <1>3, <1>4
\* Whatever client c becomes, if it is not hasty, its users' deletions stand.
LEMMA MovedDeleted ==
    ASSUME SyncInv, DeletedInv, [SyncNext]_syncVars, NEW c \in Client, NEW k \in Replica,
           Moved(c, k), Turns(c, k),
           gone' \in [Client -> SUBSET Doc], ~hasty' => ~hasty,
           ~hasty' => /\ YoungBefore(c, k)
                      /\ \A b \in Client : \A d \in gone'[b] :
                            \/ d \in gone[b] /\ (b = c => k.items[d].local = Null)
                            \/ Forgotten(b, d)'
    PROVE  DeletedInv'
<1>1. FP!Earlys'
  BY DroppedKept DEF DeletedInv
<1> SUFFICES ASSUME ~hasty'
             PROVE  YoungAlone' /\ \A b \in Client : \A d \in gone'[b] : Forgotten(b, d)'
  BY <1>1 DEF DeletedInv, Forgotten
<1>2. YoungAlone'
  BY YoungMoved DEF DeletedInv
<1>3. ASSUME NEW b \in Client, NEW d \in gone'[b], d \in gone[b],
             b = c => k.items[d].local = Null
      PROVE  Forgotten(b, d)'
  <2>1. d \in Doc /\ Forgotten(b, d)
    BY <1>3 DEF DeletedInv
  <2> QED
    BY <1>3, <2>1, ForgottenMoved DEF DeletedInv
<1> QED
  BY <1>2, <1>3

\* A step of a server, or of the application, leaves the users alone.
ServerSide ==
    (\E s \in Session : SessionStep(s)) \/ (\E d \in Doc : ApiStep(d))

\* A client's step that no user makes, and in which no document is heard of.
LinkSide(c) ==
    \/ OnClose(c) \/ Open(c) \/ FlushTimer(c) \/ Lose(c)
    \/ OnSyncComplete(c) \/ OnSyncError(c)

\* A step, by what it does to `hasty` and `gone`.
StepSides ==
    \/ UNCHANGED MCVars
    \/ UNCHANGED <<hasty, gone>> /\ (ServerSide \/ \E c \in Client : LinkSide(c))
    \/ \E c \in Client :
          /\ OnMessage(c) /\ UNCHANGED hasty
          /\ gone' = [gone EXCEPT ![c] = {d \in @ : ~Refused(c, d)}]
    \/ \E c \in Client, d \in Doc :
          \/ \E e \in Edit : UserCreate(c, d, e) /\ UNCHANGED <<hasty, gone>>
          \/ /\ hasty' = (hasty \/ BeingCreated(c, d))
             /\ \/ \E e \in Edit : UserChange(c, d, e) /\ UNCHANGED gone
                \/ UserDelete(c, d) /\ gone' = [gone EXCEPT ![c] = @ \cup {d}]

LEMMA StepHasSide == [MCNext]_MCVars => StepSides
<1> SUFFICES ASSUME MCNext PROVE StepSides
  BY DEF StepSides
<1>1. \A s \in Session : Healthy(s) => SessionStep(s)
  BY DEF Healthy, SessionStep
<1>2. \A s \in Session : Fail(s) /\ UNCHANGED <<link, replica, toServer, userVars>> => SessionStep(s)
  BY DEF SessionStep
<1>3. ASSUME NEW d \in ApiDocs, (\E e \in Edit : ApiRead(d, e) \/ ApiUpdate(d, e)) \/ ApiDelete(d)
      PROVE  ServerSide
  BY <1>3, ApiAssumption DEF ApiStep, ServerSide
<1>4. ASSUME NEW d \in Lockable, ApiLock(d) PROVE ServerSide
  BY <1>4, ApiAssumption DEF ApiStep, ServerSide
<1>5. CASE \E c \in Client :
              /\ OnMessage(c)
              /\ gone' = [gone EXCEPT ![c] = {d \in @ : ~Refused(c, d)}]
              /\ UNCHANGED <<trouble, hasty>>
  BY <1>5 DEF StepSides
<1>6. CASE /\ \/ \E c \in Client : \/ OnClose(c) \/ Open(c) \/ FlushTimer(c)
                                    \/ OnSyncComplete(c) \/ OnSyncError(c)
              \/ \E c \in Client, d \in Doc, e \in Edit : UserCreate(c, d, e)
              \/ \E s \in Session : Healthy(s)
              \/ \E d \in ApiDocs : \/ \E e \in Edit : ApiRead(d, e) \/ ApiUpdate(d, e)
                                    \/ ApiDelete(d)
              \/ \E d \in Lockable \ locked : ApiLock(d)
           /\ UNCHANGED <<trouble, hasty, gone>>
  <2>1. \/ ServerSide \/ \E c \in Client : LinkSide(c)
        \/ \E c \in Client, d \in Doc, e \in Edit : UserCreate(c, d, e)
    BY <1>1, <1>3, <1>4, <1>6 DEF ServerSide, LinkSide
  <2>2. UNCHANGED <<hasty, gone>>
    BY <1>6
  <2> QED
    BY <2>1, <2>2 DEF StepSides
<1>7. CASE \E c \in Client, d \in Doc :
              /\ \/ /\ \E e \in Edit : UserChange(c, d, e)
                    /\ UNCHANGED gone
                 \/ /\ CanEdit(replica[c], d) /\ UserDelete(c, d)
                    /\ gone' = [gone EXCEPT ![c] = @ \cup {d}]
              /\ hasty' = (hasty \/ BeingCreated(c, d))
              /\ UNCHANGED trouble
  BY <1>7 DEF StepSides
<1>8. CASE /\ \/ \E c \in Client : Lose(c)
              \/ \E s \in Session : /\ Fail(s)
                                     /\ UNCHANGED <<link, replica, toServer, userVars>>
           /\ UNCHANGED <<hasty, gone>>
  <2>1. ServerSide \/ \E c \in Client : LinkSide(c)
    BY <1>2, <1>8 DEF ServerSide, LinkSide
  <2> QED
    BY <1>8, <2>1 DEF StepSides
<1> QED
  BY <1>5, <1>6, <1>7, <1>8 DEF MCNext

LEMMA StepIsSync == [MCNext]_MCVars => [SyncNext]_syncVars
<1>1. UNCHANGED MCVars => UNCHANGED syncVars
  BY DEF MCVars
<1>2. ServerSide \/ (\E c \in Client : LinkSide(c) \/ OnMessage(c)) => SyncNext
  BY DEF ServerSide, LinkSide, SyncNext, ClientStep
<1>3. (\E c \in Client, d \in Doc, e \in Edit : UserCreate(c, d, e) \/ UserChange(c, d, e))
         \/ (\E c \in Client, d \in Doc : UserDelete(c, d)) => SyncNext
  BY DEF SyncNext, UserStep
<1> QED
  BY <1>1, <1>2, <1>3, StepHasSide DEF StepSides

LEMMA HeardDeleted ==
    ASSUME SyncInv, DeletedInv, [SyncNext]_syncVars, NEW c \in Client, OnMessage(c),
           gone' = [gone EXCEPT ![c] = {d \in @ : ~Refused(c, d)}], UNCHANGED hasty
    PROVE  DeletedInv'
<1>1. PICK k \in Replica : Moved(c, k) /\ Heard(c, k, Head(Arriving(c)))
  BY MessageMoves
<1>2. Turns(c, k)
  BY <1>1 DEF Turns
<1>3. gone \in [Client -> SUBSET Doc]
  BY DEF DeletedInv
<1>4. /\ gone'[c] = {d \in gone[c] : ~Refused(c, d)}
      /\ \A b \in Client : b # c => gone'[b] = gone[b]
      /\ gone' \in [Client -> SUBSET Doc]
  BY <1>3
<1>5. YoungBefore(c, k)
  BY <1>1, TurnsYoung
<1>6. ASSUME NEW d \in gone'[c], ~hasty PROVE k.items[d].local = Null
  <2>1. d \in Doc /\ Forgotten(c, d) /\ ~Refused(c, d)
    BY <1>3, <1>4, <1>6 DEF DeletedInv
  <2> QED
    BY <1>1, <2>1, LocalForgotten
<1>7. \A b \in Client : \A d \in gone'[b] :
         ~hasty => d \in gone[b] /\ (b = c => k.items[d].local = Null)
  BY <1>4, <1>6
<1> QED
  BY <1>1, <1>2, <1>4, <1>5, <1>7, MovedDeleted

\* A step in which client c hears nothing.
LEMMA QuietDeleted ==
    ASSUME SyncInv, DeletedInv, [SyncNext]_syncVars, NEW c \in Client, NEW k \in Replica,
           Moved(c, k), ~hasty' => ~hasty, gone' \in [Client -> SUBSET Doc],
           \/ Kept(c, k)
           \/ \E d \in Doc, e \in Edit : Wrote(c, k, d, e) /\ (~hasty' => ~BeingCreated(c, d))
           \/ \E d \in Doc : Removed(c, k, d),
           ~hasty' => \A b \in Client : \A d \in gone'[b] : d \in gone[b] \/ Forgotten(b, d)'
    PROVE  DeletedInv'
<1>1. Turns(c, k)
  BY DEF Turns
<1>2. ~hasty' => YoungBefore(c, k)
  BY TurnsYoung
<1>3. ASSUME NEW d \in gone[c], ~hasty PROVE k.items[d].local = Null
  <2>1. d \in Doc /\ Forgotten(c, d)
    BY <1>3 DEF DeletedInv
  <2> QED
    BY <2>1, LocalForgotten
<1> QED
  BY <1>1, <1>2, <1>3, MovedDeleted

\* A user deletes a document that the server is not creating: if the server has
\* nothing of it, nobody else has.
LEMMA DeleteForgets ==
    ASSUME SyncInv, DeletedInv, ~hasty, NEW c \in Client, NEW k \in Replica, Moved(c, k),
           NEW d \in Doc, Removed(c, k, d), ~BeingCreated(c, d)
    PROVE  Forgotten(c, d)'
<1>1. /\ Turns(c, k) /\ Has(replica[c], d)
      /\ k.items[d].local = Null /\ k.items[d].remote = Remote(c, d)
  BY DEF Turns, Removed
<1>2. Local(c, d)' = Null /\ Remote(c, d)' = Remote(c, d) /\ d \in born'
  BY <1>1, MovedFacts DEF SyncInv, Born
<1>3. ASSUME Remote(c, d) = Null PROVE Nowhere(d)'
  <2>1. Young(c, d)
    BY <1>1, <1>3 DEF Young, BeingCreated
  <2>2. Unknown(d) /\ \A b \in Client : Has(replica[b], d) => b = c
    BY <2>1 DEF DeletedInv, YoungAlone
  <2>3. ~Has(k, d)
    BY <1>3 DEF Removed, Has, Absent
  <2>4. Unknown(d)'
    BY <2>2, <2>3, UnknownMoved
  <2>5. \A b \in Client : ~Has(replica'[b], d)
    BY <1>1, <2>2, <2>3, MovedFacts
  <2> QED
    BY <1>2, <2>4, <2>5 DEF Nowhere, Has
<1> QED
  BY <1>2, <1>3 DEF Forgotten

LEMMA DeletedStep == SyncInv /\ DeletedInv /\ [MCNext]_MCVars => DeletedInv'
<1> SUFFICES ASSUME SyncInv, DeletedInv, [MCNext]_MCVars PROVE DeletedInv'
  OBVIOUS
<1>1. [SyncNext]_syncVars /\ gone \in [Client -> SUBSET Doc]
  BY StepIsSync DEF DeletedInv
<1>2. ASSUME NEW c \in Client, OnMessage(c), UNCHANGED hasty,
             gone' = [gone EXCEPT ![c] = {d \in @ : ~Refused(c, d)}]
      PROVE  DeletedInv'
  BY <1>1, <1>2, HeardDeleted
<1>3. ASSUME NEW c \in Client, NEW k \in Replica, Moved(c, k), Kept(c, k),
             UNCHANGED <<hasty, gone>>
      PROVE  DeletedInv'
  BY <1>1, <1>3, QuietDeleted
<1>4. ASSUME NEW c \in Client, UNCHANGED <<hasty, gone>>, LinkSide(c) PROVE DeletedInv'
  BY <1>3, <1>4, LinkMoves, CompleteMoves, ErrorMoves DEF LinkSide
<1>5. ASSUME NEW c \in Client, NEW d \in Doc, NEW e \in Edit, UserCreate(c, d, e),
             UNCHANGED <<hasty, gone>>
      PROVE  DeletedInv'
  <2>1. PICK k \in Replica : Moved(c, k) /\ Wrote(c, k, d, e)
    BY <1>5, CreateMoves
  <2>2. ~Has(replica[c], d)
    BY <1>5 DEF UserCreate, SyncInv, Born
  <2>3. ~BeingCreated(c, d)
    BY <2>2 DEF Has, BeingCreated
  <2> QED
    BY <1>1, <1>5, <2>1, <2>3, QuietDeleted
<1>6. ASSUME UNCHANGED <<hasty, gone>>, ServerSide PROVE DeletedInv'
  BY <1>1, <1>6, SessionServes, ApiServes, ServedDeleted DEF ServerSide
<1>7. ASSUME NEW c \in Client, NEW d \in Doc, NEW e \in Edit, UserChange(c, d, e),
             UNCHANGED gone, hasty' = (hasty \/ BeingCreated(c, d))
      PROVE  DeletedInv'
  <2>1. PICK k \in Replica : Moved(c, k) /\ Wrote(c, k, d, e)
    BY <1>7, ChangeMoves
  <2> QED
    BY <1>1, <1>7, <2>1, QuietDeleted
<1>8. ASSUME NEW c \in Client, NEW d \in Doc, UserDelete(c, d),
             gone' = [gone EXCEPT ![c] = @ \cup {d}], hasty' = (hasty \/ BeingCreated(c, d))
      PROVE  DeletedInv'
  <2>1. PICK k \in Replica : Moved(c, k) /\ Removed(c, k, d)
    BY <1>8, DeleteMoves
  <2>2. ~hasty' => ~hasty /\ Forgotten(c, d)'
    BY <1>8, <2>1, DeleteForgets
  <2>3. /\ gone'[c] = gone[c] \cup {d}
        /\ \A b \in Client : b # c => gone'[b] = gone[b]
        /\ gone' \in [Client -> SUBSET Doc]
    BY <1>1, <1>8
  <2>4. ~hasty' => \A b \in Client : \A a \in gone'[b] : a \in gone[b] \/ Forgotten(b, a)'
    BY <2>2, <2>3
  <2> QED
    BY <1>1, <2>1, <2>2, <2>3, <2>4, QuietDeleted
<1>9. CASE UNCHANGED MCVars
  <2>1. UNCHANGED <<replica, docs, toServer, call, born, hasty, gone>>
    BY <1>9 DEF MCVars, syncVars, colVars, storage, channels, userVars
  <2>2. FP!Earlys' /\ \A c \in Client, d \in Doc : FP!Dropped(c, d) => FP!Dropped(c, d)'
    BY <1>1, DroppedKept DEF DeletedInv
  <2> QED
    BY <2>1, <2>2 DEF DeletedInv, YoungAlone, Young, Unknown, Nowhere, Forgotten, Sent, Local,
                      Remote, Has, Exists
<1> QED
  BY <1>2, <1>4, <1>5, <1>6, <1>7, <1>8, <1>9, StepHasSide DEF StepSides

LEMMA DeletedStart == MCInit => DeletedInv
<1> SUFFICES ASSUME MCInit PROVE DeletedInv
  OBVIOUS
<1>1. FP!Earlys /\ gone = [c \in Client |-> {}]
  BY EarlysStart DEF MCInit
<1>2. ASSUME NEW c \in Client, NEW d \in Doc PROVE ~Young(c, d)
  BY DEF MCInit, SyncInit, NewReplica, Absent, Young, Has
<1> QED
  BY <1>1, <1>2 DEF DeletedInv, YoungAlone

\* What a user deletes does not come back, unless the server refuses the deletion:
\* not with an answer that was on its way, nor a broadcast, nor the sync after a
\* lost connection (deleteItem, handleDocMessage and handleUpdateMessage of
\* packages/client/src/collection.ts), as long as no user touches a document that
\* the server is creating.
THEOREM DeletedStaysGone == MCSpec => []DeletedStaysDeletedIfCalm
<1>1. MCInit => SyncInv /\ DeletedInv
  BY SyncInvInit, DeletedStart DEF MCInit
<1>2. SyncInv /\ DeletedInv /\ [MCNext]_MCVars => (SyncInv /\ DeletedInv)'
  BY StepIsSync, SyncInvStep, DeletedStep
<1>3. DeletedInv => DeletedStaysDeletedIfCalm
  BY DEF DeletedInv, Forgotten, DeletedStaysDeletedIfCalm, DeletedStaysDeleted
<1> QED
  BY <1>1, <1>2, <1>3, PTL DEF MCSpec

-----------------------------------------------------------------------------
(* What module Feed says of clients that are told everything *)

LEMMA FollowsStart == SyncInit => FP!FollowInv /\ \A c \in Client : FP!GoneInv(c)
<1>1. FP!FeedInit => FP!FollowInv
  BY FP!FollowInit, NullAssumption, CollectionAssumption, SyncAssumption, SMTT(60)
     DEF FP!FollowInit, FP!IsFiniteSet, IsFiniteSet
<1>2. FP!FeedInit => \A c \in Client : FP!GoneInv(c)
  BY FP!GoneInit, NullAssumption, CollectionAssumption, SyncAssumption, SMTT(60)
     DEF FP!GoneInit, FP!IsFiniteSet, IsFiniteSet
<1>3. SyncInit => F!FeedInit
  BY DEF SyncInit, F!FeedInit, F!Init, Init, F!NoCall, NoCall, F!NoRow, NoRow, NewReplica,
         Absent, Remote
<1> QED
  BY <1>1, <1>2, <1>3, FeedStartSame

LEMMA FollowsKept ==
    ASSUME SubscribeFirst, SyncInv, FP!FollowInv, [SyncNext]_syncVars
    PROVE  FP!FollowInv'
<1>1. FP!FollowInv /\ [FP!FeedNext]_FP!feedVars => FP!FollowInv'
  BY FP!FollowStep, NullAssumption, CollectionAssumption, SyncAssumption, SMTT(60)
     DEF FP!FollowStep, FP!IsFiniteSet, IsFiniteSet
<1> QED
  BY <1>1, FollowsStep, FeedStepSame

\* A client that loses no connection, unless it gives up, is told what is deleted.
LEMMA GoneKept ==
    ASSUME SubscribeFirst, SyncInv, FP!FollowInv, [SyncNext]_syncVars,
           NEW c \in Client, FP!GoneInv(c),
           link[c] # NoSlot /\ link'[c] = NoSlot => replica'[c].stopped
    PROVE  FP!GoneInv(c)'
<1>1. ASSUME FP!FollowInv, [FP!FeedNext]_FP!feedVars, FP!GoneInv(c), FP!Uncut(c), FP!Linked'
      PROVE  FP!GoneInv(c)'
  BY <1>1, FP!GoneStep, NullAssumption, CollectionAssumption, SyncAssumption, SMTT(60)
     DEF FP!GoneStep, FP!IsFiniteSet, IsFiniteSet
<1>2. FP!Uncut(c)
  <2> SUFFICES ASSUME FP!Lose(c), ~replica[c].stopped PROVE FALSE
    BY DEF FP!Uncut
  <2>1. link \in [Client -> Slot \cup {NoSlot}]
    BY DEF SyncInv, SyncTypeOK
  <2>2. link[c] # NoSlot /\ link'[c] = NoSlot
    BY <2>1 DEF FP!Lose, FP!HangUp
  <2>3. {b \in Client : replica'[b].stopped} = {b \in Client : replica[b].stopped}
    BY DEF FP!Lose
  <2> QED
    BY <2>2, <2>3
<1>3. FP!Linked'
  BY FollowsKept DEF FP!FollowInv
<1> QED
  BY <1>1, <1>2, <1>3, FollowsStep, FeedStepSame

-----------------------------------------------------------------------------
(* Requests and their answers *)

Deleted(d) == Exists(d) /\ ~Live(d)

\* Session s is told that its user may not change document d, or of the document.
Denied(s, d) == ChangeError(d, "forbidden") \in Letters(s)
Hears(s, d)  == {m \in Letters(s) : m.kind \in {"doc", "change"} /\ m.id = d}

\* Session s waits for request m no more: it is refused, or the document is as if
\* it had been granted.
Resolved(s, m) ==
    /\ call'[s] = NoCall
    /\ \/ Denied(s, m.id)'
       \/ /\ Exists(m.id)'
          /\ m.op = "*" => /\ Live(m.id)' => m.data \subseteq docs'[m.id].data
                           /\ Hears(s, m.id)' # {} \/ Deleted(m.id)'
          /\ m.op = "-" => Deleted(m.id)'

\* Session s subscribes before its Sync is answered.
Joins(s) == s \in joining => call[s].kind = "sync"

\* Session s loses nothing of what it asked and is told, but to an answer.
Serving(s) ==
    /\ Letters(s) \subseteq Letters(s)'
    /\ call'[s].kind = "sync" => call[s].kind = "sync"
    /\ \A m \in Letters(s)' :
          m.kind = "sync_error" => m \in Letters(s) \/ call[s].kind = "sync"
    /\ Joins(s) => \A m \in Sent(s) : m.kind = "change" => m \in Sent(s)' \/ Resolved(s, m)
    /\ \A d \in Doc : s \notin joining /\ Live(d) /\ ~Live(d)' =>
          \E m \in Hears(s, d)' : m.data = Null

LEMMA RangeSplit ==
    ASSUME NEW S, NEW q \in Seq(S), q # <<>>
    PROVE  Head(q) \in S /\ Tail(q) \in Seq(S) /\ Range(q) = {Head(q)} \cup Range(Tail(q))
<1>1. Head(q) = q[1] /\ Head(q) \in S /\ Tail(q) \in Seq(S)
      /\ Len(q) \in Nat /\ Len(q) > 0 /\ DOMAIN q = 1..Len(q)
      /\ DOMAIN Tail(q) = 1..(Len(q) - 1)
      /\ \A i \in 1..(Len(q) - 1) : Tail(q)[i] = q[i + 1]
  BY HeadTailProperties, LenProperties, EmptySeq
<1>2. ASSUME NEW i \in DOMAIN q PROVE q[i] \in {Head(q)} \cup Range(Tail(q))
  <2>1. CASE i = 1
    BY <1>1, <2>1
  <2>2. CASE i # 1
    <3>1. i - 1 \in DOMAIN Tail(q) /\ Tail(q)[i - 1] = q[i]
      BY <1>1, <2>2
    <3> QED
      BY <3>1 DEF Range
  <2> QED
    BY <2>1, <2>2
<1>3. Range(Tail(q)) \subseteq Range(q) /\ Head(q) \in Range(q)
  BY <1>1 DEF Range
<1>4. Range(q) \subseteq {Head(q)} \cup Range(Tail(q))
  BY <1>2 DEF Range
<1> QED
  BY <1>1, <1>3, <1>4

LEMMA QuietServing ==
    ASSUME NEW s \in Session, UNCHANGED docs,
           Letters(s) \subseteq Letters(s)',
           call'[s].kind = "sync" => call[s].kind = "sync",
           \A m \in Letters(s)' :
               m.kind = "sync_error" => m \in Letters(s) \/ call[s].kind = "sync",
           \A m \in Sent(s) : m.kind = "change" => m \in Sent(s)'
    PROVE  Serving(s)
BY DEF Serving, Live

LEMMA ReplyLetters ==
    ASSUME TypeOK, NEW s \in Session, NEW msgs \in Seq(ServerMessage), Reply(s, msgs),
           UNCHANGED mailbox, NEW t \in Session, stage[t] = "open"
    PROVE  Letters(t)' = IF t = s THEN Letters(t) \cup Range(msgs) ELSE Letters(t)
<1>1. Range(wire[s] \o msgs) = Range(wire[s]) \cup Range(msgs)
  BY RangeConcatenation DEF TypeOK
<1>2. wire'[t] = IF t = s THEN wire[t] \o msgs ELSE wire[t]
  BY DEF Reply, TypeOK
<1> QED
  BY <1>1, <1>2 DEF Letters

LEMMA TakeServing ==
    ASSUME SyncTypeOK, NEW s \in Session, ServerTake(s), NEW t \in Session
    PROVE  Serving(t)
<1>1. toServer[s] \in Seq(ClientMessage) /\ toServer[s] # <<>> /\ TypeOK
  BY DEF ServerTake, SyncTypeOK
<1>2. /\ Head(toServer[s]) \in ClientMessage
      /\ Range(toServer[s]) \subseteq {Head(toServer[s])} \cup Range(Tail(toServer[s]))
  BY <1>1, RangeSplit
<1>3. /\ UNCHANGED <<docs, wire, mailbox>>
      /\ call[s] = NoCall /\ toServer'[s] = Tail(toServer[s])
      /\ \A u \in Session : u # s => toServer'[u] = toServer[u] /\ call'[u] = call[u]
      /\ call'[s] = IF Head(toServer[s]) \in Garbled THEN call[s] ELSE Head(toServer[s])
  BY <1>1 DEF ServerTake, Take, storage, SyncTypeOK, TypeOK
<1>4. /\ \A m \in Garbled : m.kind # "change"
      /\ \A m \in ClientMessage : m.kind # "sync"
      /\ NoCall.kind \notin {"change", "sync"}
  BY DEF Garbled, ClientMessage, ChangeRequest, GetRequest, NoCall
<1>5. Letters(t)' = Letters(t)
  BY <1>3 DEF Letters
<1>6. call'[t].kind = "sync" => call[t].kind = "sync"
  BY <1>2, <1>3, <1>4
<1>7. ASSUME NEW m \in Sent(t), m.kind = "change" PROVE m \in Sent(t)'
  BY <1>2, <1>3, <1>4, <1>7 DEF Sent
<1> QED
  BY <1>3, <1>5, <1>6, <1>7, QuietServing

LEMMA ForwardServing ==
    ASSUME SyncTypeOK, NEW s \in Session, Forward(s), UNCHANGED toServer, NEW t \in Session
    PROVE  Serving(t)
<1>1. /\ mailbox[s] \in Seq(ServerMessage) /\ mailbox[s] # <<>>
      /\ wire[s] \in Seq(ServerMessage)
  BY DEF Forward, SyncTypeOK, TypeOK
<1>2. /\ Head(mailbox[s]) \in ServerMessage
      /\ Range(mailbox[s]) = {Head(mailbox[s])} \cup Range(Tail(mailbox[s]))
  BY <1>1, RangeSplit
<1>3. Range(Append(wire[s], Head(mailbox[s]))) = Range(wire[s]) \cup {Head(mailbox[s])}
  BY <1>1, <1>2, RangeAppend
<1>4. /\ UNCHANGED <<docs, call, toServer>>
      /\ wire'[t] = IF t = s THEN Append(wire[s], Head(mailbox[s])) ELSE wire[t]
      /\ mailbox'[t] = IF t = s THEN Tail(mailbox[s]) ELSE mailbox[t]
  BY DEF Forward, storage, SyncTypeOK, TypeOK
<1>5. Letters(t)' = Letters(t)
  BY <1>2, <1>3, <1>4 DEF Letters
<1> QED
  BY <1>4, <1>5, QuietServing DEF Sent

LEMMA SyncServing ==
    ASSUME SyncInv, NEW s \in Session, ServeSync(s), UNCHANGED toServer,
           NEW t \in Session, stage[t] = "open"
    PROVE  Serving(t)
<1>1. TypeOK /\ call[s].kind = "sync" /\ UNCHANGED <<docs, mailbox>>
  BY DEF SyncInv, SyncTypeOK, ServeSync, storage
<1>2. \E msgs \in Seq(Answer) : Reply(s, msgs)
  <2>1. \/ \E msgs \in Seq(Answer) : Reply(s, msgs)
        \/ \E m \in ChangeRequest : Apply(m)
    BY <1>1, ServeOutcome DEF Answered, Accepted
  <2>2. call[s].colrev \in Nat
    BY <1>1, CallTypes
  <2>3. /\ <<SyncError("forbidden")>> \in Seq(Answer)
        /\ <<SyncError("unprocessable_content")>> \in Seq(Answer)
        /\ <<SyncComplete(colrev)>> \in Seq(Answer)
    BY <1>1 DEF SyncError, SyncComplete, ServerMessage, ErrorCode, TypeOK, Answer
  <2> QED
    BY <1>1, <2>2, <2>3, SyncMessages DEF ServeSync, SyncReply
<1>3. PICK msgs \in Seq(Answer) : Reply(s, msgs)
  BY <1>2
<1>4. msgs \in Seq(ServerMessage)
  BY LenProperties DEF Answer
<1>5. Letters(t)' = IF t = s THEN Letters(t) \cup Range(msgs) ELSE Letters(t)
  BY <1>1, <1>3, <1>4, ReplyLetters
<1>6. call'[t] = IF t = s THEN NoCall ELSE call[t]
  BY <1>1, <1>3 DEF Reply, TypeOK
<1>7. NoCall.kind # "sync"
  BY DEF NoCall
<1>8. ASSUME NEW m \in Sent(t), m.kind = "change" PROVE m \in Sent(t)'
  BY <1>1, <1>6, <1>8 DEF Sent
<1> QED
  BY <1>1, <1>5, <1>6, <1>7, <1>8, QuietServing

LEMMA RefusedServing ==
    ASSUME SyncInv, NEW s \in Session, call[s].kind = "change",
           Refusal(s, call[s]) # NoError,
           Reply(s, <<ChangeError(call[s].id, Refusal(s, call[s]))>>),
           UNCHANGED <<docs, mailbox, toServer>>, NEW t \in Session, stage[t] = "open"
    PROVE  Serving(t)
<1>0. PICK m : m = call[s]
  OBVIOUS
<1> DEFINE e == ChangeError(m.id, Refusal(s, m))
<1>1. TypeOK /\ m \in ChangeRequest /\ Pinned(m)
  BY <1>0, CallTypes DEF SyncInv, SyncTypeOK, Sent
<1>2. m.id \in Doc /\ m.op \in Op /\ Refusal(s, m) \in ErrorCode
  BY <1>0, <1>1, RequestTypes, RefusalTypes
<1>3. e \in ServerMessage /\ e.kind = "change_error"
  BY <1>2 DEF ChangeError, ServerMessage
<1>4. <<e>> \in Seq(ServerMessage) /\ Range(<<e>>) = {e}
  BY <1>3 DEF Range
<1>5. Letters(t)' = IF t = s THEN Letters(t) \cup {e} ELSE Letters(t)
  <2>1. PICK f : f = e
    OBVIOUS
  <2>2. <<f>> \in Seq(ServerMessage) /\ Range(<<f>>) = {f} /\ Reply(s, <<f>>)
    BY <1>0, <1>4, <2>1
  <2>3. Letters(t)' = IF t = s THEN Letters(t) \cup Range(<<f>>) ELSE Letters(t)
    BY <1>1, <2>2, ReplyLetters
  <2> QED
    BY <2>1, <2>2, <2>3
<1>6. call'[t] = IF t = s THEN NoCall ELSE call[t]
  BY <1>1 DEF Reply, TypeOK
<1>7. \/ Refusal(s, m) = "forbidden"
      \/ Exists(m.id) /\ (m.op # "+" => ~Live(m.id))
  BY <1>0, <1>1, <1>2 DEF Refusal, CreateRefusal, EditRefusal, Pinned, NoError
<1>8. ASSUME t = s PROVE Resolved(t, m)
  <2>1. CASE Refusal(s, m) = "forbidden"
    BY <1>5, <1>6, <1>8, <2>1 DEF Resolved, Denied
  <2>2. CASE Exists(m.id) /\ (m.op # "+" => ~Live(m.id))
    <3>1. Exists(m.id)' /\ (m.op # "+" => Deleted(m.id)')
      BY <2>2 DEF Exists, Live, Deleted
    <3> QED
      BY <1>6, <1>8, <3>1 DEF Resolved, Deleted
  <2> QED
    BY <1>7, <2>1, <2>2
<1>9. ASSUME NEW n \in Sent(t), n.kind = "change" PROVE n \in Sent(t)' \/ Resolved(t, n)
  BY <1>0, <1>6, <1>8, <1>9 DEF Sent
<1>10. NoCall.kind # "sync"
  BY DEF NoCall
<1> QED
  BY <1>3, <1>5, <1>6, <1>9, <1>10 DEF Serving, Live

\* What is accepted is broadcast to every session that is connected and subscribed.
LEMMA AcceptedServing ==
    ASSUME SyncInv, FP!FollowInv, NEW src \in Session \cup {Api}, NEW m \in ChangeRequest,
           Accepted(src, m), UNCHANGED <<wire, toServer>>,
           NEW t \in Session, stage[t] = "open",
           \/ call'[t] = call[t]
           \/ m = call[t] /\ call'[t] = NoCall
    PROVE  Serving(t)
<1> DEFINE n == ServerChange(m.op, m.id, Outcome(m), colrev + 1)
<1>1. TypeOK /\ m.kind = "change" /\ m.op \in Op
  BY RequestTypes DEF SyncInv, SyncTypeOK
<1>2. t \in joining <=> t \notin subscribers
  BY DEF FP!FollowInv, FP!Lines, FP!Line
<1>3. Letters(t)' = IF t \in subscribers THEN Letters(t) \cup {n} ELSE Letters(t)
  <2>1. n \in ServerMessage
    BY <1>1, RequestTypes, OutcomeTypes DEF ServerChange, ServerMessage, TypeOK, Accepted
  <2>2. mailbox'[t] = IF t \in subscribers THEN Append(mailbox[t], n) ELSE mailbox[t]
    BY DEF Accepted, Apply, Broadcast
  <2>3. mailbox[t] \in Seq(ServerMessage)
    BY <1>1 DEF TypeOK
  <2>4. Range(Append(mailbox[t], n)) = Range(mailbox[t]) \cup {n}
    <3> HIDE DEF n
    <3> QED
      BY <2>1, <2>3, RangeAppend
  <2> QED
    BY <2>2, <2>4 DEF Letters
<1>4. n.kind = "change" /\ n.id = m.id /\ n.data = Outcome(m)
  BY DEF ServerChange
<1>5. /\ m.id \in Doc /\ docs'[m.id].data = Outcome(m) /\ docs'[m.id].rev = colrev + 1
      /\ \A d \in Doc \ {m.id} : docs'[d] = docs[d]
  <2>1. /\ m.id \in Doc /\ docs'[m.id] = [rev |-> colrev + 1, data |-> Outcome(m)]
        /\ \A d \in Doc \ {m.id} : docs'[d] = docs[d]
    BY <1>1, AcceptedRow
  <2> HIDE DEF n
  <2> QED
    BY <2>1
<1>6. Exists(m.id)'
  BY <1>1, <1>5 DEF Exists, TypeOK
<1>7. /\ m.op = "-" <=> Outcome(m) = Null
      /\ m.op = "*" => m.data \subseteq Outcome(m)
  BY <1>1, OutcomeTypes DEF Accepted, Outcome, Merge
<1>8. ASSUME m = call[t], call'[t] = NoCall, Joins(t) PROVE Resolved(t, m)
  <2>1. t \in subscribers
    BY <1>1, <1>2, <1>8 DEF Joins
  <2>2. n \in Hears(t, m.id)'
    BY <1>3, <1>4, <2>1 DEF Hears
  <2>3. m.op = "-" => Deleted(m.id)'
    BY <1>5, <1>6, <1>7 DEF Deleted, Live
  <2> QED
    BY <1>5, <1>6, <1>7, <1>8, <2>2, <2>3 DEF Resolved
<1>9. ASSUME NEW d \in Doc, t \notin joining, Live(d), ~Live(d)'
      PROVE  \E u \in Hears(t, d)' : u.data = Null
  <2>1. d = m.id /\ Outcome(m) = Null
    BY <1>5, <1>9 DEF Live
  <2> QED
    BY <1>2, <1>3, <1>4, <1>9, <2>1 DEF Hears
<1>10. ASSUME NEW u \in Sent(t), u.kind = "change", Joins(t)
       PROVE  u \in Sent(t)' \/ Resolved(t, u)
  BY <1>8, <1>10 DEF Sent
<1>11. NoCall.kind # "sync"
  BY DEF NoCall
<1>12. \A u \in Letters(t)' : u.kind = "sync_error" => u \in Letters(t)
  <2> HIDE DEF n
  <2> QED
    BY <1>3, <1>4
<1>13. Letters(t) \subseteq Letters(t)' /\ (call'[t].kind = "sync" => call[t].kind = "sync")
  BY <1>3, <1>11
<1> QED
  BY <1>9, <1>10, <1>12, <1>13 DEF Serving

LEMMA HealthyServing ==
    ASSUME SyncInv, FP!FollowInv, NEW s \in Session, Healthy(s),
           NEW t \in Session, stage[t] = "open"
    PROVE  Serving(t)
<1>1. SyncTypeOK /\ TypeOK
  BY DEF SyncInv, SyncTypeOK
<1>2. CASE ServerTake(s)
  BY <1>1, <1>2, TakeServing
<1>3. CASE ServerExit(s)
  <2>1. /\ UNCHANGED <<docs, call, wire, mailbox>> /\ s # t
        /\ toServer'[t] = toServer[t]
    BY <1>1, <1>3 DEF ServerExit, Exit, storage, channels, SyncTypeOK
  <2>2. Letters(t)' = Letters(t) /\ Sent(t)' = Sent(t)
    BY <2>1 DEF Letters, Sent
  <2> QED
    BY <2>1, <2>2, QuietServing
<1>4. CASE Subscribe(s) /\ UNCHANGED toServer
  <2>1. UNCHANGED <<docs, call, wire, mailbox, toServer>>
    BY <1>4 DEF Subscribe, storage, channels
  <2>2. Letters(t)' = Letters(t) /\ Sent(t)' = Sent(t)
    BY <2>1 DEF Letters, Sent
  <2> QED
    BY <2>1, <2>2, QuietServing
<1>5. CASE ServeChange(s) /\ UNCHANGED toServer
  <2>1. call[s].kind = "change" /\ call[s] \in ChangeRequest
    BY <1>1, <1>5, CallTypes DEF ServeChange
  <2>2. CASE /\ Refusal(s, call[s]) # NoError
             /\ Reply(s, <<ChangeError(call[s].id, Refusal(s, call[s]))>>)
             /\ UNCHANGED <<storage, links, mailbox>>
    BY <1>5, <2>1, <2>2, RefusedServing DEF storage
  <2>3. CASE Refusal(s, call[s]) = NoError /\ Apply(call[s]) /\ Reply(s, <<>>)
    <3>1. PICK m \in ChangeRequest : m = call[s]
      BY <2>1
    <3>2. wire[s] \o <<>> = wire[s]
      BY <1>1, ConcatEmptySeq DEF TypeOK
    <3>3. UNCHANGED wire
      BY <1>1, <2>3, <3>2 DEF Reply, TypeOK
    <3>4. call'[t] = IF t = s THEN NoCall ELSE call[t]
      BY <1>1, <2>3 DEF Reply, TypeOK
    <3>5. Accepted(s, m) /\ s \in Session \cup {Api}
      BY <2>3, <3>1 DEF Accepted
    <3> QED
      BY <1>5, <3>1, <3>3, <3>4, <3>5, AcceptedServing
  <2> QED
    BY <1>5, <2>2, <2>3 DEF ServeChange
<1> QED
  BY <1>1, <1>2, <1>3, <1>4, <1>5, ForwardServing, SyncServing DEF Healthy

LEMMA ApiServing ==
    ASSUME SyncInv, FP!FollowInv, NEW d \in Doc, ApiStep(d),
           NEW t \in Session, stage[t] = "open"
    PROVE  Serving(t)
<1>1. UNCHANGED <<toServer, call, wire>>
  BY DEF ApiStep, ApiRead, ApiUpdate, ApiDelete, ApiLock, ApiChange, Lock, colVars, channels
<1>2. ASSUME UNCHANGED <<docs, mailbox>> PROVE Serving(t)
  <2>1. Letters(t)' = Letters(t) /\ Sent(t)' = Sent(t)
    BY <1>1, <1>2 DEF Letters, Sent
  <2> QED
    BY <1>1, <1>2, <2>1, QuietServing
<1>3. ASSUME NEW m \in ChangeRequest, ApiChange(m) PROVE Serving(t)
  <2>1. Accepted(Api, m) /\ Api \in Session \cup {Api}
    BY <1>3 DEF ApiChange, Accepted
  <2> QED
    BY <1>1, <2>1, AcceptedServing
<1>4. ASSUME NEW e \in Edit PROVE Change("*", d, {e}) \in ChangeRequest
  BY NullAssumption DEF Change, ChangeRequest, Op, Data, Version
<1>5. Change("-", d, Null) \in ChangeRequest
  BY DEF Change, ChangeRequest, Op, Data
<1>6. CASE \E e \in Edit : ApiUpdate(d, e)
  <2>1. UNCHANGED <<docs, mailbox>> \/ \E m \in ChangeRequest : ApiChange(m)
    BY <1>4, <1>6 DEF ApiUpdate, colVars, storage, channels
  <2> QED
    BY <1>2, <1>3, <2>1
<1>7. CASE ApiDelete(d)
  BY <1>3, <1>5, <1>7 DEF ApiDelete
<1>8. CASE (\E e \in Edit : ApiRead(d, e)) \/ ApiLock(d)
  BY <1>2, <1>8 DEF ApiRead, ApiLock, Lock, colVars, storage, channels
<1> QED
  BY <1>6, <1>7, <1>8 DEF ApiStep

\* A document that exists goes on existing; one that comes to be is as it was asked for.
Grows(d) ==
    /\ Exists(d) => Exists(d)' /\ (Live(d)' => Live(d) /\ docs[d].data \subseteq docs'[d].data)
    /\ ~Exists(d) /\ Exists(d)' =>
          \E s \in Session : \E m \in Sent(s) :
              /\ m.kind = "change" /\ m.op = "+" /\ m.id = d
              /\ Live(d)' /\ docs'[d].data = m.data

LEMMA ServedGrows ==
    ASSUME SyncInv, Serves, NEW d \in Doc
    PROVE  Grows(d)
<1>1. SyncTypeOK /\ TypeOK /\ (Tells \/ Accepts)
  BY DEF SyncInv, SyncTypeOK, Serves
<1>2. ASSUME ~Exists(d), Exists(d)'
      PROVE  \E s \in Session : \E m \in Sent(s) :
                 /\ m.kind = "change" /\ m.op = "+" /\ m.id = d
                 /\ Live(d)' /\ docs'[d].data = m.data
  <2>1. docs' # docs
    BY <1>2 DEF Exists
  <2>2. PICK src \in Session \cup {Api}, m \in ChangeRequest :
           Accepted(src, m) /\ Asked(src, m) /\ UNCHANGED wire
    BY <1>1, <2>1 DEF Tells, Accepts
  <2>3. d = m.id /\ m.kind = "change"
    BY <1>1, <1>2, <2>2, AcceptedRow, RequestTypes DEF Exists
  <2>4. m.op = "+"
    BY <1>1, <1>2, <2>2, <2>3, OutcomeTypes, RequestTypes DEF Accepted
  <2>5. src \in Session /\ m = call[src]
    BY <2>2, <2>4 DEF Asked
  <2>6. Outcome(m) = m.data /\ m.data # Null
    BY <2>4, RequestTypes DEF Outcome
  <2>7. docs'[d] = [rev |-> colrev + 1, data |-> Outcome(m)]
    BY <1>1, <2>2, <2>3, AcceptedRow
  <2>8. docs'[d].data = m.data
    BY <2>6, <2>7
  <2> QED
    BY <2>3, <2>4, <2>5, <2>6, <2>8 DEF Sent, Live
<1> QED
  BY <1>1, <1>2, RowsGrow DEF Grows

LEMMA SameGrows ==
    ASSUME UNCHANGED docs, NEW d \in Doc
    PROVE  Grows(d)
BY DEF Grows, Exists, Live

-----------------------------------------------------------------------------
(* When no connection is lost, everything settles *)

\* Client c has given up, or will when it reads why.
Down(c) ==
    \/ link[c] = NoSlot /\ replica[c].stopped
    \/ link[c] # NoSlot /\ \E m \in Letters(Conn(c)) : m.kind = "sync_error"

Wants(m, op, d) == m.kind = "change" /\ m.op = op /\ m.id = d

\* What brings about that the server has edit e of document d, that it has deleted
\* the document, that it knows of the document, or that client c hears of it: a
\* flush that is due, a request, or an answer that is on its way; or the server has.
EditComes(c, d, e) ==
    \/ Late(replica[c], d)
    \/ Exists(d) /\ (Live(d) => e \in docs[d].data)
    \/ /\ link[c] # NoSlot
       /\ \/ Denied(Conn(c), d)
          \/ \E m \in Sent(Conn(c)) : Wants(m, "*", d) /\ e \in m.data

DeletionComes(c, d) ==
    \/ Late(replica[c], d) \/ Deleted(d)
    \/ /\ link[c] # NoSlot
       /\ Denied(Conn(c), d) \/ \E m \in Sent(Conn(c)) : Wants(m, "-", d)

CreationComes(c, d) ==
    \/ Late(replica[c], d)
    \/ /\ link[c] # NoSlot /\ replica[c].status = "ready"
       /\ \/ Denied(Conn(c), d)
          \/ Live(d) /\ Local(c, d) \subseteq docs[d].data
          \/ Deleted(d) /\ \E m \in Hears(Conn(c), d) : m.data = Null
          \/ /\ ~Exists(d)
             /\ \E m \in Sent(Conn(c)) : Wants(m, "+", d) /\ Local(c, d) \subseteq m.data

WordComes(c, d) ==
    \/ Late(replica[c], d)
    \/ /\ link[c] # NoSlot
       /\ \/ Denied(Conn(c), d) \/ Hears(Conn(c), d) # {}
          \/ \E m \in Sent(Conn(c)) : Wants(m, "*", d)

\* Where item d of client c differs from what the server has, that will change.
Settling(c, d) ==
    LET i == replica[c].items[d] IN
    /\ i.local = Null => DeletionComes(c, d)
    /\ i.remote = Null => CreationComes(c, d)
    /\ i.local # Null /\ i.remote # Null => \A e \in i.local \ i.remote : EditComes(c, d, e)
    /\ i.state # "synced" /\ i.local = i.remote => WordComes(c, d)

\* The user's copy extends the server's; a synced one is the server's.
Formed(i) ==
    /\ i.local # Null \/ i.remote # Null
    /\ i.local # Null /\ i.remote # Null => i.remote \subseteq i.local
    /\ i.state = "synced" => i.remote # Null /\ i.local = i.remote

\* A document that is to be created has not been sent.
ItemFits(c, d) ==
    LET i == replica[c].items[d] IN
    /\ Formed(i) /\ Settling(c, d)
    /\ d \in replica[c].flushQueue /\ i.remote = Null => i.state # "sent"

\* A client is ready once its sync is complete, while it is connected.
LinkFits(c) ==
    /\ replica[c].flushTimer => replica[c].status = "ready"
    /\ link[c] = NoSlot => /\ replica[c].status # "ready"
                           /\ replica[c].status # "disconnected" => replica[c].stopped
    /\ link[c] # NoSlot =>
          /\ replica[c].status \in {"connected", "ready"}
          /\ replica[c].status = "ready" =>
                /\ call[Conn(c)].kind # "sync"
                /\ \A m \in Letters(Conn(c)) : m.kind # "sync_error"

ClientFits(c) == Down(c) \/ \A d \in Doc : Has(replica[c], d) => ItemFits(c, d)

\* Nobody asks for a document to be created but as its author does.
OneCreation ==
    \A s, t \in Session : \A m \in Sent(s), n \in Sent(t) :
        \A d \in Doc : Wants(m, "+", d) /\ Wants(n, "+", d) => m = n

CalmFits == OneCreation /\ \A c \in Client : LinkFits(c) /\ ClientFits(c)

CalmInv == trouble = 0 /\ ~hasty => CalmFits

\* A step leaves item d of client c, the rest of what it has queued being sent or
\* not; what the client hears and asks for of the document stays, or is settled.
Undisturbed(c, d) ==
    LET k == replica[c]
        l == replica'[c]
    IN
    /\ l.items[d] = k.items[d] /\ (d \in l.flushQueue => d \in k.flushQueue)
    /\ Late(k, d) => Late(l, d)
    /\ k.status = "ready" => l.status = "ready"
    /\ link'[c] = link[c] /\ Grows(d)
    /\ link[c] # NoSlot =>
          /\ Denied(Conn(c), d) => Denied(Conn(c), d)'
          /\ Hears(Conn(c), d) \subseteq Hears(Conn(c), d)'
          /\ \A m \in Sent(Conn(c)) :
                m.kind = "change" /\ m.id = d => m \in Sent(Conn(c))' \/ Resolved(Conn(c), m)
          /\ k.status = "ready" /\ Live(d) /\ ~Live(d)' =>
                \E m \in Hears(Conn(c), d)' : m.data = Null

\* Of a deletion that is not on its way there is no copy left.
LEMMA DeletedHeard ==
    ASSUME FP!FollowInv
    PROVE  \A c \in Client, d \in Doc :
              FP!GoneInv(c) /\ link[c] # NoSlot /\ ~Down(c) /\ Deleted(d)
                 /\ call[Conn(c)].kind # "sync" /\ Remote(c, d) # Null =>
                    \E m \in Hears(Conn(c), d) : m.data = Null
<1> SUFFICES ASSUME NEW c \in Client, NEW d \in Doc, FP!GoneInv(c), link[c] # NoSlot, ~Down(c),
                    Deleted(d), call[Conn(c)].kind # "sync", Remote(c, d) # Null
             PROVE  \E m \in Hears(Conn(c), d) : m.data = Null
  OBVIOUS
<1>1. PICK n \in Slot : n = link[c]
  BY DEF FP!FollowInv, FP!FeedTypeOK
<1>2. PICK s : s = <<c, n>>
  OBVIOUS
<1>3. s = Conn(c)
  BY <1>1, <1>2 DEF Conn
<1>4. FP!FollowsGone(c, s)
  BY <1>1, <1>2 DEF FP!GoneInv, FP!FollowingGone
<1>5. ~FP!Failed(s)
  BY <1>3 DEF FP!Failed, FP!Pending, FP!Range, Down, Letters, Range
<1>6. FP!CoveredGone(c, s)
  BY <1>4, <1>5 DEF FP!FollowsGone
<1>7. PICK m \in FP!Pending(s) : FP!Says(m, d) /\ m.data = Null
  <2>1. FP!Gone(d) /\ ~FP!Awaits(s, d)
    BY <1>3 DEF Deleted, Exists, Live, FP!Gone, FP!Exists, FP!Live, FP!Awaits
  <2> QED
    BY <1>6, <2>1 DEF FP!CoveredGone
<1> QED
  BY <1>3, <1>7 DEF FP!Pending, FP!Says, FP!Range, Hears, Letters, Range

LEMMA DeletedHeardNext ==
    ASSUME FP!FollowInv'
    PROVE  \A c \in Client, d \in Doc :
              FP!GoneInv(c)' /\ link'[c] # NoSlot /\ ~Down(c)' /\ Deleted(d)'
                 /\ call'[Conn(c)'].kind # "sync" /\ Remote(c, d)' # Null =>
                    \E m \in Hears(Conn(c), d)' : m.data = Null
<1>1. (FP!FollowInv => \A c \in Client, d \in Doc :
           FP!GoneInv(c) /\ link[c] # NoSlot /\ ~Down(c) /\ Deleted(d)
              /\ call[Conn(c)].kind # "sync" /\ Remote(c, d) # Null =>
                 \E m \in Hears(Conn(c), d) : m.data = Null)'
  BY DeletedHeard, PTL
<1> QED
  BY <1>1

LEMMA StillSettling ==
    ASSUME SyncInv, OneCreation, FP!FollowInv', NEW c \in Client, FP!GoneInv(c)', ~Down(c)',
           NEW d \in Doc, Undisturbed(c, d), Formed(replica[c].items[d]), Settling(c, d)
    PROVE  Settling(c, d)'
<1>1. PICK s : s = Conn(c)
  OBVIOUS
<1>2. link'[c] = link[c] /\ Conn(c)' = s /\ Grows(d)
  BY <1>1 DEF Undisturbed, Conn
<1>3. ASSUME link[c] # NoSlot
      PROVE  /\ s \in Session
             /\ Denied(s, d) => Denied(s, d)'
             /\ Hears(s, d) \subseteq Hears(s, d)'
             /\ \A m \in Sent(s) :
                   m.kind = "change" /\ m.id = d => m \in Sent(s)' \/ Resolved(s, m)
             /\ replica[c].status = "ready" /\ Live(d) /\ ~Live(d)' =>
                   \E m \in Hears(s, d)' : m.data = Null
  <2>1. s \in Session
    BY <1>1, <1>3, SyncAssumption DEF SyncInv, SyncTypeOK, Conn
  <2>2. /\ Denied(s, d)' <=> Denied(Conn(c), d)'
        /\ Hears(s, d)' = Hears(Conn(c), d)'
        /\ Sent(s)' = Sent(Conn(c))'
    BY <1>2 DEF Denied, Hears, Sent, Letters
  <2> QED
    BY <1>1, <1>3, <2>1, <2>2 DEF Undisturbed
<1> DEFINE i == replica[c].items[d]
<1>4. /\ replica'[c].items[d] = i /\ Local(c, d)' = i.local /\ Remote(c, d)' = i.remote
      /\ Late(replica[c], d) => Late(replica'[c], d)
      /\ replica[c].status = "ready" => replica'[c].status = "ready"
  BY DEF Undisturbed, Local, Remote
<1>5. Exists(d) => Exists(d)' /\ (Live(d)' => docs[d].data \subseteq docs'[d].data)
  BY <1>2 DEF Grows
<1>6. Deleted(d) => Deleted(d)'
  BY <1>2 DEF Grows, Deleted
<1>7. ASSUME i.local = Null PROVE DeletionComes(c, d)'
  <2>1. CASE Late(replica[c], d)
    BY <1>4, <2>1 DEF DeletionComes
  <2>2. CASE Deleted(d)
    BY <1>6, <2>2 DEF DeletionComes
  <2>3. CASE link[c] # NoSlot /\ Denied(s, d)
    BY <1>2, <1>3, <2>3 DEF DeletionComes
  <2>4. ASSUME link[c] # NoSlot, NEW m \in Sent(s), Wants(m, "-", d)
        PROVE  DeletionComes(c, d)'
    <3>1. m \in Sent(s)' \/ Denied(s, d)' \/ Deleted(d)'
      BY <1>3, <2>4 DEF Wants, Resolved
    <3> QED
      BY <1>2, <2>4, <3>1 DEF DeletionComes
  <2> QED
    BY <1>1, <1>7, <2>1, <2>2, <2>3, <2>4 DEF Settling, DeletionComes
<1>8. ASSUME i.local # Null, i.remote # Null, NEW e \in i.local \ i.remote
      PROVE  EditComes(c, d, e)'
  <2>1. CASE Late(replica[c], d)
    BY <1>4, <2>1 DEF EditComes
  <2>2. CASE Exists(d) /\ (Live(d) => e \in docs[d].data)
    <3>1. Exists(d)' /\ (Live(d)' => e \in docs'[d].data)
      BY <1>2, <2>2 DEF Grows
    <3> QED
      BY <3>1 DEF EditComes
  <2>3. CASE link[c] # NoSlot /\ Denied(s, d)
    BY <1>2, <1>3, <2>3 DEF EditComes
  <2>4. ASSUME link[c] # NoSlot, NEW m \in Sent(s), Wants(m, "*", d), e \in m.data
        PROVE  EditComes(c, d, e)'
    <3>1. \/ m \in Sent(s)' \/ Denied(s, d)'
          \/ Exists(d)' /\ (Live(d)' => m.data \subseteq docs'[d].data)
      BY <1>3, <2>4 DEF Wants, Resolved
    <3> QED
      BY <1>2, <2>4, <3>1 DEF EditComes
  <2> QED
    BY <1>1, <1>8, <2>1, <2>2, <2>3, <2>4 DEF Settling, EditComes
<1>9. ASSUME i.remote = Null PROVE CreationComes(c, d)'
  <2>1. CASE Late(replica[c], d)
    BY <1>4, <2>1 DEF CreationComes
  <2> SUFFICES ASSUME link[c] # NoSlot, replica[c].status = "ready",
                      \/ Denied(s, d)
                      \/ Live(d) /\ Local(c, d) \subseteq docs[d].data
                      \/ Deleted(d) /\ \E m \in Hears(s, d) : m.data = Null
                      \/ /\ ~Exists(d)
                         /\ \E m \in Sent(s) : Wants(m, "+", d) /\ Local(c, d) \subseteq m.data
               PROVE  CreationComes(c, d)'
    BY <1>1, <1>9, <2>1 DEF Settling, CreationComes
  <2>2. Local(c, d)' = Local(c, d) /\ link'[c] # NoSlot /\ replica'[c].status = "ready"
    BY <1>2, <1>4 DEF Local
  <2>3. CASE Denied(s, d)
    BY <1>2, <1>3, <2>2, <2>3 DEF CreationComes
  <2>4. CASE Live(d) /\ Local(c, d) \subseteq docs[d].data
    <3>1. Exists(d)
      BY <2>4, KnownFeed DEF SyncInv, FeedInv, RowsOrdered, NoRow, Live, Exists, TypeOK
    <3>2. CASE Live(d)'
      BY <1>2, <1>5, <2>2, <2>4, <3>1, <3>2 DEF CreationComes
    <3>3. CASE ~Live(d)'
      <4>1. \E m \in Hears(s, d)' : m.data = Null
        BY <1>3, <2>4, <3>3
      <4>2. Deleted(d)'
        BY <1>5, <3>1, <3>3 DEF Deleted
      <4> QED
        BY <1>2, <2>2, <4>1, <4>2 DEF CreationComes
    <3> QED
      BY <3>2, <3>3
  <2>5. CASE Deleted(d) /\ \E m \in Hears(s, d) : m.data = Null
    BY <1>2, <1>3, <1>6, <2>2, <2>5 DEF CreationComes
  <2>6. ASSUME ~Exists(d), NEW m \in Sent(s), Wants(m, "+", d), Local(c, d) \subseteq m.data
        PROVE  CreationComes(c, d)'
    <3>1. CASE Exists(d)'
      <4>1. PICK t \in Session : \E n \in Sent(t) :
               Wants(n, "+", d) /\ Live(d)' /\ docs'[d].data = n.data
        BY <1>2, <2>6, <3>1 DEF Grows, Wants
      <4>2. Live(d)' /\ docs'[d].data = m.data
        BY <1>3, <2>6, <4>1 DEF OneCreation
      <4> QED
        BY <1>2, <2>2, <2>6, <4>2 DEF CreationComes
    <3>2. CASE ~Exists(d)'
      <4>1. m \in Sent(s)' \/ Denied(s, d)'
        BY <1>3, <2>6, <3>2 DEF Wants, Resolved
      <4> QED
        BY <1>2, <2>2, <2>6, <3>2, <4>1 DEF CreationComes
    <3> QED
      BY <3>1, <3>2
  <2> QED
    BY <2>3, <2>4, <2>5, <2>6
<1>10. ASSUME i.state # "synced", i.local = i.remote PROVE WordComes(c, d)'
  <2>1. CASE Late(replica[c], d)
    BY <1>4, <2>1 DEF WordComes
  <2>2. CASE link[c] # NoSlot /\ (Denied(s, d) \/ Hears(s, d) # {})
    BY <1>2, <1>3, <2>2 DEF WordComes
  <2>3. ASSUME link[c] # NoSlot, NEW m \in Sent(s), Wants(m, "*", d)
        PROVE  WordComes(c, d)'
    <3>1. CASE m \in Sent(s)' \/ Denied(s, d)' \/ Hears(s, d)' # {}
      BY <1>2, <2>3, <3>1 DEF WordComes
    <3>2. CASE call'[s] = NoCall /\ Deleted(d)'
      <4>1. i.remote # Null
        BY <1>10 DEF Formed
      <4>2. call'[Conn(c)'].kind # "sync"
        BY <1>2, <3>2 DEF NoCall
      <4>3. Hears(Conn(c), d)' # {}
        BY <1>2, <1>4, <2>3, <3>2, <4>1, <4>2, DeletedHeardNext
      <4> QED
        BY <1>2, <2>3, <4>3 DEF WordComes
    <3> QED
      BY <1>3, <2>3, <3>1, <3>2 DEF Wants, Resolved
  <2> QED
    BY <1>1, <1>10, <2>1, <2>2, <2>3 DEF Settling, WordComes
<1> QED
  BY <1>4, <1>7, <1>8, <1>9, <1>10 DEF Settling

LEMMA FitsKept ==
    ASSUME SyncInv, OneCreation, FP!FollowInv', NEW c \in Client, FP!GoneInv(c)', ~Down(c)',
           NEW d \in Doc, Undisturbed(c, d), ItemFits(c, d)
    PROVE  ItemFits(c, d)'
<1>1. /\ replica'[c].items[d] = replica[c].items[d]
      /\ d \in replica'[c].flushQueue => d \in replica[c].flushQueue
  BY DEF Undisturbed
<1>2. Formed(replica[c].items[d]) /\ Settling(c, d)
  BY DEF ItemFits
<1>3. Settling(c, d)'
  BY <1>2, StillSettling
<1> QED
  BY <1>1, <1>2, <1>3 DEF ItemFits, Formed

\* A client and its connection.
LEMMA LinkedSession ==
    ASSUME SyncInv, NEW c \in Client, link[c] # NoSlot
    PROVE  Conn(c) \in Session /\ stage[Conn(c)] = "open"
<1>1. link[c] \in Slot /\ Conn(c) = <<c, link[c]>>
  BY DEF SyncInv, SyncTypeOK, Conn
<1> QED
  BY <1>1, SyncAssumption DEF SyncInv, FP!KnownInv, FP!Linked

LEMMA LinkedJoins ==
    ASSUME SyncInv, FP!FollowInv, NEW c \in Client, link[c] # NoSlot, ~Down(c)
    PROVE  Joins(Conn(c))
<1>1. PICK s \in Session : s = Conn(c) /\ stage[s] = "open"
  BY LinkedSession
<1>2. FP!Quiet(s)
  BY DEF FP!FollowInv, FP!Mail
<1>3. ~FP!Failed(s)
  BY <1>1 DEF FP!Failed, FP!Pending, FP!Range, Down, Letters, Range
<1> QED
  BY <1>1, <1>2, <1>3 DEF FP!Quiet, Joins

LEMMA ServedFits ==
    ASSUME SyncInv, FP!FollowInv, FP!FollowInv', OneCreation, Serves, UNCHANGED link,
           NEW c \in Client, FP!GoneInv(c)', link[c] # NoSlot => Serving(Conn(c)),
           LinkFits(c), ClientFits(c)
    PROVE  LinkFits(c)' /\ ClientFits(c)'
<1>1. PICK s : s = Conn(c)
  OBVIOUS
<1>2. UNCHANGED replica /\ Conn(c)' = s
  BY <1>1 DEF Serves, Conn
<1>3. ASSUME link[c] # NoSlot PROVE Serving(s) /\ s \in Session
  BY <1>1, <1>3, LinkedSession
<1>4. LinkFits(c)'
  <2> SUFFICES ASSUME link[c] # NoSlot, replica[c].status = "ready"
               PROVE  /\ call'[s].kind # "sync"
                      /\ \A m \in Letters(s)' : m.kind # "sync_error"
    <3>1. Letters(Conn(c))' = Letters(s)' /\ call'[Conn(c)'] = call'[s]
      BY <1>2 DEF Letters
    <3> QED
      BY <1>2, <3>1 DEF LinkFits
  <2>1. call[s].kind # "sync" /\ \A m \in Letters(s) : m.kind # "sync_error"
    BY <1>1 DEF LinkFits
  <2> QED
    BY <1>3, <2>1 DEF Serving
<1>5. Down(c) => Down(c)'
  <2>1. Letters(Conn(c))' = Letters(s)'
    BY <1>2 DEF Letters
  <2> QED
    BY <1>1, <1>2, <1>3, <2>1 DEF Down, Serving
<1>6. ASSUME ~Down(c), ~Down(c)', NEW d \in Doc, Has(replica[c], d) PROVE ItemFits(c, d)'
  <2>1. ItemFits(c, d)
    BY <1>6 DEF ClientFits
  <2>2. Grows(d)
    BY ServedGrows
  <2>3. ASSUME link[c] # NoSlot
        PROVE  /\ Denied(s, d) => Denied(s, d)'
               /\ Hears(s, d) \subseteq Hears(s, d)'
               /\ \A m \in Sent(s) :
                     m.kind = "change" /\ m.id = d => m \in Sent(s)' \/ Resolved(s, m)
               /\ replica[c].status = "ready" /\ Live(d) /\ ~Live(d)' =>
                     \E m \in Hears(s, d)' : m.data = Null
    <3>1. Serving(s) /\ Joins(s)
      BY <1>1, <1>3, <1>6, <2>3, LinkedJoins
    <3>2. replica[c].status = "ready" => s \notin joining
      BY <1>1, <2>3, <3>1 DEF LinkFits, Joins
    <3>3. Letters(s) \subseteq Letters(s)'
      BY <3>1 DEF Serving
    <3>4. /\ Denied(s, d) => Denied(s, d)'
          /\ Hears(s, d) \subseteq Hears(s, d)'
      BY <3>3 DEF Denied, Hears
    <3> QED
      BY <3>1, <3>2, <3>4 DEF Serving
  <2>4. /\ Denied(s, d)' <=> Denied(Conn(c), d)'
        /\ Hears(s, d)' = Hears(Conn(c), d)'
        /\ Sent(s)' = Sent(Conn(c))'
    BY <1>2 DEF Denied, Hears, Sent, Letters
  <2>5. Undisturbed(c, d)
    BY <1>1, <1>2, <2>2, <2>3, <2>4 DEF Undisturbed, Late
  <2> QED
    BY <1>6, <2>1, <2>5, FitsKept
<1>7. \A d \in Doc : Has(replica[c], d)' <=> Has(replica[c], d)
  BY <1>2 DEF Has
<1> QED
  BY <1>4, <1>5, <1>6, <1>7 DEF ClientFits

LEMMA ServedCreation ==
    ASSUME OneCreation, Serves
    PROVE  OneCreation'
<1>1. \A s \in Session : \A m \in Sent(s)' : m \in Sent(s) \/ m.kind # "change"
  BY DEF Serves, NoCall
<1> QED
  BY <1>1 DEF OneCreation, Wants

LEMMA ServedCalm ==
    ASSUME SyncInv, FP!FollowInv, FP!FollowInv', \A c \in Client : FP!GoneInv(c)', CalmFits,
           (\E s \in Session : Healthy(s)) \/ (\E d \in Doc : ApiStep(d))
    PROVE  CalmFits'
<1>1. Serves /\ UNCHANGED link
  <2>1. CASE \E s \in Session : Healthy(s)
    BY <2>1, SessionServes DEF Healthy, SessionStep
  <2>2. CASE \E d \in Doc : ApiStep(d)
    BY <2>2, ApiServes DEF ApiStep, ApiRead, ApiUpdate, ApiDelete, ApiLock
  <2> QED
    BY <2>1, <2>2
<1>2. ASSUME NEW c \in Client PROVE LinkFits(c)' /\ ClientFits(c)'
  <2>1. link[c] # NoSlot => Serving(Conn(c))
    BY LinkedSession, HealthyServing, ApiServing
  <2> QED
    BY <1>1, <2>1, ServedFits DEF CalmFits
<1> QED
  BY <1>1, <1>2, ServedCreation DEF CalmFits

-----------------------------------------------------------------------------
(* The other clients *)

\* A step is of client c, and does not concern client b.
Beside(c, b) ==
    /\ UNCHANGED docs /\ replica'[b] = replica[b] /\ link'[b] = link[b]
    /\ \A n \in Slot :
          /\ wire'[<<b, n>>] = wire[<<b, n>>] /\ mailbox'[<<b, n>>] = mailbox[<<b, n>>]
          /\ call'[<<b, n>>] = call[<<b, n>>] /\ toServer'[<<b, n>>] = toServer[<<b, n>>]

LEMMA ClientBeside ==
    ASSUME SyncInv, NEW c \in Client, ClientStep(c) \/ UserStep(c), NEW b \in Client, b # c
    PROVE  Beside(c, b)
<1>1. SyncTypeOK /\ TypeOK
  BY DEF SyncInv, SyncTypeOK
<1>2. PICK k \in Replica : Moved(c, k)
  BY ClientMoves DEF Moves
<1>3. PICK l : /\ replica' = [replica EXCEPT ![c] = l]
              /\ \/ UNCHANGED toServer
                 \/ \E msgs : toServer' = [toServer EXCEPT ![Conn(c)] = @ \o msgs]
  BY <1>2 DEF Moved, Posted
<1>4. UNCHANGED docs /\ replica'[b] = replica[b]
  BY <1>1, <1>2, <1>3 DEF Moved, Framed, SyncTypeOK
<1>5. \A n \in Slot : <<b, n>> # Conn(c) /\ <<b, n>> \in Session
  BY SyncAssumption DEF Conn
<1>6. \A n \in Slot : toServer'[<<b, n>>] = toServer[<<b, n>>]
  BY <1>1, <1>3, <1>5 DEF SyncTypeOK
<1>7. /\ link'[b] = link[b]
      /\ \A n \in Slot :
            /\ wire'[<<b, n>>] = wire[<<b, n>>] /\ mailbox'[<<b, n>>] = mailbox[<<b, n>>]
            /\ call'[<<b, n>>] = call[<<b, n>>]
  <2>1. CASE UNCHANGED <<colVars, link>>
    BY <2>1 DEF colVars, channels
  <2>2. CASE Receive(Conn(c)) /\ UNCHANGED link
    BY <1>1, <1>5, <2>2 DEF Receive, TypeOK
  <2>3. CASE Drop(c)
    BY <1>1, <1>5, <2>3 DEF Drop, Close, SyncTypeOK, TypeOK
  <2>4. CASE Open(c)
    <3>1. PICK n \in Slot : Connect(<<c, n>>, replica[c].colrev) /\ link' = [link EXCEPT ![c] = n]
      BY <2>4 DEF Open
    <3> QED
      BY <1>1, <3>1 DEF Connect, SyncTypeOK, TypeOK
  <2>5. UserStep(c) => UNCHANGED <<colVars, link>>
    BY DEF UserStep, UserCreate, UserChange, UserDelete
  <2> QED
    BY <2>1, <2>2, <2>3, <2>4, <2>5 DEF ClientStep, OnClose, FlushTimer, OnSyncComplete,
                                       OnSyncError, OnMessage
<1> QED
  BY <1>4, <1>6, <1>7 DEF Beside

LEMMA OthersFit ==
    ASSUME SyncInv, FP!FollowInv', OneCreation, NEW c \in Client, NEW b \in Client,
           Beside(c, b), FP!GoneInv(b)', LinkFits(b), ClientFits(b)
    PROVE  LinkFits(b)' /\ ClientFits(b)'
<1>1. PICK s : s = Conn(b)
  OBVIOUS
<1>2. replica'[b] = replica[b] /\ link'[b] = link[b] /\ Conn(b)' = s
  BY <1>1 DEF Beside, Conn
<1>3. ASSUME link[b] # NoSlot
      PROVE  Letters(s)' = Letters(s) /\ Sent(s)' = Sent(s) /\ call'[s] = call[s]
  <2>1. link[b] \in Slot /\ s = <<b, link[b]>>
    BY <1>1, <1>3 DEF SyncInv, SyncTypeOK, Conn
  <2> QED
    BY <2>1 DEF Beside, Letters, Sent
<1>4. /\ Letters(Conn(b))' = Letters(s)' /\ call'[Conn(b)'] = call'[s]
      /\ \A d \in Doc : /\ Denied(s, d)' <=> Denied(Conn(b), d)'
                        /\ Hears(s, d)' = Hears(Conn(b), d)'
      /\ Sent(s)' = Sent(Conn(b))'
  BY <1>2 DEF Denied, Hears, Sent, Letters
<1>5. LinkFits(b)'
  BY <1>1, <1>2, <1>3, <1>4 DEF LinkFits
<1>6. Down(b) => Down(b)'
  BY <1>1, <1>2, <1>3, <1>4 DEF Down
<1>7. ASSUME ~Down(b), ~Down(b)', NEW d \in Doc, Has(replica[b], d) PROVE ItemFits(b, d)'
  <2>1. ItemFits(b, d)
    BY <1>7 DEF ClientFits
  <2>2. Grows(d) /\ (Live(d)' <=> Live(d))
    BY SameGrows DEF Beside, Live
  <2>3. ASSUME link[b] # NoSlot
        PROVE  /\ Denied(s, d) => Denied(s, d)'
               /\ Hears(s, d) \subseteq Hears(s, d)'
               /\ \A m \in Sent(s) : m \in Sent(s)'
    BY <1>3, <2>3 DEF Denied, Hears
  <2>4. Undisturbed(b, d)
    BY <1>1, <1>2, <1>4, <2>2, <2>3 DEF Undisturbed, Late
  <2> QED
    BY <1>7, <2>1, <2>4, FitsKept
<1>8. \A d \in Doc : Has(replica[b], d)' <=> Has(replica[b], d)
  BY <1>2 DEF Has
<1> QED
  BY <1>5, <1>6, <1>7, <1>8 DEF ClientFits

-----------------------------------------------------------------------------
(* What a client sends of its documents *)

\* Client c, about to become k, sends all that is queued there, or will.
Flushes(c, k) ==
    LET l == replica'[c] IN
    /\ l.status = k.status /\ l.stopped = k.stopped /\ (l.flushTimer => k.status = "ready")
    /\ \A d \in Doc : Has(l, d) => Has(k, d)
    /\ \A d \in Doc : Has(k, d) =>
          \/ /\ l.items[d] = k.items[d] /\ (d \in l.flushQueue <=> d \in k.flushQueue)
             /\ d \in l.flushQueue => Late(l, d)
          \/ /\ d \in k.flushQueue /\ d \notin l.flushQueue /\ k.status = "ready"
             /\ l.items[d] = [k.items[d] EXCEPT !.state = "sent"]
             /\ FlushMessage(d, k.items[d]) \in Range(toServer'[Conn(c)])
    /\ \A s \in Session :
          /\ Range(toServer[s]) \subseteq Range(toServer'[s])
          /\ \A m \in Range(toServer'[s]) :
                \/ m \in Range(toServer[s])
                \/ /\ k.status = "ready"
                   /\ \E d \in Doc : /\ d \in k.flushQueue /\ Has(k, d)
                                     /\ m = FlushMessage(d, k.items[d])

LEMMA FlushesLater ==
    ASSUME SyncTypeOK, NEW c \in Client, NEW k \in Replica, NEW j \in Replica,
           j.items = k.items, j.flushQueue = k.flushQueue, j.status = k.status,
           j.stopped = k.stopped, Become(c, j), UNCHANGED toServer,
           j.flushTimer \/ k.status # "ready", j.flushTimer => k.status = "ready"
    PROVE  Flushes(c, k)
<1>1. replica'[c] = j
  BY DEF Become, SyncTypeOK
<1>2. \A d \in Doc : Has(j, d) <=> Has(k, d)
  BY DEF Has
<1> QED
  BY <1>1, <1>2 DEF Flushes, Late

LEMMA FlushesNow ==
    ASSUME SyncTypeOK, NEW c \in Client, NEW k \in Replica, NEW j \in Replica,
           j.items = k.items, j.flushQueue = k.flushQueue, j.status = k.status,
           j.stopped = k.stopped, k.status = "ready", link[c] # NoSlot, FlushFrom(c, j)
    PROVE  Flushes(c, k)
<1>1. PICK order \in SetToSeqs(ToFlush(j)) :
         /\ Become(c, Flush(j))
         /\ Send(c, [i \in DOMAIN order |-> FlushMessage(order[i], j.items[order[i]])])
  BY DEF FlushFrom
<1>2. PICK msgs : msgs = [i \in DOMAIN order |-> FlushMessage(order[i], j.items[order[i]])]
  OBVIOUS
<1>3. /\ msgs \in Seq(ClientMessage)
      /\ \A m \in Range(msgs) :
            \E d \in ToFlush(j) : Has(j, d) /\ m = FlushMessage(d, j.items[d])
  BY <1>2, FlushMessages, CollectionAssumption
<1>4. \A d \in ToFlush(j) : FlushMessage(d, j.items[d]) \in Range(msgs)
  BY <1>2, FlushSends, CollectionAssumption
<1>5. replica'[c] = Flush(j)
  BY <1>1 DEF Become, SyncTypeOK
<1>6. PICK l : l = Flush(j)
  OBVIOUS
<1>7. /\ l.flushQueue = {} /\ l.status = k.status /\ l.stopped = k.stopped
      /\ \A d \in Doc : l.items[d] = IF d \in ToFlush(j)
                                     THEN [k.items[d] EXCEPT !.state = "sent"]
                                     ELSE k.items[d]
  BY <1>6, FlushLeaves, FlushFacts DEF Alike
<1>8. \A d \in Doc : d \in ToFlush(j) <=> d \in k.flushQueue /\ Has(k, d)
  BY DEF ToFlush, Has
<1>9. \A d \in Doc : Has(l, d) <=> Has(k, d)
  BY <1>6, FlushFacts DEF Alike, Has
<1>10. Conn(c) \in Session /\ toServer'[Conn(c)] = toServer[Conn(c)] \o msgs
       /\ \A s \in Session : s # Conn(c) => toServer'[s] = toServer[s]
  BY <1>1, <1>2, SyncAssumption DEF Send, SyncTypeOK, Conn
<1>11. Range(toServer'[Conn(c)]) = Range(toServer[Conn(c)]) \cup Range(msgs)
  BY <1>3, <1>10, RangeConcatenation DEF SyncTypeOK
<1>12. ASSUME NEW d \in Doc, Has(k, d)
       PROVE  \/ /\ l.items[d] = k.items[d] /\ (d \in l.flushQueue <=> d \in k.flushQueue)
                 /\ d \in l.flushQueue => Late(l, d)
              \/ /\ d \in k.flushQueue /\ d \notin l.flushQueue /\ k.status = "ready"
                 /\ l.items[d] = [k.items[d] EXCEPT !.state = "sent"]
                 /\ FlushMessage(d, k.items[d]) \in Range(toServer'[Conn(c)])
  <2>1. CASE d \in ToFlush(j)
    BY <1>4, <1>7, <1>8, <1>11, <2>1
  <2>2. CASE d \notin ToFlush(j)
    BY <1>7, <1>8, <1>12, <2>2
  <2> QED
    BY <2>1, <2>2
<1>13. ASSUME NEW s \in Session
       PROVE  /\ Range(toServer[s]) \subseteq Range(toServer'[s])
              /\ \A m \in Range(toServer'[s]) :
                    \/ m \in Range(toServer[s])
                    \/ /\ k.status = "ready"
                       /\ \E d \in Doc : /\ d \in k.flushQueue /\ Has(k, d)
                                         /\ m = FlushMessage(d, k.items[d])
  <2>1. \A m \in Range(msgs) :
           \E d \in Doc : d \in k.flushQueue /\ Has(k, d) /\ m = FlushMessage(d, k.items[d])
    BY <1>3 DEF ToFlush, Has, Replica
  <2> QED
    BY <1>10, <1>11, <2>1
<1> QED
  BY <1>5, <1>6, <1>7, <1>9, <1>12, <1>13 DEF Flushes

LEMMA FlushOutcome ==
    ASSUME SyncTypeOK, NEW c \in Client, NEW k \in Replica,
           k.status = "ready" => link[c] # NoSlot, k.flushTimer => k.status = "ready",
           \/ FlushFrom(c, k) /\ k.status = "ready"
           \/ FlushNow(c, k) \/ FlushSoon(c, k)
    PROVE  Flushes(c, k)
<1>1. ASSUME NEW b \in BOOLEAN, NEW j, j = [k EXCEPT !.flushTimer = b]
      PROVE  /\ j \in Replica /\ j.flushTimer = b /\ j.items = k.items
             /\ j.flushQueue = k.flushQueue /\ j.status = k.status /\ j.stopped = k.stopped
  BY <1>1 DEF Replica
<1>2. CASE FlushFrom(c, k) /\ k.status = "ready"
  BY <1>2, FlushesNow
<1>3. CASE FlushNow(c, k) /\ k.status = "ready"
  <2>1. PICK j : j = [k EXCEPT !.flushTimer = FALSE]
    OBVIOUS
  <2>2. /\ j \in Replica /\ j.items = k.items /\ j.flushQueue = k.flushQueue
        /\ j.status = k.status /\ j.stopped = k.stopped
    BY <1>1, <2>1
  <2>3. FlushFrom(c, j)
    BY <1>3, <2>1 DEF FlushNow
  <2> QED
    BY <1>3, <2>2, <2>3, FlushesNow
<1>4. CASE FlushNow(c, k) /\ k.status # "ready"
  BY <1>4, FlushesLater DEF FlushNow
<1>5. CASE FlushSoon(c, k)
  <2>1. (k.flushTimer \/ k.status = "ready") \in BOOLEAN
    BY DEF Replica
  <2>2. PICK j : j = [k EXCEPT !.flushTimer = k.flushTimer \/ k.status = "ready"]
    OBVIOUS
  <2>3. /\ j \in Replica /\ j.flushTimer = (k.flushTimer \/ k.status = "ready")
        /\ j.items = k.items /\ j.flushQueue = k.flushQueue
        /\ j.status = k.status /\ j.stopped = k.stopped
    BY <1>1, <2>1, <2>2
  <2>4. Become(c, j) /\ UNCHANGED toServer
    BY <1>5, <2>2 DEF FlushSoon
  <2>5. (j.flushTimer \/ k.status # "ready") /\ (j.flushTimer => k.status = "ready")
    BY <2>3
  <2> QED
    BY <2>3, <2>4, <2>5, FlushesLater
<1> QED
  BY <1>2, <1>3, <1>4, <1>5

LEMMA FlushKinds ==
    ASSUME NEW k \in Replica, NEW d \in Doc
    PROVE  LET i == k.items[d]
               m == FlushMessage(d, k.items[d])
           IN  /\ i.local = Null /\ i.remote # Null => Wants(m, "-", d)
               /\ i.local # Null /\ i.remote = Null => Wants(m, "+", d) /\ m.data = i.local
               /\ i.local # Null /\ i.remote # Null =>
                     Wants(m, "*", d) /\ m.data = i.local \ i.remote
               /\ \A e : Wants(m, "+", e) => e = d /\ i.remote = Null
<1> DEFINE i == k.items[d]
           m == FlushMessage(d, k.items[d])
<1>1. CASE i.local # Null /\ i.remote = Null
  BY <1>1 DEF FlushMessage, Change, Wants
<1>2. CASE i.local = Null /\ i.remote # Null
  BY <1>2 DEF FlushMessage, Change, Wants
<1>3. CASE i.local # Null /\ i.remote # Null
  BY <1>3 DEF FlushMessage, Change, Wants, UpdateSince
<1>4. CASE i.local = Null /\ i.remote = Null
  BY <1>4 DEF FlushMessage, Wants
<1> QED
  BY <1>1, <1>2, <1>3, <1>4

-----------------------------------------------------------------------------
(* A client that queues and sends *)

\* Of document d client c has in k what it had, or something to send; and what the
\* server does not know of, nobody has sent.
Carried(c, k, d) ==
    /\ Has(replica[c], d) /\ k.items[d] = replica[c].items[d]
    /\ d \in k.flushQueue <=> d \in replica[c].flushQueue

Written(c, k, d) ==
    /\ d \in k.flushQueue /\ Formed(k.items[d]) /\ k.items[d].state # "sent"
    /\ k.items[d].remote = Null => Unknown(d)

\* Client c is to become k, with which it may send.
Readies(c, k) ==
    /\ k.stopped = replica[c].stopped /\ (replica[c].status = "ready" => k.status = "ready")
    /\ link[c] = NoSlot => k.status = replica[c].status
    /\ link[c] # NoSlot => k.status \in {"connected", "ready"}
    /\ k.status = "ready" => /\ link[c] # NoSlot /\ call[Conn(c)].kind # "sync"
                             /\ \A m \in Letters(Conn(c)) : m.kind # "sync_error"
    /\ ~Down(c) => \A d \in Doc : Has(k, d) => Carried(c, k, d) \/ Written(c, k, d)

\* A client reads nothing, or that its sync is complete.
ReadsOnlySync ==
    /\ UNCHANGED <<docs, link, call, mailbox>>
    /\ \A s \in Session :
          /\ Range(wire'[s]) \subseteq Range(wire[s])
          /\ \A m \in Range(wire[s]) : m.kind # "sync_complete" => m \in Range(wire'[s])

LEMMA FlushCreation ==
    ASSUME OneCreation, ReadsOnlySync, NEW c \in Client, NEW k \in Replica, Flushes(c, k),
           \A d \in Doc : k.status = "ready" /\ d \in k.flushQueue /\ Has(k, d)
                             /\ k.items[d].remote = Null => Unknown(d)
    PROVE  OneCreation'
<1>1. ASSUME NEW u \in Session, NEW m \in Sent(u)', NEW d \in Doc, Wants(m, "+", d)
      PROVE  m \in Sent(u) \/ (Unknown(d) /\ m = FlushMessage(d, k.items[d]))
  <2>1. CASE m = call'[u]
    BY <2>1 DEF ReadsOnlySync, Sent
  <2>2. CASE m \in Range(toServer'[u]) /\ m \notin Range(toServer[u])
    <3>1. PICK e \in Doc : /\ k.status = "ready" /\ e \in k.flushQueue /\ Has(k, e)
                           /\ m = FlushMessage(e, k.items[e])
      BY <2>2 DEF Flushes
    <3>2. d = e /\ k.items[e].remote = Null
      BY <1>1, <3>1, FlushKinds
    <3> QED
      BY <3>1, <3>2
  <2> QED
    BY <1>1, <2>1, <2>2 DEF Sent
<1>2. ASSUME NEW u \in Session, NEW m \in Sent(u), NEW d \in Doc, Wants(m, "+", d)
      PROVE  ~Unknown(d)
  BY <1>2 DEF Unknown, Wants
<1> SUFFICES ASSUME NEW u \in Session, NEW t \in Session, NEW m \in Sent(u)', NEW n \in Sent(t)',
                    NEW d \in Doc, Wants(m, "+", d), Wants(n, "+", d)
             PROVE  m = n
  BY DEF OneCreation, Wants
<1>3. /\ m \in Sent(u) \/ (Unknown(d) /\ m = FlushMessage(d, k.items[d]))
      /\ n \in Sent(t) \/ (Unknown(d) /\ n = FlushMessage(d, k.items[d]))
  BY <1>1
<1> QED
  BY <1>2, <1>3 DEF OneCreation

LEMMA FlushFits ==
    ASSUME SyncInv, FP!FollowInv', OneCreation, YoungAlone, NEW c \in Client, FP!GoneInv(c)',
           LinkFits(c), ClientFits(c), NEW k \in Replica, Readies(c, k), Flushes(c, k),
           ReadsOnlySync
    PROVE  OneCreation' /\ LinkFits(c)' /\ ClientFits(c)'
<1>1. PICK s : s = Conn(c)
  OBVIOUS
<1>2. PICK l : l = replica'[c]
  OBVIOUS
<1>3. UNCHANGED <<docs, link, call>> /\ Conn(c)' = s
  BY <1>1 DEF ReadsOnlySync, Conn
<1>4. ASSUME NEW t \in Session
      PROVE  /\ Letters(t)' \subseteq Letters(t) /\ Sent(t) \subseteq Sent(t)'
             /\ \A m \in Letters(t) : m.kind # "sync_complete" => m \in Letters(t)'
  BY DEF ReadsOnlySync, Flushes, Letters, Sent
<1>5. link[c] # NoSlot => s \in Session
  BY <1>1, LinkedSession
<1>6. /\ Letters(Conn(c))' = Letters(s)' /\ call'[Conn(c)'] = call'[s]
      /\ \A d \in Doc : /\ Denied(s, d)' <=> Denied(Conn(c), d)'
                        /\ Hears(s, d)' = Hears(Conn(c), d)'
      /\ Sent(s)' = Sent(Conn(c))'
  BY <1>3 DEF Denied, Hears, Sent, Letters
<1>7. k.status = "ready" => ~Down(c)
  BY DEF Readies, Down
<1>8. ASSUME ~Down(c), NEW d \in Doc, d \in k.flushQueue, Has(k, d)
      PROVE  Formed(k.items[d]) /\ (k.items[d].remote = Null => Unknown(d))
  <2>1. CASE Written(c, k, d)
    BY <2>1 DEF Written
  <2>2. CASE Carried(c, k, d)
    <3>1. ItemFits(c, d)
      BY <1>8, <2>2 DEF ClientFits, Carried
    <3>2. k.items[d].remote = Null => Young(c, d)
      BY <1>8, <2>2, <3>1 DEF ItemFits, Carried, Young, Remote
    <3> QED
      BY <2>2, <3>1, <3>2 DEF ItemFits, Carried, YoungAlone
  <2> QED
    BY <1>8, <2>1, <2>2 DEF Readies
<1>9. OneCreation'
  BY <1>7, <1>8, FlushCreation
<1>10. LinkFits(c)'
  <2>1. /\ l.status = k.status /\ l.stopped = replica[c].stopped
        /\ l.flushTimer => l.status = "ready"
    BY <1>2 DEF Flushes, Readies
  <2>2. l.status = "ready" => /\ link[c] # NoSlot /\ call[s].kind # "sync"
                              /\ \A m \in Letters(s)' : m.kind # "sync_error"
    BY <1>1, <1>4, <1>5, <2>1 DEF Readies
  <2>3. link[c] = NoSlot => l.status = replica[c].status
    BY <2>1 DEF Readies
  <2>4. link[c] # NoSlot => l.status \in {"connected", "ready"}
    BY <2>1 DEF Readies
  <2> QED
    BY <1>2, <1>3, <1>6, <2>1, <2>2, <2>3, <2>4 DEF LinkFits
<1>11. Down(c) => Down(c)'
  <2>1. l.stopped = replica[c].stopped
    BY <1>2 DEF Flushes, Readies
  <2>2. link[c] # NoSlot => \A m \in Letters(s) : m.kind = "sync_error" => m \in Letters(s)'
    BY <1>4, <1>5
  <2> QED
    BY <1>1, <1>2, <1>3, <1>6, <2>1, <2>2 DEF Down
<1>12. ASSUME ~Down(c), ~Down(c)', NEW d \in Doc, Has(l, d) PROVE ItemFits(c, d)'
  <2>1. Has(k, d)
    BY <1>2, <1>12 DEF Flushes
  <2>2. CASE /\ l.items[d] = k.items[d] /\ (d \in l.flushQueue <=> d \in k.flushQueue)
             /\ d \in l.flushQueue => Late(l, d)
    <3>1. CASE Carried(c, k, d)
      <4>1. ItemFits(c, d)
        BY <1>12, <3>1 DEF ClientFits, Carried
      <4>2. Grows(d) /\ (Live(d)' <=> Live(d))
        BY <1>3, SameGrows DEF Live
      <4>3. ASSUME link[c] # NoSlot
            PROVE  /\ Denied(s, d) => Denied(s, d)'
                   /\ Hears(s, d) \subseteq Hears(s, d)'
                   /\ \A m \in Sent(s) : m \in Sent(s)'
        BY <1>4, <1>5, <4>3 DEF Denied, Hears, ChangeError
      <4>4. replica[c].status = "ready" => l.status = "ready"
        BY <1>2 DEF Flushes, Readies
      <4>5. Late(replica[c], d) => Late(l, d)
        BY <2>2, <3>1 DEF Late, Carried
      <4>6. l.items[d] = replica[c].items[d]
            /\ (d \in l.flushQueue => d \in replica[c].flushQueue)
        BY <2>2, <3>1 DEF Carried
      <4>7. Undisturbed(c, d)
        BY <1>1, <1>2, <1>3, <1>6, <4>2, <4>3, <4>4, <4>5, <4>6 DEF Undisturbed
      <4> QED
        BY <1>12, <4>1, <4>7, FitsKept
    <3>2. CASE Written(c, k, d)
      <4>1. Late(l, d)
        BY <2>2, <3>2 DEF Written
      <4>2. Settling(c, d)'
        BY <1>2, <4>1 DEF Settling, DeletionComes, CreationComes, EditComes, WordComes
      <4> QED
        BY <1>2, <2>2, <3>2, <4>2 DEF ItemFits, Written, Formed
    <3> QED
      BY <1>12, <2>1, <3>1, <3>2 DEF Readies
  <2>3. CASE /\ d \in k.flushQueue /\ d \notin l.flushQueue /\ k.status = "ready"
             /\ l.items[d] = [k.items[d] EXCEPT !.state = "sent"]
             /\ FlushMessage(d, k.items[d]) \in Range(toServer'[Conn(c)])
    <3>1. PICK i : i = k.items[d]
      OBVIOUS
    <3>2. PICK m : m = FlushMessage(d, i)
      OBVIOUS
    <3>3. i \in Item /\ Formed(i) /\ (i.remote = Null => ~Exists(d)')
      BY <1>3, <1>12, <2>1, <2>3, <1>8, <3>1, ItemTypes DEF Unknown, Exists
    <3>4. PICK j : j = l.items[d]
      OBVIOUS
    <3>5. j.local = i.local /\ j.remote = i.remote /\ j.state = "sent"
      BY <2>3, <3>1, <3>3, <3>4 DEF Item
    <3>6. link'[c] # NoSlot /\ l.status = "ready" /\ m \in Sent(s)'
      BY <1>1, <1>2, <1>3, <2>3, <3>1, <3>2 DEF Readies, Flushes, Sent
    <3>7. /\ i.local = Null /\ i.remote # Null => Wants(m, "-", d)
          /\ i.local # Null /\ i.remote = Null => Wants(m, "+", d) /\ m.data = i.local
          /\ i.local # Null /\ i.remote # Null =>
                Wants(m, "*", d) /\ m.data = i.local \ i.remote
      BY <3>1, <3>2, FlushKinds
    <3>8. /\ replica'[c].items[d] = j /\ Local(c, d)' = i.local
          /\ Sent(Conn(c))' = Sent(s)'
      BY <1>2, <1>6, <3>4, <3>5 DEF Local
    <3>9. i.local = Null => DeletionComes(c, d)'
      BY <1>2, <3>3, <3>6, <3>7, <3>8 DEF DeletionComes, Formed
    <3>10. i.remote = Null => CreationComes(c, d)'
      BY <1>2, <3>3, <3>6, <3>7, <3>8 DEF CreationComes, Formed
    <3>11. i.local # Null /\ i.remote # Null =>
              \A e \in i.local \ i.remote : EditComes(c, d, e)'
      BY <3>6, <3>7, <3>8 DEF EditComes
    <3>12. i.local = i.remote => WordComes(c, d)'
      BY <3>3, <3>6, <3>7, <3>8 DEF WordComes, Formed
    <3>13. Settling(c, d)'
      BY <3>5, <3>8, <3>9, <3>10, <3>11, <3>12 DEF Settling
    <3>14. Formed(j)
      BY <3>3, <3>5 DEF Formed
    <3> QED
      BY <1>2, <2>3, <3>4, <3>13, <3>14 DEF ItemFits, Formed
  <2> QED
    BY <1>2, <2>1, <2>2, <2>3 DEF Flushes
<1> QED
  BY <1>2, <1>9, <1>10, <1>11, <1>12 DEF ClientFits, Has

-----------------------------------------------------------------------------
(* What a user does *)

LEMMA StillReadsNothing ==
    ASSUME UNCHANGED <<colVars, link>>
    PROVE  ReadsOnlySync
BY DEF ReadsOnlySync, colVars, storage, channels

\* Of all documents, client c is to send d.
LEMMA WrittenReadies ==
    ASSUME NEW c \in Client, LinkFits(c), NEW k, NEW d \in Doc, Alters(replica[c], k, d),
           QueuesAs(replica[c], k, d), d \in k.flushQueue, ~Down(c) => Written(c, k, d)
    PROVE  /\ Readies(c, k) /\ k \in Replica
           /\ k.status = "ready" => link[c] # NoSlot
           /\ k.flushTimer => k.status = "ready"
<1>1. /\ k.stopped = replica[c].stopped /\ k.status = replica[c].status
      /\ k.flushTimer = replica[c].flushTimer /\ k \in Replica
  BY DEF Alters, QueuesAs
<1>2. ASSUME NEW e \in Doc, Has(k, e), ~Down(c) PROVE Carried(c, k, e) \/ Written(c, k, e)
  BY <1>2 DEF Alters, QueuesAs, Carried, Has
<1> QED
  BY <1>1, <1>2 DEF Readies, LinkFits

\* What becomes of a client that queues a document, or sends what is queued.
LEMMA WrittenFits ==
    ASSUME SyncInv, FP!FollowInv', OneCreation, YoungAlone, NEW c \in Client, FP!GoneInv(c)',
           LinkFits(c), ClientFits(c), UNCHANGED <<colVars, link>>, NEW k, NEW d \in Doc,
           Alters(replica[c], k, d), QueuesAs(replica[c], k, d), d \in k.flushQueue,
           ~Down(c) => Written(c, k, d), FlushNow(c, k) \/ FlushSoon(c, k)
    PROVE  OneCreation' /\ LinkFits(c)' /\ ClientFits(c)'
<1>1. /\ Readies(c, k) /\ k \in Replica
      /\ k.status = "ready" => link[c] # NoSlot
      /\ k.flushTimer => k.status = "ready"
  BY WrittenReadies
<1>2. Flushes(c, k)
  BY <1>1, FlushOutcome DEF SyncInv
<1> QED
  BY <1>1, <1>2, StillReadsNothing, FlushFits

LEMMA CreateFits ==
    ASSUME SyncInv, FP!FollowInv', OneCreation, YoungAlone, NEW c \in Client, FP!GoneInv(c)',
           LinkFits(c), ClientFits(c), NEW d \in Doc, NEW e \in Edit, UserCreate(c, d, e)
    PROVE  OneCreation' /\ LinkFits(c)' /\ ClientFits(c)'
<1>1. PICK k : k = Create(replica[c], d, {e})
  OBVIOUS
<1>2. replica[c] \in Replica /\ {e} \in Version
  BY DEF SyncInv, SyncTypeOK, Version
<1>3. /\ Alters(replica[c], k, d)
      /\ k.items[d] = [remote |-> Null, local |-> {e}, state |-> "changed"]
  BY <1>1, <1>2, CreateFacts
<1>4. QueuesAs(replica[c], k, d) /\ d \in k.flushQueue
  BY <1>1, <1>2, PutQueues DEF Create
<1>5. Unknown(d)
  <2>1. d \notin born
    BY DEF UserCreate
  <2> QED
    BY <2>1 DEF SyncInv, Born, Pinned, Unknown
<1>6. Written(c, k, d)
  BY <1>2, <1>3, <1>4, <1>5, NullAssumption DEF Written, Formed, Version
<1> QED
  BY <1>1, <1>3, <1>4, <1>6, WrittenFits DEF UserCreate

LEMMA ChangeFits ==
    ASSUME SyncInv, FP!FollowInv', OneCreation, YoungAlone, NEW c \in Client, FP!GoneInv(c)',
           LinkFits(c), ClientFits(c), NEW d \in Doc, NEW e \in Edit, UserChange(c, d, e),
           ~BeingCreated(c, d)
    PROVE  OneCreation' /\ LinkFits(c)' /\ ClientFits(c)'
<1>1. PICK k : k = Edited(replica[c], d, e)
  OBVIOUS
<1>2. /\ replica[c] \in Replica /\ Blank(replica[c]) /\ CanEdit(replica[c], d)
      /\ Local(c, d) \in Version /\ Remote(c, d) \in Data
  BY ItemTypes DEF SyncInv, SyncTypeOK, UserChange, CanEdit, Local, Remote
<1>3. /\ Alters(replica[c], k, d) /\ k.items[d].remote = Remote(c, d)
      /\ k.items[d].local = Local(c, d) \cup {e} /\ k.items[d].state = "changed"
  BY <1>1, <1>2, EditedFacts DEF Local, Remote
<1>4. QueuesAs(replica[c], k, d) /\ d \in k.flushQueue
  BY <1>1, <1>2, PutQueues DEF Edited
<1>5. Has(replica[c], d)
  BY <1>2 DEF Blank, CanEdit, Absent
<1>6. k.items[d].local # Null
  BY <1>2, <1>3, NullAssumption DEF Version
<1>7. Remote(c, d) = Null => Unknown(d)
  BY <1>5 DEF YoungAlone, Young, BeingCreated
<1>8. ~Down(c) => Written(c, k, d)
  <2> SUFFICES ASSUME ~Down(c) PROVE Formed(k.items[d])
    BY <1>3, <1>4, <1>7 DEF Written
  <2>1. Formed(replica[c].items[d])
    BY <1>5 DEF ClientFits, ItemFits
  <2>2. Remote(c, d) # Null => Remote(c, d) \subseteq Local(c, d)
    BY <1>2, <2>1 DEF Formed, CanEdit, Remote, Local
  <2> QED
    BY <1>3, <1>6, <2>2 DEF Formed
<1> QED
  BY <1>1, <1>3, <1>4, <1>8, WrittenFits DEF UserChange

\* A document that the server has not acknowledged is dropped.
LEMMA DropFits ==
    ASSUME SyncInv, FP!FollowInv', OneCreation, NEW c \in Client, FP!GoneInv(c)',
           LinkFits(c), ClientFits(c), UNCHANGED <<colVars, link, toServer>>,
           NEW k \in Replica, NEW d \in Doc, Alters(replica[c], k, d), ~Has(k, d),
           k.flushQueue = replica[c].flushQueue, k.flushTimer = replica[c].flushTimer,
           Become(c, k)
    PROVE  OneCreation' /\ LinkFits(c)' /\ ClientFits(c)'
<1>1. PICK s : s = Conn(c)
  OBVIOUS
<1>2. /\ replica'[c] = k /\ Conn(c)' = s /\ UNCHANGED <<docs, call, wire, mailbox, toServer>>
      /\ k.status = replica[c].status /\ k.stopped = replica[c].stopped
  BY <1>1 DEF Become, SyncInv, SyncTypeOK, Conn, colVars, storage, channels, Alters
<1>3. /\ Letters(Conn(c))' = Letters(s) /\ call'[Conn(c)'] = call[s]
      /\ \A b \in Doc : /\ Denied(s, b) <=> Denied(Conn(c), b)'
                        /\ Hears(s, b) = Hears(Conn(c), b)'
      /\ \A t : Sent(t)' = Sent(t)
      /\ Sent(Conn(c))' = Sent(s)
  BY <1>2 DEF Denied, Hears, Sent, Letters
<1>4. OneCreation'
  BY <1>3 DEF OneCreation, Wants
<1>5. LinkFits(c)'
  BY <1>1, <1>2, <1>3 DEF LinkFits
<1>6. Down(c) => Down(c)'
  BY <1>1, <1>2, <1>3 DEF Down
<1>7. ASSUME ~Down(c), ~Down(c)', NEW b \in Doc, Has(k, b) PROVE ItemFits(c, b)'
  <2>1. b # d /\ k.items[b] = replica[c].items[b]
    BY <1>7 DEF Alters
  <2>2. ItemFits(c, b)
    BY <1>7, <2>1 DEF ClientFits, Has
  <2>3. Grows(b) /\ (Live(b)' <=> Live(b))
    BY <1>2, SameGrows DEF Live
  <2>4. Late(replica[c], b) => Late(k, b)
    BY <1>2 DEF Late
  <2>5. Undisturbed(c, b)
    BY <1>1, <1>2, <1>3, <2>1, <2>3, <2>4 DEF Undisturbed
  <2> QED
    BY <1>7, <2>2, <2>5, FitsKept
<1> QED
  BY <1>2, <1>4, <1>5, <1>6, <1>7 DEF ClientFits, Has

LEMMA DeleteFits ==
    ASSUME SyncInv, FP!FollowInv', OneCreation, YoungAlone, NEW c \in Client, FP!GoneInv(c)',
           LinkFits(c), ClientFits(c), NEW d \in Doc, UserDelete(c, d)
    PROVE  OneCreation' /\ LinkFits(c)' /\ ClientFits(c)'
<1>1. PICK k : k = Delete(replica[c], d)
  OBVIOUS
<1>2. replica[c] \in Replica
  BY DEF SyncInv, SyncTypeOK
<1>3. /\ Alters(replica[c], k, d) /\ k.items[d].remote = Remote(c, d)
      /\ k.items[d].local = Null
  BY <1>1, <1>2, RemovedFacts DEF Remote
<1>4. UNCHANGED <<colVars, link>>
  BY DEF UserDelete
<1>5. CASE Remote(c, d) = Null
  <2>1. k = Put(replica[c], d, Absent)
    BY <1>1, <1>5 DEF Delete, Remote
  <2>2. /\ k.flushQueue = replica[c].flushQueue /\ k.flushTimer = replica[c].flushTimer
        /\ k.items[d] = Absent
    BY <1>2, <2>1, PutQueues DEF QueuesAs
  <2>3. ~Has(k, d) /\ k \in Replica
    BY <1>3, <2>2 DEF Has, Absent, Alters
  <2>4. Become(c, k) /\ UNCHANGED toServer
    BY <1>1, <2>3 DEF UserDelete
  <2> QED
    BY <1>3, <1>4, <2>2, <2>3, <2>4, DropFits
<1>6. CASE Remote(c, d) # Null
  <2>1. PICK item : item = [replica[c].items[d] EXCEPT !.local = Null, !.state = "changed"]
    OBVIOUS
  <2>2. k = Queue(Put(replica[c], d, item), d)
    BY <1>1, <1>6, <2>1 DEF Delete, Remote
  <2>3. QueuesAs(replica[c], k, d) /\ d \in k.flushQueue /\ k.items[d] = item
    BY <1>2, <2>2, PutQueues
  <2>4. item.state = "changed"
    BY <1>2, <2>1, ItemTypes DEF Item
  <2>5. Written(c, k, d)
    BY <1>3, <1>6, <2>3, <2>4 DEF Written, Formed
  <2>6. Has(k, d)
    BY <2>3, <2>4 DEF Has
  <2>7. FlushNow(c, k)
    BY <1>1, <2>6 DEF UserDelete
  <2> QED
    BY <1>3, <1>4, <2>3, <2>5, <2>7, WrittenFits
<1> QED
  BY <1>5, <1>6

-----------------------------------------------------------------------------
(* What a client's connection does *)

\* Client c sends what it has queued already.
LEMMA SameReadies ==
    ASSUME NEW c \in Client, LinkFits(c), NEW k, k.items = replica[c].items,
           k.flushQueue = replica[c].flushQueue, k.stopped = replica[c].stopped,
           \/ k.status = replica[c].status
           \/ /\ k.status = "ready" /\ link[c] # NoSlot /\ call[Conn(c)].kind # "sync"
              /\ \A m \in Letters(Conn(c)) : m.kind # "sync_error"
    PROVE  Readies(c, k)
<1>1. \A d \in Doc : Has(k, d) => Carried(c, k, d)
  BY DEF Has, Carried
<1> QED
  BY <1>1 DEF Readies, LinkFits

LEMMA TimerFits ==
    ASSUME SyncInv, FP!FollowInv', OneCreation, YoungAlone, NEW c \in Client, FP!GoneInv(c)',
           LinkFits(c), ClientFits(c), FlushTimer(c)
    PROVE  OneCreation' /\ LinkFits(c)' /\ ClientFits(c)'
<1>1. PICK k : k = [replica[c] EXCEPT !.flushTimer = FALSE]
  OBVIOUS
<1>2. replica[c] \in Replica
  BY DEF SyncInv, SyncTypeOK
<1>3. /\ k \in Replica /\ k.items = replica[c].items /\ k.flushQueue = replica[c].flushQueue
      /\ k.status = replica[c].status /\ k.stopped = replica[c].stopped
  BY <1>1, <1>2 DEF Replica
<1>4. k.status = "ready" /\ link[c] # NoSlot
  BY <1>3 DEF FlushTimer, LinkFits
<1>5. FlushFrom(c, k) /\ UNCHANGED <<colVars, link>>
  BY <1>1 DEF FlushTimer
<1>6. Readies(c, k) /\ Flushes(c, k)
  BY <1>3, <1>4, <1>5, SameReadies, FlushOutcome DEF SyncInv
<1> QED
  BY <1>3, <1>5, <1>6, StillReadsNothing, FlushFits

\* What client c is about to read, and what is behind it.
LEMMA ReceiveLetters ==
    ASSUME SyncTypeOK, NEW s \in Session, Receive(s)
    PROVE  /\ UNCHANGED <<docs, call, mailbox>>
           /\ Head(wire[s]) \in Range(wire[s])
           /\ \A t \in Session :
                 /\ Range(wire'[t]) \subseteq Range(wire[t])
                 /\ \A m \in Range(wire[t]) : m \in Range(wire'[t]) \/ m = Head(wire[s])
<1>1. wire[s] \in Seq(ServerMessage) /\ wire[s] # <<>> /\ wire' = [wire EXCEPT ![s] = Tail(@)]
  BY DEF Receive, SyncTypeOK, TypeOK
<1>2. Range(wire[s]) = {Head(wire[s])} \cup Range(Tail(wire[s]))
  BY <1>1, RangeSplit
<1>3. \A t \in Session : wire'[t] = IF t = s THEN Tail(wire[s]) ELSE wire[t]
  BY <1>1 DEF SyncTypeOK, TypeOK
<1> QED
  BY <1>2, <1>3 DEF Receive, storage

LEMMA CompleteFits ==
    ASSUME SyncInv, FP!FollowInv', OneCreation, YoungAlone, NEW c \in Client, FP!GoneInv(c)',
           LinkFits(c), ClientFits(c), OnSyncComplete(c)
    PROVE  OneCreation' /\ LinkFits(c)' /\ ClientFits(c)'
<1>1. PICK m : m = Head(Arriving(c))
  OBVIOUS
<1>2. PICK s : s = Conn(c)
  OBVIOUS
<1>3. /\ link[c] # NoSlot /\ s \in Session /\ Arriving(c) = wire[s]
      /\ m \in Range(wire[s]) /\ m \in ServerMessage /\ m.kind = "sync_complete"
  BY <1>1, <1>2, ArrivingProper DEF OnSyncComplete
<1>4. Receive(s) /\ UNCHANGED <<link, userVars>>
  BY <1>2 DEF OnSyncComplete
<1>5. ReadsOnlySync
  BY <1>1, <1>3, <1>4, ReceiveLetters DEF ReadsOnlySync, SyncInv
<1>6. call[s].kind # "sync"
  <2>1. wire[s] # <<>>
    BY <1>4 DEF Receive
  <2> QED
    BY <1>3, <2>1 DEF SyncInv, FP!KnownInv, FP!Lines, FP!Line
<1>7. \A n \in Letters(s) : n.kind # "sync_error"
  <2>1. ASSUME NEW n \in Range(wire[s]), n.kind = "sync_error" PROVE FALSE
    <3>1. wire[s] \in Seq(ServerMessage) /\ wire[s] # <<>>
      BY <1>3, <1>4 DEF SyncInv, SyncTypeOK, TypeOK, Receive
    <3>2. Len(wire[s]) \in Nat /\ DOMAIN wire[s] = 1..Len(wire[s]) /\ m = wire[s][1]
      BY <1>1, <1>3, <3>1, HeadTailProperties, LenProperties
    <3>3. PICK j \in 1..Len(wire[s]) : n = wire[s][j]
      BY <2>1, <3>2 DEF Range
    <3>4. j # 1
      BY <1>3, <2>1, <3>2, <3>3
    <3>5. 1 \in 1..Len(wire[s]) /\ 1 < j
      BY <3>2, <3>4
    <3>6. FP!Ordered(wire[s])
      BY <1>3 DEF SyncInv, FP!KnownInv, FP!WiresOrdered
    <3> QED
      BY <2>1, <3>2, <3>3, <3>5, <3>6 DEF FP!Ordered
  <2>2. \A n \in Range(mailbox[s]) : n.kind = "change"
    BY <1>3, KnownFeed DEF SyncInv, FeedInv, FeedIssued, Range
  <2> QED
    BY <2>1, <2>2 DEF Letters
<1>8. PICK k : k = [replica[c] EXCEPT !.colrev = m.colrev, !.status = "ready"]
  OBVIOUS
<1>9. replica[c] \in Replica /\ m.colrev \in Nat
  BY <1>3 DEF SyncInv, SyncTypeOK, ServerMessage
<1>10. /\ k \in Replica /\ k.items = replica[c].items /\ k.flushQueue = replica[c].flushQueue
       /\ k.status = "ready" /\ k.stopped = replica[c].stopped
  BY <1>8, <1>9 DEF Replica
<1>11. FlushFrom(c, k)
  BY <1>1, <1>8 DEF OnSyncComplete
<1>12. Readies(c, k)
  BY <1>2, <1>3, <1>6, <1>7, <1>10, SameReadies
<1>13. Flushes(c, k)
  BY <1>3, <1>10, <1>11, FlushOutcome DEF SyncInv
<1> QED
  BY <1>5, <1>10, <1>12, <1>13, FlushFits

LEMMA ErrorFits ==
    ASSUME SyncInv, OneCreation, NEW c \in Client, LinkFits(c), OnSyncError(c)
    PROVE  OneCreation' /\ LinkFits(c)' /\ ClientFits(c)'
<1>1. PICK s : s = Conn(c)
  OBVIOUS
<1>2. PICK m : m = Head(Arriving(c))
  OBVIOUS
<1>3. link[c] # NoSlot /\ m \in Letters(s) /\ m.kind = "sync_error"
  BY <1>1, <1>2, ArrivingProper DEF OnSyncError, Letters
<1>4. ~replica[c].flushTimer
  BY <1>1, <1>3 DEF LinkFits
<1>5. PICK k : k = [replica[c] EXCEPT !.status = "error", !.stopped = TRUE]
  OBVIOUS
<1>6. k.status = "error" /\ k.stopped /\ ~k.flushTimer
  BY <1>4, <1>5 DEF SyncInv, SyncTypeOK, Replica
<1>7. replica'[c] = k /\ link'[c] = NoSlot
  BY <1>5 DEF OnSyncError, Become, Drop, SyncInv, SyncTypeOK
<1>8. \A t : Sent(t)' = Sent(t)
  BY DEF OnSyncError, Drop, Close, Sent
<1>9. OneCreation'
  BY <1>8 DEF OneCreation, Wants
<1> QED
  BY <1>6, <1>7, <1>9 DEF LinkFits, ClientFits, Down

LEMMA CloseFits ==
    ASSUME SyncInv, OneCreation, NEW c \in Client, LinkFits(c), OnClose(c)
    PROVE  OneCreation' /\ LinkFits(c)' /\ ClientFits(c)'
<1>1. replica[c].stopped
  BY DEF OnClose, LinkFits
<1>2. PICK k : k = [replica[c] EXCEPT !.status = "disconnected", !.flushTimer = FALSE]
  OBVIOUS
<1>3. k.status = "disconnected" /\ k.stopped /\ ~k.flushTimer
  BY <1>1, <1>2 DEF SyncInv, SyncTypeOK, Replica
<1>4. replica'[c] = k /\ link'[c] = NoSlot
  BY <1>2 DEF OnClose, Become, SyncInv, SyncTypeOK
<1>5. \A t : Sent(t)' = Sent(t)
  BY DEF OnClose, Sent, colVars, channels
<1>6. OneCreation'
  BY <1>5 DEF OneCreation, Wants
<1> QED
  BY <1>3, <1>4, <1>6 DEF LinkFits, ClientFits, Down

\* While it is not connected, what a client has to send waits.
LEMMA OpenFits ==
    ASSUME SyncInv, OneCreation, NEW c \in Client, LinkFits(c), ClientFits(c), Open(c)
    PROVE  OneCreation' /\ LinkFits(c)' /\ ClientFits(c)'
<1>1. PICK n \in Slot : Connect(<<c, n>>, replica[c].colrev) /\ link' = [link EXCEPT ![c] = n]
  BY DEF Open
<1>2. PICK k : k = [replica[c] EXCEPT !.status = "connected"]
  OBVIOUS
<1>3. replica[c] \in Replica /\ SyncTypeOK /\ TypeOK /\ <<c, n>> \in Session
  BY SyncAssumption DEF SyncInv, SyncTypeOK
<1>4. /\ k.status = "connected" /\ k.flushTimer = replica[c].flushTimer
      /\ k.items = replica[c].items /\ k.flushQueue = replica[c].flushQueue
  BY <1>2, <1>3 DEF Replica
<1>5. replica'[c] = k /\ link'[c] = n /\ n # NoSlot /\ UNCHANGED <<docs, toServer>>
  BY <1>1, <1>2, <1>3, SyncAssumption DEF Open, Become, SyncTypeOK, Connect, storage
<1>6. /\ link[c] = NoSlot /\ replica[c].status = "disconnected" /\ ~Down(c)
      /\ ~replica[c].flushTimer
  BY DEF Open, LinkFits, Down
<1>7. OneCreation'
  <2>1. \A t \in Session : call'[t] = call[t] \/ call'[t].kind = "sync"
    BY <1>1, <1>3 DEF Connect, TypeOK
  <2>2. \A t \in Session : \A m \in Sent(t)' : m \in Sent(t) \/ m.kind # "change"
    BY <1>5, <2>1 DEF Sent
  <2> QED
    BY <2>2 DEF OneCreation, Wants
<1>8. LinkFits(c)'
  BY <1>4, <1>5, <1>6 DEF LinkFits
<1>9. ASSUME NEW d \in Doc, Has(k, d) PROVE ItemFits(c, d)'
  <2>1. ItemFits(c, d)
    BY <1>4, <1>6, <1>9 DEF ClientFits, Has
  <2>2. Late(replica[c], d) => Late(k, d)
    BY <1>4 DEF Late
  <2>3. /\ DeletionComes(c, d) => DeletionComes(c, d)'
        /\ \A e : EditComes(c, d, e) => EditComes(c, d, e)'
    BY <1>5, <1>6, <2>2 DEF DeletionComes, EditComes, Deleted, Exists, Live
  <2>4. /\ CreationComes(c, d) => CreationComes(c, d)'
        /\ WordComes(c, d) => WordComes(c, d)'
    BY <1>5, <1>6, <2>2 DEF CreationComes, WordComes
  <2>5. replica'[c].items[d] = replica[c].items[d]
    BY <1>4, <1>5
  <2>6. Settling(c, d)'
    BY <2>1, <2>3, <2>4, <2>5 DEF ItemFits, Settling
  <2> QED
    BY <1>4, <1>5, <2>1, <2>5, <2>6 DEF ItemFits, Formed
<1> QED
  BY <1>5, <1>7, <1>8, <1>9 DEF ClientFits, Has

-----------------------------------------------------------------------------
(* What a client reads *)

\* Client c has read and handled message m, and may have asked for a document.
Reads(c, m) ==
    LET k == replica[c]
        l == replica'[c]
    IN
    /\ m.kind \in {"doc", "change", "change_error"} /\ Proper(m) /\ m.id \in Doc
    /\ Alters(k, l, m.id) /\ QueuesAs(k, l, m.id) /\ Handled(k, l, m)
    /\ Remote(c, m.id)' # Null =>
          Exists(m.id) /\ (Live(m.id) => Remote(c, m.id)' \subseteq docs[m.id].data)
    /\ UNCHANGED <<docs, call, link>> /\ link[c] # NoSlot
    /\ Letters(Conn(c))' \subseteq Letters(Conn(c))
    /\ \A n \in Letters(Conn(c)) : n \in Letters(Conn(c))' \/ n = m
    /\ \A t \in Session :
          /\ Sent(t) \subseteq Sent(t)'
          /\ \A n \in Sent(t)' : n \in Sent(t) \/ n.kind = "garbled"

LEMMA RemotesKnown ==
    ASSUME FP!KnownInv
    PROVE  \A c \in Client, d \in Doc :
              Remote(c, d) # Null => Exists(d) /\ (Live(d) => Remote(c, d) \subseteq docs[d].data)
BY RemoteKnown

LEMMA RemotesKnownNext ==
    ASSUME FP!KnownInv'
    PROVE  \A c \in Client, d \in Doc :
              Remote(c, d)' # Null => /\ Exists(d)'
                                      /\ Live(d)' => Remote(c, d)' \subseteq docs'[d].data
<1>1. (FP!KnownInv => \A c \in Client, d \in Doc :
          Remote(c, d) # Null => Exists(d) /\ (Live(d) => Remote(c, d) \subseteq docs[d].data))'
  BY RemotesKnown, PTL
<1> QED
  BY <1>1

LEMMA MessageReads ==
    ASSUME SyncInv, NEW c \in Client, OnMessage(c)
    PROVE  \E m : Reads(c, m)
<1>1. PICK m : m = Head(Arriving(c))
  OBVIOUS
<1>2. PICK s : s = Conn(c)
  OBVIOUS
<1>3. /\ link[c] # NoSlot /\ s \in Session /\ Arriving(c) = wire[s]
      /\ m.kind \in {"doc", "change", "change_error"} /\ Proper(m) /\ m.id \in Doc
      /\ m \in Range(wire[s])
  BY <1>1, <1>2, ArrivingProper, ProperTypes DEF OnMessage
<1>4. PICK l : l = HandleMessage(replica[c], m)
  OBVIOUS
<1>5. replica[c] \in Replica /\ Blank(replica[c]) /\ SyncTypeOK
  BY DEF SyncInv, SyncTypeOK
<1>6. QueuesAs(replica[c], l, m.id) /\ Handled(replica[c], l, m)
  BY <1>3, <1>4, <1>5, HandledFacts
<1>7. Alters(replica[c], l, m.id)
  BY <1>3, <1>4, <1>5, MessageFacts DEF Alters
<1>8. /\ replica'[c] = l /\ Receive(s) /\ UNCHANGED link
      /\ UNCHANGED toServer \/ Send(c, <<Get(m.id)>>)
  BY <1>1, <1>2, <1>4, <1>5 DEF OnMessage, Become, SyncTypeOK
<1>9. Conn(c)' = s /\ UNCHANGED <<docs, call, mailbox>>
  BY <1>2, <1>3, <1>5, <1>8, ReceiveLetters DEF Conn
<1>10. Letters(s)' \subseteq Letters(s) /\ \A n \in Letters(s) : n \in Letters(s)' \/ n = m
  BY <1>1, <1>3, <1>5, <1>8, <1>9, ReceiveLetters DEF Letters
<1>11. Letters(Conn(c))' = Letters(s)'
  BY <1>9 DEF Letters
<1>12. ASSUME NEW t \in Session
       PROVE  Sent(t) \subseteq Sent(t)' /\ \A n \in Sent(t)' : n \in Sent(t) \/ n.kind = "garbled"
  <2>1. CASE UNCHANGED toServer
    BY <1>9, <2>1 DEF Sent
  <2>2. CASE Send(c, <<Get(m.id)>>)
    <3>1. PICK g : g = Get(m.id)
      OBVIOUS
    <3>2. g \in ClientMessage /\ g.kind = "garbled"
      BY <1>3, <3>1 DEF Get, Garbled, ClientMessage
    <3>3. toServer' = [toServer EXCEPT ![s] = @ \o <<g>>] /\ toServer \in [Session -> Seq(ClientMessage)]
      BY <1>2, <1>5, <2>2, <3>1 DEF Send, SyncTypeOK
    <3>4. toServer'[t] = IF t = s THEN toServer[t] \o <<g>> ELSE toServer[t]
      BY <3>3
    <3>5. Range(toServer[t] \o <<g>>) = Range(toServer[t]) \cup {g}
      <4>1. <<g>> \in Seq(ClientMessage) /\ toServer[t] \in Seq(ClientMessage)
        BY <3>2, <3>3
      <4>2. Range(toServer[t] \o <<g>>) = Range(toServer[t]) \cup Range(<<g>>)
        <5>1. PICK q : q = toServer[t]
          OBVIOUS
        <5>2. PICK e : e = <<g>>
          OBVIOUS
        <5>3. q \in Seq(ClientMessage) /\ e \in Seq(ClientMessage)
          BY <4>1, <5>1, <5>2
        <5>4. Range(q \o e) = Range(q) \cup Range(e)
          BY ONLY <5>3, RangeConcatenation
        <5> QED
          BY <5>1, <5>2, <5>4
      <4>3. Range(<<g>>) = {g}
        BY DEF Range
      <4> QED
        BY <4>2, <4>3
    <3> QED
      BY <1>9, <3>2, <3>4, <3>5 DEF Sent
  <2> QED
    BY <1>8, <2>1, <2>2
<1>13. FP!KnownInv'
  <2>1. SyncNext
    BY DEF SyncNext, ClientStep
  <2> QED
    BY <2>1, SyncInvStep DEF SyncInv
<1>14. Remote(c, m.id)' # Null =>
          Exists(m.id) /\ (Live(m.id) => Remote(c, m.id)' \subseteq docs[m.id].data)
  BY <1>3, <1>9, <1>13, RemotesKnownNext DEF Exists, Live
<1> QED
  BY <1>2, <1>3, <1>6, <1>7, <1>8, <1>9, <1>10, <1>11, <1>12, <1>14 DEF Reads

\* The documents that the message is not about stay as they are.
LEMMA OtherUndisturbed ==
    ASSUME SyncInv, NEW c \in Client, NEW m, Reads(c, m), NEW d \in Doc,
           \/ d # m.id
           \/ /\ replica'[c].items[d] = replica[c].items[d]
              /\ d \in replica'[c].flushQueue <=> d \in replica[c].flushQueue
              /\ m.kind = "change_error" /\ m.code # "forbidden"
    PROVE  Undisturbed(c, d)
<1>1. PICK s : s = Conn(c)
  OBVIOUS
<1>2. /\ Conn(c)' = s /\ Letters(Conn(c))' = Letters(s)' /\ Sent(Conn(c))' = Sent(s)'
      /\ s \in Session /\ (Live(d)' <=> Live(d))
  BY <1>1, LinkedSession DEF Reads, Conn, Letters, Sent, Live
<1>3. /\ replica'[c].items[d] = replica[c].items[d]
      /\ d \in replica'[c].flushQueue <=> d \in replica[c].flushQueue
      /\ replica'[c].flushTimer = replica[c].flushTimer
      /\ replica'[c].status = replica[c].status
  BY DEF Reads, Alters, QueuesAs
<1>4. Grows(d)
  BY SameGrows DEF Reads
<1>5. ChangeError(d, "forbidden") # m
  BY DEF ChangeError
<1>6. Denied(Conn(c), d) => Denied(Conn(c), d)'
  BY <1>1, <1>2, <1>5 DEF Reads, Denied
<1>7. Hears(Conn(c), d) \subseteq Hears(Conn(c), d)'
  BY <1>1, <1>2 DEF Reads, Hears
<1>8. Sent(Conn(c)) \subseteq Sent(Conn(c))'
  BY <1>1, <1>2 DEF Reads
<1> QED
  BY <1>2, <1>3, <1>4, <1>6, <1>7, <1>8 DEF Undisturbed, Late, Reads

\* An update of a document that the server has yet to acknowledge is not applied.
LEMMA UpdateWaits ==
    ASSUME SyncInv, NEW c \in Client, NEW m, Reads(c, m), ItemFits(c, m.id),
           replica'[c].items[m.id] = replica[c].items[m.id],
           m.id \in replica'[c].flushQueue <=> m.id \in replica[c].flushQueue,
           m.kind = "change", m.op = "*", Remote(c, m.id) = Null
    PROVE  ItemFits(c, m.id)'
<1>1. PICK d \in Doc : d = m.id
  BY DEF Reads
<1>2. PICK s : s = Conn(c)
  OBVIOUS
<1>3. /\ Conn(c)' = s /\ Letters(Conn(c))' = Letters(s)' /\ Sent(Conn(c))' = Sent(s)'
      /\ s \in Session /\ (Live(d)' <=> Live(d)) /\ (Exists(d)' <=> Exists(d))
      /\ UNCHANGED <<docs, link>> /\ link[c] # NoSlot
      /\ replica'[c].flushTimer = replica[c].flushTimer
      /\ replica'[c].status = replica[c].status
  BY <1>2, LinkedSession DEF Reads, Conn, Letters, Sent, Live, Exists, Alters, QueuesAs
<1>4. Local(c, d)' = Local(c, d) /\ Remote(c, d)' = Remote(c, d)
  BY <1>1 DEF Local, Remote
<1>5. Late(replica[c], d) => Late(replica'[c], d)
  BY <1>1, <1>3 DEF Late
<1>6. Denied(s, d) => Denied(Conn(c), d)'
  <2>1. ChangeError(d, "forbidden") # m
    BY DEF ChangeError
  <2> QED
    BY <1>2, <1>3, <2>1 DEF Denied, Reads
<1>7. ASSUME NEW n \in Hears(s, d), n.data = Null PROVE n \in Hears(Conn(c), d)'
  <2>1. m.data # Null
    BY NullAssumption DEF Reads, Proper, Version
  <2> QED
    BY <1>2, <1>3, <1>7, <2>1 DEF Hears, Reads
<1>8. Sent(s) \subseteq Sent(Conn(c))'
  BY <1>2, <1>3 DEF Reads
<1>9. CreationComes(c, d)
  BY <1>1 DEF ItemFits, Settling, Remote
<1>10. CreationComes(c, d)'
  <2>1. CASE Late(replica[c], d)
    BY <1>5, <2>1 DEF CreationComes
  <2>2. CASE replica[c].status = "ready" /\ Denied(s, d)
    BY <1>3, <1>6, <2>2 DEF CreationComes
  <2>3. CASE replica[c].status = "ready" /\ Live(d) /\ Local(c, d) \subseteq docs[d].data
    BY <1>3, <1>4, <2>3 DEF CreationComes
  <2>4. CASE replica[c].status = "ready" /\ Deleted(d) /\ \E n \in Hears(s, d) : n.data = Null
    BY <1>3, <1>7, <2>4 DEF CreationComes, Deleted
  <2>5. ASSUME replica[c].status = "ready", ~Exists(d), NEW n \in Sent(s), Wants(n, "+", d),
               Local(c, d) \subseteq n.data
        PROVE  CreationComes(c, d)'
    <3>1. n \in Sent(Conn(c))'
      BY <1>8, <2>5
    <3> QED
      BY <1>3, <1>4, <2>5, <3>1 DEF CreationComes
  <2> QED
    BY <1>2, <1>9, <2>1, <2>2, <2>3, <2>4, <2>5 DEF CreationComes
<1>11. replica[c].items[d].local # Null
  BY <1>1 DEF ItemFits, Formed, Remote
<1>12. Settling(c, d)'
  BY <1>1, <1>10, <1>11 DEF Settling, Remote
<1> QED
  BY <1>1, <1>12 DEF ItemFits, Formed

\* What the server has comes in, and the user's edits of it go on from there.
LEMMA SettledFits ==
    ASSUME SyncInv, NEW c \in Client, NEW m, Reads(c, m), ItemFits(c, m.id),
           m.kind \in {"doc", "change"}, m.data \in Version, NEW remote \in Version,
           \/ remote = m.data
           \/ Remote(c, m.id) # Null /\ remote = Remote(c, m.id) \cup m.data,
           Settles(replica'[c], m.id, remote,
                   IF Local(c, m.id) = Null THEN Null ELSE Local(c, m.id) \cup m.data)
    PROVE  ItemFits(c, m.id)'
<1>1. PICK d \in Doc : d = m.id
  BY DEF Reads
<1>2. PICK s : s = Conn(c)
  OBVIOUS
<1>3. PICK local : local = IF Local(c, d) = Null THEN Null ELSE Local(c, d) \cup m.data
  OBVIOUS
<1>4. /\ replica'[c].items[d].remote = remote /\ replica'[c].items[d].local = local
      /\ IF local = Null \/ ~(local \subseteq remote)
         THEN replica'[c].items[d].state = "changed" /\ d \in replica'[c].flushQueue
         ELSE replica'[c].items[d].state = "synced"
  BY <1>1, <1>3 DEF Settles
<1>5. /\ remote # Null
      /\ Local(c, d) # Null => local # Null
  <2>1. Local(c, d) # Null => Local(c, d) \in Version
    BY <1>1, ItemTypes DEF SyncInv, SyncTypeOK, Local
  <2>2. Local(c, d) # Null => Local(c, d) \cup m.data \in Version
    BY <2>1 DEF Version
  <2> QED
    BY <1>3, <2>2, NullAssumption DEF Version
<1>6. /\ Conn(c)' = s /\ Letters(Conn(c))' = Letters(s)' /\ Sent(Conn(c))' = Sent(s)'
      /\ s \in Session /\ (Live(d)' <=> Live(d)) /\ (Exists(d)' <=> Exists(d))
      /\ UNCHANGED <<docs, link>> /\ link[c] # NoSlot
      /\ replica'[c].flushTimer = replica[c].flushTimer
      /\ replica'[c].status = replica[c].status
  BY <1>2, LinkedSession DEF Reads, Conn, Letters, Sent, Live, Exists, Alters, QueuesAs
<1>7. Denied(s, d) => Denied(Conn(c), d)'
  <2>1. ChangeError(d, "forbidden") # m
    BY DEF ChangeError
  <2> QED
    BY <1>2, <1>6, <2>1 DEF Denied, Reads
<1>8. Sent(s) \subseteq Sent(Conn(c))'
  BY <1>2, <1>6 DEF Reads
<1>9. Late(replica[c], d) /\ d \in replica'[c].flushQueue => Late(replica'[c], d)
  BY <1>6 DEF Late
<1>10. Exists(d) /\ (Live(d) => remote \subseteq docs[d].data)
  BY <1>1, <1>4, <1>5 DEF Reads, Remote
<1>11. Formed(replica[c].items[d]) /\ Settling(c, d)
  BY <1>1 DEF ItemFits
<1>12. Formed(replica'[c].items[d])
  <2>1. local # Null => remote \subseteq local
    <3>1. ASSUME local # Null PROVE Local(c, d) # Null /\ local = Local(c, d) \cup m.data
      BY <1>3, <3>1
    <3>2. Remote(c, d) # Null /\ Local(c, d) # Null => Remote(c, d) \subseteq Local(c, d)
      BY <1>11 DEF Formed, Local, Remote
    <3> QED
      BY <1>1, <3>1, <3>2
  <2> QED
    BY <1>4, <1>5, <2>1 DEF Formed
<1>13. ASSUME local = Null PROVE DeletionComes(c, d)'
  <2>1. Local(c, d) = Null /\ d \in replica'[c].flushQueue
    BY <1>4, <1>5, <1>13
  <2>2. DeletionComes(c, d)
    BY <1>11, <2>1 DEF Settling, Local
  <2>3. CASE Late(replica[c], d)
    BY <1>9, <2>1, <2>3 DEF DeletionComes
  <2>4. CASE Deleted(d)
    BY <1>6, <2>4 DEF DeletionComes, Deleted
  <2>5. CASE Denied(s, d)
    BY <1>6, <1>7, <2>5 DEF DeletionComes
  <2>6. ASSUME NEW n \in Sent(s), Wants(n, "-", d) PROVE DeletionComes(c, d)'
    <3>1. n \in Sent(Conn(c))'
      BY <1>8, <2>6
    <3> QED
      BY <1>6, <2>6, <3>1 DEF DeletionComes
  <2> QED
    BY <1>2, <2>2, <2>3, <2>4, <2>5, <2>6 DEF DeletionComes
<1>14. ASSUME local # Null, NEW e \in local \ remote PROVE EditComes(c, d, e)'
  <2>1. Local(c, d) # Null /\ e \in Local(c, d)
    BY <1>1, <1>3, <1>14
  <2>2. d \in replica'[c].flushQueue
    BY <1>4, <1>14
  <2>3. CASE Exists(d) /\ (Live(d) => e \in docs[d].data)
    BY <1>6, <2>3 DEF EditComes
  <2>4. CASE Late(replica[c], d)
    BY <1>9, <2>2, <2>4 DEF EditComes
  <2>5. CASE Denied(s, d)
    BY <1>6, <1>7, <2>5 DEF EditComes
  <2>6. ASSUME NEW n \in Sent(s), Wants(n, "*", d), e \in n.data PROVE EditComes(c, d, e)'
    <3>1. n \in Sent(Conn(c))'
      BY <1>8, <2>6
    <3> QED
      BY <1>6, <2>6, <3>1 DEF EditComes
  <2>7. CASE Remote(c, d) # Null /\ e \notin Remote(c, d)
    <3>1. EditComes(c, d, e)
      BY <1>11, <2>1, <2>7 DEF Settling, Local, Remote
    <3> QED
      BY <1>2, <2>3, <2>4, <2>5, <2>6, <3>1 DEF EditComes
  <2>8. CASE Remote(c, d) # Null /\ e \in Remote(c, d)
    BY <2>3, <2>8, RemoteKnown DEF SyncInv
  <2>9. CASE Remote(c, d) = Null
    <3>1. CreationComes(c, d)
      BY <1>11, <2>9 DEF Settling, Remote
    <3> QED
      BY <1>2, <1>10, <2>1, <2>3, <2>4, <2>5, <3>1 DEF CreationComes, Deleted
  <2> QED
    BY <2>7, <2>8, <2>9
<1>15. ~(replica'[c].items[d].state # "synced" /\ local = remote)
  BY <1>4, <1>5
<1>16. Settling(c, d)'
  BY <1>4, <1>5, <1>13, <1>14, <1>15 DEF Settling
<1> QED
  BY <1>1, <1>4, <1>5, <1>12, <1>16 DEF ItemFits

LEMMA ReadFits ==
    ASSUME SyncInv, FP!FollowInv', OneCreation, NEW c \in Client, FP!GoneInv(c)', ~Down(c)',
           NEW m, Reads(c, m), ClientFits(c), ~Down(c), Has(replica'[c], m.id)
    PROVE  ItemFits(c, m.id)'
<1>1. PICK d \in Doc : d = m.id
  BY DEF Reads
<1>2. Handled(replica[c], replica'[c], m)
  BY DEF Reads
<1>3. Has(replica[c], d) => ItemFits(c, d)
  BY DEF ClientFits
<1>4. CASE replica'[c].items[d] = Absent
  BY <1>1, <1>4 DEF Has, Absent
<1>5. CASE /\ replica'[c].items[d] = replica[c].items[d]
           /\ d \in replica'[c].flushQueue <=> d \in replica[c].flushQueue
           /\ \/ m.kind = "change" /\ m.op = "*" /\ Remote(c, d) = Null
              \/ m.kind = "change_error" /\ m.code # "forbidden"
  <2>1. ItemFits(c, d)
    BY <1>1, <1>3, <1>5 DEF Has
  <2>2. CASE m.kind = "change_error" /\ m.code # "forbidden"
    <3>1. Undisturbed(c, d)
      BY <1>5, <2>2, OtherUndisturbed
    <3> QED
      BY <1>1, <2>1, <3>1, FitsKept
  <2>3. CASE m.kind = "change" /\ m.op = "*" /\ Remote(c, d) = Null
    BY <1>1, <1>5, <2>1, <2>3, UpdateWaits
  <2> QED
    BY <1>5, <2>2, <2>3
<1>6. CASE /\ replica'[c].items[d].state = "synced" /\ replica'[c].items[d].remote # Null
           /\ replica'[c].items[d].local = replica'[c].items[d].remote
  BY <1>1, <1>6 DEF ItemFits, Formed, Settling
<1>7. ASSUME m.kind \in {"doc", "change"}, m.data \in Version, Has(replica[c], d),
             NEW remote \in Version,
             \/ remote = m.data
             \/ Remote(c, d) # Null /\ remote = Remote(c, d) \cup m.data,
             Settles(replica'[c], d, remote,
                     IF Local(c, d) = Null THEN Null ELSE Local(c, d) \cup m.data)
      PROVE  ItemFits(c, d)'
  BY <1>1, <1>3, <1>7, SettledFits
<1> QED
  BY <1>1, <1>2, <1>4, <1>5, <1>6, <1>7 DEF Handled, Local, Remote

LEMMA MessageFits ==
    ASSUME SyncInv, FP!FollowInv', OneCreation, NEW c \in Client, FP!GoneInv(c)',
           LinkFits(c), ClientFits(c), OnMessage(c)
    PROVE  OneCreation' /\ LinkFits(c)' /\ ClientFits(c)'
<1>1. PICK m : Reads(c, m)
  BY MessageReads
<1>2. PICK s : s = Conn(c)
  OBVIOUS
<1>3. /\ Conn(c)' = s /\ Letters(Conn(c))' = Letters(s)' /\ call'[Conn(c)'] = call[s]
      /\ UNCHANGED link /\ link[c] # NoSlot
  BY <1>1, <1>2 DEF Reads, Conn, Letters
<1>4. OneCreation'
  BY <1>1 DEF Reads, OneCreation, Wants
<1>5. LinkFits(c)'
  BY <1>1, <1>2, <1>3 DEF LinkFits, Reads, Alters, QueuesAs
<1>6. Down(c) => Down(c)'
  BY <1>1, <1>2, <1>3 DEF Down, Reads
<1>7. ASSUME ~Down(c)', NEW d \in Doc, Has(replica'[c], d) PROVE ItemFits(c, d)'
  <2>1. CASE d = m.id
    BY <1>1, <1>6, <1>7, <2>1, ReadFits
  <2>2. CASE d # m.id
    <3>1. Has(replica[c], d)
      BY <1>1, <1>7, <2>2 DEF Reads, Alters, Has
    <3>2. ItemFits(c, d)
      BY <1>6, <1>7, <3>1 DEF ClientFits
    <3> QED
      BY <1>1, <1>7, <2>2, <3>2, OtherUndisturbed, FitsKept
  <2> QED
    BY <2>1, <2>2
<1>8. \A d \in Doc : Has(replica[c], d)' <=> Has(replica'[c], d)
  BY DEF Has
<1> QED
  BY <1>4, <1>5, <1>7, <1>8 DEF ClientFits

-----------------------------------------------------------------------------
(* Every step, and the end *)

\* A step in which no connection is lost and no request fails.
CalmSides ==
    \/ UNCHANGED MCVars
    \/ UNCHANGED hasty /\ ((\E s \in Session : Healthy(s)) \/ (\E d \in Doc : ApiStep(d)))
    \/ UNCHANGED hasty /\ \E c \in Client : ClientStep(c)
    \/ UNCHANGED hasty /\ \E c \in Client, d \in Doc, e \in Edit : UserCreate(c, d, e)
    \/ \E c \in Client, d \in Doc :
          /\ (\E e \in Edit : UserChange(c, d, e)) \/ UserDelete(c, d)
          /\ hasty' = (hasty \/ BeingCreated(c, d))

\* What is proved by induction beside SyncInv, FP!FollowInv and DeletedInv.
SettlingInv ==
    /\ trouble \in Nat
    /\ trouble = 0 => \A c \in Client : FP!GoneInv(c)
    /\ CalmInv

LEMMA TroubleCounts ==
    ASSUME [MCNext]_MCVars, trouble \in Nat
    PROVE  trouble' \in Nat /\ (trouble' = 0 => trouble = 0 /\ CalmSides)
<1>1. CASE UNCHANGED MCVars
  BY <1>1 DEF MCVars, CalmSides
<1>2. CASE \E c \in Client :
              /\ OnMessage(c)
              /\ gone' = [gone EXCEPT ![c] = {d \in @ : ~Refused(c, d)}]
              /\ UNCHANGED <<trouble, hasty>>
  BY <1>2 DEF CalmSides, ClientStep
<1>3. CASE /\ \/ \E c \in Client : \/ OnClose(c) \/ Open(c) \/ FlushTimer(c)
                                    \/ OnSyncComplete(c) \/ OnSyncError(c)
              \/ \E c \in Client, d \in Doc, e \in Edit : UserCreate(c, d, e)
              \/ \E s \in Session : Healthy(s)
              \/ \E d \in ApiDocs : \/ \E e \in Edit : ApiRead(d, e) \/ ApiUpdate(d, e)
                                    \/ ApiDelete(d)
              \/ \E d \in Lockable \ locked : ApiLock(d)
           /\ UNCHANGED <<trouble, hasty, gone>>
  <2>1. UNCHANGED trouble /\ UNCHANGED hasty
    BY <1>3
  <2>2. CASE \E c \in Client : \/ OnClose(c) \/ Open(c) \/ FlushTimer(c)
                               \/ OnSyncComplete(c) \/ OnSyncError(c)
    BY <2>1, <2>2 DEF CalmSides, ClientStep
  <2>3. CASE \E c \in Client, d \in Doc, e \in Edit : UserCreate(c, d, e)
    BY <2>1, <2>3 DEF CalmSides
  <2>4. CASE \E s \in Session : Healthy(s)
    BY <2>1, <2>4 DEF CalmSides
  <2>5. CASE \/ \E d \in ApiDocs : \/ \E e \in Edit : ApiRead(d, e) \/ ApiUpdate(d, e)
                                   \/ ApiDelete(d)
             \/ \E d \in Lockable \ locked : ApiLock(d)
    <3>1. \E d \in Doc : ApiStep(d)
      BY <2>5, ApiAssumption DEF ApiStep
    <3> QED
      BY <2>1, <3>1 DEF CalmSides
  <2> QED
    BY <1>3, <2>2, <2>3, <2>4, <2>5
<1>4. CASE \E c \in Client, d \in Doc :
              /\ \/ /\ \E e \in Edit : UserChange(c, d, e)
                    /\ UNCHANGED gone
                 \/ /\ CanEdit(replica[c], d) /\ UserDelete(c, d)
                    /\ gone' = [gone EXCEPT ![c] = @ \cup {d}]
              /\ hasty' = (hasty \/ BeingCreated(c, d))
              /\ UNCHANGED trouble
  BY <1>4 DEF CalmSides
<1>5. CASE /\ \/ \E c \in Client : Lose(c)
              \/ \E s \in Session : /\ Fail(s)
                                     /\ UNCHANGED <<link, replica, toServer, userVars>>
           /\ trouble < MaxTrouble /\ trouble' = trouble + 1
           /\ UNCHANGED <<hasty, gone>>
  <2>1. trouble' = trouble + 1
    BY <1>5
  <2> QED
    BY <2>1
<1> QED
  BY <1>1, <1>2, <1>3, <1>4, <1>5 DEF MCNext

\* A client that is cut off has given up.
LEMMA CalmLinks ==
    ASSUME SyncInv, CalmSides, NEW c \in Client, link[c] # NoSlot, link'[c] = NoSlot
    PROVE  replica'[c].stopped
<1>1. SyncTypeOK
  BY DEF SyncInv
<1>2. ~UNCHANGED link
  OBVIOUS
<1>3. PICK b \in Client : ClientStep(b)
  <2>1. UNCHANGED MCVars => UNCHANGED link
    BY DEF MCVars, syncVars
  <2>2. \A s \in Session : Healthy(s) => UNCHANGED link
    BY DEF Healthy
  <2>3. \A d \in Doc : ApiStep(d) => UNCHANGED link
    BY DEF ApiStep, ApiRead, ApiUpdate, ApiDelete, ApiLock
  <2>4. \A b \in Client, d \in Doc, e \in Edit :
           UserCreate(b, d, e) \/ UserChange(b, d, e) => UNCHANGED link
    BY DEF UserCreate, UserChange
  <2>5. \A b \in Client, d \in Doc : UserDelete(b, d) => UNCHANGED link
    BY DEF UserDelete
  <2> QED
    BY <1>2, <2>1, <2>2, <2>3, <2>4, <2>5 DEF CalmSides
<1>4. b = c
  BY <1>3, ClientBeside DEF Beside
<1>5. OnSyncError(c)
  BY <1>2, <1>3, <1>4 DEF ClientStep, OnClose, Open, FlushTimer, OnSyncComplete, OnMessage
<1> QED
  BY <1>1, <1>5 DEF OnSyncError, Become, SyncTypeOK, Replica

LEMMA CalmStep ==
    ASSUME SubscribeFirst, SyncInv, DeletedInv, FP!FollowInv, SettlingInv, [MCNext]_MCVars
    PROVE  SettlingInv'
<1>1. [SyncNext]_syncVars /\ FP!FollowInv'
  BY StepIsSync, FollowsKept
<1>2. trouble' \in Nat /\ (trouble' = 0 => trouble = 0 /\ CalmSides)
  BY TroubleCounts DEF SettlingInv
<1>3. ASSUME trouble' = 0 PROVE \A c \in Client : FP!GoneInv(c)'
  <2>1. CalmSides /\ \A c \in Client : FP!GoneInv(c)
    BY <1>2, <1>3 DEF SettlingInv
  <2>2. ASSUME NEW c \in Client PROVE FP!GoneInv(c)'
    <3>1. link[c] # NoSlot /\ link'[c] = NoSlot => replica'[c].stopped
      BY <2>1, CalmLinks
    <3> QED
      BY <1>1, <2>1, <3>1, GoneKept
  <2> QED
    BY <2>2
<1>4. ASSUME trouble' = 0, ~hasty' PROVE CalmFits'
  <2>1. CalmSides /\ trouble = 0
    BY <1>2, <1>4
  <2>2. ~hasty
    BY <1>4, <2>1 DEF CalmSides, MCVars
  <2>3. YoungAlone
    BY <2>2 DEF DeletedInv
  <2>4. CalmFits
    BY <2>1, <2>2 DEF SettlingInv, CalmInv
  <2>5. \A c \in Client : FP!GoneInv(c)'
    BY <1>3, <1>4
  <2>6. ASSUME NEW c \in Client, ClientStep(c) \/ UserStep(c),
               OneCreation' /\ LinkFits(c)' /\ ClientFits(c)'
        PROVE  CalmFits'
    <3>1. ASSUME NEW b \in Client, b # c PROVE LinkFits(b)' /\ ClientFits(b)'
      BY <1>1, <2>4, <2>5, <2>6, <3>1, ClientBeside, OthersFit DEF CalmFits
    <3> QED
      BY <2>6, <3>1 DEF CalmFits
  <2>7. CASE UNCHANGED MCVars
    <3>1. UNCHANGED <<docs, replica, link, wire, mailbox, call, toServer>>
      BY <2>7 DEF MCVars, syncVars, colVars, storage, channels
    <3>2. \A s : Sent(s)' = Sent(s)
      BY <3>1 DEF Sent
    <3>3. OneCreation'
      BY <2>4, <3>2 DEF CalmFits, OneCreation, Wants
    <3>4. \A c \in Client : LinkFits(c)' /\ ClientFits(c)'
      BY <1>1, <2>4, <2>5, <3>1, OthersFit DEF CalmFits, Beside
    <3> QED
      BY <3>3, <3>4 DEF CalmFits
  <2>8. CASE (\E s \in Session : Healthy(s)) \/ (\E d \in Doc : ApiStep(d))
    BY <1>1, <2>4, <2>5, <2>8, ServedCalm
  <2>9. ASSUME NEW c \in Client, ClientStep(c) PROVE CalmFits'
    <3>1. OneCreation /\ LinkFits(c) /\ ClientFits(c) /\ FP!GoneInv(c)'
      BY <2>4, <2>5 DEF CalmFits
    <3>2. OneCreation' /\ LinkFits(c)' /\ ClientFits(c)'
      BY <1>1, <2>3, <2>9, <3>1, CloseFits, OpenFits, TimerFits, CompleteFits, ErrorFits,
         MessageFits DEF ClientStep
    <3> QED
      BY <2>6, <2>9, <3>2
  <2>10. ASSUME NEW c \in Client, NEW d \in Doc, NEW e \in Edit, UserCreate(c, d, e)
         PROVE  CalmFits'
    <3>1. OneCreation /\ LinkFits(c) /\ ClientFits(c) /\ FP!GoneInv(c)'
      BY <2>4, <2>5 DEF CalmFits
    <3>2. OneCreation' /\ LinkFits(c)' /\ ClientFits(c)'
      BY <1>1, <2>3, <2>10, <3>1, CreateFits
    <3>3. UserStep(c)
      BY <2>10 DEF UserStep
    <3> QED
      BY <2>6, <3>2, <3>3
  <2>11. ASSUME NEW c \in Client, NEW d \in Doc, NEW e \in Edit, UserChange(c, d, e),
                ~BeingCreated(c, d)
         PROVE  CalmFits'
    <3>1. OneCreation /\ LinkFits(c) /\ ClientFits(c) /\ FP!GoneInv(c)'
      BY <2>4, <2>5 DEF CalmFits
    <3>2. OneCreation' /\ LinkFits(c)' /\ ClientFits(c)'
      BY <1>1, <2>3, <2>11, <3>1, ChangeFits
    <3>3. UserStep(c)
      BY <2>11 DEF UserStep
    <3> QED
      BY <2>6, <3>2, <3>3
  <2>12. ASSUME NEW c \in Client, NEW d \in Doc, UserDelete(c, d) PROVE CalmFits'
    <3>1. OneCreation /\ LinkFits(c) /\ ClientFits(c) /\ FP!GoneInv(c)'
      BY <2>4, <2>5 DEF CalmFits
    <3>2. OneCreation' /\ LinkFits(c)' /\ ClientFits(c)'
      BY <1>1, <2>3, <2>12, <3>1, DeleteFits
    <3>3. UserStep(c)
      BY <2>12 DEF UserStep
    <3> QED
      BY <2>6, <3>2, <3>3
  <2> QED
    BY <1>4, <2>1, <2>7, <2>8, <2>9, <2>10, <2>11, <2>12 DEF CalmSides
<1> QED
  BY <1>2, <1>3, <1>4 DEF SettlingInv, CalmInv

LEMMA CalmStart == MCInit => SettlingInv
<1> SUFFICES ASSUME MCInit PROVE SettlingInv
  OBVIOUS
<1>1. SyncInit /\ trouble = 0 /\ \A c \in Client : FP!GoneInv(c)
  BY FollowsStart DEF MCInit
<1>2. /\ \A c \in Client : link[c] = NoSlot /\ replica[c] = NewReplica
      /\ \A s \in Session : Range(toServer[s]) = {} /\ call[s] = NoCall
  BY <1>1 DEF SyncInit, Init, Range
<1>3. OneCreation
  BY <1>2 DEF OneCreation, Wants, Sent, NoCall
<1>4. ASSUME NEW c \in Client PROVE LinkFits(c) /\ ClientFits(c)
  <2>1. /\ replica[c].status = "disconnected" /\ ~replica[c].flushTimer
        /\ \A d \in Doc : ~Has(replica[c], d)
    BY <1>2 DEF NewReplica, Has, Absent
  <2> QED
    BY <1>2, <2>1 DEF LinkFits, ClientFits
<1> QED
  BY <1>1, <1>3, <1>4 DEF SettlingInv, CalmInv, CalmFits

\* When nothing is on its way, a client has every document that there is.
LEMMA QuietCovered ==
    ASSUME FP!FollowInv, NEW c \in Client, link[c] # NoSlot, Letters(Conn(c)) = {},
           call[Conn(c)] = NoCall, NEW d \in Doc, Live(d)
    PROVE  Remote(c, d) = docs[d].data
<1>1. PICK n \in Slot : n = link[c]
  BY DEF FP!FollowInv, FP!FeedTypeOK
<1>2. PICK s : s = <<c, n>>
  OBVIOUS
<1>3. s = Conn(c)
  BY <1>1, <1>2 DEF Conn
<1>4. FP!Follows(c, s)
  BY <1>1, <1>2 DEF FP!FollowInv, FP!Following
<1>5. FP!Pending(s) = {}
  BY <1>3 DEF FP!Pending, FP!Range, Letters, Range
<1>6. FP!Covered(c, s)
  BY <1>4, <1>5 DEF FP!Follows, FP!Failed
<1>7. FP!Live(d) /\ ~FP!Awaits(s, d)
  BY <1>3 DEF Live, FP!Live, FP!Awaits, NoCall
<1> QED
  BY <1>5, <1>6, <1>7 DEF FP!Covered

LEMMA CalmAgrees ==
    ASSUME SyncInv, FP!FollowInv, SettlingInv, trouble = 0, ~hasty, Quiescent
    PROVE  Agree
<1> SUFFICES ASSUME NEW c \in Client, NEW d \in Doc
             PROVE  /\ Local(c, d) = docs[d].data
                    /\ Has(replica[c], d) => replica[c].items[d].state = "synced"
  BY DEF Agree
<1>1. LinkFits(c) /\ ClientFits(c) /\ FP!GoneInv(c)
  BY DEF SettlingInv, CalmInv, CalmFits
<1>2. /\ link[c] # NoSlot /\ replica[c].status = "ready" /\ ~replica[c].flushTimer
      /\ Conn(c) \in Session
  BY LinkedSession DEF Quiescent
<1>3. /\ Letters(Conn(c)) = {} /\ call[Conn(c)] = NoCall
      /\ \A m \in Sent(Conn(c)) : m.kind # "change"
  BY <1>2 DEF Quiescent, Letters, Sent, Range, NoCall
<1>4. ~Down(c) /\ ~Denied(Conn(c), d) /\ Hears(Conn(c), d) = {} /\ ~Late(replica[c], d)
  BY <1>2, <1>3 DEF Down, Denied, Hears, Late
<1>5. Live(d) => Remote(c, d) = docs[d].data
  BY <1>2, <1>3, QuietCovered
<1>6. Deleted(d) => Remote(c, d) = Null
  BY <1>1, <1>2, <1>3, <1>4, DeletedHeard DEF NoCall
<1>7. Remote(c, d) # Null => Live(d)
  BY <1>6, RemoteKnown DEF SyncInv, Deleted
<1>8. CASE ~Has(replica[c], d)
  <2>1. Local(c, d) = Null /\ Remote(c, d) = Null
    BY <1>8 DEF SyncInv, Blank, Absent, Local, Remote
  <2> QED
    BY <1>5, <1>8, <2>1 DEF Live
<1>9. CASE Has(replica[c], d)
  <2> DEFINE i == replica[c].items[d]
  <2>1. Formed(i) /\ Settling(c, d)
    BY <1>1, <1>4, <1>9 DEF ClientFits, ItemFits
  <2>2. i.local # Null
    <3>1. i.local = Null => Deleted(d) /\ i.remote # Null
      BY <1>3, <1>4, <2>1 DEF Settling, Formed, DeletionComes, Wants
    <3> QED
      BY <1>6, <3>1 DEF Remote
  <2>3. i.remote # Null
    <3>1. i.remote = Null => Live(d)
      BY <1>3, <1>4, <2>1 DEF Settling, CreationComes, Wants
    <3> QED
      BY <1>5, <3>1 DEF Live, Remote
  <2>4. i.remote = docs[d].data /\ Live(d)
    BY <1>5, <1>7, <2>3 DEF Remote
  <2>5. i.local \subseteq i.remote
    <3>1. ASSUME NEW e \in i.local \ i.remote PROVE FALSE
      <4>1. EditComes(c, d, e)
        BY <2>1, <2>2, <2>3, <3>1 DEF Settling
      <4>2. e \in docs[d].data
        BY <1>3, <1>4, <2>4, <4>1 DEF EditComes, Wants
      <4> QED
        BY <2>4, <3>1, <4>2
    <3> QED
      BY <3>1
  <2>6. i.local = i.remote
    BY <2>1, <2>2, <2>3, <2>5 DEF Formed
  <2>7. i.state = "synced"
    BY <1>3, <1>4, <2>1, <2>6 DEF Settling, WordComes, Wants
  <2> QED
    BY <2>4, <2>6, <2>7 DEF Local
<1> QED
  BY <1>8, <1>9

\* While no connection is lost and no request fails, and no user touches a document
\* that the server is creating, all that users do settles: when nothing is on its way,
\* every user has what the server has, and is told so.  No edit waits for a flush that
\* is not due, no update is passed over in silence, and no item is left "sent" without
\* an answer to come (the handlers, `flush` and onChangeItem of
\* packages/client/src/collection.ts, with the requests and broadcasts of the
\* collection's actor, sinkron/src/actors/collection.rs), if a session subscribes
\* before its Sync is answered.
THEOREM SettlesIfCalm ==
    ASSUME SubscribeFirst
    PROVE  MCSpec => []SettledIfCalm
<1> DEFINE Inv == SyncInv /\ DeletedInv /\ FP!FollowInv /\ SettlingInv
<1>1. MCInit => Inv
  BY SyncInvInit, DeletedStart, FollowsStart, CalmStart DEF MCInit
<1>2. Inv /\ [MCNext]_MCVars => Inv'
  BY StepIsSync, SyncInvStep, DeletedStep, FollowsKept, CalmStep
<1>3. Inv => SettledIfCalm
  BY CalmAgrees DEF SettledIfCalm, Settled
<1> QED
  <2> HIDE DEF Inv
  <2> QED
    BY <1>1, <1>2, <1>3, PTL DEF MCSpec

=============================================================================
