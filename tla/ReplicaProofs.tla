---------------------------- MODULE ReplicaProofs ----------------------------
(***************************************************************************)
(* What the handlers of a client do to one document, for any documents and *)
(* edits, in whatever system the client is put.                            *)
(***************************************************************************)
EXTENDS Replica, FiniteSetTheorems, SequenceTheorems, SequencesExt, TLAPS

-----------------------------------------------------------------------------
(* The handlers of a client, one document at a time *)

\* l is k but for document d, what is queued, and the revision.
Alters(k, l, d) ==
    /\ k \in Replica /\ l \in Replica /\ l.status = k.status /\ l.stopped = k.stopped
    /\ \A e \in Doc : e # d => l.items[e] = k.items[e]

LEMMA ItemTypes ==
    ASSUME NEW k \in Replica, NEW d \in Doc
    PROVE  /\ k.items[d] \in Item
           /\ k.items[d].local \in Data /\ k.items[d].remote \in Data
           /\ k.items[d].local # Null => k.items[d].local \in Version
           /\ k.items[d].remote # Null => k.items[d].remote \in Version
BY DEF Replica, Item, Data

LEMMA PutFacts ==
    ASSUME NEW k \in Replica, NEW d \in Doc, NEW item \in Item
    PROVE  /\ Alters(k, Put(k, d, item), d)
           /\ Put(k, d, item).items[d] = item /\ Put(k, d, item).colrev = k.colrev
BY DEF Replica, Put, Alters

LEMMA QueueFacts ==
    ASSUME NEW k, NEW l, NEW d \in Doc, Alters(k, l, d)
    PROVE  /\ Alters(k, Queue(l, d), d) /\ Alters(k, Unqueue(l, d), d)
           /\ Queue(l, d).items = l.items /\ Queue(l, d).colrev = l.colrev
           /\ Unqueue(l, d).items = l.items /\ Unqueue(l, d).colrev = l.colrev
BY DEF Replica, Queue, Unqueue, Alters

LEMMA SettleFacts ==
    ASSUME NEW k \in Replica, NEW d \in Doc,
           NEW remote \in Version, NEW local \in Data
    PROVE  /\ Alters(k, Settle(k, d, remote, local), d)
           /\ Settle(k, d, remote, local).colrev = k.colrev
           /\ Settle(k, d, remote, local).items[d].remote = remote
           /\ Settle(k, d, remote, local).items[d].local = local
           /\ Has(Settle(k, d, remote, local), d)
<1> DEFINE item  == [remote |-> remote, local |-> local, state |-> "synced"]
           unsent == [item EXCEPT !.state = "changed"]
<1>1. item \in Item /\ unsent \in Item
  BY DEF Item, Data
<1>2. /\ Alters(k, Put(k, d, item), d) /\ Put(k, d, item).items[d] = item
      /\ Put(k, d, item).colrev = k.colrev
  BY <1>1, PutFacts
<1>3. /\ Alters(k, Put(k, d, unsent), d) /\ Put(k, d, unsent).items[d] = unsent
      /\ Put(k, d, unsent).colrev = k.colrev
  BY <1>1, PutFacts
<1>4. CASE Unsent(item)
  <2>1. Settle(k, d, remote, local) = Queue(Put(k, d, unsent), d)
    BY <1>4 DEF Settle
  <2> QED
    BY <1>3, <2>1, QueueFacts DEF Has
<1>5. CASE ~Unsent(item)
  <2>1. Settle(k, d, remote, local) = Unqueue(Put(k, d, item), d)
    BY <1>5 DEF Settle
  <2> QED
    BY <1>2, <2>1, QueueFacts DEF Has
<1> QED
  BY <1>4, <1>5

LEMMA MergeTypes ==
    ASSUME NEW k \in Replica, NEW d \in Doc, NEW data \in Version
    PROVE  /\ MergeLocal(k.items[d], data) \in Data
           /\ k.items[d].local = Null => MergeLocal(k.items[d], data) = Null
           /\ k.items[d].local # Null =>
                 /\ MergeLocal(k.items[d], data) = k.items[d].local \cup data
                 /\ MergeLocal(k.items[d], data) # Null
           /\ k.items[d].remote # Null => Merge(k.items[d].remote, data) \in Version
BY ItemTypes, NullAssumption DEF MergeLocal, Merge, Data, Version

\* What a message that holds `data` leaves of an item: nothing, or the data in the
\* server's copy and what was edited and the data in the user's.
Updated(i, j, remote, data) ==
    /\ j.state # "absent" /\ j.remote = remote
    /\ IF i.state = "absent" THEN j.local = data
       ELSE IF i.local = Null THEN j.local = Null ELSE j.local = i.local \cup data

LEMMA DocFacts ==
    ASSUME NEW k \in Replica, NEW d \in Doc, NEW data \in Data
    PROVE  LET l == HandleDoc(k, d, data) IN
           /\ Alters(k, l, d) /\ l.colrev = k.colrev
           /\ data = Null => l.items[d] = Absent
           /\ data # Null => Updated(k.items[d], l.items[d], data, data)
<1> DEFINE l   == HandleDoc(k, d, data)
           new == [remote |-> data, local |-> data, state |-> "synced"]
<1>1. CASE data = Null
  <2>1. Absent \in Item /\ l = Put(k, d, Absent)
    BY <1>1 DEF Absent, Item, Data, HandleDoc
  <2> QED
    BY <1>1, <2>1, PutFacts
<1>2. CASE data # Null /\ ~Has(k, d)
  <2>1. new \in Item /\ l = Put(k, d, new)
    BY <1>2 DEF Item, HandleDoc
  <2> QED
    BY <1>2, <2>1, PutFacts DEF Updated, Has
<1>3. CASE data # Null /\ Has(k, d)
  <2>1. l = Settle(k, d, data, MergeLocal(k.items[d], data)) /\ data \in Version
    BY <1>3 DEF HandleDoc, Data
  <2>2. MergeLocal(k.items[d], data) \in Data
    BY <2>1, MergeTypes
  <2>3. /\ Alters(k, l, d) /\ l.colrev = k.colrev /\ Has(l, d)
        /\ l.items[d].remote = data /\ l.items[d].local = MergeLocal(k.items[d], data)
    BY <2>1, <2>2, SettleFacts
  <2> QED
    BY <1>3, <2>1, <2>3, MergeTypes DEF Updated, Has
<1> QED
  BY <1>1, <1>2, <1>3

LEMMA UpdateFacts ==
    ASSUME NEW k \in Replica, NEW d \in Doc, NEW data \in Version,
           ~Has(k, d) => k.items[d] = Absent
    PROVE  LET l == HandleUpdate(k, d, data) IN
           /\ Alters(k, l, d) /\ l.colrev = k.colrev
           /\ ~CanUpdate(k, d) => l = k
           /\ CanUpdate(k, d) =>
                 Updated(k.items[d], l.items[d], Merge(k.items[d].remote, data), data)
<1> DEFINE l == HandleUpdate(k, d, data)
<1>1. CASE ~CanUpdate(k, d)
  BY <1>1 DEF HandleUpdate, Alters
<1>2. CASE CanUpdate(k, d)
  <2>1. Merge(k.items[d].remote, data) \in Version /\ MergeLocal(k.items[d], data) \in Data
    BY <1>2, MergeTypes DEF CanUpdate
  <2>2. Has(k, d)
    BY <1>2 DEF CanUpdate, Absent
  <2>3. l = Settle(k, d, Merge(k.items[d].remote, data), MergeLocal(k.items[d], data))
    BY <1>2 DEF HandleUpdate
  <2>4. /\ Alters(k, l, d) /\ l.colrev = k.colrev /\ Has(l, d)
        /\ l.items[d].remote = Merge(k.items[d].remote, data)
        /\ l.items[d].local = MergeLocal(k.items[d], data)
    BY <2>1, <2>3, SettleFacts
  <2> QED
    BY <1>2, <2>2, <2>4, MergeTypes DEF Updated, Has
<1> QED
  BY <1>1, <1>2

LEMMA DeleteFacts ==
    ASSUME NEW k \in Replica, NEW d \in Doc
    PROVE  LET l == HandleDelete(k, d) IN
           /\ Alters(k, l, d) /\ l.colrev = k.colrev
           /\ ~Has(k, d) => l = k
           /\ Has(k, d) => l.items[d] = Absent
<1>1. Absent \in Item
  BY DEF Absent, Item, Data
<1>2. CASE Has(k, d)
  <2>1. /\ Alters(k, Put(k, d, Absent), d) /\ Put(k, d, Absent).items[d] = Absent
        /\ Put(k, d, Absent).colrev = k.colrev
    BY <1>1, PutFacts
  <2>2. HandleDelete(k, d) = Unqueue(Put(k, d, Absent), d)
    BY <1>2 DEF HandleDelete
  <2> QED
    BY <1>2, <2>1, <2>2, QueueFacts
<1>3. CASE ~Has(k, d)
  BY <1>3 DEF HandleDelete, Alters
<1> QED
  BY <1>2, <1>3

\* A refusal other than not_found: back to the server's copy, or nothing.
LEMMA ErrorFacts ==
    ASSUME NEW k \in Replica, NEW d \in Doc, NEW code, code # "not_found"
    PROVE  LET l == HandleChangeError(k, d, code) IN
           /\ Alters(k, l, d) /\ l.colrev = k.colrev
           /\ ~Has(k, d) \/ code # "forbidden" => l = k
           /\ Has(k, d) /\ code = "forbidden" =>
                 /\ l.items[d].remote = k.items[d].remote
                 /\ l.items[d].local = k.items[d].remote
                 /\ IF Has(l, d) THEN l.items[d].remote # Null ELSE l.items[d] = Absent
<1> DEFINE known == k.items[d].remote
           back  == IF known = Null THEN Absent
                    ELSE [remote |-> known, local |-> known, state |-> "synced"]
<1>1. CASE Has(k, d) /\ code = "forbidden"
  <2>1. back \in Item
    BY ItemTypes DEF Absent, Item, Data
  <2>2. HandleChangeError(k, d, code) = Put(k, d, back)
    BY <1>1 DEF HandleChangeError, Restore
  <2> QED
    BY <1>1, <2>1, <2>2, PutFacts DEF Absent, Has
<1>2. CASE ~Has(k, d) \/ code # "forbidden"
  BY <1>2 DEF HandleChangeError, Alters
<1> QED
  BY <1>1, <1>2

-----------------------------------------------------------------------------
(* The same, for a message from the server *)

\* What a client is sent: an update is a version, a deletion is
\* not, and no document is missing.
Proper(m) ==
    /\ m \in ServerMessage
    /\ m.kind = "change" => /\ m.op = "*" => m.data \in Version
                            /\ m.op = "-" => m.data = Null
    /\ m.kind = "change_error" => m.code # "not_found"

\* Items that are not there are all alike.
Blank(k) == \A d \in Doc : ~Has(k, d) => k.items[d] = Absent

LEMMA ProperTypes ==
    ASSUME NEW m, Proper(m), m.kind \in {"doc", "change", "change_error"}
    PROVE  /\ m.id \in Doc
           /\ m.kind \in {"doc", "change"} => m.data \in Data
           /\ m.kind = "change" => m.op \in Op /\ m.colrev \in Nat
BY DEF Proper, ServerMessage

\* A message with which a client has a document that it had not.
Brings(m) ==
    /\ m.kind = "doc" \/ (m.kind = "change" /\ m.op = "+")
    /\ m.data # Null

\* What becomes of an item when a message about it is handled.
Effect(i, j, m) ==
    /\ j.state = "absent" => j = Absent
    /\ j.state # "absent" => i.state # "absent" \/ m.kind # "change_error"
    /\ \/ j.local \in {Null, i.local, i.remote}
       \/ /\ m.kind # "change_error"
          /\ j.local = m.data \/ (i.local # Null /\ m.data # Null /\ j.local = i.local \cup m.data)
    /\ \/ j.remote \in {Null, i.remote}
       \/ /\ m.kind # "change_error"
          /\ j.remote = m.data
                \/ (i.remote # Null /\ m.data # Null /\ j.remote = i.remote \cup m.data)
    /\ \/ i.local = Null
       \/ j.local # Null /\ i.local \subseteq j.local
       \/ IF m.kind = "change_error" THEN m.code = "forbidden" ELSE m.data = Null
    /\ j.state # "absent" /\ j.remote = Null => j = i
    /\ i.local = Null /\ j.local # Null =>
          \/ m.kind = "change_error" /\ m.code = "forbidden"
          \/ i.state = "absent" /\ Brings(m)

LEMMA UpdatedEffect ==
    ASSUME NEW k \in Replica, NEW d \in Doc, Blank(k), NEW j,
           NEW m, m.kind # "change_error", m.data \in Version, NEW remote,
           \/ remote = m.data /\ (m.kind = "doc" \/ (m.kind = "change" /\ m.op = "+"))
           \/ k.items[d].remote # Null /\ remote = k.items[d].remote \cup m.data,
           Updated(k.items[d], j, remote, m.data)
    PROVE  Effect(k.items[d], j, m)
<1> DEFINE i == k.items[d]
<1>1. m.data # Null /\ (i.state = "absent" => i.local = Null)
  BY NullAssumption DEF Version, Blank, Has, Absent
<1>2. i.local # Null => i.local \in Version /\ i.local \cup m.data # Null
  BY ItemTypes, NullAssumption DEF Version
<1>3. j.state # "absent" /\ j.remote = remote
  BY DEF Updated
<1>4. \/ j.local = Null /\ i.local = Null
      \/ j.local = m.data /\ i.local = Null
      \/ i.local # Null /\ j.local = i.local \cup m.data
  BY <1>1 DEF Updated
<1>5. j.remote # Null
  BY <1>3, ItemTypes, NullAssumption DEF Version
<1>6. i.local = Null /\ j.local # Null => i.state = "absent" /\ Brings(m)
  <2>1. i.local = Null /\ j.local # Null => i.state = "absent"
    BY DEF Updated
  <2>2. i.state = "absent" => i.remote = Null
    BY DEF Blank, Has, Absent
  <2> QED
    BY <1>1, <2>1, <2>2 DEF Brings
<1> QED
  BY <1>1, <1>2, <1>3, <1>4, <1>5, <1>6 DEF Effect

LEMMA SameEffect ==
    ASSUME NEW k \in Replica, NEW d \in Doc, Blank(k), NEW m,
           \/ k.items[d].local = Null
           \/ m.kind = "change" /\ m.op = "*" /\ m.data \in Version
           \/ m.kind = "change_error"
    PROVE  Effect(k.items[d], k.items[d], m)
BY DEF Effect, Blank, Has

LEMMA AbsentEffect ==
    ASSUME NEW k \in Replica, NEW d \in Doc, NEW m, m.kind # "change_error", m.data = Null
    PROVE  Effect(k.items[d], Absent, m)
BY DEF Effect, Absent

\* What a message leaves of the server's copy, as module Feed has it.
Applied(copy, m) ==
    IF m.kind = "change" /\ m.op = "*"
    THEN IF copy = Null THEN Null ELSE Merge(copy, m.data)
    ELSE m.data

LEMMA MessageFacts ==
    ASSUME NEW k \in Replica, Blank(k), NEW m, Proper(m),
           m.kind \in {"doc", "change", "change_error"}
    PROVE  LET l == HandleMessage(k, m) IN
           /\ l \in Replica /\ l.status = k.status /\ l.stopped = k.stopped
           /\ l.colrev = IF m.kind = "change" THEN m.colrev ELSE k.colrev
           /\ \A e \in Doc : e # m.id => l.items[e] = k.items[e]
           /\ l.items[m.id].remote = IF m.kind = "change_error" THEN k.items[m.id].remote
                                     ELSE Applied(k.items[m.id].remote, m)
           /\ Effect(k.items[m.id], l.items[m.id], m)
<1> DEFINE i == k.items[m.id]
           Good(l) == /\ Alters(k, l, m.id) /\ l.colrev = k.colrev
                      /\ l.items[m.id].remote = IF m.kind = "change_error" THEN i.remote
                                                ELSE Applied(i.remote, m)
                      /\ Effect(i, l.items[m.id], m)
<1>1. /\ m.id \in Doc
      /\ m.kind \in {"doc", "change"} => m.data \in Data
      /\ m.kind = "change" => m.op \in Op /\ m.colrev \in Nat
      /\ m.kind \in {"doc", "change"} /\ m.data # Null => m.data \in Version
  BY ProperTypes DEF Data
<1>2. ~Has(k, m.id) => i = Absent
  BY <1>1 DEF Blank
<1>3. ASSUME m.kind = "doc" \/ (m.kind = "change" /\ m.op = "+")
      PROVE  Good(HandleDoc(k, m.id, m.data))
  <2> DEFINE l == HandleDoc(k, m.id, m.data)
  <2>1. /\ Alters(k, l, m.id) /\ l.colrev = k.colrev
        /\ m.data = Null => l.items[m.id] = Absent
        /\ m.data # Null => Updated(i, l.items[m.id], m.data, m.data)
    BY <1>1, <1>3, DocFacts
  <2>2. Applied(i.remote, m) = m.data
    BY <1>3 DEF Applied
  <2>3. CASE m.data = Null
    BY <1>1, <1>3, <2>1, <2>2, <2>3, AbsentEffect DEF Absent
  <2>4. CASE m.data # Null
    <3>1. Effect(i, l.items[m.id], m)
      BY <1>1, <1>3, <2>1, <2>4, UpdatedEffect
    <3> QED
      BY <1>3, <2>1, <2>2, <2>4, <3>1 DEF Updated
  <2> QED
    BY <2>3, <2>4
<1>4. ASSUME m.kind = "change", m.op = "*" PROVE Good(HandleUpdate(k, m.id, m.data))
  <2> DEFINE l == HandleUpdate(k, m.id, m.data)
  <2>1. m.data \in Version
    BY <1>4 DEF Proper
  <2>2. /\ Alters(k, l, m.id) /\ l.colrev = k.colrev
        /\ ~CanUpdate(k, m.id) => l = k
        /\ CanUpdate(k, m.id) =>
              Updated(i, l.items[m.id], Merge(i.remote, m.data), m.data)
    BY <1>1, <1>2, <2>1, UpdateFacts
  <2>3. CASE i.remote = Null
    <3>1. Applied(i.remote, m) = Null /\ l = k
      BY <1>4, <2>2, <2>3 DEF Applied, CanUpdate
    <3> QED
      BY <1>1, <1>4, <2>1, <2>2, <2>3, <3>1, SameEffect
  <2>4. CASE i.remote # Null
    <3>1. Applied(i.remote, m) = i.remote \cup m.data
      BY <1>4, <2>4 DEF Applied, Merge
    <3>2. Updated(i, l.items[m.id], i.remote \cup m.data, m.data)
      BY <2>2, <2>4 DEF CanUpdate, Merge
    <3>3. Effect(i, l.items[m.id], m)
      BY <1>1, <1>4, <2>1, <2>4, <3>2, UpdatedEffect
    <3> QED
      BY <1>4, <2>2, <3>1, <3>2, <3>3 DEF Updated
  <2> QED
    BY <2>3, <2>4
<1>5. ASSUME m.kind = "change", m.op = "-" PROVE Good(HandleDelete(k, m.id))
  <2> DEFINE l == HandleDelete(k, m.id)
  <2>1. Alters(k, l, m.id) /\ l.colrev = k.colrev /\ l.items[m.id] = Absent
    BY <1>1, <1>2, DeleteFacts
  <2>2. m.data = Null /\ Applied(i.remote, m) = Null
    BY <1>5 DEF Proper, Applied
  <2> QED
    BY <1>1, <1>5, <2>1, <2>2, AbsentEffect DEF Absent
<1>6. ASSUME m.kind = "change_error" PROVE Good(HandleChangeError(k, m.id, m.code))
  <2> DEFINE l == HandleChangeError(k, m.id, m.code)
  <2>1. m.code # "not_found"
    BY <1>6 DEF Proper
  <2>2. /\ Alters(k, l, m.id) /\ l.colrev = k.colrev
        /\ ~Has(k, m.id) \/ m.code # "forbidden" => l = k
        /\ Has(k, m.id) /\ m.code = "forbidden" =>
              /\ l.items[m.id].remote = i.remote /\ l.items[m.id].local = i.remote
              /\ IF Has(l, m.id) THEN l.items[m.id].remote # Null
                                 ELSE l.items[m.id] = Absent
    BY <1>1, <2>1, ErrorFacts
  <2>3. CASE l = k
    BY <1>1, <1>6, <2>2, <2>3, SameEffect
  <2>4. CASE Has(k, m.id) /\ m.code = "forbidden"
    BY <1>6, <2>2, <2>4 DEF Effect, Has
  <2> QED
    BY <2>2, <2>3, <2>4
<1>7. CASE m.kind = "doc"
  <2>1. HandleMessage(k, m) = HandleDoc(k, m.id, m.data)
    BY <1>7 DEF HandleMessage
  <2> QED
    BY <1>3, <1>7, <2>1 DEF Alters
<1>8. CASE m.kind = "change"
  <2>1. PICK l : Good(l) /\ HandleMessage(k, m) = [l EXCEPT !.colrev = m.colrev]
    BY <1>1, <1>3, <1>4, <1>5, <1>8 DEF HandleMessage, HandleChange, Op
  <2> QED
    BY <1>1, <1>8, <2>1 DEF Alters, Replica
<1>9. CASE m.kind = "change_error"
  <2>1. HandleMessage(k, m) = HandleChangeError(k, m.id, m.code)
    BY <1>9 DEF HandleMessage
  <2> QED
    BY <1>6, <1>9, <2>1 DEF Alters
<1> QED
  BY <1>7, <1>8, <1>9

\* Word of a deletion leaves nothing.
LEMMA NullFacts ==
    ASSUME NEW k \in Replica, Blank(k), NEW m, Proper(m),
           m.kind \in {"doc", "change"}, m.data = Null
    PROVE  HandleMessage(k, m).items[m.id] = Absent
<1>1. m.id \in Doc /\ m.data \in Data /\ (m.kind = "change" => m.op \in Op)
  BY ProperTypes
<1>2. HandleDoc(k, m.id, m.data).items[m.id] = Absent
  BY <1>1, DocFacts
<1>3. HandleDelete(k, m.id).items[m.id] = Absent
  BY <1>1, DeleteFacts DEF Blank
<1>4. CASE m.kind = "doc"
  BY <1>2, <1>4 DEF HandleMessage
<1>5. CASE m.kind = "change"
  <2>1. m.op \in {"+", "-"}
    BY <1>1, <1>5, NullAssumption DEF Proper, Op, Version
  <2>2. HandleChange(k, m).items[m.id] = Absent
    <3>1. HandleDoc(k, m.id, m.data) \in Replica /\ HandleDelete(k, m.id) \in Replica
      BY <1>1, DocFacts, DeleteFacts DEF Alters
    <3>2. \A l \in Replica : [l EXCEPT !.colrev = m.colrev].items = l.items
      BY DEF Replica
    <3> QED
      BY <1>2, <1>3, <2>1, <3>1, <3>2 DEF HandleChange
  <2> QED
    BY <1>5, <2>2 DEF HandleMessage
<1> QED
  BY <1>4, <1>5

-----------------------------------------------------------------------------
(* What a client sends *)

\* l is k, but for what is queued and what is sent.
Alike(k, l) ==
    /\ k \in Replica /\ l \in Replica /\ l.colrev = k.colrev /\ l.stopped = k.stopped
    /\ \A d \in Doc : /\ l.items[d].local = k.items[d].local
                      /\ l.items[d].remote = k.items[d].remote
                      /\ k.items[d].state = "absent" <=> l.items[d].state = "absent"
                      /\ l.items[d].state \in {k.items[d].state, "sent"}

LEMMA FlushFacts ==
    ASSUME NEW k \in Replica
    PROVE  /\ Alike(k, Flush(k))
           /\ \A d \in ToFlush(k) : Flush(k).items[d].state = "sent"
<1> DEFINE items == [d \in Doc |-> IF d \in ToFlush(k)
                                   THEN [k.items[d] EXCEPT !.state = "sent"]
                                   ELSE k.items[d]]
<1>1. \A d \in ToFlush(k) : d \in Doc /\ k.items[d].state # "absent"
  BY DEF ToFlush, Has, Replica
<1>2. ASSUME NEW d \in Doc
      PROVE  /\ items[d] \in Item /\ items[d].local = k.items[d].local
             /\ items[d].remote = k.items[d].remote
             /\ k.items[d].state = "absent" <=> items[d].state = "absent"
             /\ items[d].state = IF d \in ToFlush(k) THEN "sent" ELSE k.items[d].state
  <2>1. k.items[d] \in Item
    BY ItemTypes
  <2>2. [k.items[d] EXCEPT !.state = "sent"] \in Item
    BY <2>1 DEF Item
  <2> QED
    BY <1>1, <2>1, <2>2 DEF Item
<1>3. Flush(k).items = items /\ Flush(k) = [k EXCEPT !.items = items, !.flushQueue = {}]
  BY DEF Flush, Replica
<1>4. items \in [Doc -> Item]
  BY <1>2
<1>5. Flush(k) \in Replica /\ Flush(k).colrev = k.colrev /\ Flush(k).stopped = k.stopped
  <2> HIDE DEF items
  <2>1. [k EXCEPT !.items = items, !.flushQueue = {}] \in Replica
    BY <1>4 DEF Replica
  <2>2. /\ [k EXCEPT !.items = items, !.flushQueue = {}].colrev = k.colrev
        /\ [k EXCEPT !.items = items, !.flushQueue = {}].stopped = k.stopped
    BY DEF Replica
  <2> QED
    BY <1>3, <2>1, <2>2
<1>6. Flush(k).items = items
  <2> HIDE DEF items
  <2> QED
    BY <1>3
<1>7. ASSUME NEW d \in Doc
      PROVE  LET x == Flush(k).items[d] IN
             /\ x.local = k.items[d].local /\ x.remote = k.items[d].remote
             /\ k.items[d].state = "absent" <=> x.state = "absent"
             /\ x.state \in {k.items[d].state, "sent"}
             /\ d \in ToFlush(k) => x.state = "sent"
  <2> HIDE DEF items
  <2> QED
    BY <1>2, <1>6
<1> HIDE DEF items
<1> QED
  BY <1>1, <1>5, <1>7 DEF Alike

LEMMA FlushTypes ==
    ASSUME NEW k \in Replica, NEW d \in Doc
    PROVE  LET m == FlushMessage(d, k.items[d]) IN
           /\ m \in ClientMessage
           /\ m.kind = "change" =>
                 /\ m.id = d
                 /\ m.op = "+" => m.data = k.items[d].local
                 /\ m.op # "+" => k.items[d].remote # Null
                 /\ m.op = "*" => /\ k.items[d].local # Null
                                  /\ m.data = k.items[d].local \ k.items[d].remote
           /\ m.kind \in {"change", "garbled"}
<1> DEFINE i == k.items[d]
<1>1. /\ i.local # Null => i.local \in Version
      /\ i.remote # Null => i.remote \in Version
  BY ItemTypes
<1>2. CASE i.local # Null /\ i.remote = Null
  <2>1. FlushMessage(d, i) = Change("+", d, i.local)
    BY <1>2 DEF FlushMessage
  <2> QED
    BY <1>1, <1>2, <2>1 DEF Change, ClientMessage, ChangeRequest, Op, Data
<1>3. CASE i.local = Null /\ i.remote # Null
  <2>1. FlushMessage(d, i) = Change("-", d, Null)
    BY <1>3 DEF FlushMessage
  <2> QED
    BY <1>3, <2>1 DEF Change, ClientMessage, ChangeRequest, Op, Data
<1>4. CASE i.local # Null /\ i.remote # Null
  <2>1. FlushMessage(d, i) = Change("*", d, i.local \ i.remote)
    BY <1>4 DEF FlushMessage, UpdateSince
  <2>2. i.local \ i.remote \in Version /\ i.local \ i.remote # Null
    BY <1>1, <1>4, NullAssumption DEF Version
  <2> QED
    BY <1>4, <2>1, <2>2 DEF Change, ClientMessage, ChangeRequest, Op, Data
<1>5. CASE i.local = Null /\ i.remote = Null
  <2>1. FlushMessage(d, i) = [kind |-> "garbled", id |-> d]
    BY <1>5 DEF FlushMessage
  <2> QED
    BY <2>1 DEF ClientMessage, Garbled
<1> QED
  BY <1>2, <1>3, <1>4, <1>5

LEMMA FlushMessages ==
    ASSUME IsFiniteSet(Doc), NEW k \in Replica, NEW order \in SetToSeqs(ToFlush(k))
    PROVE  LET msgs == [i \in DOMAIN order |-> FlushMessage(order[i], k.items[order[i]])] IN
           /\ msgs \in Seq(ClientMessage)
           /\ \A m \in Range(msgs) :
                 \E d \in ToFlush(k) : Has(k, d) /\ m = FlushMessage(d, k.items[d])
<1> DEFINE n    == Cardinality(ToFlush(k))
           msgs == [i \in DOMAIN order |-> FlushMessage(order[i], k.items[order[i]])]
<1>1. ToFlush(k) \subseteq Doc /\ \A d \in ToFlush(k) : Has(k, d)
  BY DEF ToFlush, Replica
<1>2. n \in Nat
  BY <1>1, FS_Subset, FS_CardinalityType
<1>3. order \in [1..n -> ToFlush(k)]
  BY DEF SetToSeqs
<1>4. \A i \in 1..n : /\ order[i] \in ToFlush(k) /\ Has(k, order[i])
                      /\ FlushMessage(order[i], k.items[order[i]]) \in ClientMessage
  BY <1>1, <1>3, FlushTypes
<1>5. msgs \in Seq(ClientMessage)
  BY <1>2, <1>3, <1>4, IsASeq
<1> QED
  BY <1>3, <1>4, <1>5 DEF Range

-----------------------------------------------------------------------------
(* The user's operations *)

LEMMA CreateFacts ==
    ASSUME NEW k \in Replica, NEW d \in Doc, NEW data \in Version
    PROVE  LET l == Create(k, d, data) IN
           /\ Alters(k, l, d) /\ l.colrev = k.colrev
           /\ l.items[d] = [remote |-> Null, local |-> data, state |-> "changed"]
<1>1. [remote |-> Null, local |-> data, state |-> "changed"] \in Item
  BY DEF Item, Data
<1> QED
  BY <1>1, PutFacts, QueueFacts DEF Create

LEMMA EditedFacts ==
    ASSUME NEW k \in Replica, NEW d \in Doc, CanEdit(k, d), NEW e \in Edit
    PROVE  LET l == Edited(k, d, e) IN
           /\ Alters(k, l, d) /\ l.colrev = k.colrev
           /\ l.items[d].remote = k.items[d].remote
           /\ l.items[d].local = k.items[d].local \cup {e}
           /\ l.items[d].state = "changed"
<1> DEFINE item == [k.items[d] EXCEPT !.local = @ \cup {e}, !.state = "changed"]
<1>1. k.items[d] \in Item /\ k.items[d].local \in Version
  BY ItemTypes DEF CanEdit
<1>2. item \in Item
  BY <1>1 DEF Item, Data, Version
<1>3. /\ item.remote = k.items[d].remote /\ item.local = k.items[d].local \cup {e}
      /\ item.state = "changed"
  BY <1>1 DEF Item
<1> HIDE DEF item
<1>4. Edited(k, d, e) = Queue(Put(k, d, item), d)
  BY DEF Edited, item
<1> QED
  BY <1>2, <1>3, <1>4, PutFacts, QueueFacts

LEMMA RemovedFacts ==
    ASSUME NEW k \in Replica, NEW d \in Doc
    PROVE  LET l == Delete(k, d) IN
           /\ Alters(k, l, d) /\ l.colrev = k.colrev
           /\ l.items[d].remote = k.items[d].remote /\ l.items[d].local = Null
           /\ ~Has(l, d) => l.items[d] = Absent
           /\ k.items[d].remote = Null => l.items[d] = Absent
<1> DEFINE item == [k.items[d] EXCEPT !.local = Null, !.state = "changed"]
<1>1. CASE k.items[d].remote = Null
  <2>1. Absent \in Item
    BY DEF Absent, Item, Data
  <2> QED
    BY <1>1, <2>1, PutFacts DEF Delete, Absent
<1>2. CASE k.items[d].remote # Null
  <2>1. item \in Item /\ item.remote = k.items[d].remote /\ item.local = Null
        /\ item.state = "changed"
    BY ItemTypes DEF Item, Data
  <2> HIDE DEF item
  <2>2. Delete(k, d) = Queue(Put(k, d, item), d)
    BY <1>2 DEF Delete, item
  <2> QED
    BY <1>2, <2>1, <2>2, PutFacts, QueueFacts DEF Has
<1> QED
  BY <1>1, <1>2

-----------------------------------------------------------------------------
(* What is queued, and what a flush sends of it *)

\* The flush of a queued item is due, or follows the sync.
Late(k, d) == d \in k.flushQueue /\ (k.flushTimer \/ k.status # "ready")

\* l has in its queue what k has, but for document d.
QueuesAs(k, l, d) ==
    /\ l.flushTimer = k.flushTimer
    /\ \A e \in Doc : e # d => (e \in l.flushQueue <=> e \in k.flushQueue)

\* Document d is as the server has it, or something of it is to be sent, and queued.
Settles(l, d, remote, local) ==
    /\ l.items[d].remote = remote /\ l.items[d].local = local
    /\ IF local = Null \/ ~(local \subseteq remote)
       THEN l.items[d].state = "changed" /\ d \in l.flushQueue
       ELSE l.items[d].state = "synced"

LEMMA PutQueues ==
    ASSUME NEW k \in Replica, NEW d \in Doc, NEW item
    PROVE  LET l == Put(k, d, item) IN
           /\ QueuesAs(k, l, d) /\ l.flushQueue = k.flushQueue
           /\ l.status = k.status /\ l.items[d] = item
           /\ QueuesAs(k, Queue(l, d), d) /\ d \in Queue(l, d).flushQueue
           /\ Queue(l, d).status = k.status /\ Queue(l, d).items[d] = item
           /\ QueuesAs(k, Unqueue(l, d), d) /\ Unqueue(l, d).items[d] = item
BY DEF Replica, Put, Queue, Unqueue, QueuesAs

LEMMA SettleQueues ==
    ASSUME NEW k \in Replica, NEW d \in Doc, NEW remote \in Version, NEW local \in Data
    PROVE  LET l == Settle(k, d, remote, local) IN
           QueuesAs(k, l, d) /\ Settles(l, d, remote, local)
<1> DEFINE item  == [remote |-> remote, local |-> local, state |-> "synced"]
           unsent == [item EXCEPT !.state = "changed"]
           l      == Settle(k, d, remote, local)
<1>1. Unsent(item) <=> local = Null \/ ~(local \subseteq remote)
  BY DEF Unsent, HasChanges
<1>2. CASE Unsent(item)
  <2>1. l = Queue(Put(k, d, unsent), d)
    BY <1>2 DEF Settle
  <2>2. QueuesAs(k, l, d) /\ l.items[d] = unsent /\ d \in l.flushQueue
    BY <2>1, PutQueues
  <2> QED
    BY <1>1, <1>2, <2>2 DEF Settles
<1>3. CASE ~Unsent(item)
  <2>1. l = Unqueue(Put(k, d, item), d)
    BY <1>3 DEF Settle
  <2>2. QueuesAs(k, l, d) /\ l.items[d] = item
    BY <2>1, PutQueues
  <2> QED
    BY <1>1, <1>3, <2>2 DEF Settles
<1> QED
  BY <1>2, <1>3

\* What a message leaves of an item i: nothing, the item as it was, what the server
\* has, or that with the user's edits on top of it.
Handled(k, l, m) ==
    LET i == k.items[m.id]
        j == l.items[m.id]
    IN
    \/ j = Absent
    \/ /\ j = i /\ (m.id \in l.flushQueue <=> m.id \in k.flushQueue)
       /\ \/ m.kind = "change" /\ m.op = "*" /\ i.remote = Null
          \/ m.kind = "change_error" /\ m.code # "forbidden"
    \/ j.state = "synced" /\ j.remote # Null /\ j.local = j.remote
    \/ /\ m.kind \in {"doc", "change"} /\ m.data \in Version /\ Has(k, m.id)
       /\ \E remote \in Version :
             /\ \/ remote = m.data
                \/ i.remote # Null /\ remote = i.remote \cup m.data
             /\ Settles(l, m.id, remote,
                        IF i.local = Null THEN Null ELSE i.local \cup m.data)

LEMMA HandledDoc ==
    ASSUME NEW k \in Replica, NEW m, m.id \in Doc, m.data \in Data,
           m.kind = "doc" \/ (m.kind = "change" /\ m.op = "+")
    PROVE  LET l == HandleDoc(k, m.id, m.data) IN
           QueuesAs(k, l, m.id) /\ Handled(k, l, m)
<1> DEFINE d   == m.id
           i   == k.items[m.id]
           l   == HandleDoc(k, m.id, m.data)
           new == [remote |-> m.data, local |-> m.data, state |-> "synced"]
<1>1. CASE m.data = Null
  <2>1. l = Put(k, d, Absent)
    BY <1>1 DEF HandleDoc
  <2>2. QueuesAs(k, l, d) /\ l.items[d] = Absent
    BY <2>1, PutQueues
  <2> QED
    BY <2>2 DEF Handled
<1>2. CASE m.data # Null /\ ~Has(k, d)
  <2>1. l = Put(k, d, new)
    BY <1>2 DEF HandleDoc
  <2>2. QueuesAs(k, l, d) /\ l.items[d] = new
    BY <2>1, PutQueues
  <2> QED
    BY <1>2, <2>2 DEF Handled
<1>3. CASE m.data # Null /\ Has(k, d)
  <2>1. l = Settle(k, d, m.data, MergeLocal(i, m.data)) /\ m.data \in Version
    BY <1>3 DEF HandleDoc, Data
  <2>2. MergeLocal(i, m.data) \in Data
        /\ MergeLocal(i, m.data) = IF i.local = Null THEN Null ELSE i.local \cup m.data
    BY <2>1, MergeTypes
  <2>3. QueuesAs(k, l, d) /\ Settles(l, d, m.data, MergeLocal(i, m.data))
    BY <2>1, <2>2, SettleQueues
  <2>4. Handled(k, l, m)
    BY <1>3, <2>1, <2>2, <2>3 DEF Handled
  <2> QED
    BY <2>3, <2>4
<1> QED
  BY <1>1, <1>2, <1>3

LEMMA HandledUpdate ==
    ASSUME NEW k \in Replica, Blank(k), NEW m, m.id \in Doc, m.data \in Version,
           m.kind = "change", m.op = "*"
    PROVE  LET l == HandleUpdate(k, m.id, m.data) IN
           QueuesAs(k, l, m.id) /\ Handled(k, l, m)
<1> DEFINE d == m.id
           i == k.items[m.id]
           l == HandleUpdate(k, m.id, m.data)
<1>1. CASE i.remote = Null
  <2>1. l = k
    BY <1>1 DEF HandleUpdate, CanUpdate
  <2> QED
    BY <1>1, <2>1 DEF Handled, QueuesAs
<1>2. CASE i.remote # Null
  <2>1. l = Settle(k, d, Merge(i.remote, m.data), MergeLocal(i, m.data))
    BY <1>2 DEF HandleUpdate, CanUpdate
  <2>2. /\ MergeLocal(i, m.data) \in Data
        /\ MergeLocal(i, m.data) = IF i.local = Null THEN Null ELSE i.local \cup m.data
        /\ Merge(i.remote, m.data) \in Version /\ Merge(i.remote, m.data) = i.remote \cup m.data
    BY <1>2, MergeTypes DEF Merge
  <2>3. QueuesAs(k, l, d) /\ Settles(l, d, i.remote \cup m.data, MergeLocal(i, m.data))
    BY <2>1, <2>2, SettleQueues
  <2>4. Has(k, m.id)
    BY <1>2 DEF Blank, Absent
  <2>5. Handled(k, l, m)
    BY <1>2, <2>2, <2>3, <2>4 DEF Handled
  <2> QED
    BY <2>3, <2>5
<1> QED
  BY <1>1, <1>2

LEMMA HandledError ==
    ASSUME NEW k \in Replica, Blank(k), NEW m, m.id \in Doc,
           m.kind = "change_error", m.code # "not_found"
    PROVE  LET l == HandleChangeError(k, m.id, m.code) IN
           QueuesAs(k, l, m.id) /\ Handled(k, l, m)
<1> DEFINE d    == m.id
           i    == k.items[m.id]
           l    == HandleChangeError(k, m.id, m.code)
           item == IF i.remote = Null THEN Absent
                   ELSE [remote |-> i.remote, local |-> i.remote, state |-> "synced"]
<1>1. CASE ~Has(k, d)
  <2>1. l = k /\ i = Absent
    BY <1>1 DEF HandleChangeError, Blank
  <2> QED
    BY <2>1 DEF Handled, QueuesAs
<1>2. CASE Has(k, d) /\ m.code # "forbidden"
  <2>1. l = k
    BY <1>2 DEF HandleChangeError
  <2> QED
    BY <1>2, <2>1 DEF Handled, QueuesAs
<1>3. CASE Has(k, d) /\ m.code = "forbidden"
  <2>1. l = Put(k, d, item)
    BY <1>3 DEF HandleChangeError, Restore
  <2>2. QueuesAs(k, l, d) /\ l.items[d] = item
    <3> HIDE DEF item
    <3> QED
      BY <2>1, PutQueues
  <2> QED
    BY <2>2 DEF Handled
<1> QED
  BY <1>1, <1>2, <1>3

LEMMA HandledFacts ==
    ASSUME NEW k \in Replica, Blank(k), NEW m, Proper(m),
           m.kind \in {"doc", "change", "change_error"}
    PROVE  LET l == HandleMessage(k, m) IN
           QueuesAs(k, l, m.id) /\ Handled(k, l, m)
<1>1. /\ m.id \in Doc
      /\ m.kind \in {"doc", "change"} => m.data \in Data
      /\ m.kind = "change" => m.op \in Op /\ m.colrev \in Nat
  BY ProperTypes
<1>2. CASE m.kind = "doc"
  <2>1. HandleMessage(k, m) = HandleDoc(k, m.id, m.data)
    BY <1>2 DEF HandleMessage
  <2> QED
    BY <1>1, <1>2, <2>1, HandledDoc
<1>3. CASE m.kind = "change_error"
  <2>1. HandleMessage(k, m) = HandleChangeError(k, m.id, m.code)
    BY <1>3 DEF HandleMessage
  <2> QED
    BY <1>1, <1>3, <2>1, HandledError DEF Proper
<1>4. CASE m.kind = "change"
  <2>1. ASSUME NEW j \in Replica, QueuesAs(k, j, m.id), Handled(k, j, m)
        PROVE  LET l == [j EXCEPT !.colrev = m.colrev] IN
               QueuesAs(k, l, m.id) /\ Handled(k, l, m)
    <3>1. PICK l : l = [j EXCEPT !.colrev = m.colrev]
      OBVIOUS
    <3>2. l.items = j.items /\ l.flushQueue = j.flushQueue /\ l.flushTimer = j.flushTimer
      BY <2>1, <3>1 DEF Replica
    <3>3. QueuesAs(k, l, m.id)
      BY <2>1, <3>2 DEF QueuesAs
    <3>4. Handled(k, l, m)
      BY <2>1, <3>2 DEF Handled, Settles
    <3> QED
      BY <3>1, <3>3, <3>4
  <2>2. CASE m.op = "+"
    <3>1. HandleMessage(k, m) = [HandleDoc(k, m.id, m.data) EXCEPT !.colrev = m.colrev]
      BY <1>4, <2>2 DEF HandleMessage, HandleChange
    <3>2. HandleDoc(k, m.id, m.data) \in Replica
      BY <1>1, <1>4, DocFacts DEF Alters
    <3> QED
      BY <1>1, <1>4, <2>1, <2>2, <3>1, <3>2, HandledDoc
  <2>3. CASE m.op = "*"
    <3>1. HandleMessage(k, m) = [HandleUpdate(k, m.id, m.data) EXCEPT !.colrev = m.colrev]
      BY <1>4, <2>3 DEF HandleMessage, HandleChange
    <3>2. m.data \in Version /\ (~Has(k, m.id) => k.items[m.id] = Absent)
      BY <1>1, <1>4, <2>3 DEF Proper, Blank
    <3>3. HandleUpdate(k, m.id, m.data) \in Replica
      BY <1>1, <3>2, UpdateFacts DEF Alters
    <3> QED
      BY <1>1, <1>4, <2>1, <2>3, <3>1, <3>2, <3>3, HandledUpdate
  <2>4. CASE m.op = "-"
    <3>1. HandleMessage(k, m) = [HandleDelete(k, m.id) EXCEPT !.colrev = m.colrev]
      BY <1>4, <2>4 DEF HandleMessage, HandleChange
    <3>2. /\ HandleDelete(k, m.id) \in Replica
          /\ HandleDelete(k, m.id).items[m.id] = Absent
      BY <1>1, DeleteFacts DEF Alters, Blank
    <3>3. QueuesAs(k, HandleDelete(k, m.id), m.id)
      <4>1. CASE Has(k, m.id)
        BY <1>1, <4>1, PutQueues DEF HandleDelete
      <4>2. CASE ~Has(k, m.id)
        BY <4>2 DEF HandleDelete, QueuesAs
      <4> QED
        BY <4>1, <4>2
    <3>4. Handled(k, HandleDelete(k, m.id), m)
      BY <3>2 DEF Handled
    <3> QED
      BY <2>1, <3>1, <3>2, <3>3, <3>4
  <2> QED
    BY <1>1, <1>4, <2>2, <2>3, <2>4 DEF Op
<1> QED
  BY <1>2, <1>3, <1>4

\* A flush leaves nothing queued, and sends all that was.
LEMMA FlushLeaves ==
    ASSUME NEW k \in Replica
    PROVE  LET l == Flush(k) IN
           /\ l.flushQueue = {} /\ l.flushTimer = k.flushTimer /\ l.status = k.status
           /\ \A d \in Doc : l.items[d] = IF d \in ToFlush(k)
                                          THEN [k.items[d] EXCEPT !.state = "sent"]
                                          ELSE k.items[d]
BY DEF Flush, Replica

LEMMA FlushSends ==
    ASSUME IsFiniteSet(Doc), NEW k \in Replica, NEW order \in SetToSeqs(ToFlush(k)),
           NEW d \in ToFlush(k)
    PROVE  FlushMessage(d, k.items[d])
              \in Range([i \in DOMAIN order |-> FlushMessage(order[i], k.items[order[i]])])
<1> DEFINE n == Cardinality(ToFlush(k))
<1>1. ToFlush(k) \subseteq Doc
  BY DEF ToFlush, Replica
<1>2. IsFiniteSet(ToFlush(k)) /\ n \in Nat
  BY <1>1, FS_Subset, FS_CardinalityType
<1>3. /\ order \in [1..n -> ToFlush(k)]
      /\ \A i, j \in 1..n : i # j => order[i] # order[j]
  BY DEF SetToSeqs
<1>4. \E i \in 1..n : order[i] = d
  <2>1. order \in Injection(1..n, ToFlush(k))
    BY <1>3 DEF Injection, IsInjective
  <2>2. Cardinality(1..n) = n /\ IsFiniteSet(1..n)
    BY <1>2, FS_Interval
  <2>3. order \in Surjection(1..n, ToFlush(k))
    BY <1>2, <2>1, <2>2, FS_Injection
  <2> QED
    BY <2>3 DEF Surjection
<1> QED
  BY <1>3, <1>4 DEF Range
=============================================================================
