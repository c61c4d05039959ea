----------------------------- MODULE StoreProofs -----------------------------
(***************************************************************************)
(* A collection in a browser, its local store and its connection: for any  *)
(* documents and edits, and however often the page is closed, the user     *)
(* logs out and connections are lost, a client resumes from where its      *)
(* documents are, while backups do not overlap and no revision outlives    *)
(* its documents.                                                          *)
(***************************************************************************)
EXTENDS MCStore, ReplicaProofs

-----------------------------------------------------------------------------
(* What is on its way to a client, about one document *)

Letter == {m \in ServerMessage : Proper(m)}

About(m, d) == m.kind \in {"doc", "change"} /\ m.id = d
Full(m)     == m.kind = "doc" \/ m.op = "+"
Dated(m)    == m.kind \in {"change", "sync_complete"}

\* What is on its way about a live document contains the copy, grows, and is
\* contained in the row; and a revision does not arrive before what it stands for.
Tracked(row, copy, msgs, d) ==
    /\ copy # Null => copy \subseteq row.data
    /\ \A i \in DOMAIN msgs : About(msgs[i], d) =>
          /\ msgs[i].data \in Version /\ msgs[i].data \subseteq row.data
          /\ copy # Null => copy \subseteq msgs[i].data
    /\ \A i \in DOMAIN msgs : \A j \in DOMAIN msgs :
          i < j /\ About(msgs[i], d) /\ About(msgs[j], d) => msgs[i].data \subseteq msgs[j].data
    /\ \A j \in DOMAIN msgs : Dated(msgs[j]) /\ row.rev <= msgs[j].colrev =>
          copy = row.data \/ \E i \in 1..j : About(msgs[i], d) /\ msgs[i].data = row.data

\* Who is online has the row or is about to, and gets updates of what it has.
Followed(row, copy, msgs, d) ==
    /\ copy = row.data \/ \E i \in DOMAIN msgs : About(msgs[i], d) /\ msgs[i].data = row.data
    /\ copy = Null => \E i \in DOMAIN msgs :
          /\ About(msgs[i], d) /\ Full(msgs[i])
          /\ \A j \in 1..(i - 1) : ~About(msgs[j], d)

LEMMA LetterTypes ==
    ASSUME NEW m \in Letter
    PROVE  /\ m \in ServerMessage /\ Proper(m)
           /\ \A d : About(m, d) => d \in Doc /\ m.data \in Data
           /\ m.kind = "change" => m.op \in Op /\ (m.op = "-" => m.data = Null)
           /\ Dated(m) => m.colrev \in Nat
BY DEF Letter, Proper, ServerMessage, About, Dated

\* The copy of a live document once the next message is handled: the message's data,
\* if it is about the document.
LEMMA NextCopy ==
    ASSUME NEW d \in Doc, NEW row, row.data \in Version, NEW copy \in Data,
           NEW msgs \in Seq(Letter), msgs # <<>>,
           Tracked(row, copy, msgs, d), Followed(row, copy, msgs, d), About(Head(msgs), d)
    PROVE  /\ Applied(copy, Head(msgs)) = Head(msgs).data
           /\ Head(msgs).data \in Version /\ Head(msgs).data \subseteq row.data
           /\ copy # Null => copy \subseteq Head(msgs).data
<1> DEFINE m == Head(msgs)
<1>1. 1 \in DOMAIN msgs /\ m = msgs[1]
  OBVIOUS
<1>2. /\ m.data \in Version /\ m.data \subseteq row.data
      /\ copy # Null => copy \subseteq m.data
  BY <1>1 DEF Tracked
<1>3. CASE Full(m) \/ m.kind = "doc"
  BY <1>2, <1>3 DEF Applied, Full, About
<1>4. CASE ~Full(m) /\ copy # Null
  <2>1. copy \cup m.data = m.data
    BY <1>2, <1>4
  <2> QED
    BY <1>2, <2>1, <1>4 DEF Applied, Merge
<1>5. CASE ~Full(m) /\ copy = Null
  <2>1. PICK i \in DOMAIN msgs : /\ About(msgs[i], d) /\ Full(msgs[i])
                                 /\ \A j \in 1..(i - 1) : ~About(msgs[j], d)
    BY <1>5 DEF Followed
  <2>2. i = 1
    BY <1>1, <2>1
  <2> QED
    BY <1>1, <1>5, <2>1, <2>2
<1> QED
  BY <1>2, <1>3, <1>4, <1>5

LEMMA TrackRead ==
    ASSUME NEW d \in Doc, NEW row, row.data \in Version, row.rev \in Nat,
           NEW copy \in Data, NEW msgs \in Seq(Letter), msgs # <<>>,
           Tracked(row, copy, msgs, d), Followed(row, copy, msgs, d),
           NEW after,
           after = IF About(Head(msgs), d) THEN Applied(copy, Head(msgs)) ELSE copy
    PROVE  /\ Tracked(row, after, Tail(msgs), d) /\ Followed(row, after, Tail(msgs), d)
           /\ Dated(Head(msgs)) /\ row.rev <= Head(msgs).colrev => after = row.data
           /\ copy = row.data => after = row.data
           /\ after # copy => About(Head(msgs), d) /\ after = Head(msgs).data
<1> DEFINE m == Head(msgs)
           rest == Tail(msgs)
<1>1. 1 \in DOMAIN msgs /\ m = msgs[1]
  OBVIOUS
<1>2. rest \in Seq(Letter) /\ Len(rest) = Len(msgs) - 1
      /\ \A i \in DOMAIN rest : i + 1 \in DOMAIN msgs /\ rest[i] = msgs[i + 1]
  OBVIOUS
<1>3. \A i \in DOMAIN msgs : i # 1 => i - 1 \in DOMAIN rest /\ rest[i - 1] = msgs[i]
  BY <1>2
<1>4. CASE About(m, d)
  <2>1. /\ after = m.data /\ m.data \in Version /\ m.data \subseteq row.data
        /\ copy # Null => copy \subseteq m.data
    BY <1>4, NextCopy
  <2>2. after # Null /\ (copy = row.data => after = row.data)
    BY <2>1, NullAssumption DEF Version
  <2>3. \A i \in DOMAIN rest : About(rest[i], d) =>
           /\ rest[i].data \in Version /\ rest[i].data \subseteq row.data
           /\ m.data \subseteq rest[i].data
    BY <1>1, <1>2, <1>4 DEF Tracked
  <2>4. \A i \in DOMAIN rest : \A j \in DOMAIN rest :
           i < j /\ About(rest[i], d) /\ About(rest[j], d) => rest[i].data \subseteq rest[j].data
    BY <1>2 DEF Tracked
  <2>5. ASSUME NEW j \in DOMAIN rest, Dated(rest[j]), row.rev <= rest[j].colrev
        PROVE  after = row.data \/ \E i \in 1..j : About(rest[i], d) /\ rest[i].data = row.data
    <3>1. copy = row.data
             \/ \E i \in 1..(j + 1) : About(msgs[i], d) /\ msgs[i].data = row.data
      BY <1>2, <2>5 DEF Tracked
    <3>2. CASE copy = row.data
      BY <2>2, <3>2
    <3>3. ASSUME NEW i \in 1..(j + 1), About(msgs[i], d), msgs[i].data = row.data
          PROVE  after = row.data \/ \E n \in 1..j : About(rest[n], d) /\ rest[n].data = row.data
      <4>1. CASE i = 1
        BY <1>1, <2>1, <3>3, <4>1
      <4>2. CASE i # 1
        <5>1. i - 1 \in 1..j /\ i \in DOMAIN msgs
          BY <1>2, <4>2
        <5> QED
          BY <1>3, <3>3, <4>2, <5>1
      <4> QED
        BY <4>1, <4>2
    <3> QED
      BY <3>1, <3>2, <3>3
  <2>6. Tracked(row, after, rest, d)
    BY <2>1, <2>3, <2>4, <2>5 DEF Tracked
  <2>7. after = row.data \/ \E i \in DOMAIN rest : About(rest[i], d) /\ rest[i].data = row.data
    <3>1. copy = row.data \/ \E i \in DOMAIN msgs : About(msgs[i], d) /\ msgs[i].data = row.data
      BY DEF Followed
    <3> QED
      BY <1>1, <1>3, <2>1, <2>2, <3>1
  <2>8. Dated(m) /\ row.rev <= m.colrev => after = row.data
    <3>1. Dated(m) /\ row.rev <= m.colrev =>
             copy = row.data \/ \E i \in 1..1 : About(msgs[i], d) /\ msgs[i].data = row.data
      BY <1>1 DEF Tracked
    <3> QED
      BY <1>1, <2>1, <2>2, <3>1
  <2> QED
    BY <1>4, <2>1, <2>2, <2>6, <2>7, <2>8 DEF Followed
<1>5. CASE ~About(m, d)
  <2>1. after = copy
    BY <1>5
  <2>2. \A i \in DOMAIN rest : About(rest[i], d) =>
           /\ rest[i].data \in Version /\ rest[i].data \subseteq row.data
           /\ copy # Null => copy \subseteq rest[i].data
    BY <1>2 DEF Tracked
  <2>3. \A i \in DOMAIN rest : \A j \in DOMAIN rest :
           i < j /\ About(rest[i], d) /\ About(rest[j], d) => rest[i].data \subseteq rest[j].data
    BY <1>2 DEF Tracked
  <2>4. ASSUME NEW j \in DOMAIN rest, Dated(rest[j]), row.rev <= rest[j].colrev
        PROVE  copy = row.data \/ \E i \in 1..j : About(rest[i], d) /\ rest[i].data = row.data
    <3>1. copy = row.data
             \/ \E i \in 1..(j + 1) : About(msgs[i], d) /\ msgs[i].data = row.data
      BY <1>2, <2>4 DEF Tracked
    <3>2. ASSUME NEW i \in 1..(j + 1), About(msgs[i], d), msgs[i].data = row.data
          PROVE  \E n \in 1..j : About(rest[n], d) /\ rest[n].data = row.data
      <4>1. i # 1
        BY <1>1, <1>5, <3>2
      <4>2. i - 1 \in 1..j /\ i \in DOMAIN msgs
        BY <1>2, <4>1
      <4> QED
        BY <1>3, <3>2, <4>1, <4>2
    <3> QED
      BY <3>1, <3>2
  <2>5. Tracked(row, copy, rest, d)
    <3>1. copy # Null => copy \subseteq row.data
      BY DEF Tracked
    <3> QED
      BY <2>2, <2>3, <2>4, <3>1 DEF Tracked
  <2>6. copy = row.data \/ \E i \in DOMAIN rest : About(rest[i], d) /\ rest[i].data = row.data
    <3>1. copy = row.data \/ \E i \in DOMAIN msgs : About(msgs[i], d) /\ msgs[i].data = row.data
      BY DEF Followed
    <3> QED
      BY <1>1, <1>3, <1>5, <3>1
  <2>7. ASSUME copy = Null
        PROVE  \E i \in DOMAIN rest :
                  /\ About(rest[i], d) /\ Full(rest[i])
                  /\ \A j \in 1..(i - 1) : ~About(rest[j], d)
    <3>1. PICK i \in DOMAIN msgs : /\ About(msgs[i], d) /\ Full(msgs[i])
                                   /\ \A j \in 1..(i - 1) : ~About(msgs[j], d)
      BY <2>7 DEF Followed
    <3>2. i # 1 /\ i - 1 \in DOMAIN rest /\ rest[i - 1] = msgs[i]
      BY <1>1, <1>3, <1>5, <3>1
    <3>3. ASSUME NEW j \in 1..((i - 1) - 1) PROVE ~About(rest[j], d)
      <4>1. j \in DOMAIN rest /\ j + 1 \in 1..(i - 1)
        BY <1>2, <3>2
      <4> QED
        BY <1>2, <3>1, <4>1
    <3> QED
      BY <3>1, <3>2, <3>3
  <2>8. Dated(m) /\ row.rev <= m.colrev => copy = row.data
    <3>1. Dated(m) /\ row.rev <= m.colrev =>
             copy = row.data \/ \E i \in 1..1 : About(msgs[i], d) /\ msgs[i].data = row.data
      BY <1>1 DEF Tracked
    <3> QED
      BY <1>1, <1>5, <3>1
  <2> QED
    BY <2>1, <2>5, <2>6, <2>7, <2>8 DEF Followed
<1> QED
  BY <1>4, <1>5

\* A message about something else changes nothing; a revision is never early.
LEMMA TrackOther ==
    ASSUME NEW d \in Doc, NEW row, NEW copy, NEW msgs \in Seq(Letter), NEW m \in Letter,
           Tracked(row, copy, msgs, d), Followed(row, copy, msgs, d), ~About(m, d)
    PROVE  /\ Tracked(row, copy, Append(msgs, m), d)
           /\ Followed(row, copy, Append(msgs, m), d)
<1> DEFINE all == Append(msgs, m)
           n   == Len(msgs)
<1>1. /\ n \in Nat /\ DOMAIN msgs = 1..n /\ DOMAIN all = 1..(n + 1)
      /\ \A i \in 1..n : all[i] = msgs[i]
      /\ all[n + 1] = m
  OBVIOUS
<1> HIDE DEF all, n
<1>2. \A i \in DOMAIN all : About(all[i], d) => i \in DOMAIN msgs /\ all[i] = msgs[i]
  BY <1>1
<1>3. \A j \in DOMAIN all : Dated(all[j]) /\ row.rev <= all[j].colrev =>
          copy = row.data \/ \E i \in 1..j : About(all[i], d) /\ all[i].data = row.data
  <2>1. ASSUME NEW j \in 1..n, Dated(all[j]), row.rev <= all[j].colrev
        PROVE  copy = row.data \/ \E i \in 1..j : About(all[i], d) /\ all[i].data = row.data
    <3>1. copy = row.data \/ \E i \in 1..j : About(msgs[i], d) /\ msgs[i].data = row.data
      BY <1>1, <2>1 DEF Tracked
    <3> QED
      BY <1>1, <3>1
  <2>2. copy = row.data
           \/ \E i \in 1..(n + 1) : About(all[i], d) /\ all[i].data = row.data
    <3>1. copy = row.data \/ \E i \in 1..n : About(msgs[i], d) /\ msgs[i].data = row.data
      BY <1>1 DEF Followed
    <3> QED
      BY <1>1, <3>1
  <2> QED
    BY <1>1, <2>1, <2>2
<1>4. Tracked(row, copy, all, d)
  BY <1>2, <1>3 DEF Tracked
<1>5. Followed(row, copy, all, d)
  <2>1. copy = row.data \/ \E i \in DOMAIN all : About(all[i], d) /\ all[i].data = row.data
    BY <1>1 DEF Followed
  <2>2. ASSUME copy = Null
        PROVE  \E i \in DOMAIN all :
                  /\ About(all[i], d) /\ Full(all[i])
                  /\ \A j \in 1..(i - 1) : ~About(all[j], d)
    <3>1. PICK i \in 1..n : /\ About(msgs[i], d) /\ Full(msgs[i])
                            /\ \A j \in 1..(i - 1) : ~About(msgs[j], d)
      BY <1>1, <2>2 DEF Followed
    <3> QED
      BY <1>1, <3>1
  <2> QED
    BY <2>1, <2>2 DEF Followed
<1> QED
  BY <1>4, <1>5 DEF all

\* A change of the document itself: the row grows, its revision is the latest.
LEMMA TrackGrown ==
    ASSUME NEW d \in Doc, NEW row, NEW now, now.data \in Version, row.data \subseteq now.data,
           NEW copy, NEW msgs \in Seq(Letter), NEW m \in Letter,
           \A i \in DOMAIN msgs : Dated(msgs[i]) => ~(now.rev <= msgs[i].colrev),
           About(m, d), m.data = now.data,
           Tracked(row, copy, msgs, d), Followed(row, copy, msgs, d), row.data # Null
    PROVE  /\ Tracked(now, copy, Append(msgs, m), d)
           /\ Followed(now, copy, Append(msgs, m), d)
<1> DEFINE all == Append(msgs, m)
           n   == Len(msgs)
<1>1. /\ n \in Nat /\ DOMAIN msgs = 1..n /\ DOMAIN all = 1..(n + 1)
      /\ \A i \in 1..n : all[i] = msgs[i]
      /\ all[n + 1] = m
  OBVIOUS
<1> HIDE DEF all, n
<1>2. copy # Null => copy \subseteq now.data
  BY DEF Tracked
<1>3. \A i \in DOMAIN all : About(all[i], d) =>
          /\ all[i].data \in Version /\ all[i].data \subseteq now.data
          /\ copy # Null => copy \subseteq all[i].data
  <2>1. \A i \in 1..n : About(all[i], d) =>
           /\ all[i].data \in Version /\ all[i].data \subseteq now.data
           /\ copy # Null => copy \subseteq all[i].data
    BY <1>1 DEF Tracked
  <2> QED
    BY <1>1, <1>2, <2>1
<1>4. \A i \in DOMAIN all : \A j \in DOMAIN all :
          i < j /\ About(all[i], d) /\ About(all[j], d) => all[i].data \subseteq all[j].data
  <2>1. ASSUME NEW i \in 1..n, NEW j \in 1..n, i < j, About(all[i], d), About(all[j], d)
        PROVE  all[i].data \subseteq all[j].data
    BY <1>1, <2>1 DEF Tracked
  <2>2. \A i \in 1..n : About(all[i], d) => all[i].data \subseteq all[n + 1].data
    BY <1>1, <1>3
  <2> QED
    BY <1>1, <2>1, <2>2
<1>5. \A j \in DOMAIN all : Dated(all[j]) /\ now.rev <= all[j].colrev =>
          copy = now.data \/ \E i \in 1..j : About(all[i], d) /\ all[i].data = now.data
  BY <1>1
<1>6. Tracked(now, copy, all, d)
  BY <1>2, <1>3, <1>4, <1>5 DEF Tracked
<1>7. Followed(now, copy, all, d)
  <2>1. ASSUME copy = Null
        PROVE  \E i \in DOMAIN all :
                  /\ About(all[i], d) /\ Full(all[i])
                  /\ \A j \in 1..(i - 1) : ~About(all[j], d)
    <3>1. PICK i \in 1..n : /\ About(msgs[i], d) /\ Full(msgs[i])
                            /\ \A j \in 1..(i - 1) : ~About(msgs[j], d)
      BY <1>1, <2>1 DEF Followed
    <3> QED
      BY <1>1, <3>1
  <2> QED
    BY <1>1, <2>1 DEF Followed
<1> QED
  BY <1>6, <1>7 DEF all

\* A document is created, of which nothing has been heard.
LEMMA TrackBorn ==
    ASSUME NEW d \in Doc, NEW now, now.data \in Version, NEW msgs \in Seq(Letter),
           NEW m \in Letter, About(m, d), Full(m), m.data = now.data,
           \A i \in DOMAIN msgs : ~About(msgs[i], d)
                                  /\ (Dated(msgs[i]) => ~(now.rev <= msgs[i].colrev))
    PROVE  /\ Tracked(now, Null, Append(msgs, m), d)
           /\ Followed(now, Null, Append(msgs, m), d)
<1> DEFINE all == Append(msgs, m)
           n   == Len(msgs)
<1>1. /\ n \in Nat /\ DOMAIN msgs = 1..n /\ DOMAIN all = 1..(n + 1)
      /\ \A i \in 1..n : all[i] = msgs[i]
      /\ all[n + 1] = m
  OBVIOUS
<1> HIDE DEF all, n
<1>2. \A i \in DOMAIN all : About(all[i], d) => i = n + 1
  BY <1>1
<1>3. \A j \in DOMAIN all : Dated(all[j]) /\ now.rev <= all[j].colrev => j = n + 1
  BY <1>1
<1>4. Tracked(now, Null, all, d)
  <2>1. \A i \in DOMAIN all : About(all[i], d) =>
           all[i].data \in Version /\ all[i].data \subseteq now.data
    BY <1>1, <1>2
  <2>2. \A i \in DOMAIN all : \A j \in DOMAIN all :
          i < j /\ About(all[i], d) /\ About(all[j], d) => all[i].data \subseteq all[j].data
    BY <1>1, <1>2
  <2>3. \A j \in DOMAIN all : Dated(all[j]) /\ now.rev <= all[j].colrev =>
          Null = now.data \/ \E i \in 1..j : About(all[i], d) /\ all[i].data = now.data
    BY <1>1, <1>3
  <2> QED
    BY <2>1, <2>2, <2>3 DEF Tracked
<1>5. Followed(now, Null, all, d)
  <2>1. \A j \in 1..((n + 1) - 1) : ~About(all[j], d)
    BY <1>1
  <2> QED
    BY <1>1, <2>1 DEF Followed
<1> QED
  BY <1>4, <1>5 DEF all

LEMMA TrackNothing ==
    ASSUME NEW d \in Doc, NEW row, NEW copy, copy # Null => copy \subseteq row.data
    PROVE  Tracked(row, copy, <<>>, d)
BY DEF Tracked

-----------------------------------------------------------------------------
(* The answer to a sync *)

TypeInv == StoreTypeOK /\ inbox \in Seq(Letter) /\ Blank(replica)

\* No row is ahead of the collection, and one that has no revision is not there.
RowsDated == \A d \in Doc : docs[d].rev <= clock /\ (docs[d].rev = 0 => docs[d].data = Null)

LEMMA AnswerFacts ==
    ASSUME StoreTypeOK, RowsDated, NEW r \in Nat, NEW msgs \in SyncAnswers(r)
    PROVE  /\ msgs \in Seq(Letter)
           /\ \A i \in DOMAIN msgs : Dated(msgs[i]) => i = Len(msgs) /\ msgs[i].colrev <= clock
           /\ \A i \in DOMAIN msgs : \A d \in Doc : About(msgs[i], d) =>
                 /\ Full(msgs[i]) /\ msgs[i].data = docs[d].data /\ docs[d].rev > 0
                 /\ \A j \in DOMAIN msgs : About(msgs[j], d) => j = i
           /\ \A d \in Doc : r <= clock /\ (Live(d) \/ r # 0) /\ docs[d].rev > r =>
                 \E i \in DOMAIN msgs : About(msgs[i], d)
<1>1. CASE r > clock
  <2>1. msgs = <<SyncError("unprocessable_content")>>
    BY <1>1 DEF SyncAnswers
  <2>2. SyncError("unprocessable_content") \in Letter
        /\ SyncError("unprocessable_content").kind = "sync_error"
    BY DEF SyncError, Letter, Proper, ServerMessage, ErrorCode
  <2>3. msgs \in Seq(Letter) /\ \A i \in DOMAIN msgs : msgs[i].kind = "sync_error"
    BY <2>1, <2>2
  <2>4. ~(r <= clock)
    BY <1>1 DEF StoreTypeOK
  <2> QED
    BY <2>3, <2>4 DEF Dated, About
<1>2. CASE ~(r > clock)
  <2> DEFINE missing == IF r = 0 THEN {d \in Doc : Live(d)} ELSE {d \in Doc : docs[d].rev > r}
             n == Cardinality(missing)
  <2>1. PICK order \in SetToSeqs(missing) :
           msgs = [i \in DOMAIN order |-> DocMessage(order[i], docs[order[i]].data)]
                     \o <<SyncComplete(clock)>>
    BY <1>2 DEF SyncAnswers
  <2> DEFINE ds == [i \in DOMAIN order |-> DocMessage(order[i], docs[order[i]].data)]
  <2>2. missing \subseteq Doc /\ IsFiniteSet(missing)
    BY StoreAssumption, FS_Subset
  <2>3. n \in Nat
    BY <2>2, FS_CardinalityType
  <2>4. /\ order \in [1..n -> missing]
        /\ \A i, j \in 1..n : i # j => order[i] # order[j]
    BY DEF SetToSeqs
  <2>5. \A d \in missing : \E i \in 1..n : order[i] = d
    <3>1. order \in Injection(1..n, missing)
      BY <2>4 DEF Injection, IsInjective
    <3>2. Cardinality(1..n) = n
      BY <2>3, FS_Interval
    <3>3. order \in Surjection(1..n, missing)
      BY <2>2, <3>1, <3>2, FS_Injection
    <3> QED
      BY <3>3 DEF Surjection
  <2>6. \A d \in missing : docs[d].rev > 0
    <3>1. \A d \in Doc : docs[d].rev \in Nat
      BY DEF StoreTypeOK
    <3>2. CASE r = 0
      <4>1. missing = {d \in Doc : Live(d)}
        BY <3>2
      <4>2. \A d \in Doc : Live(d) => docs[d].rev > 0
        BY <3>1 DEF RowsDated, Live
      <4> QED
        BY <4>1, <4>2
    <3>3. CASE r # 0
      <4>1. missing = {d \in Doc : docs[d].rev > r}
        BY <3>3
      <4>2. \A d \in Doc : docs[d].rev > r => docs[d].rev > 0
        BY <3>1
      <4> QED
        BY <4>1, <4>2
    <3> QED
      BY <3>2, <3>3
  <2>7. \A d \in Doc : (Live(d) \/ r # 0) /\ docs[d].rev > r => d \in missing
    OBVIOUS
  <2> HIDE DEF missing, n
  <2>8. \A i \in 1..n : /\ order[i] \in Doc /\ docs[order[i]].rev > 0
                        /\ DocMessage(order[i], docs[order[i]].data) \in Letter
    <3>1. \A d \in Doc : docs[d].data \in Data
      BY DEF StoreTypeOK
    <3>2. \A d \in Doc : DocMessage(d, docs[d].data) \in Letter
      BY <3>1 DEF DocMessage, Letter, Proper, ServerMessage
    <3> QED
      BY <2>2, <2>4, <2>6, <3>2
  <2>9. /\ ds \in Seq(Letter) /\ Len(ds) = n
        /\ \A i \in 1..n : ds[i] = DocMessage(order[i], docs[order[i]].data)
    BY <2>3, <2>4, <2>8, IsASeq
  <2>10. SyncComplete(clock) \in Letter
    BY DEF StoreTypeOK, SyncComplete, Letter, Proper, ServerMessage
  <2> HIDE DEF ds
  <2>11. /\ msgs \in Seq(Letter) /\ Len(msgs) = n + 1 /\ DOMAIN msgs = 1..(n + 1)
         /\ \A i \in 1..n : msgs[i] = ds[i]
         /\ msgs[n + 1] = SyncComplete(clock)
    <3>1. msgs = ds \o <<SyncComplete(clock)>>
      BY <2>1 DEF ds
    <3>2. msgs = Append(ds, SyncComplete(clock))
      BY <2>9, <2>10, <3>1
    <3> QED
      BY <2>3, <2>9, <2>10, <3>2
  <2>12. ASSUME NEW i \in DOMAIN msgs, Dated(msgs[i])
         PROVE  i = Len(msgs) /\ msgs[i].colrev <= clock
    <3>1. i = n + 1
      BY <2>9, <2>11, <2>12 DEF Dated, DocMessage
    <3> QED
      BY <2>11, <3>1 DEF SyncComplete, StoreTypeOK
  <2>13. \A i \in DOMAIN msgs : \A d \in Doc : About(msgs[i], d) => i \in 1..n /\ order[i] = d
    BY <2>3, <2>9, <2>11 DEF About, DocMessage, SyncComplete
  <2>14. \A i \in 1..n : About(msgs[i], order[i]) /\ Full(msgs[i])
                         /\ msgs[i].data = docs[order[i]].data
    BY <2>9, <2>11 DEF About, Full, DocMessage
  <2>15. \A d \in Doc : (Live(d) \/ r # 0) /\ docs[d].rev > r =>
            \E i \in DOMAIN msgs : About(msgs[i], d)
    <3> SUFFICES ASSUME NEW d \in Doc, Live(d) \/ r # 0, docs[d].rev > r
                 PROVE  \E i \in DOMAIN msgs : About(msgs[i], d)
      OBVIOUS
    <3>1. PICK i \in 1..n : order[i] = d
      BY <2>5, <2>7
    <3> QED
      BY <2>3, <2>11, <2>14, <3>1
  <2>16. ASSUME NEW i \in DOMAIN msgs, NEW d \in Doc, About(msgs[i], d)
         PROVE  /\ Full(msgs[i]) /\ msgs[i].data = docs[d].data /\ docs[d].rev > 0
                /\ \A j \in DOMAIN msgs : About(msgs[j], d) => j = i
    BY <2>4, <2>8, <2>13, <2>14, <2>16
  <2> QED
    BY <2>11, <2>12, <2>15, <2>16
<1> QED
  BY <1>1, <1>2

\* With the answer on its way, who has the documents up to r has what it needs.
LEMMA TrackAnswer ==
    ASSUME StoreTypeOK, RowsDated, NEW r \in Nat, r <= clock, NEW msgs \in SyncAnswers(r),
           NEW d \in Doc, Live(d), NEW copy \in Data, copy # Null => copy \subseteq docs[d].data,
           docs[d].rev <= r => copy = docs[d].data
    PROVE  Tracked(docs[d], copy, msgs, d) /\ Followed(docs[d], copy, msgs, d)
<1>1. msgs \in Seq(Letter) /\ docs[d].data \in Version /\ docs[d].rev \in Nat
  BY AnswerFacts DEF StoreTypeOK, Live, Data
<1>2. /\ \A i \in DOMAIN msgs : Dated(msgs[i]) => i = Len(msgs)
      /\ \A i \in DOMAIN msgs : About(msgs[i], d) =>
            /\ Full(msgs[i]) /\ msgs[i].data = docs[d].data
            /\ \A j \in DOMAIN msgs : About(msgs[j], d) => j = i
      /\ docs[d].rev > r => \E i \in DOMAIN msgs : About(msgs[i], d)
  BY AnswerFacts
<1>3. copy = docs[d].data \/ \E i \in DOMAIN msgs : About(msgs[i], d) /\ msgs[i].data = docs[d].data
  BY <1>1, <1>2
<1>4. Tracked(docs[d], copy, msgs, d)
  <2>1. \A i \in DOMAIN msgs : About(msgs[i], d) =>
          /\ msgs[i].data \in Version /\ msgs[i].data \subseteq docs[d].data
          /\ copy # Null => copy \subseteq msgs[i].data
    BY <1>1, <1>2
  <2>2. \A i \in DOMAIN msgs : \A j \in DOMAIN msgs :
           i < j /\ About(msgs[i], d) /\ About(msgs[j], d) => msgs[i].data \subseteq msgs[j].data
    BY <1>2
  <2>3. \A j \in DOMAIN msgs : Dated(msgs[j]) /\ docs[d].rev <= msgs[j].colrev =>
           copy = docs[d].data \/ \E i \in 1..j : About(msgs[i], d) /\ msgs[i].data = docs[d].data
    BY <1>1, <1>2, <1>3
  <2> QED
    BY <2>1, <2>2, <2>3 DEF Tracked
<1>5. copy = Null => \E i \in DOMAIN msgs :
          /\ About(msgs[i], d) /\ Full(msgs[i])
          /\ \A j \in 1..(i - 1) : ~About(msgs[j], d)
  <2> SUFFICES ASSUME copy = Null
               PROVE  \E i \in DOMAIN msgs :
                         /\ About(msgs[i], d) /\ Full(msgs[i])
                         /\ \A j \in 1..(i - 1) : ~About(msgs[j], d)
    OBVIOUS
  <2>1. copy # docs[d].data
    BY DEF Live
  <2>2. PICK i \in DOMAIN msgs : About(msgs[i], d)
    BY <1>3, <2>1
  <2>3. \A j \in 1..(i - 1) : j \in DOMAIN msgs /\ j # i
    BY <1>1
  <2> QED
    BY <1>2, <2>2, <2>3
<1> QED
  BY <1>3, <1>4, <1>5 DEF Followed

-----------------------------------------------------------------------------
(* What a step does to the client *)

Remote(d) == replica.items[d].remote
Local(d)  == replica.items[d].local

\* l has what k has of the server's documents.
SameCopies(k, l) ==
    /\ l \in Replica /\ Blank(l) /\ l.colrev = k.colrev /\ l.status = k.status
    /\ \A d \in Doc : l.items[d].remote = k.items[d].remote

LEMMA FlushKeeps ==
    ASSUME StoreTypeOK, NEW k \in Replica, Blank(k), FlushFrom(k) \/ FlushNow(k)
    PROVE  SameCopies(k, replica') /\ outbox' \in Seq(ClientMessage)
<1>1. ASSUME FlushFrom(k)
      PROVE  SameCopies(k, replica') /\ outbox' \in Seq(ClientMessage)
  <2> DEFINE j == [k EXCEPT !.flushTimer = FALSE]
  <2>1. /\ j \in Replica /\ j.items = k.items /\ j.colrev = k.colrev /\ j.status = k.status
        /\ ToFlush(j) = ToFlush(k)
    BY DEF Replica, ToFlush, Has
  <2>2. PICK order \in SetToSeqs(ToFlush(k)) :
           /\ replica' = Flush(j)
           /\ outbox' = outbox \o [i \in DOMAIN order |-> FlushMessage(order[i], k.items[order[i]])]
    BY <1>1 DEF FlushFrom
  <2> HIDE DEF j
  <2>3. [i \in DOMAIN order |-> FlushMessage(order[i], k.items[order[i]])] \in Seq(ClientMessage)
    BY FlushMessages, StoreAssumption
  <2>4. outbox' \in Seq(ClientMessage)
    BY <2>2, <2>3, ConcatProperties DEF StoreTypeOK
  <2>5. Alike(j, Flush(j)) /\ Flush(j).status = j.status
    BY <2>1, FlushFacts DEF Flush, Replica
  <2>6. \A d \in Doc : ~Has(Flush(j), d) => Flush(j).items[d] = Absent
    <3> SUFFICES ASSUME NEW d \in Doc, ~Has(Flush(j), d) PROVE Flush(j).items[d] = Absent
      OBVIOUS
    <3>1. k.items[d] = Absent
      BY <2>1, <2>5 DEF Alike, Has, Blank
    <3>2. /\ Flush(j).items[d] \in Item /\ Flush(j).items[d].state = "absent"
          /\ Flush(j).items[d].remote = Null /\ Flush(j).items[d].local = Null
      BY <2>1, <2>5, <3>1, ItemTypes DEF Alike, Has, Absent
    <3> QED
      BY <3>2 DEF Item, Absent
  <2> QED
    BY <2>1, <2>2, <2>4, <2>5, <2>6 DEF SameCopies, Alike, Blank
<1>2. CASE FlushNow(k)
  <2>1. CASE k.status = "ready"
    BY <1>1, <1>2, <2>1 DEF FlushNow
  <2>2. CASE k.status # "ready"
    BY <1>2, <2>2 DEF FlushNow, SameCopies, StoreTypeOK
  <2> QED
    BY <2>1, <2>2
<1> QED
  BY <1>1, <1>2

LEMMA FlushKept ==
    ASSUME NEW k \in Replica, FlushFrom(k) \/ FlushNow(k), NEW d \in Doc
    PROVE  replica'.items[d].local = k.items[d].local
<1> DEFINE j == [k EXCEPT !.flushTimer = FALSE]
<1>1. j \in Replica /\ j.items = k.items
  BY DEF Replica
<1> HIDE DEF j
<1>2. Flush(j).items[d].local = k.items[d].local
  BY <1>1, FlushFacts DEF Alike
<1>3. replica' = Flush(j) \/ replica' = k
  BY DEF FlushFrom, FlushNow, j
<1> QED
  BY <1>2, <1>3

\* The user edits, or edits are sent: of a document that exists, no copy is made.
Aside ==
    /\ page = "open" \/ replica # NewReplica
    /\ SameCopies(replica, replica') /\ outbox' \in Seq(ClientMessage)
    /\ \A d \in Doc : Exists(d) /\ Local(d) = Null => Local(d)' = Null
    /\ backupQueue \subseteq backupQueue' /\ backupQueue' \subseteq Doc
    /\ UNCHANGED <<serverVars, inbox, page, loadedRev, backups, diskVars>>

LEMMA FlushTimerAside ==
    ASSUME TypeInv, FlushTimer
    PROVE  Aside
<1>1. replica # NewReplica
  BY DEF FlushTimer, NewReplica
<1>2. \A d \in Doc : Local(d)' = Local(d)
  BY FlushKept DEF TypeInv, StoreTypeOK, FlushTimer, Local
<1> QED
  BY <1>1, <1>2, FlushKeeps DEF TypeInv, StoreTypeOK, FlushTimer, Aside, backupVars

LEMMA CreateAside ==
    ASSUME TypeInv, NEW d \in Doc, NEW e \in Edit, UserCreate(d, e)
    PROVE  Aside
<1> DEFINE k == Create(replica, d, {e})
<1>1. replica \in Replica /\ {e} \in Version /\ Blank(replica)
  BY DEF TypeInv, StoreTypeOK, Version
<1>2. /\ Alters(replica, k, d) /\ k.colrev = replica.colrev
      /\ k.items[d] = [remote |-> Null, local |-> {e}, state |-> "changed"]
  BY <1>1, CreateFacts
<1>3. replica.items[d] = Absent
  BY <1>1 DEF UserCreate, Blank
<1>4. SameCopies(replica, k)
  <2>1. k.items[d].remote = replica.items[d].remote /\ Has(k, d)
    BY <1>2, <1>3 DEF Has, Absent
  <2> HIDE DEF k
  <2> QED
    BY <1>1, <1>2, <2>1 DEF SameCopies, Alters, Blank, Has
<1>5. FlushNow(k) /\ Enqueue({d})
  BY DEF UserCreate
<1>6. SameCopies(k, replica') /\ outbox' \in Seq(ClientMessage)
  BY <1>4, <1>5, FlushKeeps DEF TypeInv, SameCopies
<1>7. ASSUME NEW c \in Doc, Exists(c) PROVE Local(c)' = Local(c)
  <2>1. k.items[c] = replica.items[c]
    BY <1>2, <1>7 DEF UserCreate, Alters
  <2>2. replica'.items[c].local = k.items[c].local
    BY <1>4, <1>5, FlushKept DEF SameCopies
  <2> QED
    BY <2>1, <2>2 DEF Local
<1> QED
  BY <1>4, <1>5, <1>6, <1>7 DEF Aside, SameCopies, Enqueue, UserCreate, TypeInv, StoreTypeOK

LEMMA ChangeAside ==
    ASSUME TypeInv, NEW d \in Doc, NEW e \in Edit, UserChange(d, e)
    PROVE  Aside
<1> DEFINE k == Edited(replica, d, e)
           l == [k EXCEPT !.flushTimer = @ \/ k.status = "ready"]
<1>1. replica \in Replica /\ Blank(replica) /\ CanEdit(replica, d)
  BY DEF TypeInv, StoreTypeOK, UserChange
<1>2. /\ Alters(replica, k, d) /\ k.colrev = replica.colrev
      /\ k.items[d].remote = Remote(d) /\ k.items[d].state = "changed"
  BY <1>1, EditedFacts DEF Remote
<1>3. SameCopies(replica, k)
  BY <1>1, <1>2 DEF SameCopies, Alters, Blank, Has, Remote
<1>4. replica' = l /\ outbox' = outbox /\ Enqueue({d})
  BY DEF UserChange, netVars
<1> HIDE DEF k
<1>5. /\ l \in Replica /\ l.items = k.items /\ l.colrev = k.colrev /\ l.status = k.status
  <2>1. k \in Replica /\ (k.flushTimer \/ k.status = "ready") \in BOOLEAN
    BY <1>3 DEF SameCopies
  <2> QED
    BY <2>1 DEF Replica
<1>6. SameCopies(replica, l)
  BY <1>3, <1>5 DEF SameCopies, Blank, Has
<1>7. \A c \in Doc : Local(c) = Null => Local(c)' = Null
  <2>1. Local(d) # Null /\ \A c \in Doc : c # d => k.items[c] = replica.items[c]
    BY <1>1, <1>2 DEF CanEdit, Local, Alters
  <2> QED
    BY <1>4, <1>5, <2>1 DEF Local
<1> QED
  BY <1>4, <1>6, <1>7 DEF Aside, Enqueue, UserChange, TypeInv, StoreTypeOK, netVars

LEMMA DeleteAside ==
    ASSUME TypeInv, NEW d \in Doc, UserDelete(d)
    PROVE  Aside
<1> DEFINE k == Delete(replica, d)
<1>1. replica \in Replica /\ Blank(replica)
  BY DEF TypeInv, StoreTypeOK
<1>2. /\ Alters(replica, k, d) /\ k.colrev = replica.colrev
      /\ k.items[d].remote = Remote(d) /\ k.items[d].local = Null
      /\ ~Has(k, d) => k.items[d] = Absent
  BY <1>1, RemovedFacts DEF Remote
<1>3. SameCopies(replica, k)
  BY <1>1, <1>2 DEF SameCopies, Alters, Blank, Has, Remote
<1> HIDE DEF k
<1>6. \A c \in Doc : Local(c) = Null => k.items[c].local = Null
  BY <1>2 DEF Alters, Local
<1>4. CASE Has(k, d)
  <2>1. FlushNow(k) /\ Enqueue({d})
    BY <1>4 DEF UserDelete, k
  <2>2. SameCopies(k, replica') /\ outbox' \in Seq(ClientMessage)
    BY <1>3, <2>1, FlushKeeps DEF TypeInv, SameCopies
  <2>3. \A c \in Doc : Local(c)' = k.items[c].local
    BY <1>3, <2>1, FlushKept DEF SameCopies, Local
  <2> QED
    BY <1>3, <1>6, <2>1, <2>2, <2>3
       DEF Aside, SameCopies, Enqueue, UserDelete, TypeInv, StoreTypeOK
<1>5. CASE ~Has(k, d)
  <2>1. replica' = k
    BY <1>5 DEF UserDelete, k
  <2> QED
    BY <1>3, <1>5, <1>6, <2>1 DEF UserDelete, Aside, backupVars, TypeInv, StoreTypeOK, Local, k
<1> QED
  BY <1>4, <1>5

\* The next message is handled: the copy of the document it is about is what the
\* message makes of it, and queued for backup if that is something else.
Heard(m) ==
    /\ inbox # <<>> /\ m = Head(inbox) /\ inbox' = Tail(inbox)
    /\ replica' \in Replica /\ Blank(replica') /\ replica'.status = replica.status
    /\ replica'.colrev = IF Dated(m) THEN m.colrev ELSE replica.colrev
    /\ \A d \in Doc : replica'.items[d].remote =
                         IF About(m, d) THEN Applied(Remote(d), m) ELSE Remote(d)
    /\ outbox' \in Seq(ClientMessage)
    /\ backupQueue \subseteq backupQueue' /\ backupQueue' \subseteq Doc /\ UNCHANGED backups
    /\ \A d \in Doc : About(m, d) /\ d \notin backupQueue' =>
          \/ m.data = Null
          \/ ~Full(m) /\ Remote(d) = Null
    /\ UNCHANGED <<serverVars, page, loadedRev, diskVars>>

LEMMA MessageHeard ==
    ASSUME TypeInv, OnMessage
    PROVE  /\ Heard(Head(inbox)) /\ Head(inbox) \in Letter
           /\ Head(inbox).kind \in {"doc", "change", "change_error"}
<1> DEFINE m == Head(inbox)
           l == HandleMessage(replica, m)
<1>1. /\ inbox # <<>> /\ m \in Letter /\ m.kind \in {"doc", "change", "change_error"}
      /\ replica \in Replica /\ Blank(replica)
  BY DEF OnMessage, TypeInv, StoreTypeOK
<1>2. Proper(m) /\ m.id \in Doc
  BY <1>1, ProperTypes DEF Letter
<1>3. /\ l \in Replica /\ l.status = replica.status
      /\ l.colrev = IF m.kind = "change" THEN m.colrev ELSE replica.colrev
      /\ \A e \in Doc : e # m.id => l.items[e] = replica.items[e]
      /\ l.items[m.id].remote = IF m.kind = "change_error" THEN Remote(m.id)
                                ELSE Applied(Remote(m.id), m)
      /\ Effect(replica.items[m.id], l.items[m.id], m)
  BY <1>1, <1>2, MessageFacts DEF Remote
<1>4. /\ replica' = l
      /\ outbox' = IF Asks(replica, m) THEN Append(outbox, Get(m.id)) ELSE outbox
      /\ Enqueue(Saves(m)) /\ inbox' = Tail(inbox)
      /\ UNCHANGED <<serverVars, page, loadedRev, diskVars>>
  BY DEF OnMessage
<1> HIDE DEF l
<1>5. Blank(l)
  BY <1>1, <1>3 DEF Blank, Has, Effect
<1>6. \A d \in Doc : l.items[d].remote = IF About(m, d) THEN Applied(Remote(d), m) ELSE Remote(d)
  BY <1>1, <1>3 DEF About, Remote
<1>7. outbox' \in Seq(ClientMessage)
  <2>1. Get(m.id) \in ClientMessage
    BY <1>2 DEF Get, ClientMessage, Garbled
  <2> QED
    BY <1>4, <2>1 DEF TypeInv, StoreTypeOK
<1>8. /\ Saves(m) \subseteq Doc
      /\ \A d \in Doc : About(m, d) /\ d \notin Saves(m) =>
            m.data = Null \/ (~Full(m) /\ Remote(d) = Null)
  <2>1. m.kind = "change" /\ m.op = "-" => m.data = Null
    BY <1>2 DEF Proper
  <2> QED
    BY <1>1, <1>2, <2>1 DEF Saves, About, Full, CanUpdate, Remote
<1>9. backupQueue' = backupQueue \cup Saves(m) /\ UNCHANGED backups
  BY <1>4 DEF Enqueue
<1>10. backupQueue \subseteq Doc
  BY DEF TypeInv, StoreTypeOK
<1> QED
  BY <1>1, <1>3, <1>4, <1>5, <1>6, <1>7, <1>8, <1>9, <1>10 DEF Heard, Dated

\* The sync is complete: its revision is the client's, and all is backed up.
LEMMA SyncHeard ==
    ASSUME TypeInv, OnSyncComplete
    PROVE  LET rev == Head(inbox).colrev IN
           /\ inbox # <<>> /\ Head(inbox) \in Letter /\ Head(inbox).kind = "sync_complete"
           /\ rev \in Nat /\ inbox' = Tail(inbox)
           /\ replica' \in Replica /\ Blank(replica') /\ replica'.status = "ready"
           /\ replica'.colrev = rev
           /\ \A d \in Doc : replica'.items[d].remote = Remote(d)
           /\ outbox' \in Seq(ClientMessage)
           /\ Backup(backupQueue, rev)
           /\ UNCHANGED <<serverVars, page, loadedRev, diskVars>>
<1> DEFINE rev == Head(inbox).colrev
           k == [replica EXCEPT !.colrev = rev, !.status = "ready"]
<1>1. /\ inbox # <<>> /\ Head(inbox) \in Letter /\ Head(inbox).kind = "sync_complete"
      /\ inbox' = Tail(inbox) /\ FlushFrom(k) /\ Backup(backupQueue, rev)
      /\ UNCHANGED <<serverVars, page, loadedRev, diskVars>>
  BY DEF OnSyncComplete, TypeInv
<1>2. rev \in Nat
  BY <1>1, LetterTypes DEF Dated
<1>3. /\ k \in Replica /\ k.items = replica.items /\ k.colrev = rev /\ k.status = "ready"
  BY <1>2 DEF TypeInv, StoreTypeOK, Replica
<1> HIDE DEF k
<1>4. Blank(k)
  BY <1>3 DEF TypeInv, Blank, Has
<1>5. SameCopies(k, replica') /\ outbox' \in Seq(ClientMessage)
  BY <1>1, <1>3, <1>4, FlushKeeps DEF TypeInv
<1> QED
  BY <1>1, <1>2, <1>3, <1>5 DEF SameCopies, Remote

-----------------------------------------------------------------------------
(* What a step does to the server *)

\* Document d is created, grows, or is deleted, and message m says so.
Changes(d, m) ==
    /\ docs' = [docs EXCEPT ![d] = [rev |-> clock + 1, data |-> m.data]]
    /\ clock' = clock + 1
    /\ m \in Letter /\ About(m, d) /\ Dated(m) /\ m.colrev = clock + 1
    /\ \/ ~Exists(d) /\ Full(m) /\ m.data \in Version
       \/ Live(d) /\ m.data \in Version /\ docs[d].data \subseteq m.data
       \/ Live(d) /\ m.data = Null
    /\ Post(m)
    /\ outbox' \in Seq(ClientMessage) /\ late' \in Seq(ClientMessage)
    /\ UNCHANGED <<page, replica, loadedRev, backupVars, diskVars>>

LEMMA ApplyChanges ==
    ASSUME StoreTypeOK, NEW op \in Op, NEW d \in Doc, NEW data \in Data,
           op = "-" <=> data = Null, Acceptable(op, d), Apply(op, d, data),
           outbox' \in Seq(ClientMessage), late' \in Seq(ClientMessage),
           UNCHANGED <<page, replica, loadedRev, backupVars, diskVars>>
    PROVE  \E m : Changes(d, m)
<1> DEFINE merged == IF op = "*" THEN Merge(docs[d].data, data) ELSE data
           m == ServerChange(op, d, merged, clock + 1)
<1>1. clock \in Nat /\ docs[d].data \in Data /\ (Live(d) => docs[d].data \in Version)
  BY DEF StoreTypeOK, Data, Live
<1>2. op # "-" => data \in Version
  BY DEF Data
<1>3. op = "*" => Live(d) /\ merged = docs[d].data \cup data /\ merged \in Version
  BY <1>1, <1>2 DEF Acceptable, Merge, Version
<1>4. /\ merged \in Data
      /\ op = "*" => merged \in Version
      /\ op = "+" => merged \in Version
      /\ op = "-" => merged = Null
  BY <1>2, <1>3 DEF Data
<1>5. m \in Letter
  BY <1>1, <1>4 DEF ServerChange, Letter, Proper, ServerMessage
<1>6. \/ ~Exists(d) /\ op = "+"
      \/ Live(d) /\ op = "*"
      \/ Live(d) /\ op = "-"
  BY DEF Acceptable, Op
<1>7. /\ docs' = [docs EXCEPT ![d] = [rev |-> clock + 1, data |-> merged]]
      /\ clock' = clock + 1 /\ Post(m)
  BY DEF Apply
<1>8. /\ m.kind = "change" /\ m.op = op /\ m.id = d /\ m.data = merged
      /\ m.colrev = clock + 1
  BY DEF ServerChange
<1> HIDE DEF m
<1>9. \/ ~Exists(d) /\ Full(m) /\ m.data \in Version
      \/ Live(d) /\ m.data \in Version /\ docs[d].data \subseteq m.data
      \/ Live(d) /\ m.data = Null
  BY <1>3, <1>4, <1>6, <1>8 DEF Full
<1> QED
  BY <1>5, <1>7, <1>8, <1>9 DEF Changes, About, Dated

LEMMA ReadTypes ==
    ASSUME StoreTypeOK, NEW m \in Unread, Read(m)
    PROVE  /\ m \in ClientMessage
           /\ outbox' \in Seq(ClientMessage) /\ late' \in Seq(ClientMessage)
<1>1. outbox \in Seq(ClientMessage) /\ late \in Seq(ClientMessage)
  BY DEF StoreTypeOK
<1>2. CASE ReadLate(m)
  BY <1>1, <1>2 DEF ReadLate
<1>3. CASE ReadSent(m)
  BY <1>1, <1>3 DEF ReadSent
<1> QED
  BY <1>2, <1>3 DEF Read

LEMMA AcceptChanges ==
    ASSUME StoreTypeOK, ServerAccept
    PROVE  \E d \in Doc, m \in Letter : Changes(d, m)
<1>1. PICK m \in Unread :
         /\ Read(m) /\ m.kind = "change"
         /\ Acceptable(m.op, m.id) /\ Apply(m.op, m.id, m.data)
  BY DEF ServerAccept
<1>2. /\ m \in ClientMessage /\ outbox' \in Seq(ClientMessage) /\ late' \in Seq(ClientMessage)
      /\ UNCHANGED <<page, replica, loadedRev, backupVars, diskVars>>
  BY <1>1, ReadTypes DEF ServerAccept
<1>3. m.op \in Op /\ m.id \in Doc /\ m.data \in Data /\ (m.op = "-" <=> m.data = Null)
  BY <1>1, <1>2 DEF ClientMessage, ChangeRequest, GetRequest, Garbled
<1>4. \E x : Changes(m.id, x)
  BY <1>1, <1>2, <1>3, ApplyChanges
<1> QED
  BY <1>3, <1>4 DEF Changes

LEMMA OthersChanges ==
    ASSUME StoreTypeOK, NEW d \in Doc, NEW op \in Op, NEW data \in Data,
           op = "-" <=> data = Null, OthersChange(op, d, data)
    PROVE  \E m \in Letter : Changes(d, m)
<1>1. /\ Acceptable(op, d) /\ Apply(op, d, data)
      /\ outbox' \in Seq(ClientMessage) /\ late' \in Seq(ClientMessage)
      /\ UNCHANGED <<page, replica, loadedRev, backupVars, diskVars>>
  BY DEF OthersChange, StoreTypeOK
<1>2. \E m : Changes(d, m)
  BY <1>1, ApplyChanges
<1> QED
  BY <1>2 DEF Changes

\* A request is refused, or ignored.
Turned ==
    /\ inbox' = inbox \/ \E m \in Letter : m.kind = "change_error" /\ Post(m)
    /\ outbox' \in Seq(ClientMessage) /\ late' \in Seq(ClientMessage)
    /\ UNCHANGED <<docs, clock, page, replica, loadedRev, backupVars, diskVars>>

LEMMA RefuseTurned ==
    ASSUME StoreTypeOK, NEW code \in {"forbidden", "unprocessable_content"},
           ServerRefuse(code) \/ ServerIgnore
    PROVE  Turned
<1>1. PICK x \in Unread :
         /\ Read(x)
         /\ \/ x.kind = "change" /\ (inbox' = inbox \/ Post(ChangeError(x.id, code)))
            \/ inbox' = inbox
  BY DEF ServerRefuse, ServerIgnore, Read
<1>2. /\ x \in ClientMessage /\ outbox' \in Seq(ClientMessage) /\ late' \in Seq(ClientMessage)
      /\ UNCHANGED <<docs, clock, page, replica, loadedRev, backupVars, diskVars>>
  BY <1>1, ReadTypes DEF ServerRefuse, ServerIgnore
<1>3. CASE x.kind = "change" /\ Post(ChangeError(x.id, code))
  <2>1. x.id \in Doc
    BY <1>2, <1>3 DEF ClientMessage, ChangeRequest, GetRequest, Garbled
  <2>2. ChangeError(x.id, code) \in Letter /\ ChangeError(x.id, code).kind = "change_error"
    BY <2>1 DEF ChangeError, Letter, Proper, ServerMessage, ErrorCode
  <2> QED
    BY <1>2, <1>3, <2>2 DEF Turned
<1>4. CASE inbox' = inbox
  BY <1>2, <1>4 DEF Turned
<1> QED
  BY <1>1, <1>3, <1>4

-----------------------------------------------------------------------------
(* What a step does to the page and its store *)

LEMMA RemoveAtFacts ==
    ASSUME NEW S, NEW s \in Seq(S), NEW i \in DOMAIN s
    PROVE  /\ RemoveAt(s, i) \in Seq(S) /\ Len(RemoveAt(s, i)) = Len(s) - 1
           /\ \A j \in DOMAIN RemoveAt(s, i) : \E k \in DOMAIN s : RemoveAt(s, i)[j] = s[k]
           /\ \A k \in DOMAIN s : k # i => \E j \in DOMAIN RemoveAt(s, i) : RemoveAt(s, i)[j] = s[k]
<1> DEFINE n == Len(s)
           a == SubSeq(s, 1, i - 1)
           b == SubSeq(s, i + 1, n)
           t == RemoveAt(s, i)
<1>1. n \in Nat /\ DOMAIN s = 1..n /\ i \in 1..n
  OBVIOUS
<1>2. /\ a \in Seq(S) /\ Len(a) = i - 1
      /\ \A j \in 1..(i - 1) : a[j] = s[j]
  BY <1>1, SubSeqProperties
<1>3. /\ b \in Seq(S) /\ Len(b) = n - i
      /\ \A j \in 1..(n - i) : b[j] = s[j + i]
  <2>1. /\ i + 1 \in 1..(n + 1) /\ n \in (i + 1 - 1)..n /\ n - (i + 1) + 1 = n - i
        /\ \A j \in 1..(n - i) : i + 1 + j - 1 = j + i
    BY <1>1
  <2> QED
    BY <1>1, <2>1, SubSeqProperties
<1>4. t = a \o b
  BY DEF RemoveAt
<1> HIDE DEF a, b, t
<1>5. /\ t \in Seq(S) /\ Len(t) = n - 1
      /\ \A j \in 1..(n - 1) : t[j] = IF j <= i - 1 THEN s[j] ELSE s[j + 1]
  <2>1. /\ t \in Seq(S) /\ Len(t) = Len(a) + Len(b)
        /\ \A j \in 1..(Len(a) + Len(b)) :
              t[j] = IF j <= Len(a) THEN a[j] ELSE b[j - Len(a)]
    BY <1>2, <1>3, <1>4, ConcatProperties
  <2>2. Len(a) + Len(b) = n - 1
    BY <1>1, <1>2, <1>3
  <2>3. ASSUME NEW j \in 1..(n - 1)
        PROVE  t[j] = IF j <= i - 1 THEN s[j] ELSE s[j + 1]
    <3>1. CASE j <= i - 1
      BY <1>1, <1>2, <2>1, <2>2, <3>1
    <3>2. CASE ~(j <= i - 1)
      <4>1. j - Len(a) \in 1..(n - i) /\ (j - Len(a)) + i = j + 1
        BY <1>1, <1>2, <3>2
      <4> QED
        BY <1>1, <1>2, <1>3, <2>1, <2>2, <3>2, <4>1
    <3> QED
      BY <3>1, <3>2
  <2> QED
    BY <2>1, <2>2, <2>3
<1>6. DOMAIN t = 1..(n - 1)
  BY <1>5
<1>7. ASSUME NEW j \in DOMAIN t PROVE \E k \in DOMAIN s : t[j] = s[k]
  <2>1. j \in DOMAIN s /\ j + 1 \in DOMAIN s
    BY <1>1, <1>6
  <2> QED
    BY <1>5, <1>6, <2>1
<1>8. ASSUME NEW k \in DOMAIN s, k # i PROVE \E j \in DOMAIN t : t[j] = s[k]
  <2>1. CASE k <= i - 1
    BY <1>1, <1>5, <1>6, <2>1
  <2>2. CASE ~(k <= i - 1)
    <3>1. k - 1 \in DOMAIN t /\ ~(k - 1 <= i - 1) /\ (k - 1) + 1 = k
      BY <1>1, <1>6, <1>8, <2>2
    <3> QED
      BY <1>5, <1>6, <3>1
  <2> QED
    BY <2>1, <2>2
<1> QED
  BY <1>1, <1>5, <1>7, <1>8 DEF t

\* The page starts from what is stored.
LEMMA LoadFacts ==
    ASSUME StoreTypeOK, Load
    PROVE  /\ replica' \in Replica /\ Blank(replica') /\ replica'.status = "disconnected"
           /\ replica'.colrev = loadedRev
           /\ \A d \in Doc : replica'.items[d].remote = disk[d].remote
<1> DEFINE items == [d \in Doc |-> Loaded(disk[d])]
<1>1. ASSUME NEW d \in Doc
      PROVE  /\ Loaded(disk[d]) \in Item /\ Loaded(disk[d]).remote = disk[d].remote
             /\ Loaded(disk[d]).state = "absent" => Loaded(disk[d]) = Absent
  <2>1. disk[d].remote \in Data /\ disk[d].local \in Data
    BY DEF StoreTypeOK
  <2>2. CASE disk[d] = NoItem
    BY <2>2 DEF Loaded, NoItem, Absent, Item, Data
  <2>3. CASE disk[d] # NoItem
    BY <2>1, <2>3 DEF Loaded, Item
  <2> QED
    BY <2>2, <2>3
<1>2. /\ items \in [Doc -> Item]
      /\ \A d \in Doc : items[d].remote = disk[d].remote
      /\ \A d \in Doc : items[d].state = "absent" => items[d] = Absent
  BY <1>1
<1>3. Unsaved \subseteq Doc /\ loadedRev \in Nat
  BY DEF Unsaved, StoreTypeOK
<1>4. replica' = [NewReplica EXCEPT !.items = items, !.colrev = loadedRev,
                                    !.flushQueue = Unsaved]
  BY DEF Load
<1> HIDE DEF items
<1>5. replica' = [items |-> items, colrev |-> loadedRev, status |-> "disconnected",
                  flushQueue |-> Unsaved, flushTimer |-> FALSE, stopped |-> FALSE]
  BY <1>4 DEF NewReplica
<1>6. replica' \in Replica
  BY <1>2, <1>3, <1>5 DEF Replica
<1> QED
  BY <1>2, <1>5, <1>6 DEF Blank, Has

LEMMA NewReplicaFacts ==
    /\ NewReplica \in Replica /\ Blank(NewReplica) /\ NewReplica.status = "disconnected"
    /\ NewReplica.colrev = 0 /\ \A d \in Doc : NewReplica.items[d] = Absent
BY DEF NewReplica, Replica, Blank, Has, Absent, Item, Data

\* The page is closed, the user logs out, or the server reports a sync_error.
Closes ==
    /\ replica' = NewReplica /\ inbox' = <<>> /\ outbox' = <<>>
    /\ late' \in {late, late \o outbox}
    /\ backupQueue' = {} /\ backups' = <<>> /\ page' = "closed"
    /\ clearing' \in {"none", "database", "revision", "orphan"}
    /\ UNCHANGED <<docs, clock, loadedRev, database, disk, diskRev>>

LEMMA CloseCloses ==
    ASSUME StoreTypeOK, Close \/ Logout \/ OnSyncError
    PROVE  Closes
BY DEF StoreTypeOK, Close, Logout, OnSyncError, Forget, Hangup, Closes

\* The kinds of steps.
LEMMA StoreSteps ==
    ASSUME TypeInv, StoreNext
    PROVE  \/ Aside \/ Turned \/ Closes
           \/ \E d \in Doc, m \in Letter : Changes(d, m)
           \/ OnMessage \/ OnSyncComplete \/ Open \/ Load \/ Connect \/ Lose
           \/ BackupTimer \/ ClearDatabase \/ ClearRevision
           \/ \E i \in DOMAIN backups : BackupEnd(i) \/ \E d \in Doc : BackupWrite(i, d)
<1>1. StoreTypeOK
  BY DEF TypeInv
<1>2. ASSUME NEW d \in Doc, NEW e \in Edit,
             UserCreate(d, e) \/ UserChange(d, e) \/ UserDelete(d)
      PROVE  Aside
  BY <1>2, CreateAside, ChangeAside, DeleteAside
<1>3. ASSUME NEW d \in Doc, NEW e \in Edit,
             OthersChange("+", d, {e}) \/ OthersChange("*", d, {e})
      PROVE  \E m \in Letter : Changes(d, m)
  <2>1. {e} \in Data /\ {e} # Null /\ "+" \in Op /\ "*" \in Op
    BY NullAssumption DEF Data, Version, Op
  <2> QED
    BY <1>1, <1>3, <2>1, OthersChanges
<1>4. ASSUME NEW d \in Doc, OthersChange("-", d, Null)
      PROVE  \E m \in Letter : Changes(d, m)
  <2>1. Null \in Data /\ "-" \in Op
    BY DEF Data, Op
  <2> QED
    BY <1>1, <1>4, <2>1, OthersChanges
<1>5. CASE PageStep
  BY <1>5, FlushTimerAside DEF PageStep
<1>6. CASE OnSyncError \/ Close \/ Logout
  BY <1>1, <1>6, CloseCloses
<1>7. CASE ServerStep \/ ServerRefuse("forbidden")
  BY <1>1, <1>7, AcceptChanges, RefuseTurned DEF ServerStep
<1>8. CASE BackupStep \/ ClearStep \/ Lose
  BY <1>8 DEF BackupStep, ClearStep
<1>9. CASE \E d \in Doc : \/ UserDelete(d)
                          \/ OthersChange("-", d, Null)
                          \/ \E e \in Edit : \/ UserCreate(d, e) \/ UserChange(d, e)
                                            \/ OthersChange("+", d, {e})
                                            \/ OthersChange("*", d, {e})
  BY <1>2, <1>3, <1>4, <1>9, DeleteAside
<1> QED
  BY <1>5, <1>6, <1>7, <1>8, <1>9 DEF StoreNext

-----------------------------------------------------------------------------
(* Types *)

BaseInv == TypeInv /\ RowsDated

BackupType == [todo: SUBSET Doc, rev: Nat]

LEMMA BaseInit == StoreInit => BaseInv
<1> SUFFICES ASSUME StoreInit PROVE BaseInv
  OBVIOUS
<1>0. PICK rev \in Nat : \E rows \in Rows(rev) : StoreInitWith(rows, rev)
  BY DEF StoreInit
<1>1. PICK rows \in Rows(rev) : StoreInitWith(rows, rev)
  BY <1>0
<1>2. /\ \A d \in Doc : /\ rows[d].rev \in Nat /\ rows[d].data \in Data /\ rows[d].rev <= rev
                        /\ rows[d].rev = 0 => rows[d].data = Null
      /\ rows \in [Doc -> [rev: Nat, data: Data]]
  BY DEF Rows, NoRow
<1>3. NoItem \in [remote: Data, local: Data]
  BY DEF NoItem, Data
<1>4. RowsDated
  BY <1>1, <1>2 DEF StoreInitWith, RowsDated
<1>5. /\ docs \in [Doc -> [rev: Nat, data: Data]] /\ clock \in Nat
      /\ disk \in [Doc -> [remote: Data, local: Data]]
  BY <1>1, <1>2, <1>3 DEF StoreInitWith
<1>6. /\ inbox = <<>> /\ outbox = <<>> /\ backups = <<>> /\ inbox \in Seq(Letter)
      /\ inbox \in Seq(ServerMessage) /\ outbox \in Seq(ClientMessage)
      /\ late \in Seq(ClientMessage)
      /\ backups \in Seq([todo: SUBSET Doc, rev: Nat])
  BY <1>1 DEF StoreInitWith
<1>7. Blank(replica) /\ replica \in Replica
  BY <1>1, NewReplicaFacts DEF StoreInitWith
<1>8. StoreTypeOK
  BY <1>1, <1>5, <1>6, <1>7 DEF StoreInitWith, StoreTypeOK
<1> QED
  BY <1>4, <1>6, <1>7, <1>8 DEF BaseInv, TypeInv

LEMMA LettersTyped ==
    ASSUME NEW msgs \in Seq(Letter)
    PROVE  msgs \in Seq(ServerMessage)
<1>1. \A i \in 1..Len(msgs) : msgs[i] \in ServerMessage
  BY DEF Letter
<1> QED
  BY <1>1, IsASeq

LEMMA BackupTypes ==
    ASSUME StoreTypeOK, NEW rev \in Nat, Backup(backupQueue, rev)
    PROVE  backups' \in Seq(BackupType) /\ backupQueue' \subseteq Doc
<1>1. [todo |-> backupQueue, rev |-> rev] \in BackupType
  BY DEF StoreTypeOK, BackupType
<1>2. backups \in Seq(BackupType) /\ backupQueue \subseteq Doc
  BY DEF StoreTypeOK, BackupType
<1> HIDE DEF BackupType
<1>3. CASE backupQueue = {}
  BY <1>2, <1>3 DEF Backup, backupVars
<1>4. CASE backupQueue # {}
  <2>1. /\ backups' = Append(backups, [todo |-> backupQueue, rev |-> rev])
        /\ backupQueue' = {}
    BY <1>4 DEF Backup
  <2> QED
    BY <1>1, <1>2, <2>1
<1> QED
  BY <1>3, <1>4

LEMMA PostTypes ==
    ASSUME inbox \in Seq(Letter), NEW m \in Letter, Post(m)
    PROVE  inbox' \in Seq(Letter)
BY DEF Post

LEMMA HangupTypes ==
    ASSUME StoreTypeOK, late' \in {late, late \o outbox}
    PROVE  late' \in Seq(ClientMessage)
<1>1. late \in Seq(ClientMessage) /\ outbox \in Seq(ClientMessage)
  BY DEF StoreTypeOK
<1>2. late \o outbox \in Seq(ClientMessage)
  BY <1>1, ConcatProperties
<1> QED
  BY <1>1, <1>2

LEMMA BaseStep == BaseInv /\ [StoreNext]_storeVars => BaseInv'
<1> SUFFICES ASSUME BaseInv, [StoreNext]_storeVars PROVE BaseInv'
  OBVIOUS
<1>0. TypeInv /\ RowsDated /\ StoreTypeOK /\ inbox \in Seq(Letter) /\ Blank(replica)
  BY DEF BaseInv, TypeInv
<1>1. ASSUME inbox' \in Seq(Letter), Blank(replica'), replica' \in Replica,
             outbox' \in Seq(ClientMessage), late' \in Seq(ClientMessage), page' \in {"closed", "loading", "open"},
             loadedRev' \in Nat, backupQueue' \subseteq Doc, backups' \in Seq(BackupType),
             UNCHANGED diskVars, docs' = docs, clock' = clock
      PROVE  BaseInv'
  BY <1>0, <1>1, LettersTyped
     DEF BaseInv, TypeInv, StoreTypeOK, RowsDated, diskVars, BackupType
<1>2. /\ backups \in Seq(BackupType) /\ backupQueue \subseteq Doc
      /\ inbox # <<>> => Tail(inbox) \in Seq(Letter)
  BY <1>0 DEF StoreTypeOK, BackupType
<1>3. CASE Aside
  BY <1>0, <1>1, <1>2, <1>3 DEF Aside, SameCopies, StoreTypeOK, serverVars
<1>4. CASE Turned
  <2>1. inbox' \in Seq(Letter)
    BY <1>0, <1>4, PostTypes DEF Turned
  <2> QED
    BY <1>0, <1>1, <1>2, <1>4, <2>1 DEF Turned, StoreTypeOK, backupVars
<1>5. CASE Closes
  <2>1. /\ inbox' \in Seq(Letter) /\ outbox' \in Seq(ClientMessage)
        /\ late' \in Seq(ClientMessage)
        /\ backups' \in Seq([todo: SUBSET Doc, rev: Nat])
    <3>1. /\ <<>> \in Seq(Letter) /\ <<>> \in Seq(ClientMessage)
          /\ <<>> \in Seq([todo: SUBSET Doc, rev: Nat])
      OBVIOUS
    <3>2. late' \in Seq(ClientMessage)
      BY <1>0, <1>5, HangupTypes DEF Closes
    <3> QED
      BY <1>5, <3>1, <3>2 DEF Closes
  <2> QED
    BY <1>0, <1>5, <2>1, NewReplicaFacts, LettersTyped
       DEF Closes, StoreTypeOK, BaseInv, TypeInv, RowsDated
<1>6. ASSUME NEW d \in Doc, NEW m \in Letter, Changes(d, m) PROVE BaseInv'
  <2>1. inbox' \in Seq(Letter)
    BY <1>0, <1>6, PostTypes DEF Changes
  <2>2. m.data \in Data /\ clock \in Nat
    BY <1>0, <1>6, LetterTypes DEF Changes, StoreTypeOK
  <2>3. docs' \in [Doc -> [rev: Nat, data: Data]] /\ clock' \in Nat
    BY <1>0, <1>6, <2>2 DEF Changes, StoreTypeOK
  <2>4. \A e \in Doc : docs'[e] = IF e = d THEN [rev |-> clock + 1, data |-> m.data] ELSE docs[e]
    BY <1>0, <1>6 DEF Changes, StoreTypeOK
  <2>5. \A e \in Doc : docs[e].rev \in Nat
    BY <1>0 DEF StoreTypeOK
  <2>6. RowsDated'
    BY <1>0, <1>6, <2>2, <2>4, <2>5 DEF Changes, RowsDated
  <2> QED
    BY <1>0, <1>2, <1>6, <2>1, <2>3, <2>6, LettersTyped
       DEF Changes, StoreTypeOK, BaseInv, TypeInv, backupVars, diskVars
<1>7. CASE OnMessage
  BY <1>0, <1>1, <1>2, <1>7, MessageHeard DEF Heard, StoreTypeOK, serverVars
<1>8. CASE OnSyncComplete
  BY <1>0, <1>1, <1>2, <1>8, SyncHeard, BackupTypes DEF StoreTypeOK, serverVars
<1>9. CASE Open
  BY <1>0, <1>1, <1>2, <1>9 DEF Open, StoreTypeOK, serverVars, netVars, backupVars
<1>10. CASE Load
  <2>1. UNCHANGED <<serverVars, netVars, loadedRev, backupVars, disk, clearing>>
        /\ database' = TRUE /\ page' = "open" /\ diskRev' \in {NoRev} \cup Nat
    BY <1>0, <1>10 DEF Load, StoreTypeOK
  <2> QED
    BY <1>0, <1>10, <2>1, LoadFacts
       DEF StoreTypeOK, BaseInv, TypeInv, RowsDated, serverVars, netVars, backupVars
<1>11. CASE Connect
  <2>1. replica' \in Replica /\ Blank(replica')
    BY <1>0, <1>11 DEF Connect, StoreTypeOK, Replica, Blank, Has
  <2>2. inbox' \in Seq(Letter)
    <3>1. replica.colrev \in Nat
      BY <1>0 DEF StoreTypeOK, Replica
    <3> QED
      BY <1>0, <1>11, <3>1, AnswerFacts DEF Connect
  <2> QED
    BY <1>0, <1>1, <1>2, <1>11, <2>1, <2>2 DEF Connect, StoreTypeOK, serverVars, backupVars
<1>12. CASE Lose
  <2>1. replica' \in Replica /\ Blank(replica')
    BY <1>0, <1>12 DEF Lose, StoreTypeOK, Replica, Blank, Has
  <2>2. /\ inbox' \in Seq(Letter) /\ outbox' \in Seq(ClientMessage)
        /\ late' \in Seq(ClientMessage)
    <3>1. <<>> \in Seq(Letter) /\ <<>> \in Seq(ClientMessage)
      OBVIOUS
    <3>2. late' \in Seq(ClientMessage)
      BY <1>0, <1>12, HangupTypes DEF Lose, Hangup
    <3> QED
      BY <1>12, <3>1, <3>2 DEF Lose, Hangup
  <2> QED
    BY <1>0, <1>1, <1>2, <1>12, <2>1, <2>2 DEF Lose, StoreTypeOK, backupVars
<1>13. CASE BackupTimer
  <2>1. replica.colrev \in Nat
    BY <1>0 DEF StoreTypeOK, Replica
  <2> QED
    BY <1>0, <1>1, <1>13, <2>1, BackupTypes DEF BackupTimer, StoreTypeOK, serverVars, netVars
<1>14. CASE ClearDatabase \/ ClearRevision
  <2>1. disk' \in [Doc -> [remote: Data, local: Data]]
    BY <1>0, <1>14 DEF ClearDatabase, ClearRevision, NoItem, StoreTypeOK, Data
  <2> QED
    BY <1>0, <1>14, <2>1
       DEF ClearDatabase, ClearRevision, StoreTypeOK, BaseInv, TypeInv, RowsDated, serverVars,
           netVars, backupVars
<1>15. ASSUME NEW i \in DOMAIN backups, NEW d \in Doc, BackupWrite(i, d) PROVE BaseInv'
  <2>1. replica.items[d].remote \in Data /\ replica.items[d].local \in Data
    BY <1>0, ItemTypes DEF StoreTypeOK
  <2>2. disk' \in [Doc -> [remote: Data, local: Data]]
    BY <1>0, <1>15, <2>1 DEF BackupWrite, StoreTypeOK
  <2>3. backups' \in Seq(BackupType)
    <3>1. backups[i] \in BackupType
      BY <1>2
    <3>2. [backups[i] EXCEPT !.todo = @ \ {d}] \in BackupType
      BY <3>1 DEF BackupType
    <3>3. backups' = [backups EXCEPT ![i] = [backups[i] EXCEPT !.todo = @ \ {d}]]
      BY <1>15 DEF BackupWrite
    <3> QED
      BY <1>2, <3>2, <3>3, ExceptSeq
  <2> QED
    BY <1>0, <1>15, <2>2, <2>3
       DEF BackupWrite, StoreTypeOK, BaseInv, TypeInv, RowsDated, serverVars, netVars, BackupType
<1>16. ASSUME NEW i \in DOMAIN backups, BackupEnd(i) PROVE BaseInv'
  <2>1. backups' \in Seq(BackupType)
    BY <1>2, <1>16, RemoveAtFacts DEF BackupEnd
  <2>2. diskRev' \in Nat
    <3>1. backups[i] \in BackupType
      BY <1>2
    <3> QED
      BY <1>16, <3>1 DEF BackupEnd, BackupType
  <2> QED
    BY <1>0, <1>16, <2>1, <2>2
       DEF BackupEnd, StoreTypeOK, BaseInv, TypeInv, RowsDated, serverVars, netVars, BackupType
<1>17. CASE UNCHANGED storeVars
  BY <1>0, <1>1, <1>2, <1>17 DEF storeVars, StoreTypeOK, serverVars, netVars, backupVars
<1> QED
  BY <1>0, <1>3, <1>4, <1>5, <1>6, <1>7, <1>8, <1>9, <1>10, <1>11, <1>12, <1>13, <1>14,
     <1>15, <1>16, <1>17, StoreSteps

LEMMA BaseAlways == StoreSpec => []BaseInv
BY BaseInit, BaseStep, PTL DEF StoreSpec

\* The page, the messages, the store and what is being written to it have their types
\* (packages/client/src/collection.ts).
THEOREM StoreTypeCorrect == StoreSpec => []StoreTypeOK
<1>1. BaseInv => StoreTypeOK
  BY DEF BaseInv, TypeInv
<1> QED
  BY <1>1, BaseAlways, PTL

-----------------------------------------------------------------------------
(* The invariant *)

\* Of a document that was never created nobody has anything.
Unheard ==
    \A d \in Doc : ~Exists(d) =>
        /\ Remote(d) = Null /\ disk[d].remote = Null
        /\ \A i \in DOMAIN inbox : ~About(inbox[i], d)

\* What there is while the page is closed, or loading, or open, or offline.
Pages ==
    /\ page # "open" => /\ replica = NewReplica /\ inbox = <<>>
                        /\ backupQueue = {} /\ backups = <<>>
    /\ page = "open" => database /\ ~Deleting
    /\ page = "loading" => diskRev \in {NoRev, loadedRev}
    /\ ~Online => inbox = <<>>

\* Every revision anywhere is one that the server gave out.
RevsKnown ==
    /\ replica.colrev <= clock /\ loadedRev <= clock
    /\ diskRev # NoRev => diskRev <= clock
    /\ \A i \in DOMAIN backups : backups[i].rev <= clock
    /\ \A i \in DOMAIN inbox : Dated(inbox[i]) => inbox[i].colrev <= clock

Arriving(d) ==
    /\ Tracked(docs[d], Remote(d), inbox, d)
    /\ Online => Followed(docs[d], Remote(d), inbox, d)

\* The stored item is of the stored revision, also of one that was read.
Stored(d) ==
    /\ disk[d].remote # Null => disk[d].remote \subseteq docs[d].data
    /\ database /\ diskRev # NoRev /\ docs[d].rev <= diskRev => disk[d].remote = docs[d].data
    /\ database /\ page = "loading" /\ docs[d].rev <= loadedRev =>
          disk[d].remote = docs[d].data

\* A backup ends with the document as of its revision: it is there, or to be written.
Written(d, queue, saves) ==
    /\ \A i \in DOMAIN saves : docs[d].rev <= saves[i].rev =>
          /\ Remote(d) = docs[d].data
          /\ d \in saves[i].todo \/ disk[d].remote = docs[d].data
    /\ \/ disk[d].remote = Remote(d)
       \/ d \in queue
       \/ \E i \in DOMAIN saves : d \in saves[i].todo

\* The client has what the revisions say that it has.
Resumes(d) ==
    page = "open" =>
        /\ docs[d].rev <= replica.colrev => Remote(d) = docs[d].data
        /\ diskRev # NoRev /\ docs[d].rev <= diskRev => Remote(d) = docs[d].data
        /\ Written(d, backupQueue, backups)

Followers == \A d \in Doc : Live(d) => Arriving(d) /\ Stored(d) /\ Resumes(d)

StoreInv == BaseInv /\ Unheard /\ Pages /\ RevsKnown /\ Followers

LEMMA RowTypes ==
    ASSUME BaseInv, NEW d \in Doc
    PROVE  /\ docs[d].rev \in Nat /\ docs[d].data \in Data /\ docs[d].rev <= clock /\ clock \in Nat
           /\ Live(d) => docs[d].data \in Version /\ docs[d].rev > 0 /\ Exists(d)
           /\ Remote(d) \in Data /\ disk[d].remote \in Data
           /\ replica.colrev \in Nat /\ loadedRev \in Nat /\ diskRev \in {NoRev} \cup Nat
           /\ \A i \in DOMAIN backups : backups[i].rev \in Nat
<1>1. /\ docs[d].rev \in Nat /\ docs[d].data \in Data /\ clock \in Nat
      /\ disk[d].remote \in Data /\ replica \in Replica
      /\ loadedRev \in Nat /\ diskRev \in {NoRev} \cup Nat
      /\ backups \in Seq([todo: SUBSET Doc, rev: Nat])
  BY DEF BaseInv, TypeInv, StoreTypeOK
<1>2. Remote(d) \in Data
  BY <1>1, ItemTypes DEF Remote
<1>3. replica.colrev \in Nat
  BY <1>1 DEF Replica
<1>4. docs[d].rev <= clock /\ (docs[d].rev = 0 => docs[d].data = Null)
  BY DEF BaseInv, RowsDated
<1>5. ASSUME NEW i \in DOMAIN backups PROVE backups[i].rev \in Nat
  <2>1. backups \in Seq(BackupType)
    BY <1>1 DEF BackupType
  <2>2. backups[i] \in BackupType
    BY <2>1
  <2> QED
    BY <2>2 DEF BackupType
<1>6. Live(d) => docs[d].data \in Version /\ docs[d].rev > 0 /\ Exists(d)
  <2>1. docs[d].data # Null => docs[d].data \in Version
    BY <1>1 DEF Data
  <2>2. docs[d].data # Null => docs[d].rev > 0
    BY <1>1, <1>4
  <2> QED
    BY <2>1, <2>2 DEF Live, Exists
<1> QED
  BY <1>1, <1>2, <1>3, <1>4, <1>5, <1>6

LEMMA StoreInvInit == StoreInit => StoreInv
<1> SUFFICES ASSUME StoreInit PROVE StoreInv
  OBVIOUS
<1>1. BaseInv
  BY BaseInit
<1>2. PICK rev \in Nat : \E rows \in Rows(rev) : StoreInitWith(rows, rev)
  BY DEF StoreInit
<1>3. /\ inbox = <<>> /\ replica = NewReplica /\ page = "closed" /\ backups = <<>>
      /\ loadedRev = 0 /\ backupQueue = {} /\ database = FALSE /\ diskRev = NoRev
      /\ \A d \in Doc : disk[d] = NoItem
  BY <1>2 DEF StoreInitWith
<1>4. replica.status = "disconnected" /\ replica.colrev = 0 /\ \A d \in Doc : Remote(d) = Null
  BY <1>3, NewReplicaFacts DEF Remote, Absent
<1>5. \A d \in Doc : disk[d].remote = Null
  <2>1. NoItem.remote = Null
    BY DEF NoItem
  <2> QED
    BY <1>3, <2>1
<1>6. Unheard /\ Pages
  <2>1. \A i \in DOMAIN inbox : FALSE
    BY <1>3
  <2>2. Unheard
    BY <1>4, <1>5, <2>1 DEF Unheard
  <2> QED
    BY <1>3, <1>4, <2>2 DEF Pages, Online
<1>7. RevsKnown
  BY <1>1, <1>3, <1>4 DEF RevsKnown, BaseInv, TypeInv, StoreTypeOK
<1>8. ASSUME NEW d \in Doc, Live(d) PROVE Arriving(d) /\ Stored(d) /\ Resumes(d)
  <2>1. Tracked(docs[d], Remote(d), inbox, d) /\ ~Online
    BY <1>3, <1>4, TrackNothing DEF Online
  <2> QED
    BY <1>3, <1>5, <2>1 DEF Arriving, Stored, Resumes
<1> QED
  BY <1>1, <1>6, <1>7, <1>8 DEF StoreInv, Followers

-----------------------------------------------------------------------------
(* The invariant is kept *)

LEMMA AsideKeeps ==
    ASSUME StoreInv, BaseInv', Aside
    PROVE  StoreInv'
<1>1. /\ docs' = docs /\ clock' = clock /\ inbox' = inbox /\ page' = page
      /\ loadedRev' = loadedRev /\ backups' = backups /\ database' = database /\ disk' = disk
      /\ diskRev' = diskRev /\ clearing' = clearing /\ backupQueue \subseteq backupQueue'
      /\ replica'.colrev = replica.colrev /\ replica'.status = replica.status
      /\ \A d \in Doc : Remote(d)' = Remote(d)
  BY DEF Aside, SameCopies, serverVars, diskVars, Remote
<1>2. page = "open"
  BY DEF Aside, StoreInv, Pages
<1>3. Unheard' /\ Pages' /\ RevsKnown'
  BY <1>1, <1>2 DEF StoreInv, Unheard, Exists, Pages, Deleting, Online, RevsKnown
<1>4. ASSUME NEW d \in Doc, Live(d)' PROVE (Arriving(d) /\ Stored(d) /\ Resumes(d))'
  <2>1. Arriving(d) /\ Stored(d) /\ Resumes(d)
    BY <1>1, <1>4 DEF StoreInv, Followers, Live
  <2>2. Arriving(d)'
    BY <1>1, <2>1 DEF Arriving, Online
  <2> QED
    BY <1>1, <2>1, <2>2 DEF Stored, Resumes, Written
<1> QED
  BY <1>3, <1>4 DEF StoreInv, Followers

LEMMA TurnedKeeps ==
    ASSUME StoreInv, BaseInv', Turned
    PROVE  StoreInv'
<1>1. /\ docs' = docs /\ clock' = clock /\ replica' = replica /\ page' = page
      /\ loadedRev' = loadedRev /\ backups' = backups /\ backupQueue' = backupQueue
      /\ database' = database /\ disk' = disk /\ diskRev' = diskRev /\ clearing' = clearing
      /\ \A d \in Doc : Remote(d)' = Remote(d)
  BY DEF Turned, serverVars, diskVars, backupVars, Remote
<1>2. CASE inbox' = inbox
  <2>1. Unheard' /\ Pages' /\ RevsKnown'
    BY <1>1, <1>2 DEF StoreInv, Unheard, Exists, Pages, Deleting, Online, RevsKnown
  <2>2. ASSUME NEW d \in Doc, Live(d)' PROVE (Arriving(d) /\ Stored(d) /\ Resumes(d))'
    <3>1. Arriving(d) /\ Stored(d) /\ Resumes(d)
      BY <1>1, <2>2 DEF StoreInv, Followers, Live
    <3> QED
      BY <1>1, <1>2, <3>1 DEF Arriving, Online, Stored, Resumes, Written
  <2> QED
    BY <2>1, <2>2 DEF StoreInv, Followers
<1>3. CASE inbox' # inbox
  <2>1. PICK m \in Letter : /\ m.kind = "change_error" /\ Online
                            /\ inbox' = Append(inbox, m)
    BY <1>3 DEF Turned, Post
  <2>2. inbox \in Seq(Letter) /\ (\A d : ~About(m, d)) /\ ~Dated(m)
    BY <2>1 DEF StoreInv, BaseInv, TypeInv, About, Dated
  <2>3. \A i \in DOMAIN inbox' : inbox'[i] = m \/ (i \in DOMAIN inbox /\ inbox'[i] = inbox[i])
    BY <2>1, <2>2
  <2>4. page = "open"
    <3>1. replica # NewReplica
      BY <2>1, NewReplicaFacts DEF Online
    <3> QED
      BY <3>1 DEF StoreInv, Pages
  <2>5. Unheard'
    <3> SUFFICES ASSUME NEW d \in Doc, ~Exists(d)'
                 PROVE  /\ Remote(d)' = Null /\ disk'[d].remote = Null
                        /\ \A i \in DOMAIN inbox' : ~About(inbox'[i], d)
      BY DEF Unheard
    <3>1. /\ Remote(d) = Null /\ disk[d].remote = Null
          /\ \A i \in DOMAIN inbox : ~About(inbox[i], d)
      BY <1>1 DEF StoreInv, Unheard, Exists
    <3> QED
      BY <1>1, <2>2, <2>3, <3>1
  <2>6. Pages' /\ RevsKnown'
    <3>1. Pages'
      BY <1>1, <2>1, <2>4 DEF StoreInv, Pages, Deleting, Online
    <3>2. \A i \in DOMAIN inbox' : Dated(inbox'[i]) => inbox'[i].colrev <= clock
      BY <2>2, <2>3 DEF StoreInv, RevsKnown
    <3> QED
      BY <1>1, <3>1, <3>2 DEF StoreInv, RevsKnown
  <2>7. ASSUME NEW d \in Doc, Live(d)' PROVE (Arriving(d) /\ Stored(d) /\ Resumes(d))'
    <3>1. Arriving(d) /\ Stored(d) /\ Resumes(d)
      BY <1>1, <2>7 DEF StoreInv, Followers, Live
    <3>2. Tracked(docs[d], Remote(d), inbox', d) /\ Followed(docs[d], Remote(d), inbox', d)
      BY <2>1, <2>2, <3>1, TrackOther DEF Arriving
    <3> QED
      BY <1>1, <3>1, <3>2 DEF Arriving, Online, Stored, Resumes, Written
  <2> QED
    BY <2>5, <2>6, <2>7 DEF StoreInv, Followers
<1> QED
  BY <1>2, <1>3

\* A change makes its row the latest there is, which nobody claims to have.
LEMMA ChangesKeep ==
    ASSUME StoreInv, BaseInv', NEW c \in Doc, NEW m \in Letter, Changes(c, m)
    PROVE  StoreInv'
<1>0. BaseInv /\ StoreTypeOK /\ inbox \in Seq(Letter)
  BY DEF StoreInv, BaseInv, TypeInv
<1>1. /\ replica' = replica /\ page' = page
      /\ loadedRev' = loadedRev /\ backups' = backups /\ backupQueue' = backupQueue
      /\ database' = database /\ disk' = disk /\ diskRev' = diskRev /\ clearing' = clearing
      /\ clock' = clock + 1 /\ \A d \in Doc : Remote(d)' = Remote(d)
  BY DEF Changes, diskVars, backupVars, Remote
<1>2. /\ \A d \in Doc : d # c => docs'[d] = docs[d]
      /\ docs'[c].rev = clock + 1 /\ docs'[c].data = m.data
      /\ About(m, c) /\ Dated(m) /\ m.colrev = clock + 1
      /\ \A d \in Doc : d # c => ~About(m, d)
  BY <1>0 DEF Changes, StoreTypeOK, About
<1>3. inbox' = IF Online THEN Append(inbox, m) ELSE inbox
  BY DEF Changes, Post
<1>4. \A i \in DOMAIN inbox' : inbox'[i] = m \/ (i \in DOMAIN inbox /\ inbox'[i] = inbox[i])
  BY <1>0, <1>3
<1>5. ~Online => inbox = <<>> /\ inbox' = <<>>
  BY <1>3 DEF StoreInv, Pages
<1>6. clock \in Nat
  BY <1>0 DEF StoreTypeOK
<1>7. Unheard'
  <2> SUFFICES ASSUME NEW d \in Doc, ~Exists(d)'
               PROVE  /\ Remote(d)' = Null /\ disk'[d].remote = Null
                      /\ \A i \in DOMAIN inbox' : ~About(inbox'[i], d)
    BY DEF Unheard
  <2>1. d # c
    BY <1>2, <1>6 DEF Exists
  <2>2. /\ Remote(d) = Null /\ disk[d].remote = Null
        /\ \A i \in DOMAIN inbox : ~About(inbox[i], d)
    BY <1>2, <2>1 DEF StoreInv, Unheard, Exists
  <2> QED
    BY <1>1, <1>2, <1>4, <2>1, <2>2
<1>8. Pages'
  <2>1. page # "open" => ~Online
    BY NewReplicaFacts DEF StoreInv, Pages, Online
  <2> QED
    BY <1>1, <1>5, <2>1 DEF StoreInv, Pages, Deleting, Online
<1>9. RevsKnown'
  <2>1. \A x \in Nat : x <= clock => x <= clock + 1
    BY <1>6
  <2>2. ASSUME NEW i \in DOMAIN inbox', Dated(inbox'[i]) PROVE inbox'[i].colrev <= clock + 1
    <3>1. CASE inbox'[i] = m
      BY <1>2, <1>6, <3>1
    <3>2. CASE i \in DOMAIN inbox /\ inbox'[i] = inbox[i]
      <4>1. inbox[i].colrev \in Nat /\ inbox[i].colrev <= clock
        BY <1>0, <2>2, <3>2, LetterTypes DEF StoreInv, RevsKnown
      <4> QED
        BY <2>1, <3>2, <4>1
    <3> QED
      BY <1>4, <3>1, <3>2
  <2>3. /\ replica.colrev \in Nat /\ loadedRev \in Nat /\ (diskRev # NoRev => diskRev \in Nat)
        /\ \A i \in DOMAIN backups : backups[i].rev \in Nat
    BY <1>0, RowTypes
  <2>4. /\ replica.colrev <= clock /\ loadedRev <= clock /\ (diskRev # NoRev => diskRev <= clock)
        /\ \A i \in DOMAIN backups : backups[i].rev <= clock
    BY DEF StoreInv, RevsKnown
  <2> QED
    BY <1>1, <2>1, <2>2, <2>3, <2>4 DEF RevsKnown
<1>10. ASSUME NEW d \in Doc, Live(d)', d # c PROVE (Arriving(d) /\ Stored(d) /\ Resumes(d))'
  <2>1. docs'[d] = docs[d] /\ Live(d) /\ ~About(m, d)
    BY <1>2, <1>10 DEF Live
  <2>2. Arriving(d) /\ Stored(d) /\ Resumes(d)
    BY <2>1 DEF StoreInv, Followers
  <2>3. Arriving(d)'
    <3>1. CASE Online
      <4>1. Tracked(docs[d], Remote(d), inbox', d) /\ Followed(docs[d], Remote(d), inbox', d)
        BY <1>0, <1>3, <2>1, <2>2, <3>1, TrackOther DEF Arriving
      <4> QED
        BY <1>1, <2>1, <4>1 DEF Arriving
    <3>2. CASE ~Online
      <4>1. inbox' = inbox /\ ~Online'
        BY <1>1, <1>3, <3>2 DEF Online
      <4> QED
        BY <1>1, <2>1, <2>2, <4>1 DEF Arriving
    <3> QED
      BY <3>1, <3>2
  <2> QED
    BY <1>1, <2>1, <2>2, <2>3 DEF Stored, Resumes, Written
<1>11. ASSUME Live(c)' PROVE (Arriving(c) /\ Stored(c) /\ Resumes(c))'
  <2> DEFINE now == docs'[c]
  <2>1. /\ now.rev = clock + 1 /\ now.data = m.data /\ now.data \in Version
        /\ \/ ~Exists(c) /\ Full(m)
           \/ Live(c) /\ docs[c].data \subseteq now.data
    BY <1>2, <1>11 DEF Changes, Live
  <2> HIDE DEF now
  <2>2. \A x \in Nat : x <= clock => ~(now.rev <= x)
    BY <1>6, <2>1
  <2>3. \A i \in DOMAIN inbox : Dated(inbox[i]) => ~(now.rev <= inbox[i].colrev)
    BY <1>0, <2>2, LetterTypes DEF StoreInv, RevsKnown
  <2>4. /\ ~(now.rev <= replica.colrev) /\ ~(now.rev <= loadedRev)
        /\ diskRev # NoRev => ~(now.rev <= diskRev)
        /\ \A i \in DOMAIN backups : ~(now.rev <= backups[i].rev)
    BY <1>0, <2>2, RowTypes DEF StoreInv, RevsKnown
  <2>5. CASE ~Exists(c)
    <3>1. /\ Remote(c) = Null /\ disk[c].remote = Null
          /\ \A i \in DOMAIN inbox : ~About(inbox[i], c)
      BY <2>5 DEF StoreInv, Unheard
    <3>2. Arriving(c)'
      <4>1. CASE Online
        <5>1. /\ Tracked(now, Null, Append(inbox, m), c)
              /\ Followed(now, Null, Append(inbox, m), c)
          <6>1. Full(m)
            BY <1>0, <2>1, <2>5, RowTypes
          <6> QED
            BY <1>0, <1>2, <2>1, <2>3, <3>1, <6>1, TrackBorn
        <5> QED
          BY <1>1, <1>3, <3>1, <4>1, <5>1 DEF Arriving, now
      <4>2. CASE ~Online
        <5>1. Tracked(now, Null, <<>>, c) /\ ~Online'
          BY <1>1, <4>2, TrackNothing DEF Online
        <5> QED
          BY <1>1, <1>5, <3>1, <4>2, <5>1 DEF Arriving, now
      <4> QED
        BY <4>1, <4>2
    <3> QED
      BY <1>1, <2>4, <3>1, <3>2 DEF Stored, Resumes, Written, now
  <2>6. CASE Exists(c)
    <3>1. Live(c) /\ docs[c].data \subseteq now.data /\ docs[c].data # Null
      BY <2>1, <2>6 DEF Live
    <3>2. Arriving(c) /\ Stored(c) /\ Resumes(c)
      BY <3>1 DEF StoreInv, Followers
    <3>3. Arriving(c)'
      <4>1. CASE Online
        <5>1. /\ Tracked(now, Remote(c), Append(inbox, m), c)
              /\ Followed(now, Remote(c), Append(inbox, m), c)
          BY <1>0, <1>2, <2>1, <2>3, <3>1, <3>2, <4>1, TrackGrown DEF Arriving
        <5> QED
          BY <1>1, <1>3, <4>1, <5>1 DEF Arriving, now
      <4>2. CASE ~Online
        <5>1. Remote(c) # Null => Remote(c) \subseteq now.data
          BY <3>1, <3>2 DEF Arriving, Tracked
        <5>2. Tracked(now, Remote(c), <<>>, c) /\ ~Online'
          BY <1>1, <4>2, <5>1, TrackNothing DEF Online
        <5> QED
          BY <1>1, <1>5, <4>2, <5>2 DEF Arriving, now
      <4> QED
        BY <4>1, <4>2
    <3>4. disk[c].remote # Null => disk[c].remote \subseteq now.data
      BY <3>1, <3>2 DEF Stored
    <3> QED
      BY <1>1, <2>4, <3>2, <3>3, <3>4 DEF Stored, Resumes, Written, now
  <2> QED
    BY <2>5, <2>6
<1> QED
  BY <1>7, <1>8, <1>9, <1>10, <1>11 DEF StoreInv, Followers

LEMMA HeardKeeps ==
    ASSUME StoreInv, BaseInv', NEW m \in Letter, Heard(m)
    PROVE  StoreInv'
<1>0. BaseInv /\ StoreTypeOK /\ inbox \in Seq(Letter)
  BY DEF StoreInv, BaseInv, TypeInv
<1>1. /\ docs' = docs /\ clock' = clock /\ page' = page
      /\ loadedRev' = loadedRev /\ backups' = backups
      /\ database' = database /\ disk' = disk /\ diskRev' = diskRev /\ clearing' = clearing
      /\ replica'.status = replica.status /\ backupQueue \subseteq backupQueue'
  BY DEF Heard, serverVars, diskVars
<1>2. /\ inbox # <<>> /\ m = Head(inbox) /\ inbox' = Tail(inbox)
      /\ replica'.colrev = IF Dated(m) THEN m.colrev ELSE replica.colrev
      /\ \A d \in Doc : Remote(d)' = IF About(m, d) THEN Applied(Remote(d), m) ELSE Remote(d)
  BY DEF Heard, Remote
<1>3. /\ 1 \in DOMAIN inbox /\ m = inbox[1]
      /\ \A i \in DOMAIN inbox' : i + 1 \in DOMAIN inbox /\ inbox'[i] = inbox[i + 1]
  BY <1>0, <1>2
<1>4. Online /\ page = "open"
  BY <1>2 DEF StoreInv, Pages
<1>5. Unheard'
  <2> SUFFICES ASSUME NEW d \in Doc, ~Exists(d)'
               PROVE  /\ Remote(d)' = Null /\ disk'[d].remote = Null
                      /\ \A i \in DOMAIN inbox' : ~About(inbox'[i], d)
    BY DEF Unheard
  <2>1. /\ Remote(d) = Null /\ disk[d].remote = Null
        /\ \A i \in DOMAIN inbox : ~About(inbox[i], d)
    BY <1>1 DEF StoreInv, Unheard, Exists
  <2> QED
    BY <1>1, <1>2, <1>3, <2>1
<1>6. Pages' /\ RevsKnown'
  <2>1. Pages'
    BY <1>1, <1>4 DEF StoreInv, Pages, Deleting, Online
  <2>2. Dated(m) => m.colrev <= clock
    BY <1>3 DEF StoreInv, RevsKnown
  <2>3. \A i \in DOMAIN inbox' : Dated(inbox'[i]) => inbox'[i].colrev <= clock
    BY <1>3 DEF StoreInv, RevsKnown
  <2> QED
    BY <1>1, <1>2, <2>1, <2>2, <2>3 DEF StoreInv, RevsKnown
<1>7. ASSUME NEW d \in Doc, Live(d)' PROVE (Arriving(d) /\ Stored(d) /\ Resumes(d))'
  <2>1. Live(d) /\ Arriving(d) /\ Stored(d) /\ Resumes(d)
    BY <1>1, <1>7 DEF StoreInv, Followers, Live
  <2>2. docs[d].data \in Version /\ docs[d].rev \in Nat /\ Remote(d) \in Data
    BY <1>0, <2>1, RowTypes
  <2> DEFINE after == Remote(d)'
  <2>3. after = IF About(m, d) THEN Applied(Remote(d), m) ELSE Remote(d)
    BY <1>2
  <2> HIDE DEF after
  <2>4. Tracked(docs[d], Remote(d), inbox, d) /\ Followed(docs[d], Remote(d), inbox, d)
    BY <1>4, <2>1 DEF Arriving
  <2>5. /\ Tracked(docs[d], after, inbox', d) /\ Followed(docs[d], after, inbox', d)
        /\ Dated(m) /\ docs[d].rev <= m.colrev => after = docs[d].data
        /\ Remote(d) = docs[d].data => after = docs[d].data
        /\ after # Remote(d) => About(m, d) /\ after = m.data
    BY <1>0, <1>2, <2>2, <2>3, <2>4, TrackRead
  <2>6. after # Remote(d) => d \in backupQueue'
    <3> SUFFICES ASSUME after # Remote(d), d \notin backupQueue' PROVE FALSE
      OBVIOUS
    <3>1. About(m, d) /\ (m.data = Null \/ (~Full(m) /\ Remote(d) = Null))
      BY <2>5 DEF Heard
    <3>2. m.data # Null
      BY <1>0, <1>2, <2>2, <2>4, <3>1, NextCopy, NullAssumption DEF Version
    <3>3. ~Full(m) /\ Remote(d) = Null
      BY <3>1, <3>2
    <3>4. m.kind = "change" /\ m.op # "+"
      BY <3>1, <3>3 DEF Full, About
    <3>5. m.op = "*"
      BY <3>2, <3>4, LetterTypes DEF Op
    <3>6. after = Null
      BY <2>3, <3>1, <3>3, <3>4, <3>5 DEF Applied
    <3> QED
      BY <3>3, <3>6
  <2>7. Arriving(d)'
    BY <1>1, <2>5 DEF Arriving, after
  <2>8. /\ docs[d].rev <= replica'.colrev => after = docs[d].data
        /\ diskRev # NoRev /\ docs[d].rev <= diskRev => after = docs[d].data
    BY <1>2, <1>4, <2>1, <2>5 DEF Resumes
  <2>9. Written(d, backupQueue, backups)'
    <3>1. Written(d, backupQueue, backups)
      BY <1>4, <2>1 DEF Resumes
    <3> QED
      BY <1>1, <2>5, <2>6, <3>1 DEF Written, after
  <2> QED
    BY <1>1, <2>1, <2>7, <2>8, <2>9 DEF Stored, Resumes, after
<1> QED
  BY <1>5, <1>6, <1>7 DEF StoreInv, Followers

\* A backup's revision is that of the page.
LEMMA BackupReaches ==
    ASSUME StoreTypeOK, NEW rev \in Nat, Backup(backupQueue, rev), NEW i \in DOMAIN backups'
    PROVE  \/ backups'[i].rev = rev
           \/ i \in DOMAIN backups /\ backups'[i] = backups[i]
<1>1. CASE backupQueue = {}
  BY <1>1 DEF Backup, backupVars
<1>2. CASE backupQueue # {}
  <2> DEFINE save == [todo |-> backupQueue, rev |-> rev]
  <2>1. backups' = Append(backups, save)
    BY <1>2 DEF Backup
  <2>2. backups \in Seq(BackupType) /\ save \in BackupType /\ save.rev = rev
    BY DEF StoreTypeOK, BackupType
  <2> HIDE DEF save
  <2> QED
    BY <2>1, <2>2
<1> QED
  BY <1>1, <1>2

\* A backup begins: what it is to write is all that the store lacks.
LEMMA BackupBegins ==
    ASSUME StoreTypeOK, NEW rev \in Nat, Backup(backupQueue, rev), Len(backups') <= 1,
           disk' = disk, NEW d \in Doc, docs' = docs, Remote(d)' = Remote(d),
           docs[d].rev <= rev => Remote(d) = docs[d].data,
           Written(d, backupQueue, backups)
    PROVE  Written(d, backupQueue, backups)'
<1>1. CASE backupQueue = {}
  BY <1>1 DEF Backup, backupVars, Written
<1>2. CASE backupQueue # {}
  <2> DEFINE save == [todo |-> backupQueue, rev |-> rev]
  <2>1. backups' = Append(backups, save) /\ backupQueue' = {}
    BY <1>2 DEF Backup
  <2>2. backups \in Seq(BackupType) /\ save \in BackupType
    BY DEF StoreTypeOK, BackupType
  <2> HIDE DEF save
  <2>3. backups = <<>>
    BY <2>1, <2>2
  <2>4. DOMAIN backups' = {1} /\ backups'[1] = save
    BY <2>1, <2>2, <2>3
  <2>5. disk[d].remote = Remote(d) \/ d \in backupQueue
    BY <2>3 DEF Written
  <2> QED
    BY <2>4, <2>5 DEF Written, save
<1> QED
  BY <1>1, <1>2

LEMMA SyncKeeps ==
    ASSUME StoreInv, BaseInv', OnSyncComplete, Len(backups') <= 1
    PROVE  StoreInv'
<1> DEFINE m == Head(inbox)
<1>0. BaseInv /\ TypeInv /\ StoreTypeOK /\ inbox \in Seq(Letter)
  BY DEF StoreInv, BaseInv, TypeInv
<1>1. /\ docs' = docs /\ clock' = clock /\ page' = page /\ loadedRev' = loadedRev
      /\ database' = database /\ disk' = disk /\ diskRev' = diskRev /\ clearing' = clearing
      /\ inbox # <<>> /\ m \in Letter /\ m.kind = "sync_complete" /\ m.colrev \in Nat
      /\ inbox' = Tail(inbox) /\ replica'.status = "ready" /\ replica'.colrev = m.colrev
      /\ Backup(backupQueue, m.colrev)
      /\ \A d \in Doc : Remote(d)' = Remote(d)
  BY <1>0, SyncHeard DEF serverVars, diskVars, Remote
<1>2. /\ 1 \in DOMAIN inbox /\ m = inbox[1]
      /\ \A i \in DOMAIN inbox' : i + 1 \in DOMAIN inbox /\ inbox'[i] = inbox[i + 1]
  BY <1>0, <1>1
<1>3. Online /\ page = "open" /\ Dated(m) /\ \A d : ~About(m, d)
  BY <1>1 DEF StoreInv, Pages, Dated, About
<1>4. Unheard'
  <2> SUFFICES ASSUME NEW d \in Doc, ~Exists(d)'
               PROVE  /\ Remote(d)' = Null /\ disk'[d].remote = Null
                      /\ \A i \in DOMAIN inbox' : ~About(inbox'[i], d)
    BY DEF Unheard
  <2>1. /\ Remote(d) = Null /\ disk[d].remote = Null
        /\ \A i \in DOMAIN inbox : ~About(inbox[i], d)
    BY <1>1 DEF StoreInv, Unheard, Exists
  <2> QED
    BY <1>1, <1>2, <2>1
<1>5. Pages'
  BY <1>1, <1>3 DEF StoreInv, Pages, Deleting, Online
<1>6. RevsKnown'
  <2>1. m.colrev <= clock /\ \A i \in DOMAIN inbox' : Dated(inbox'[i]) => inbox'[i].colrev <= clock
    BY <1>2, <1>3 DEF StoreInv, RevsKnown
  <2>2. \A i \in DOMAIN backups' : backups'[i].rev <= clock
    BY <1>0, <1>1, <2>1, BackupReaches DEF StoreInv, RevsKnown
  <2> QED
    BY <1>1, <2>1, <2>2 DEF StoreInv, RevsKnown
<1>7. ASSUME NEW d \in Doc, Live(d)' PROVE (Arriving(d) /\ Stored(d) /\ Resumes(d))'
  <2>1. Live(d) /\ Arriving(d) /\ Stored(d) /\ Resumes(d)
    BY <1>1, <1>7 DEF StoreInv, Followers, Live
  <2>2. docs[d].data \in Version /\ docs[d].rev \in Nat /\ Remote(d) \in Data
    BY <1>0, <2>1, RowTypes
  <2>3. Tracked(docs[d], Remote(d), inbox, d) /\ Followed(docs[d], Remote(d), inbox, d)
    BY <1>3, <2>1 DEF Arriving
  <2>4. /\ Tracked(docs[d], Remote(d), inbox', d) /\ Followed(docs[d], Remote(d), inbox', d)
        /\ docs[d].rev <= m.colrev => Remote(d) = docs[d].data
    BY <1>0, <1>1, <1>3, <2>2, <2>3, TrackRead
  <2>5. Written(d, backupQueue, backups)
    BY <1>3, <2>1 DEF Resumes
  <2>6. Written(d, backupQueue, backups)'
    BY <1>0, <1>1, <2>4, <2>5, BackupBegins
  <2>7. Arriving(d)'
    BY <1>1, <2>4 DEF Arriving
  <2> QED
    BY <1>1, <1>3, <2>1, <2>4, <2>6, <2>7 DEF Stored, Resumes
<1> QED
  BY <1>4, <1>5, <1>6, <1>7 DEF StoreInv, Followers

LEMMA OpenKeeps ==
    ASSUME StoreInv, BaseInv', Open
    PROVE  StoreInv'
<1>1. /\ docs' = docs /\ clock' = clock /\ inbox' = inbox /\ replica' = replica
      /\ backups' = backups /\ backupQueue' = backupQueue /\ database' = database
      /\ disk' = disk /\ diskRev' = diskRev /\ clearing' = clearing
      /\ page = "closed" /\ page' = "loading"
      /\ loadedRev' = IF diskRev = NoRev THEN 0 ELSE diskRev
      /\ \A d \in Doc : Remote(d)' = Remote(d)
  BY DEF Open, serverVars, netVars, backupVars, diskVars, Remote
<1>2. Unheard' /\ Pages'
  BY <1>1 DEF StoreInv, Unheard, Exists, Pages, Online
<1>3. RevsKnown'
  <2>1. clock \in Nat
    BY DEF StoreInv, BaseInv, TypeInv, StoreTypeOK
  <2> QED
    BY <1>1, <2>1 DEF StoreInv, RevsKnown
<1>4. ASSUME NEW d \in Doc, Live(d)' PROVE (Arriving(d) /\ Stored(d) /\ Resumes(d))'
  <2>1. Live(d) /\ Arriving(d) /\ Stored(d) /\ Resumes(d)
    BY <1>1, <1>4 DEF StoreInv, Followers, Live
  <2>2. docs[d].rev \in Nat /\ docs[d].rev > 0
    BY <2>1, RowTypes DEF StoreInv
  <2>3. Arriving(d)'
    BY <1>1, <2>1 DEF Arriving, Online
  <2> QED
    BY <1>1, <2>1, <2>2, <2>3 DEF Stored, Resumes
<1> QED
  BY <1>2, <1>3, <1>4 DEF StoreInv, Followers

\* The page starts with the documents of the revision that was read.
LEMMA LoadKeeps ==
    ASSUME StoreInv, BaseInv', Load, Orderly
    PROVE  StoreInv'
<1>1. /\ docs' = docs /\ clock' = clock /\ inbox' = inbox /\ loadedRev' = loadedRev
      /\ backups' = backups /\ backupQueue' = backupQueue
      /\ database' = TRUE /\ disk' = disk /\ clearing' = clearing
      /\ diskRev' = (IF database THEN diskRev ELSE 0)
      /\ page = "loading" /\ page' = "open" /\ ~Deleting
  BY DEF Load, serverVars, netVars, backupVars
<1>2. /\ replica'.status = "disconnected" /\ replica'.colrev = loadedRev
      /\ \A d \in Doc : Remote(d)' = disk[d].remote
  BY LoadFacts DEF StoreInv, BaseInv, TypeInv, Remote
<1>3. inbox = <<>> /\ backups = <<>> /\ backupQueue = {}
  BY <1>1 DEF StoreInv, Pages
<1>4. Unheard' /\ Pages'
  BY <1>1, <1>2, <1>3 DEF StoreInv, Unheard, Exists, Pages, Online, Deleting
<1>5. RevsKnown'
  <2>1. clock \in Nat
    BY DEF StoreInv, BaseInv, TypeInv, StoreTypeOK
  <2> QED
    BY <1>1, <1>2, <2>1 DEF StoreInv, RevsKnown
<1>6. ASSUME NEW d \in Doc, Live(d)' PROVE (Arriving(d) /\ Stored(d) /\ Resumes(d))'
  <2>1. Live(d) /\ Stored(d)
    BY <1>1, <1>6 DEF StoreInv, Followers, Live
  <2>2. docs[d].rev \in Nat /\ docs[d].rev > 0
    BY <2>1, RowTypes DEF StoreInv
  <2>3. Arriving(d)'
    <3>1. Tracked(docs[d], disk[d].remote, <<>>, d)
      BY <2>1, TrackNothing DEF Stored
    <3> QED
      BY <1>1, <1>2, <1>3, <3>1 DEF Arriving, Online
  <2>4. /\ docs[d].rev <= loadedRev => disk[d].remote = docs[d].data
        /\ diskRev' # NoRev /\ docs[d].rev <= diskRev' => disk[d].remote = docs[d].data
    BY <1>1, <2>1, <2>2 DEF Orderly, Stored
  <2>5. Stored(d)'
    BY <1>1, <2>1, <2>4 DEF Stored
  <2> QED
    BY <1>1, <1>2, <1>3, <2>3, <2>4, <2>5 DEF Resumes, Written
<1> QED
  BY <1>4, <1>5, <1>6 DEF StoreInv, Followers

\* A client is sent what it lacks: whatever changed after what it has.
LEMMA ConnectKeeps ==
    ASSUME StoreInv, BaseInv', Connect
    PROVE  StoreInv'
<1>1. /\ docs' = docs /\ clock' = clock /\ loadedRev' = loadedRev
      /\ backups' = backups /\ backupQueue' = backupQueue /\ database' = database
      /\ disk' = disk /\ diskRev' = diskRev /\ clearing' = clearing
      /\ page = "open" /\ page' = "open" /\ inbox' \in SyncAnswers(replica.colrev)
  BY DEF Connect, serverVars, backupVars, diskVars
<1>2. replica'.colrev = replica.colrev /\ \A d \in Doc : Remote(d)' = Remote(d)
  BY DEF Connect, Remote, StoreInv, BaseInv, TypeInv, StoreTypeOK, Replica
<1>3. Online'
  BY DEF Connect, Online, StoreInv, BaseInv, TypeInv, StoreTypeOK, Replica
<1>4. /\ StoreTypeOK /\ RowsDated /\ replica.colrev \in Nat /\ replica.colrev <= clock
      /\ BaseInv
  BY DEF StoreInv, BaseInv, TypeInv, StoreTypeOK, Replica, RevsKnown
<1>5. /\ \A i \in DOMAIN inbox' : Dated(inbox'[i]) => inbox'[i].colrev <= clock
      /\ \A i \in DOMAIN inbox' : \A d \in Doc : About(inbox'[i], d) => docs[d].rev > 0
  BY <1>1, <1>4, AnswerFacts
<1>6. Unheard' /\ Pages' /\ RevsKnown'
  BY <1>1, <1>2, <1>3, <1>5
     DEF StoreInv, Unheard, Exists, Pages, Deleting, RevsKnown
<1>7. ASSUME NEW d \in Doc, Live(d)' PROVE (Arriving(d) /\ Stored(d) /\ Resumes(d))'
  <2>1. Live(d) /\ Arriving(d) /\ Stored(d) /\ Resumes(d)
    BY <1>1, <1>7 DEF StoreInv, Followers, Live
  <2>2. /\ Remote(d) \in Data /\ (Remote(d) # Null => Remote(d) \subseteq docs[d].data)
        /\ docs[d].rev <= replica.colrev => Remote(d) = docs[d].data
    BY <1>1, <1>4, <2>1, RowTypes DEF Arriving, Tracked, Resumes
  <2>3. Tracked(docs[d], Remote(d), inbox', d) /\ Followed(docs[d], Remote(d), inbox', d)
    BY <1>1, <1>4, <2>1, <2>2, TrackAnswer
  <2>4. Arriving(d)'
    BY <1>1, <1>2, <2>3 DEF Arriving
  <2> QED
    BY <1>1, <1>2, <2>1, <2>4 DEF Stored, Resumes, Written
<1> QED
  BY <1>6, <1>7 DEF StoreInv, Followers

LEMMA LoseKeeps ==
    ASSUME StoreInv, BaseInv', Lose
    PROVE  StoreInv'
<1>1. /\ docs' = docs /\ clock' = clock /\ loadedRev' = loadedRev /\ page' = page
      /\ backups' = backups /\ backupQueue' = backupQueue /\ database' = database
      /\ disk' = disk /\ diskRev' = diskRev /\ clearing' = clearing
      /\ Online /\ inbox' = <<>>
  BY DEF Lose, Hangup, backupVars, diskVars
<1>2. replica'.colrev = replica.colrev /\ \A d \in Doc : Remote(d)' = Remote(d)
  BY DEF Lose, Remote, StoreInv, BaseInv, TypeInv, StoreTypeOK, Replica
<1>3. ~Online'
  BY DEF Lose, Online, StoreInv, BaseInv, TypeInv, StoreTypeOK, Replica
<1>4. page = "open"
  BY <1>1, NewReplicaFacts DEF StoreInv, Pages, Online
<1>5. Unheard' /\ Pages' /\ RevsKnown'
  BY <1>1, <1>2, <1>3, <1>4
     DEF StoreInv, Unheard, Exists, Pages, Deleting, RevsKnown
<1>6. ASSUME NEW d \in Doc, Live(d)' PROVE (Arriving(d) /\ Stored(d) /\ Resumes(d))'
  <2>1. Arriving(d) /\ Stored(d) /\ Resumes(d)
    BY <1>1, <1>6 DEF StoreInv, Followers, Live
  <2>2. Tracked(docs[d], Remote(d), <<>>, d)
    BY <2>1, TrackNothing DEF Arriving, Tracked
  <2>3. Arriving(d)'
    BY <1>1, <1>2, <1>3, <2>2 DEF Arriving
  <2> QED
    BY <1>1, <1>2, <2>1, <2>3 DEF Stored, Resumes, Written
<1> QED
  BY <1>5, <1>6 DEF StoreInv, Followers

LEMMA ClosesKeep ==
    ASSUME StoreInv, BaseInv', Closes
    PROVE  StoreInv'
<1>1. /\ docs' = docs /\ clock' = clock /\ loadedRev' = loadedRev /\ page' = "closed"
      /\ backups' = <<>> /\ backupQueue' = {} /\ database' = database
      /\ disk' = disk /\ diskRev' = diskRev /\ inbox' = <<>> /\ replica' = NewReplica
  BY DEF Closes, serverVars
<1>2. replica'.colrev = 0 /\ ~Online' /\ \A d \in Doc : Remote(d)' = Null
  BY <1>1, NewReplicaFacts DEF Online, Remote, Absent
<1>3. Unheard' /\ Pages'
  BY <1>1, <1>2 DEF StoreInv, Unheard, Exists, Pages
<1>4. RevsKnown'
  <2>1. clock \in Nat
    BY DEF StoreInv, BaseInv, TypeInv, StoreTypeOK
  <2> QED
    BY <1>1, <1>2, <2>1 DEF StoreInv, RevsKnown
<1>5. ASSUME NEW d \in Doc, Live(d)' PROVE (Arriving(d) /\ Stored(d) /\ Resumes(d))'
  <2>1. Stored(d)
    BY <1>1, <1>5 DEF StoreInv, Followers, Live
  <2>2. Tracked(docs[d], Null, <<>>, d)
    BY TrackNothing
  <2>3. Arriving(d)'
    BY <1>1, <1>2, <2>2 DEF Arriving
  <2> QED
    BY <1>1, <2>1, <2>3 DEF Stored, Resumes
<1> QED
  BY <1>3, <1>4, <1>5 DEF StoreInv, Followers

LEMMA BackupTimerKeeps ==
    ASSUME StoreInv, BaseInv', BackupTimer, Len(backups') <= 1
    PROVE  StoreInv'
<1>1. /\ docs' = docs /\ clock' = clock /\ loadedRev' = loadedRev /\ page' = page
      /\ inbox' = inbox /\ replica' = replica /\ database' = database
      /\ disk' = disk /\ diskRev' = diskRev /\ clearing' = clearing
      /\ page = "open" /\ Backup(backupQueue, replica.colrev)
      /\ \A d \in Doc : Remote(d)' = Remote(d)
  BY DEF BackupTimer, serverVars, netVars, diskVars, Remote
<1>2. StoreTypeOK /\ replica.colrev \in Nat /\ replica.colrev <= clock
  BY DEF StoreInv, BaseInv, TypeInv, StoreTypeOK, Replica, RevsKnown
<1>3. Unheard' /\ Pages'
  BY <1>1 DEF StoreInv, Unheard, Exists, Pages, Deleting, Online
<1>4. \A i \in DOMAIN backups' :
         backups'[i].rev = replica.colrev \/ (i \in DOMAIN backups /\ backups'[i] = backups[i])
  BY <1>1, <1>2, BackupReaches
<1>5. RevsKnown'
  BY <1>1, <1>2, <1>4 DEF StoreInv, RevsKnown
<1>6. ASSUME NEW d \in Doc, Live(d)' PROVE (Arriving(d) /\ Stored(d) /\ Resumes(d))'
  <2>1. Arriving(d) /\ Stored(d) /\ Resumes(d)
    BY <1>1, <1>6 DEF StoreInv, Followers, Live
  <2>2. Written(d, backupQueue, backups)'
    BY <1>1, <1>2, <2>1, BackupBegins DEF Resumes
  <2>3. Arriving(d)'
    BY <1>1, <2>1 DEF Arriving, Online
  <2> QED
    BY <1>1, <2>1, <2>2, <2>3 DEF Stored, Resumes
<1> QED
  BY <1>3, <1>5, <1>6 DEF StoreInv, Followers

LEMMA WriteFacts ==
    ASSUME StoreTypeOK, NEW i \in DOMAIN backups, NEW c \in Doc, BackupWrite(i, c)
    PROVE  /\ docs' = docs /\ clock' = clock /\ loadedRev' = loadedRev /\ page' = page
           /\ inbox' = inbox /\ replica' = replica /\ database' = database
           /\ backupQueue' = backupQueue /\ diskRev' = diskRev /\ clearing' = clearing
           /\ \A d \in Doc : Remote(d)' = Remote(d)
           /\ \A d \in Doc : disk'[d].remote = IF d = c THEN Remote(d) ELSE disk[d].remote
           /\ DOMAIN backups' = DOMAIN backups
           /\ \A j \in DOMAIN backups : backups'[j].rev = backups[j].rev
           /\ \A j \in DOMAIN backups : \A d \in Doc : d # c =>
                 (d \in backups'[j].todo <=> d \in backups[j].todo)
<1>1. /\ docs' = docs /\ clock' = clock /\ loadedRev' = loadedRev /\ page' = page
      /\ inbox' = inbox /\ replica' = replica /\ database' = database
      /\ backupQueue' = backupQueue /\ diskRev' = diskRev /\ clearing' = clearing
      /\ \A d \in Doc : Remote(d)' = Remote(d)
  BY DEF BackupWrite, serverVars, netVars, Remote
<1>2. \A d \in Doc : disk'[d].remote = IF d = c THEN Remote(d) ELSE disk[d].remote
  BY DEF BackupWrite, Remote, StoreTypeOK
<1>3. /\ DOMAIN backups' = DOMAIN backups
      /\ \A j \in DOMAIN backups : backups'[j].rev = backups[j].rev
      /\ \A j \in DOMAIN backups : \A d \in Doc : d # c =>
            (d \in backups'[j].todo <=> d \in backups[j].todo)
  <2>1. backups \in Seq(BackupType)
    BY DEF StoreTypeOK, BackupType
  <2> DEFINE save == [backups[i] EXCEPT !.todo = @ \ {c}]
  <2>2. backups' = [backups EXCEPT ![i] = save]
    BY DEF BackupWrite
  <2>3. backups[i] \in BackupType
    BY <2>1
  <2> HIDE DEF save
  <2>4. DOMAIN backups' = DOMAIN backups /\ \A j \in DOMAIN backups : j # i => backups'[j] = backups[j]
    BY <2>1, <2>2
  <2>5. backups'[i] = save
    BY <2>1, <2>2
  <2>6. backups'[i].rev = backups[i].rev /\ backups'[i].todo = backups[i].todo \ {c}
    BY <2>3, <2>5 DEF BackupType, save
  <2> QED
    BY <2>4, <2>6
<1> QED
  BY <1>1, <1>2, <1>3

\* An item is written as it is by now, which is of the revision of the backup if the
\* document has not changed since.
LEMMA BackupWriteKeeps ==
    ASSUME StoreInv, BaseInv', NEW i \in DOMAIN backups, NEW c \in Doc, BackupWrite(i, c)
    PROVE  StoreInv'
<1>1. /\ docs' = docs /\ clock' = clock /\ loadedRev' = loadedRev /\ page' = page
      /\ inbox' = inbox /\ replica' = replica /\ database' = database
      /\ backupQueue' = backupQueue /\ diskRev' = diskRev /\ clearing' = clearing
      /\ \A d \in Doc : Remote(d)' = Remote(d)
  BY WriteFacts DEF StoreInv, BaseInv, TypeInv
<1>2. \A d \in Doc : disk'[d].remote = IF d = c THEN Remote(d) ELSE disk[d].remote
  BY WriteFacts DEF StoreInv, BaseInv, TypeInv
<1>3. /\ DOMAIN backups' = DOMAIN backups
      /\ \A j \in DOMAIN backups : backups'[j].rev = backups[j].rev
      /\ \A j \in DOMAIN backups : \A d \in Doc : d # c =>
            (d \in backups'[j].todo <=> d \in backups[j].todo)
  BY WriteFacts DEF StoreInv, BaseInv, TypeInv
<1>4. page = "open"
  <2>1. backups # <<>>
    OBVIOUS
  <2> QED
    BY <2>1 DEF StoreInv, Pages
<1>5. Unheard' /\ Pages' /\ RevsKnown'
  <2>1. Unheard'
    BY <1>1, <1>2 DEF StoreInv, Unheard, Exists
  <2>2. Pages'
    BY <1>1, <1>4 DEF StoreInv, Pages, Deleting, Online
  <2>3. RevsKnown'
    BY <1>1, <1>3 DEF StoreInv, RevsKnown
  <2> QED
    BY <2>1, <2>2, <2>3
<1>6. ASSUME NEW d \in Doc, Live(d)' PROVE (Arriving(d) /\ Stored(d) /\ Resumes(d))'
  <2>1. Live(d) /\ Arriving(d) /\ Stored(d) /\ Resumes(d)
    BY <1>1, <1>6 DEF StoreInv, Followers, Live
  <2>2. Arriving(d)'
    BY <1>1, <2>1 DEF Arriving, Online
  <2>3. Written(d, backupQueue, backups)
    BY <1>4, <2>1 DEF Resumes
  <2>4. CASE d = c
    <3>1. disk'[d].remote = Remote(d)
      BY <1>2, <2>4
    <3>2. Written(d, backupQueue, backups)'
      BY <1>1, <1>3, <2>3, <3>1 DEF Written
    <3>3. Stored(d)'
      BY <1>1, <1>4, <2>1, <3>1 DEF Stored, Resumes, Arriving, Tracked
    <3> QED
      BY <1>1, <2>1, <2>2, <3>2, <3>3 DEF Resumes
  <2>5. CASE d # c
    <3>1. disk'[d].remote = disk[d].remote
      BY <1>2, <2>5
    <3>2. Written(d, backupQueue, backups)'
      BY <1>1, <1>3, <2>3, <2>5, <3>1 DEF Written
    <3> QED
      BY <1>1, <2>1, <2>2, <3>1, <3>2 DEF Stored, Resumes
  <2> QED
    BY <2>4, <2>5
<1> QED
  BY <1>5, <1>6 DEF StoreInv, Followers

LEMMA EndFacts ==
    ASSUME StoreTypeOK, NEW i \in DOMAIN backups, BackupEnd(i)
    PROVE  /\ docs' = docs /\ clock' = clock /\ loadedRev' = loadedRev /\ page' = page
           /\ inbox' = inbox /\ replica' = replica /\ database' = database
           /\ backupQueue' = backupQueue /\ disk' = disk /\ clearing' = clearing
           /\ backups[i].todo = {} /\ diskRev' = backups[i].rev
           /\ \A d \in Doc : Remote(d)' = Remote(d)
           /\ \A j \in DOMAIN backups' : \E k \in DOMAIN backups : backups'[j] = backups[k]
           /\ \A k \in DOMAIN backups : k # i =>
                 \E j \in DOMAIN backups' : backups'[j] = backups[k]
<1>1. /\ docs' = docs /\ clock' = clock /\ loadedRev' = loadedRev /\ page' = page
      /\ inbox' = inbox /\ replica' = replica /\ database' = database
      /\ backupQueue' = backupQueue /\ disk' = disk /\ clearing' = clearing
      /\ backups[i].todo = {} /\ diskRev' = backups[i].rev
      /\ \A d \in Doc : Remote(d)' = Remote(d)
  BY DEF BackupEnd, serverVars, netVars, Remote
<1>2. /\ \A j \in DOMAIN backups' : \E k \in DOMAIN backups : backups'[j] = backups[k]
      /\ \A k \in DOMAIN backups : k # i => \E j \in DOMAIN backups' : backups'[j] = backups[k]
  <2>1. backups \in Seq(BackupType) /\ backups' = RemoveAt(backups, i)
    BY DEF BackupEnd, StoreTypeOK, BackupType
  <2> QED
    BY <2>1, RemoveAtFacts
<1> QED
  BY <1>1, <1>2

\* All is written, and what is written is of the revision that is stored.
LEMMA BackupEndKeeps ==
    ASSUME StoreInv, BaseInv', NEW i \in DOMAIN backups, BackupEnd(i)
    PROVE  StoreInv'
<1>1. /\ docs' = docs /\ clock' = clock /\ loadedRev' = loadedRev /\ page' = page
      /\ inbox' = inbox /\ replica' = replica /\ database' = database
      /\ backupQueue' = backupQueue /\ disk' = disk /\ clearing' = clearing
      /\ backups[i].todo = {} /\ diskRev' = backups[i].rev
      /\ \A d \in Doc : Remote(d)' = Remote(d)
  BY EndFacts DEF StoreInv, BaseInv, TypeInv
<1>2. /\ \A j \in DOMAIN backups' : \E k \in DOMAIN backups : backups'[j] = backups[k]
      /\ \A k \in DOMAIN backups : k # i => \E j \in DOMAIN backups' : backups'[j] = backups[k]
  BY EndFacts DEF StoreInv, BaseInv, TypeInv
<1>3. page = "open"
  <2>1. backups # <<>>
    OBVIOUS
  <2> QED
    BY <2>1 DEF StoreInv, Pages
<1>4. Unheard' /\ Pages' /\ RevsKnown'
  <2>1. Unheard'
    BY <1>1 DEF StoreInv, Unheard, Exists
  <2>2. Pages'
    BY <1>1, <1>3 DEF StoreInv, Pages, Deleting, Online
  <2>3. RevsKnown'
    BY <1>1, <1>2 DEF StoreInv, RevsKnown
  <2> QED
    BY <2>1, <2>2, <2>3
<1>5. ASSUME NEW d \in Doc, Live(d)' PROVE (Arriving(d) /\ Stored(d) /\ Resumes(d))'
  <2>1. Live(d) /\ Arriving(d) /\ Stored(d) /\ Resumes(d)
    BY <1>1, <1>5 DEF StoreInv, Followers, Live
  <2>2. Arriving(d)'
    BY <1>1, <2>1 DEF Arriving, Online
  <2>3. Written(d, backupQueue, backups)
    BY <1>3, <2>1 DEF Resumes
  <2>4. docs[d].rev <= diskRev' => Remote(d) = docs[d].data /\ disk[d].remote = docs[d].data
    BY <1>1, <2>3 DEF Written
  <2>5. Written(d, backupQueue, backups)'
    <3>1. \A j \in DOMAIN backups' : docs[d].rev <= backups'[j].rev =>
             /\ Remote(d) = docs[d].data
             /\ d \in backups'[j].todo \/ disk[d].remote = docs[d].data
      BY <1>2, <2>3 DEF Written
    <3>2. \/ disk[d].remote = Remote(d)
          \/ d \in backupQueue
          \/ \E j \in DOMAIN backups' : d \in backups'[j].todo
      BY <1>1, <1>2, <2>3 DEF Written
    <3> QED
      BY <1>1, <3>1, <3>2 DEF Written
  <2>6. Stored(d)'
    BY <1>1, <1>3, <2>1, <2>4 DEF Stored
  <2> QED
    BY <1>1, <2>1, <2>2, <2>4, <2>5, <2>6 DEF Resumes
<1> QED
  BY <1>4, <1>5 DEF StoreInv, Followers

\* What a deletion leaves behind is a revision without documents, or nothing.
LEMMA ClearKeeps ==
    ASSUME StoreInv, BaseInv', ClearDatabase \/ ClearRevision
    PROVE  StoreInv'
<1>1. /\ docs' = docs /\ clock' = clock /\ loadedRev' = loadedRev /\ page' = page
      /\ inbox' = inbox /\ replica' = replica
      /\ backupQueue' = backupQueue /\ backups' = backups
      /\ \A d \in Doc : Remote(d)' = Remote(d)
  BY DEF ClearDatabase, ClearRevision, serverVars, netVars, backupVars, Remote
<1>2. CASE ClearDatabase
  <2>1. /\ page # "open" /\ database' = FALSE /\ diskRev' = diskRev
        /\ \A d \in Doc : disk'[d].remote = Null
    BY <1>2 DEF ClearDatabase, NoItem, StoreInv, Pages
  <2>2. Unheard' /\ Pages' /\ RevsKnown'
    BY <1>1, <2>1 DEF StoreInv, Unheard, Exists, Pages, Online, RevsKnown
  <2>3. ASSUME NEW d \in Doc, Live(d)' PROVE (Arriving(d) /\ Stored(d) /\ Resumes(d))'
    <3>1. Arriving(d)
      BY <1>1, <2>3 DEF StoreInv, Followers, Live
    <3>2. Arriving(d)'
      BY <1>1, <3>1 DEF Arriving, Online
    <3> QED
      BY <1>1, <2>1, <2>3, <3>2 DEF Stored, Resumes
  <2> QED
    BY <2>2, <2>3 DEF StoreInv, Followers
<1>3. CASE ClearRevision
  <2>1. /\ database' = database /\ disk' = disk /\ diskRev' = NoRev /\ clearing' = "none"
    BY <1>3 DEF ClearRevision
  <2>2. Unheard' /\ Pages' /\ RevsKnown'
    BY <1>1, <2>1 DEF StoreInv, Unheard, Exists, Pages, Online, Deleting, RevsKnown
  <2>3. ASSUME NEW d \in Doc, Live(d)' PROVE (Arriving(d) /\ Stored(d) /\ Resumes(d))'
    <3>1. Arriving(d) /\ Stored(d) /\ Resumes(d)
      BY <1>1, <2>3 DEF StoreInv, Followers, Live
    <3>2. Arriving(d)'
      BY <1>1, <3>1 DEF Arriving, Online
    <3> QED
      BY <1>1, <2>1, <3>1, <3>2 DEF Stored, Resumes, Written
  <2> QED
    BY <2>2, <2>3 DEF StoreInv, Followers
<1> QED
  BY <1>2, <1>3

LEMMA StoreInvStep ==
    StoreInv /\ Orderly /\ Orderly' /\ [StoreNext]_storeVars => StoreInv'
<1> SUFFICES ASSUME StoreInv, Orderly, Orderly', [StoreNext]_storeVars PROVE StoreInv'
  OBVIOUS
<1>1. BaseInv' /\ TypeInv
  BY BaseStep DEF StoreInv, BaseInv
<1>2. Len(backups') <= 1
  BY DEF Orderly
<1>3. CASE Aside \/ Turned \/ Closes
  BY <1>1, <1>3, AsideKeeps, TurnedKeeps, ClosesKeep
<1>4. CASE \E d \in Doc, m \in Letter : Changes(d, m)
  BY <1>1, <1>4, ChangesKeep
<1>5. CASE OnMessage
  BY <1>1, <1>5, MessageHeard, HeardKeeps
<1>6. CASE OnSyncComplete \/ BackupTimer
  BY <1>1, <1>2, <1>6, SyncKeeps, BackupTimerKeeps
<1>7. CASE Open \/ Load \/ Connect \/ Lose
  BY <1>1, <1>7, OpenKeeps, LoadKeeps, ConnectKeeps, LoseKeeps
<1>8. CASE ClearDatabase \/ ClearRevision
  BY <1>1, <1>8, ClearKeeps
<1>9. ASSUME NEW i \in DOMAIN backups, BackupEnd(i) \/ \E d \in Doc : BackupWrite(i, d)
      PROVE  StoreInv'
  BY <1>1, <1>9, BackupEndKeeps, BackupWriteKeeps
<1>10. CASE UNCHANGED storeVars
  <2>1. /\ docs' = docs /\ clock' = clock /\ inbox' = inbox /\ page' = page
        /\ replica' = replica /\ loadedRev' = loadedRev /\ backupQueue' = backupQueue
        /\ backups' = backups /\ database' = database /\ disk' = disk /\ diskRev' = diskRev
        /\ clearing' = clearing
    BY <1>10 DEF storeVars, serverVars, netVars, backupVars, diskVars
  <2>2. \A d \in Doc : Remote(d)' = Remote(d)
    BY <2>1 DEF Remote
  <2>3. Unheard' /\ Pages' /\ RevsKnown'
    BY <2>1, <2>2 DEF StoreInv, Unheard, Exists, Pages, Online, Deleting, RevsKnown
  <2>4. ASSUME NEW d \in Doc, Live(d)' PROVE (Arriving(d) /\ Stored(d) /\ Resumes(d))'
    <3>1. Arriving(d) /\ Stored(d) /\ Resumes(d)
      BY <2>1, <2>4 DEF StoreInv, Followers, Live
    <3> QED
      BY <2>1, <2>2, <3>1 DEF Arriving, Online, Stored, Resumes, Written
  <2> QED
    BY <1>1, <2>3, <2>4 DEF StoreInv, Followers
<1> QED
  BY <1>1, <1>3, <1>4, <1>5, <1>6, <1>7, <1>8, <1>9, <1>10, StoreSteps

-----------------------------------------------------------------------------
(* What a client asks for when it is back *)

LEMMA InvResumes == StoreInv => ResumeSafe
<1> SUFFICES ASSUME StoreInv, page = "open",
                    NEW d \in Doc, Live(d), docs[d].rev <= replica.colrev
             PROVE  replica.items[d].remote = docs[d].data
  BY DEF ResumeSafe
<1> QED
  BY DEF StoreInv, Followers, Resumes, Remote

\* Across restarts, logouts and lost connections a client that asks for what changed
\* after its revision has all that was last changed up to it: while no two backups
\* are under way at once, and no revision is read whose documents are gone (backup()
\* and IndexedDbCollectionStore in packages/client/src/collection.ts).
THEOREM ResumesWhereItsDocumentsAre == StoreSpec /\ []Orderly => []ResumeSafe
<1>1. StoreInit => StoreInv
  BY StoreInvInit
<1>2. StoreInv /\ Orderly /\ Orderly' /\ [StoreNext]_storeVars => StoreInv'
  BY StoreInvStep
<1>3. StoreInv => ResumeSafe
  BY InvResumes
<1> QED
  BY <1>1, <1>2, <1>3, PTL DEF StoreSpec

\* The same until it is not orderly for the first time.
MCInv == BaseInv /\ made \subseteq Edit /\ (mixed \/ (Orderly /\ StoreInv))

LEMMA MCInvInit == MCInit => MCInv
<1> SUFFICES ASSUME MCInit PROVE MCInv
  OBVIOUS
<1> DEFINE rows == [d \in Doc |-> IF d \in UserDocs THEN NoRow ELSE [rev |-> 1, data |-> {}]]
<1>1. StoreInitWith(rows, 1)
  BY DEF MCInit
<1>2. rows \in Rows(1)
  <2>1. {} \in Data /\ Null \in Data
    BY DEF Data, Version
  <2>2. rows \in [Doc -> [rev: 0..1, data: Data]]
    BY <2>1 DEF NoRow
  <2>3. \A d \in Doc : rows[d].rev = 0 => rows[d] = NoRow
    BY DEF NoRow
  <2> QED
    BY <2>2, <2>3 DEF Rows
<1> HIDE DEF rows
<1>3. StoreInit
  BY <1>1, <1>2 DEF StoreInit
<1>4. Orderly
  BY <1>1 DEF StoreInitWith, Orderly
<1> QED
  BY <1>3, <1>4, BaseInit, StoreInvInit DEF MCInit, MCInv

LEMMA MCSteps ==
    ASSUME made \subseteq Edit, Step
    PROVE  StoreNext /\ made' \subseteq Edit
<1>1. CASE /\ PageStep \/ (Prompt /\ Saving) \/ ClearStep \/ (page = "open" /\ ServerStep)
           /\ UNCHANGED <<made, trouble>>
  BY <1>1 DEF StoreNext, Saving
<1>2. CASE /\ trouble < MaxTrouble /\ trouble' = trouble + 1
           /\ Lose \/ Close \/ Logout \/ ServerRefuse("forbidden")
           /\ UNCHANGED made
  BY <1>2 DEF StoreNext
<1>3. CASE /\ Prompt /\ \E d \in UserDocs : UserDelete(d) /\ replica.items[d].local # Null
           /\ UNCHANGED <<made, trouble>>
  BY <1>3, UserDocsAssumption DEF StoreNext
<1>4. CASE /\ Prompt /\ (Brief => ~cut) /\ clock < MaxClock /\ \E d \in Doc : OthersChange("-", d, Null)
           /\ UNCHANGED <<made, trouble>>
  BY <1>4 DEF StoreNext
<1>5. CASE /\ Prompt /\ made # Edit
           /\ LET e == CHOOSE e \in Edit \ made : TRUE IN
              /\ made' = made \cup {e}
              /\ \/ \E d \in UserDocs : UserCreate(d, e) \/ UserChange(d, e)
                 \/ /\ clock < MaxClock
                    /\ \E d \in Doc \ UserDocs : OthersChange("*", d, {e})
           /\ UNCHANGED trouble
  <2> DEFINE e == CHOOSE e \in Edit \ made : TRUE
  <2>1. e \in Edit
    BY <1>5
  <2>2. /\ made' = made \cup {e}
        /\ \/ \E d \in UserDocs : UserCreate(d, e) \/ UserChange(d, e)
           \/ \E d \in Doc \ UserDocs : OthersChange("*", d, {e})
    BY <1>5
  <2> HIDE DEF e
  <2> QED
    BY <2>1, <2>2, UserDocsAssumption DEF StoreNext
<1> QED
  BY <1>1, <1>2, <1>3, <1>4, <1>5 DEF Step

LEMMA MCInvStep == MCInv /\ [MCNext]_MCVars => MCInv'
<1> SUFFICES ASSUME MCInv, [MCNext]_MCVars PROVE MCInv'
  OBVIOUS
<1>1. [StoreNext]_storeVars /\ made' \subseteq Edit
  BY MCSteps DEF MCInv, MCNext, MCVars
<1>2. BaseInv'
  BY <1>1, BaseStep DEF MCInv
<1>3. mixed' \/ (Orderly' /\ ~mixed)
  <2>1. CASE MCNext
    BY <2>1 DEF MCNext, Remember
  <2>2. CASE UNCHANGED MCVars
    BY <2>2 DEF MCInv, MCVars, storeVars, backupVars, diskVars, Orderly
  <2> QED
    BY <2>1, <2>2
<1> QED
  BY <1>1, <1>2, <1>3, StoreInvStep DEF MCInv

\* Clients resume where their documents are until two backups overlap or a revision
\* is read that outlived its documents: for any documents and edits, and any bounds
\* on what happens (packages/client/src/collection.ts).
THEOREM ResumesUntilMixed == MCSpec => []ResumeSafeIfWhole
<1>1. MCInv => ResumeSafeIfWhole
  BY InvResumes DEF MCInv, ResumeSafeIfWhole
<1> QED
  BY <1>1, MCInvInit, MCInvStep, PTL DEF MCSpec

-----------------------------------------------------------------------------
(* What the user has *)

\* Local copies do not shrink; nor vanish, with their edits.
Kept(k, l, d) ==
    k.items[d].local # Null =>
        l.items[d].local # Null /\ k.items[d].local \subseteq l.items[d].local

\* While a page is open, a copy loses edits when the user deletes it, when the server
\* refuses them, or when it hears of a deletion.
LEMMA LocalSteps ==
    ASSUME TypeInv, [StoreNext]_storeVars, page = "open", page' = "open", NEW d \in Doc
    PROVE  \/ Kept(replica, replica', d)
           \/ Local(d) # Null /\ Local(d)' = Null /\ inbox' = inbox
           \/ inbox # <<>> /\ Head(inbox) = ChangeError(d, "forbidden")
           \/ inbox # <<>> /\ About(Head(inbox), d) /\ Head(inbox).data = Null
<1>1. replica \in Replica /\ Blank(replica) /\ Local(d) \in Data /\ replica.items[d] \in Item
  <2>1. replica \in Replica /\ Blank(replica)
    BY DEF TypeInv, StoreTypeOK
  <2> QED
    BY <2>1, ItemTypes DEF Local
<1>2. ASSUME NEW k \in Replica, k.items = replica.items, FlushFrom(k)
      PROVE  Kept(replica, replica', d)
  BY <1>2, FlushKept DEF Kept
<1>3. CASE FlushTimer
  BY <1>1, <1>2, <1>3 DEF FlushTimer
<1>4. CASE OnSyncComplete
  <2> DEFINE k == [replica EXCEPT !.colrev = Head(inbox).colrev, !.status = "ready"]
  <2>1. FlushFrom(k) /\ Head(inbox).colrev \in Nat
    BY <1>4, SyncHeard DEF OnSyncComplete
  <2>2. k \in Replica /\ k.items = replica.items
    BY <1>1, <2>1 DEF Replica
  <2> QED
    BY <1>2, <2>1, <2>2
<1>5. ASSUME NEW c \in Doc, NEW e \in Edit, UserCreate(c, e)
      PROVE  Kept(replica, replica', d)
  <2> DEFINE k == Create(replica, c, {e})
  <2>1. {e} \in Version
    BY DEF Version
  <2>2. Alters(replica, k, c)
    BY <1>1, <2>1, CreateFacts
  <2>3. replica.items[c] = Absent /\ FlushNow(k)
    BY <1>1, <1>5 DEF UserCreate, Blank
  <2> HIDE DEF k
  <2>4. k \in Replica /\ \A x \in Doc : x # c => k.items[x] = replica.items[x]
    BY <2>2 DEF Alters
  <2>5. replica'.items[d].local = k.items[d].local
    BY <2>3, <2>4, FlushKept
  <2> QED
    BY <1>1, <2>3, <2>4, <2>5 DEF Kept, Absent
<1>6. ASSUME NEW c \in Doc, NEW e \in Edit, UserChange(c, e)
      PROVE  Kept(replica, replica', d)
  <2> DEFINE k == Edited(replica, c, e)
  <2>1. CanEdit(replica, c)
    BY <1>6 DEF UserChange
  <2>2. Alters(replica, k, c) /\ k.items[c].local = replica.items[c].local \cup {e}
    BY <1>1, <2>1, EditedFacts
  <2>3. replica' = [k EXCEPT !.flushTimer = @ \/ k.status = "ready"]
    BY <1>6 DEF UserChange
  <2> HIDE DEF k
  <2>4. k \in Replica /\ \A x \in Doc : x # c => k.items[x] = replica.items[x]
    BY <2>2 DEF Alters
  <2>5. replica'.items = k.items
    BY <2>3, <2>4 DEF Replica
  <2>6. k.items[c].local # Null
    <3>1. replica.items[c].local \in Version
      BY <1>1, <2>1, ItemTypes DEF CanEdit
    <3>2. k.items[c].local \in Version
      BY <2>2, <3>1 DEF Version
    <3> QED
      BY <3>2, NullAssumption DEF Version
  <2> QED
    BY <2>2, <2>4, <2>5, <2>6 DEF Kept
<1>7. ASSUME NEW c \in Doc, UserDelete(c)
      PROVE  Kept(replica, replica', d) \/ (Local(d) # Null /\ Local(d)' = Null /\ inbox' = inbox)
  <2> DEFINE k == Delete(replica, c)
  <2>1. Alters(replica, k, c) /\ k.items[c].local = Null
    BY <1>1, RemovedFacts
  <2>2. (FlushNow(k) \/ replica' = k) /\ inbox' = inbox
    BY <1>7 DEF UserDelete
  <2> HIDE DEF k
  <2>3. k \in Replica /\ \A x \in Doc : x # c => k.items[x] = replica.items[x]
    BY <2>1 DEF Alters
  <2>4. replica'.items[d].local = k.items[d].local
    BY <2>2, <2>3, FlushKept
  <2> QED
    BY <2>1, <2>2, <2>3, <2>4 DEF Kept, Local
<1>8. CASE OnMessage
  <2> DEFINE m == Head(inbox)
             l == HandleMessage(replica, m)
  <2>1. /\ inbox # <<>> /\ m \in Letter /\ Proper(m) /\ m.kind \in {"doc", "change", "change_error"}
        /\ replica' = l
    BY <1>8 DEF OnMessage, TypeInv, Letter
  <2>2. /\ \A e \in Doc : e # m.id => l.items[e] = replica.items[e]
        /\ Effect(replica.items[m.id], l.items[m.id], m)
    BY <1>1, <2>1, MessageFacts
  <2> HIDE DEF l
  <2>3. CASE d # m.id
    BY <2>1, <2>2, <2>3 DEF Kept
  <2>4. CASE d = m.id
    <3>1. \/ Kept(replica, replica', d)
          \/ m.kind = "change_error" /\ m.code = "forbidden"
          \/ m.kind # "change_error" /\ m.data = Null
      BY <2>1, <2>2, <2>4 DEF Effect, Kept
    <3>2. m.kind = "change_error" /\ m.code = "forbidden" => m = ChangeError(d, "forbidden")
      <4>1. ASSUME m.kind = "change_error"
            PROVE  m \in [kind: {"change_error"}, id: Doc, code: ErrorCode]
        BY <2>1, <4>1 DEF Proper, ServerMessage
      <4> QED
        BY <2>4, <4>1 DEF ChangeError
    <3> QED
      BY <2>1, <2>4, <3>1, <3>2 DEF About
  <2> QED
    BY <2>3, <2>4
<1>9. CASE Connect \/ Lose
  <2>1. replica'.items = replica.items
    BY <1>1, <1>9 DEF Connect, Lose, Replica
  <2> QED
    BY <2>1 DEF Kept
<1>10. CASE replica' = replica
  BY <1>10 DEF Kept
<1>11. CASE BackupStep \/ ClearStep \/ ServerStep \/ ServerRefuse("forbidden")
            \/ UNCHANGED storeVars
  <2>1. replica' = replica
    BY <1>11 DEF BackupStep, BackupTimer, BackupEnd, BackupWrite, ClearStep, ClearDatabase,
                 ClearRevision, ServerStep, ServerAccept, ServerRefuse, ServerIgnore, storeVars
  <2> QED
    BY <1>10, <2>1
<1>12. ASSUME NEW op, NEW c \in Doc, NEW data, OthersChange(op, c, data)
       PROVE  Kept(replica, replica', d)
  BY <1>12 DEF OthersChange, Kept
<1>13. ~(Open \/ Load \/ Close \/ Logout \/ OnSyncError)
  BY DEF Open, Load, Close, Logout, OnSyncError, Forget
<1>14. CASE PageStep
  BY <1>3, <1>4, <1>8, <1>9, <1>13, <1>14 DEF PageStep
<1>15. CASE \E c \in Doc : \/ UserDelete(c)
                           \/ OthersChange("-", c, Null)
                           \/ \E e \in Edit : \/ UserCreate(c, e) \/ UserChange(c, e)
                                             \/ OthersChange("+", c, {e})
                                             \/ OthersChange("*", c, {e})
  BY <1>5, <1>6, <1>7, <1>12, <1>15
<1> QED
  BY <1>9, <1>11, <1>13, <1>14, <1>15 DEF StoreNext

\* What is gone stays gone.
Gone(d) == Exists(d) /\ ~Live(d)

LEMMA GoneStays ==
    ASSUME BaseInv, [StoreNext]_storeVars, NEW d \in Doc, Gone(d)
    PROVE  Gone(d)'
<1>0. TypeInv /\ docs[d].rev \in Nat
  BY DEF BaseInv, TypeInv, StoreTypeOK
<1>1. CASE docs' = docs
  BY <1>1 DEF Gone, Exists, Live
<1>2. ASSUME NEW c \in Doc, NEW m \in Letter, Changes(c, m)
      PROVE  Gone(d)'
  <2>1. c # d
    BY <1>2 DEF Changes, Gone
  <2>2. docs'[d] = docs[d]
    BY <1>0, <1>2, <2>1 DEF Changes, TypeInv, StoreTypeOK
  <2> QED
    BY <2>2 DEF Gone, Exists, Live
<1>3. docs' = docs \/ \E c \in Doc, m \in Letter : Changes(c, m)
  BY <1>0, StoreSteps, MessageHeard, SyncHeard
     DEF Aside, Turned, Closes, Heard, Open, Load, Connect, Lose, BackupTimer, ClearDatabase,
         ClearRevision, BackupEnd, BackupWrite, serverVars, storeVars
<1> QED
  BY <1>1, <1>2, <1>3

\* Word of a deletion is about a document that is gone; while the page is not open
\* there is none, and nothing is being written.
Obituaries ==
    \A d \in Doc : \A i \in DOMAIN inbox :
        About(inbox[i], d) /\ inbox[i].data = Null => Gone(d)

Shut == page # "open" => replica = NewReplica /\ inbox = <<>> /\ backups = <<>>

LEMMA ShutStep ==
    ASSUME TypeInv, Shut, [StoreNext]_storeVars
    PROVE  Shut'
<1>0. NewReplica.status = "disconnected"
  BY NewReplicaFacts
<1>1. CASE page = "open" /\ page' = "open"
  BY <1>1 DEF Shut
<1>2. CASE Closes
  BY <1>2 DEF Closes, Shut
<1>3. CASE Aside
  BY <1>3 DEF Aside, Shut
<1>4. CASE Turned \/ \E d \in Doc, m \in Letter : Changes(d, m)
  BY <1>0, <1>4 DEF Turned, Changes, Post, Online, Shut, backupVars
<1>5. CASE OnMessage \/ OnSyncComplete
  BY <1>5 DEF OnMessage, OnSyncComplete, Shut
<1>6. CASE Open \/ Load \/ Connect \/ Lose
  BY <1>0, <1>6 DEF Open, Load, Connect, Lose, Online, Shut, netVars, backupVars
<1>7. CASE BackupTimer \/ ClearDatabase \/ ClearRevision
            \/ \E i \in DOMAIN backups : BackupEnd(i) \/ \E d \in Doc : BackupWrite(i, d)
  BY <1>7 DEF BackupTimer, ClearDatabase, ClearRevision, BackupEnd, BackupWrite, Shut,
              netVars, backupVars
<1>8. CASE UNCHANGED storeVars
  BY <1>8 DEF storeVars, netVars, backupVars, Shut
<1> QED
  BY <1>2, <1>3, <1>4, <1>5, <1>6, <1>7, <1>8, StoreSteps

LEMMA ObituariesStep ==
    ASSUME BaseInv, BaseInv', Obituaries, [StoreNext]_storeVars
    PROVE  Obituaries'
<1>0. TypeInv /\ inbox \in Seq(Letter) /\ StoreTypeOK /\ RowsDated
  BY DEF BaseInv, TypeInv
<1> SUFFICES ASSUME NEW d \in Doc, NEW i \in DOMAIN inbox',
                    About(inbox'[i], d), inbox'[i].data = Null
             PROVE  Gone(d)'
  BY DEF Obituaries
<1>1. ASSUME NEW j \in DOMAIN inbox, inbox'[i] = inbox[j]
      PROVE  Gone(d)'
  BY <1>1, GoneStays DEF Obituaries
<1>2. CASE inbox' = inbox
  BY <1>1, <1>2
<1>3. CASE inbox # <<>> /\ inbox' = Tail(inbox)
  <2>1. i + 1 \in DOMAIN inbox /\ inbox'[i] = inbox[i + 1]
    BY <1>0, <1>3
  <2> QED
    BY <1>1, <2>1
<1>4. CASE Turned
  <2>1. PICK m : inbox' = inbox \/ (m.kind = "change_error" /\ inbox' = Append(inbox, m))
    BY <1>4 DEF Turned, Post
  <2>2. inbox'[i] = m \/ (i \in DOMAIN inbox /\ inbox'[i] = inbox[i])
    BY <1>0, <2>1
  <2>3. inbox'[i] # m \/ inbox' = inbox
    BY <2>1 DEF About
  <2> QED
    BY <1>1, <1>2, <2>2, <2>3
<1>5. ASSUME NEW c \in Doc, NEW m \in Letter, Changes(c, m)
      PROVE  Gone(d)'
  <2>1. inbox' = Append(inbox, m) \/ inbox' = inbox
    BY <1>5 DEF Changes, Post
  <2>2. inbox'[i] = m \/ (i \in DOMAIN inbox /\ inbox'[i] = inbox[i])
    BY <1>0, <2>1
  <2>3. CASE inbox'[i] = m
    <3>1. c = d /\ m.data = Null
      BY <1>5, <2>3 DEF Changes, About
    <3>2. docs'[d] = [rev |-> clock + 1, data |-> Null] /\ clock \in Nat
      BY <1>0, <1>5, <3>1 DEF Changes, StoreTypeOK
    <3> QED
      BY <3>2 DEF Gone, Exists, Live
  <2> QED
    BY <1>1, <2>2, <2>3
<1>6. CASE Connect
  <2>1. inbox' \in SyncAnswers(replica.colrev) /\ docs' = docs /\ replica.colrev \in Nat
    BY <1>0, <1>6 DEF Connect, serverVars, StoreTypeOK, Replica
  <2>2. inbox'[i].data = docs[d].data /\ docs[d].rev > 0
    BY <1>0, <2>1, AnswerFacts
  <2> QED
    BY <2>1, <2>2 DEF Gone, Exists, Live
<1>7. inbox' # <<>>
  BY <1>0 DEF BaseInv, TypeInv
<1> QED
  BY <1>0, <1>2, <1>3, <1>4, <1>5, <1>6, <1>7, StoreSteps
     DEF Aside, Closes, OnMessage, OnSyncComplete, Open, Load, Lose, Hangup, BackupTimer,
         ClearDatabase, ClearRevision, BackupEnd, BackupWrite, netVars, storeVars

LEMMA DiskSteps ==
    ASSUME TypeInv, [StoreNext]_storeVars
    PROVE  \/ disk' = disk
           \/ /\ replica' = replica /\ backups # <<>>
              /\ \A d \in Doc : disk'[d].local \in {disk[d].local, Local(d)}
           \/ clearing # "none" /\ \A d \in Doc : disk'[d].local = Null
<1>1. ASSUME NEW i \in DOMAIN backups, NEW c \in Doc, BackupWrite(i, c)
      PROVE  /\ replica' = replica /\ backups # <<>>
             /\ \A d \in Doc : disk'[d].local \in {disk[d].local, Local(d)}
  BY <1>1 DEF BackupWrite, TypeInv, StoreTypeOK, Local
<1>2. CASE ClearDatabase
  BY <1>2 DEF ClearDatabase, Deleting, NoItem
<1>3. \/ disk' = disk \/ ClearDatabase
      \/ \E i \in DOMAIN backups : \E c \in Doc : BackupWrite(i, c)
  BY StoreSteps, MessageHeard, SyncHeard
     DEF Aside, Turned, Closes, Changes, Heard, Open, Load, Connect, Lose, BackupTimer,
         ClearRevision, BackupEnd, diskVars, storeVars
<1> QED
  BY <1>1, <1>2, <1>3

LEMMA LoadedLocal ==
    ASSUME StoreTypeOK, Load, NEW d \in Doc
    PROVE  replica'.items[d].local = disk[d].local
<1> DEFINE items == [c \in Doc |-> Loaded(disk[c])]
<1>1. replica'.items = items
  BY DEF Load, NewReplica
<1>2. Loaded(disk[d]).local = disk[d].local
  BY DEF Loaded, NoItem, Absent
<1> QED
  BY <1>1, <1>2

\* The page has the edits that are stored, but for what was undone or is gone.
SavedHere ==
    page = "open" => \A d \in Doc \ undone : \A e \in Edit :
        Saved(d, e) /\ ~Gone(d) => Local(d) # Null /\ e \in Local(d)

SavedInv == BaseInv /\ made \subseteq Edit /\ Shut /\ Obituaries /\ SavedHere

LEMMA SavedInvInit == MCInit => SavedInv
<1> SUFFICES ASSUME MCInit PROVE SavedInv
  OBVIOUS
<1>1. BaseInv /\ made \subseteq Edit
  BY MCInvInit DEF MCInv
<1>2. page = "closed" /\ inbox = <<>> /\ backups = <<>> /\ replica = NewReplica
  BY DEF MCInit, StoreInitWith
<1> QED
  BY <1>1, <1>2 DEF SavedInv, Shut, Obituaries, SavedHere

LEMMA SavedInvStep == SavedInv /\ [MCNext]_MCVars => SavedInv'
<1> SUFFICES ASSUME SavedInv, [MCNext]_MCVars PROVE SavedInv'
  OBVIOUS
<1>1. [StoreNext]_storeVars /\ made' \subseteq Edit
  BY MCSteps DEF SavedInv, MCNext, MCVars
<1>2. BaseInv /\ TypeInv /\ BaseInv'
  BY <1>1, BaseStep DEF SavedInv, BaseInv
<1>3. Shut' /\ Obituaries'
  BY <1>1, <1>2, ShutStep, ObituariesStep DEF SavedInv
<1>4. ASSUME MCNext, page' = "open", NEW d \in Doc, d \notin undone', NEW e \in Edit,
             Saved(d, e)', ~Gone(d)'
      PROVE  (Local(d) # Null /\ e \in Local(d))'
  <2>1. ~Gone(d)
    BY <1>1, <1>2, <1>4, GoneStays
  <2>2. /\ d \notin undone
        /\ page = "open" =>
              /\ ~(Local(d) # Null /\ Local(d)' = Null /\ inbox' = inbox)
              /\ ~(inbox # <<>> /\ Head(inbox) = ChangeError(d, "forbidden"))
    BY <1>4 DEF MCNext, Remember, Local
  <2>3. CASE page = "open"
    <3>1. ASSUME Local(d) # Null, e \in Local(d)
          PROVE  (Local(d) # Null /\ e \in Local(d))'
      <4>1. ~(inbox # <<>> /\ About(Head(inbox), d) /\ Head(inbox).data = Null)
        <5>1. inbox # <<>> => 1 \in DOMAIN inbox /\ Head(inbox) = inbox[1]
          BY <1>2 DEF TypeInv
        <5> QED
          BY <2>1, <5>1 DEF SavedInv, Obituaries
      <4>2. Kept(replica, replica', d)
        BY <1>1, <1>2, <1>4, <2>2, <2>3, <4>1, LocalSteps
      <4> QED
        BY <3>1, <4>2 DEF Kept, Local
    <3>2. CASE Saved(d, e)
      BY <2>1, <2>2, <2>3, <3>1, <3>2 DEF SavedInv, SavedHere
    <3>3. CASE ~Saved(d, e)
      <4>1. replica' = replica /\ disk'[d].local = Local(d)
        BY <1>1, <1>2, <1>4, <3>3, DiskSteps DEF Saved
      <4> QED
        BY <1>4, <4>1 DEF Saved, Local
    <3> QED
      BY <3>2, <3>3
  <2>4. CASE page # "open"
    <3>1. Load
      BY <1>1, <1>2, <1>4, <2>4, StoreSteps, MessageHeard, SyncHeard
         DEF Aside, Turned, Closes, Changes, Heard, Open, Connect, Lose, BackupTimer,
             ClearDatabase, ClearRevision, BackupEnd, BackupWrite, storeVars
    <3>2. Local(d)' = disk[d].local /\ disk' = disk
      BY <1>2, <3>1, LoadedLocal DEF Load, TypeInv, Local
    <3> QED
      BY <1>4, <3>2 DEF Saved
  <2> QED
    BY <2>3, <2>4
<1>5. CASE MCNext
  BY <1>1, <1>2, <1>3, <1>4, <1>5 DEF SavedInv, SavedHere
<1>6. CASE UNCHANGED MCVars
  <2>1. SavedHere'
    BY <1>6 DEF SavedInv, SavedHere, Saved, Gone, Exists, Live, Local, MCVars, storeVars,
                serverVars, diskVars
  <2> QED
    BY <1>1, <1>2, <1>3, <2>1 DEF SavedInv
<1> QED
  BY <1>5, <1>6

\* What a backup has saved of the user's edits stays in the store, whatever becomes of
\* pages and connections, until the document is deleted, the server refuses it or the
\* user logs out: a backup writes what the page has, which is never less
\* (IndexedDbCollectionStore and backup() in packages/client/src/collection.ts).
THEOREM SavedAlwaysStaysSaved == MCSpec => SavedStaysSaved
<1>1. SavedInv /\ [MCNext]_MCVars =>
        [\A d \in Doc \ undone, e \in Edit :
            Saved(d, e) /\ ~Saved(d, e)' => clearing # "none" \/ (Exists(d) /\ ~Live(d))]_MCVars
  <2> SUFFICES ASSUME SavedInv, [MCNext]_MCVars, NEW d \in Doc \ undone, NEW e \in Edit,
                      Saved(d, e), ~Saved(d, e)', clearing = "none"
               PROVE  Gone(d)
    BY DEF Gone
  <2>1. TypeInv /\ [StoreNext]_storeVars
    BY MCSteps DEF SavedInv, BaseInv, MCNext, MCVars
  <2>2. backups # <<>> /\ disk'[d].local = Local(d)
    BY <2>1, DiskSteps DEF Saved
  <2>3. page = "open"
    BY <2>2 DEF SavedInv, Shut
  <2> QED
    BY <2>2, <2>3 DEF SavedInv, SavedHere, Saved
<1> QED
  BY <1>1, SavedInvInit, SavedInvStep, PTL DEF MCSpec, SavedStaysSaved

-----------------------------------------------------------------------------
(* What is on its way to a client about a document that is gone *)

\* After n messages there is no copy, nor will a later one bring it back.
Over(copy, msgs, n, d) ==
    \/ \E i \in 1..n : About(msgs[i], d) /\ msgs[i].data = Null
    \/ copy = Null /\ \A i \in 1..n : ~About(msgs[i], d)

\* Word of the deletion is the last, and a revision that it is part of comes later.
Ends(rev, copy, msgs, d) ==
    /\ \A i \in DOMAIN msgs : \A j \in DOMAIN msgs :
          i < j /\ About(msgs[i], d) /\ About(msgs[j], d) /\ msgs[i].data = Null =>
             msgs[j].data = Null
    /\ \A j \in DOMAIN msgs : Dated(msgs[j]) /\ rev <= msgs[j].colrev =>
          /\ Over(copy, msgs, j, d)
          /\ \A i \in DOMAIN msgs : i > j /\ About(msgs[i], d) => msgs[i].data = Null

Settled(copy, msgs, d) ==
    copy = Null /\ \A i \in DOMAIN msgs : About(msgs[i], d) => msgs[i].data = Null

\* A copy goes with word of the deletion, and comes with another message.
Follows(copy, m, after, d) ==
    IF About(m, d) THEN m.data = Null => after = Null ELSE copy = Null => after = Null

LEMMA OverRead ==
    ASSUME NEW d \in Doc, NEW copy, NEW msgs \in Seq(Letter), msgs # <<>>,
           NEW after, Follows(copy, Head(msgs), after, d),
           \A i \in DOMAIN msgs : \A j \in DOMAIN msgs :
              i < j /\ About(msgs[i], d) /\ About(msgs[j], d) /\ msgs[i].data = Null =>
                 msgs[j].data = Null,
           NEW n \in DOMAIN msgs, Over(copy, msgs, n, d)
    PROVE  Over(after, Tail(msgs), n - 1, d)
<1> DEFINE m == Head(msgs)
           rest == Tail(msgs)
<1>1. 1 \in DOMAIN msgs /\ m = msgs[1] /\ m \in Letter /\ n \in Nat /\ n <= Len(msgs)
  OBVIOUS
<1>2. /\ \A i \in DOMAIN rest : i + 1 \in DOMAIN msgs /\ rest[i] = msgs[i + 1]
      /\ \A i \in 1..(n - 1) : i \in DOMAIN rest /\ i + 1 \in 1..n
  BY <1>1
<1>3. CASE copy = Null /\ \A i \in 1..n : ~About(msgs[i], d)
  <2>1. ~About(m, d) /\ after = Null
    BY <1>1, <1>3 DEF Follows
  <2>2. \A i \in 1..(n - 1) : ~About(rest[i], d)
    BY <1>2, <1>3
  <2> QED
    BY <2>1, <2>2 DEF Over
<1>4. ASSUME NEW i \in 1..n, About(msgs[i], d), msgs[i].data = Null
      PROVE  Over(after, rest, n - 1, d)
  <2>1. CASE i # 1
    <3>1. i - 1 \in 1..(n - 1) /\ rest[i - 1] = msgs[i]
      BY <1>1, <1>2, <2>1
    <3> QED
      BY <1>4, <3>1 DEF Over
  <2>2. CASE i = 1
    <3>1. after = Null
      BY <1>1, <1>4, <2>2 DEF Follows
    <3>2. ASSUME NEW k \in 1..(n - 1), About(rest[k], d) PROVE rest[k].data = Null
      <4>1. k + 1 \in DOMAIN msgs /\ rest[k] = msgs[k + 1] /\ 1 < k + 1
        BY <1>2
      <4> QED
        BY <1>1, <1>4, <2>2, <3>2, <4>1
    <3> QED
      BY <3>1, <3>2 DEF Over
  <2> QED
    BY <2>1, <2>2
<1> QED
  BY <1>3, <1>4 DEF Over

LEMMA EndsRead ==
    ASSUME NEW d \in Doc, NEW rev \in Nat, NEW copy, NEW msgs \in Seq(Letter), msgs # <<>>,
           NEW after, Follows(copy, Head(msgs), after, d),
           Ends(rev, copy, msgs, d)
    PROVE  /\ Ends(rev, after, Tail(msgs), d)
           /\ Over(copy, msgs, Len(msgs), d) => Over(after, Tail(msgs), Len(Tail(msgs)), d)
           /\ Dated(Head(msgs)) /\ rev <= Head(msgs).colrev => Settled(after, Tail(msgs), d)
           /\ Settled(copy, msgs, d) => Settled(after, Tail(msgs), d)
<1> DEFINE m == Head(msgs)
           rest == Tail(msgs)
<1>1. 1 \in DOMAIN msgs /\ m = msgs[1] /\ m \in Letter
  OBVIOUS
<1>2. /\ rest \in Seq(Letter) /\ Len(rest) = Len(msgs) - 1 /\ Len(msgs) \in DOMAIN msgs
      /\ \A i \in DOMAIN rest : i \in Nat /\ i + 1 \in DOMAIN msgs /\ rest[i] = msgs[i + 1]
  OBVIOUS
<1>3. \A n \in DOMAIN msgs : Over(copy, msgs, n, d) => Over(after, rest, n - 1, d)
  BY OverRead DEF Ends
<1>4. Ends(rev, after, rest, d)
  <2>1. \A i \in DOMAIN rest : \A j \in DOMAIN rest :
          i < j /\ About(rest[i], d) /\ About(rest[j], d) /\ rest[i].data = Null =>
             rest[j].data = Null
    BY <1>2 DEF Ends
  <2>2. ASSUME NEW j \in DOMAIN rest, Dated(rest[j]), rev <= rest[j].colrev
        PROVE  /\ Over(after, rest, j, d)
               /\ \A i \in DOMAIN rest : i > j /\ About(rest[i], d) => rest[i].data = Null
    <3>1. /\ j \in Nat /\ j + 1 \in DOMAIN msgs /\ Over(copy, msgs, j + 1, d)
          /\ \A i \in DOMAIN msgs : i > j + 1 /\ About(msgs[i], d) => msgs[i].data = Null
      BY <1>2, <2>2 DEF Ends
    <3>2. Over(after, rest, (j + 1) - 1, d) /\ (j + 1) - 1 = j
      BY <1>3, <3>1
    <3> QED
      BY <1>2, <3>1, <3>2
  <2> QED
    BY <2>1, <2>2 DEF Ends
<1>5. Over(copy, msgs, Len(msgs), d) => Over(after, rest, Len(rest), d)
  BY <1>2, <1>3
<1>6. ASSUME Dated(m), rev <= m.colrev PROVE Settled(after, rest, d)
  <2>1. /\ Over(copy, msgs, 1, d)
        /\ \A i \in DOMAIN msgs : i > 1 /\ About(msgs[i], d) => msgs[i].data = Null
    BY <1>1, <1>6 DEF Ends
  <2>2. after = Null
    <3>1. \/ About(m, d) /\ m.data = Null
          \/ copy = Null /\ ~About(m, d)
      BY <1>1, <2>1 DEF Over
    <3> QED
      BY <3>1 DEF Follows
  <2>3. \A i \in DOMAIN rest : i + 1 > 1
    BY <1>2
  <2> QED
    BY <1>2, <2>1, <2>2, <2>3 DEF Settled
<1>7. ASSUME Settled(copy, msgs, d) PROVE Settled(after, rest, d)
  <2>1. after = Null
    BY <1>1, <1>7 DEF Settled, Follows
  <2> QED
    BY <1>2, <1>7, <2>1 DEF Settled
<1> QED
  BY <1>4, <1>5, <1>6, <1>7

\* A message about something else.
LEMMA EndsOther ==
    ASSUME NEW d \in Doc, NEW rev \in Nat, NEW copy, NEW msgs \in Seq(Letter),
           NEW m \in Letter, ~About(m, d), Ends(rev, copy, msgs, d),
           Over(copy, msgs, Len(msgs), d)
    PROVE  /\ Ends(rev, copy, Append(msgs, m), d)
           /\ Over(copy, Append(msgs, m), Len(Append(msgs, m)), d)
           /\ Settled(copy, msgs, d) => Settled(copy, Append(msgs, m), d)
<1> DEFINE more == Append(msgs, m)
           n == Len(msgs)
<1>1. /\ n \in Nat /\ DOMAIN msgs = 1..n /\ DOMAIN more = 1..(n + 1) /\ Len(more) = n + 1
      /\ more[n + 1] = m /\ \A i \in 1..n : more[i] = msgs[i]
  OBVIOUS
<1> HIDE DEF more
<1>2. Over(copy, more, n + 1, d)
  <2>1. \A i \in 1..n : i \in 1..(n + 1)
    BY <1>1
  <2>2. \A i \in 1..(n + 1) : i = n + 1 \/ i \in 1..n
    BY <1>1
  <2> QED
    BY <1>1, <2>1, <2>2 DEF Over
<1>3. \A i \in DOMAIN more : About(more[i], d) => i \in 1..n /\ more[i] = msgs[i]
  BY <1>1
<1>4. ASSUME NEW j \in DOMAIN more, Dated(more[j]), rev <= more[j].colrev
      PROVE  /\ Over(copy, more, j, d)
             /\ \A i \in DOMAIN more : i > j /\ About(more[i], d) => more[i].data = Null
  <2>1. CASE j \in 1..n
    <3>1. /\ Over(copy, msgs, j, d)
          /\ \A i \in DOMAIN msgs : i > j /\ About(msgs[i], d) => msgs[i].data = Null
      BY <1>1, <1>4, <2>1 DEF Ends
    <3>2. \A i \in 1..j : more[i] = msgs[i]
      BY <1>1, <2>1
    <3>3. Over(copy, more, j, d)
      BY <3>1, <3>2 DEF Over
    <3> QED
      BY <1>1, <1>3, <3>1, <3>3
  <2>2. CASE j = n + 1
    <3>1. \A i \in DOMAIN more : ~(i > j)
      BY <1>1, <2>2
    <3> QED
      BY <1>2, <2>2, <3>1
  <2> QED
    BY <1>1, <2>1, <2>2
<1>5. \A i \in DOMAIN more : \A j \in DOMAIN more :
          i < j /\ About(more[i], d) /\ About(more[j], d) /\ more[i].data = Null =>
             more[j].data = Null
  BY <1>1, <1>3 DEF Ends
<1>6. Settled(copy, msgs, d) => Settled(copy, more, d)
  BY <1>1, <1>3 DEF Settled
<1> QED
  BY <1>1, <1>2, <1>4, <1>5, <1>6 DEF Ends, more

LEMMA EndsStay ==
    ASSUME NEW d, NEW rev, NEW copy, NEW msgs, NEW after, copy = Null => after = Null
    PROVE  /\ Ends(rev, copy, msgs, d) => Ends(rev, after, msgs, d)
           /\ \A n : Over(copy, msgs, n, d) => Over(after, msgs, n, d)
           /\ Settled(copy, msgs, d) => Settled(after, msgs, d)
<1>1. \A n : Over(copy, msgs, n, d) => Over(after, msgs, n, d)
  BY DEF Over
<1>2. Settled(copy, msgs, d) => Settled(after, msgs, d)
  BY DEF Settled
<1> QED
  BY <1>1, <1>2 DEF Ends

\* The document is deleted, in the latest revision.
LEMMA EndsNow ==
    ASSUME NEW d \in Doc, NEW rev \in Nat, NEW copy, NEW msgs \in Seq(Letter),
           NEW m \in Letter, About(m, d), m.data = Null,
           \A i \in DOMAIN msgs : About(msgs[i], d) => msgs[i].data # Null,
           \A i \in DOMAIN msgs : Dated(msgs[i]) => ~(rev <= msgs[i].colrev)
    PROVE  /\ Ends(rev, copy, Append(msgs, m), d)
           /\ Over(copy, Append(msgs, m), Len(Append(msgs, m)), d)
<1> DEFINE more == Append(msgs, m)
           n == Len(msgs)
<1>1. /\ n \in Nat /\ DOMAIN msgs = 1..n /\ DOMAIN more = 1..(n + 1) /\ Len(more) = n + 1
      /\ more[n + 1] = m /\ \A i \in 1..n : more[i] = msgs[i]
  OBVIOUS
<1> HIDE DEF more
<1>2. Over(copy, more, n + 1, d)
  <2>1. n + 1 \in 1..(n + 1)
    BY <1>1
  <2> QED
    BY <1>1, <2>1 DEF Over
<1>3. \A j \in DOMAIN more : Dated(more[j]) /\ rev <= more[j].colrev => j = n + 1
  BY <1>1
<1>4. \A i \in DOMAIN more : ~(i > n + 1)
  BY <1>1
<1>5. \A i \in DOMAIN more : About(more[i], d) /\ more[i].data = Null => i = n + 1
  BY <1>1
<1>6. \A j \in DOMAIN more : ~(n + 1 < j)
  BY <1>1
<1> QED
  BY <1>1, <1>2, <1>3, <1>4, <1>5, <1>6 DEF Ends, more

\* The answer to who had all up to r, or nothing at all.
LEMMA EndsAnswer ==
    ASSUME StoreTypeOK, RowsDated, NEW r \in Nat, r <= clock, NEW msgs \in SyncAnswers(r),
           NEW d \in Doc, Gone(d), NEW copy,
           r = 0 \/ docs[d].rev <= r => copy = Null
    PROVE  /\ Ends(docs[d].rev, copy, msgs, d) /\ Over(copy, msgs, Len(msgs), d)
           /\ \A i \in DOMAIN msgs : About(msgs[i], d) => msgs[i].data = Null
<1>1. msgs \in Seq(Letter) /\ docs[d].rev \in Nat /\ docs[d].data = Null
  BY AnswerFacts DEF StoreTypeOK, Gone, Live
<1>2. /\ \A i \in DOMAIN msgs : Dated(msgs[i]) => i = Len(msgs)
      /\ \A i \in DOMAIN msgs : About(msgs[i], d) => msgs[i].data = Null
      /\ r # 0 /\ docs[d].rev > r => \E i \in DOMAIN msgs : About(msgs[i], d)
  BY <1>1, AnswerFacts
<1>3. Over(copy, msgs, Len(msgs), d)
  <2>1. DOMAIN msgs = 1..Len(msgs)
    BY <1>1
  <2>2. copy = Null \/ \E i \in DOMAIN msgs : About(msgs[i], d)
    BY <1>1, <1>2
  <2> QED
    BY <1>2, <2>1, <2>2 DEF Over
<1> QED
  BY <1>2, <1>3 DEF Ends

LEMMA EndsNothing ==
    ASSUME NEW d \in Doc, NEW rev, NEW copy
    PROVE  Ends(rev, copy, <<>>, d) /\ (copy = Null => Settled(copy, <<>>, d))
BY DEF Ends, Settled

\* What the page has of a document, if anything.
Held(d) == IF Remote(d) = Null THEN Local(d) ELSE Remote(d)

\* Word of the deletion is on its way to who is online.
Parting(d) ==
    /\ Ends(docs[d].rev, Held(d), inbox, d)
    /\ Online => Over(Held(d), inbox, Len(inbox), d)

\* The store has nothing of it if its revision, or one that was read, is as late.
Erased(d) ==
    /\ database /\ diskRev # NoRev /\ docs[d].rev <= diskRev => disk[d] = NoItem
    /\ database /\ page = "loading" /\ docs[d].rev <= loadedRev => disk[d] = NoItem

\* Some revision of the page's is as late as the deletion.
Reached(d) ==
    \/ docs[d].rev <= replica.colrev
    \/ diskRev # NoRev /\ docs[d].rev <= diskRev
    \/ \E i \in DOMAIN backups : docs[d].rev <= backups[i].rev

\* A backup that is as late erases it, or has.
Cleared(d) ==
    \A i \in DOMAIN backups : docs[d].rev <= backups[i].rev =>
        Held(d) = Null /\ (d \in backups[i].todo \/ disk[d] = NoItem)

Left(d) == page = "open" => (Reached(d) => Settled(Held(d), inbox, d)) /\ Cleared(d)

Buried(d) == Parting(d) /\ Erased(d) /\ Left(d)

\* What the page has not, the store has not, or a backup is to erase it.
Backed(d) ==
    page = "open" /\ Held(d) = Null =>
        disk[d] = NoItem \/ d \in backupQueue \/ \E i \in DOMAIN backups : d \in backups[i].todo

-----------------------------------------------------------------------------
(* What the page and the store have of a document *)

\* Of a document that exists no copy is made but by a message about it.
LEMMA HeldAside ==
    ASSUME Aside, NEW d \in Doc, Exists(d)
    PROVE  Held(d) = Null => Held(d)' = Null
<1>1. Remote(d)' = Remote(d)
  BY DEF Aside, SameCopies, Remote
<1>2. Local(d) = Null => Local(d)' = Null
  BY DEF Aside
<1> QED
  BY <1>1, <1>2 DEF Held

LEMMA HeldSame ==
    ASSUME NEW d, replica'.items[d] = replica.items[d]
    PROVE  Held(d)' = Held(d) /\ Remote(d)' = Remote(d) /\ Local(d)' = Local(d)
BY DEF Held, Remote, Local

LEMMA HeldHeard ==
    ASSUME TypeInv, OnMessage, NEW d \in Doc
    PROVE  Follows(Held(d), Head(inbox), Held(d)', d)
<1> DEFINE m == Head(inbox)
           l == HandleMessage(replica, m)
<1>1. /\ m \in Letter /\ m.kind \in {"doc", "change", "change_error"} /\ replica' = l
      /\ replica \in Replica /\ Blank(replica)
  BY MessageHeard DEF OnMessage, TypeInv, StoreTypeOK
<1>2. Proper(m) /\ m.id \in Doc
  BY <1>1, ProperTypes DEF Letter
<1>3. /\ \A c \in Doc : c # m.id => l.items[c] = replica.items[c]
      /\ Effect(replica.items[m.id], l.items[m.id], m)
      /\ l.items[m.id].remote = IF m.kind = "change_error" THEN Remote(m.id)
                                ELSE Applied(Remote(m.id), m)
  BY <1>1, <1>2, MessageFacts DEF Remote
<1>4. CASE About(m, d)
  <2>1. m.data = Null => l.items[d] = Absent
    BY <1>1, <1>2, <1>4, NullFacts DEF About
  <2> HIDE DEF l
  <2> QED
    BY <1>1, <1>4, <2>1 DEF Follows, Held, Remote, Local, Absent
<1> HIDE DEF l
<1>5. CASE ~About(m, d) /\ m.id # d
  <2>1. replica'.items[d] = replica.items[d]
    BY <1>1, <1>3, <1>5
  <2> QED
    BY <1>5, <2>1, HeldSame DEF Follows
<1>6. CASE ~About(m, d) /\ m.id = d
  <2>1. m.kind = "change_error"
    BY <1>1, <1>6 DEF About
  <2>2. Remote(d)' = Remote(d) /\ Local(d)' \in {Null, Local(d), Remote(d)}
    BY <1>1, <1>3, <1>6, <2>1 DEF Effect, Remote, Local
  <2> QED
    BY <1>6, <2>2 DEF Follows, Held
<1> QED
  BY <1>4, <1>5, <1>6

LEMMA HeldSync ==
    ASSUME TypeInv, OnSyncComplete, NEW d \in Doc
    PROVE  Held(d)' = Held(d) /\ Local(d)' = Local(d)
<1> DEFINE k == [replica EXCEPT !.colrev = Head(inbox).colrev, !.status = "ready"]
<1>1. FlushFrom(k) /\ Head(inbox).colrev \in Nat /\ Remote(d)' = Remote(d)
  BY SyncHeard DEF OnSyncComplete, Remote
<1>2. k \in Replica /\ k.items = replica.items
  BY <1>1 DEF Replica, TypeInv, StoreTypeOK
<1> HIDE DEF k
<1>3. Local(d)' = Local(d)
  BY <1>1, <1>2, FlushKept DEF Local
<1> QED
  BY <1>1, <1>3 DEF Held

\* The page starts with what is stored, and nothing else.
LEMMA HeldLoad ==
    ASSUME StoreTypeOK, Load, NEW d \in Doc
    PROVE  Held(d)' = Null <=> disk[d] = NoItem
<1>1. Remote(d)' = disk[d].remote /\ Local(d)' = disk[d].local
  BY LoadFacts, LoadedLocal DEF Remote, Local
<1>2. disk[d] \in [remote: Data, local: Data]
  BY DEF StoreTypeOK
<1>3. disk[d] = NoItem <=> disk[d].remote = Null /\ disk[d].local = Null
  BY <1>2 DEF NoItem
<1> QED
  BY <1>1, <1>3 DEF Held

\* What is written is what the page has.
LEMMA HeldWrite ==
    ASSUME StoreTypeOK, NEW i \in DOMAIN backups, NEW c \in Doc, BackupWrite(i, c), NEW d \in Doc
    PROVE  /\ d = c /\ Held(d) = Null => disk'[d] = NoItem
           /\ d # c => disk'[d] = disk[d]
<1>1. /\ c = d => disk'[d] = [remote |-> Remote(d), local |-> Local(d)]
      /\ d # c => disk'[d] = disk[d]
  BY DEF BackupWrite, Remote, Local, StoreTypeOK
<1>2. Held(d) = Null => Remote(d) = Null /\ Local(d) = Null
  BY DEF Held
<1> QED
  BY <1>1, <1>2 DEF NoItem

LEMMA BackupTakes ==
    ASSUME StoreTypeOK, NEW rev \in Nat, Backup(backupQueue, rev), NEW d \in Doc
    PROVE  /\ d \in backupQueue \/ (\E i \in DOMAIN backups : d \in backups[i].todo) =>
                 d \in backupQueue' \/ \E i \in DOMAIN backups' : d \in backups'[i].todo
           /\ Len(backups') <= 1 => \A i \in DOMAIN backups' :
                 \/ i \in DOMAIN backups /\ backups'[i] = backups[i]
                 \/ /\ backups'[i].rev = rev
                    /\ d \in backups'[i].todo
                          \/ (d \notin backupQueue /\ \A j \in DOMAIN backups : d \notin backups[j].todo)
<1>1. CASE backupQueue = {}
  BY <1>1 DEF Backup, backupVars
<1>2. CASE backupQueue # {}
  <2> DEFINE save == [todo |-> backupQueue, rev |-> rev]
  <2>1. backups' = Append(backups, save) /\ save.todo = backupQueue /\ save.rev = rev
    BY <1>2 DEF Backup
  <2>2. backups \in Seq(BackupType) /\ save \in BackupType
    BY DEF StoreTypeOK, BackupType
  <2> HIDE DEF save
  <2>3. /\ Len(backups') = Len(backups) + 1 /\ DOMAIN backups' = 1..(Len(backups) + 1)
        /\ backups'[Len(backups) + 1] = save
        /\ \A i \in DOMAIN backups : i \in DOMAIN backups' /\ backups'[i] = backups[i]
    BY <2>1, <2>2
  <2>4. Len(backups') <= 1 => backups = <<>>
    BY <2>2, <2>3
  <2>5. Len(backups) + 1 \in DOMAIN backups'
    BY <2>2, <2>3
  <2>6. Len(backups') <= 1 => \A i \in DOMAIN backups' :
           backups'[i] = save /\ \A j \in DOMAIN backups : FALSE
    BY <2>3, <2>4
  <2> QED
    BY <2>1, <2>3, <2>5, <2>6
<1> QED
  BY <1>1, <1>2

-----------------------------------------------------------------------------
(* A document that is gone stays buried, unless its removal was not saved *)

LEMMA GoneTypes ==
    ASSUME StoreInv, NEW d \in Doc, Gone(d)
    PROVE  /\ docs[d].rev \in Nat /\ docs[d].rev > 0 /\ docs[d].data = Null
           /\ inbox \in Seq(Letter)
BY DEF StoreInv, BaseInv, TypeInv, StoreTypeOK, Gone, Exists, Live

\* Steps that are about something else.
LEMMA BuriedAside ==
    ASSUME StoreInv, NEW d \in Doc, Gone(d), Buried(d),
           docs'[d] = docs[d], Held(d) = Null => Held(d)' = Null,
           page' = page, loadedRev' = loadedRev,
           replica'.colrev = replica.colrev, replica'.status = replica.status,
           backups' = backups, database' = database, disk' = disk, diskRev' = diskRev,
           \/ inbox' = inbox
           \/ \E m \in Letter : ~About(m, d) /\ Online /\ inbox' = Append(inbox, m)
    PROVE  Buried(d)'
<1> DEFINE after == Held(d)'
<1>1. docs[d].rev \in Nat /\ inbox \in Seq(Letter)
  BY GoneTypes
<1>2. Erased(d)' /\ (Reached(d)' => Reached(d)) /\ (page = "open" => Cleared(d)')
  BY DEF Buried, Erased, Reached, Left, Cleared
<1> HIDE DEF after
<1>3. \/ inbox' = inbox
      \/ /\ Online
         /\ Over(Held(d), inbox, Len(inbox), d) =>
               /\ Ends(docs[d].rev, Held(d), inbox', d)
               /\ Over(Held(d), inbox', Len(inbox'), d)
               /\ Settled(Held(d), inbox, d) => Settled(Held(d), inbox', d)
  BY <1>1, EndsOther DEF Buried, Parting
<1>4. /\ Ends(docs[d].rev, Held(d), inbox', d)
      /\ Online => Over(Held(d), inbox', Len(inbox'), d)
      /\ Settled(Held(d), inbox, d) => Settled(Held(d), inbox', d)
  BY <1>3 DEF Buried, Parting
<1>5. /\ Ends(docs[d].rev, after, inbox', d)
      /\ Online => Over(after, inbox', Len(inbox'), d)
      /\ Settled(Held(d), inbox, d) => Settled(after, inbox', d)
  BY <1>4, EndsStay DEF after
<1> QED
  BY <1>2, <1>5 DEF Buried, Parting, Left, Online, after

\* The deletion itself: its revision is later than any other.
LEMMA BuriedNow ==
    ASSUME StoreInv, BaseInv', Obituaries, NEW d \in Doc, NEW m \in Letter,
           Changes(d, m), m.data = Null
    PROVE  Buried(d)'
<1>0. /\ BaseInv /\ StoreTypeOK /\ inbox \in Seq(Letter) /\ clock \in Nat
  BY DEF StoreInv, BaseInv, TypeInv, StoreTypeOK
<1>1. /\ replica' = replica /\ page' = page
      /\ loadedRev' = loadedRev /\ backups' = backups /\ backupQueue' = backupQueue
      /\ database' = database /\ disk' = disk /\ diskRev' = diskRev
      /\ Held(d)' = Held(d) /\ docs'[d].rev = clock + 1 /\ docs'[d].data = Null
      /\ About(m, d)
  BY <1>0 DEF Changes, diskVars, backupVars, Held, Remote, Local, StoreTypeOK
<1>2. Live(d)
  BY NullAssumption DEF Changes, Version
<1>3. \A x \in Nat : x <= clock => ~(docs'[d].rev <= x)
  BY <1>0, <1>1
<1>4. \A i \in DOMAIN inbox : Dated(inbox[i]) => ~(docs'[d].rev <= inbox[i].colrev)
  BY <1>0, <1>3, LetterTypes DEF StoreInv, RevsKnown
<1>5. /\ ~(docs'[d].rev <= replica.colrev) /\ ~(docs'[d].rev <= loadedRev)
      /\ diskRev # NoRev => ~(docs'[d].rev <= diskRev)
      /\ \A i \in DOMAIN backups : ~(docs'[d].rev <= backups[i].rev)
  BY <1>0, <1>3, RowTypes DEF StoreInv, RevsKnown
<1>6. Parting(d)'
  <2>1. CASE Online
    <3>1. inbox' = Append(inbox, m)
      BY <2>1 DEF Changes, Post
    <3>2. \A i \in DOMAIN inbox : About(inbox[i], d) => inbox[i].data # Null
      BY <1>2 DEF Obituaries, Gone
    <3>3. /\ Ends(clock + 1, Held(d), inbox', d)
          /\ Over(Held(d), inbox', Len(inbox'), d)
      <4>1. PICK copy : copy = Held(d)
        OBVIOUS
      <4>2. PICK rev : rev = clock + 1
        OBVIOUS
      <4>3. /\ rev \in Nat /\ About(m, d)
            /\ \A i \in DOMAIN inbox : Dated(inbox[i]) => ~(rev <= inbox[i].colrev)
        BY <1>0, <1>1, <1>4, <4>2
      <4>4. /\ Ends(rev, copy, Append(inbox, m), d)
            /\ Over(copy, Append(inbox, m), Len(Append(inbox, m)), d)
        BY <1>0, <3>2, <4>3, EndsNow
      <4> QED
        BY <3>1, <4>1, <4>2, <4>4
    <3> QED
      BY <1>1, <3>3 DEF Parting
  <2>2. CASE ~Online
    <3>1. inbox' = <<>> /\ ~Online'
      BY <1>1, <2>2 DEF Changes, Post, Online, StoreInv, Pages
    <3> QED
      BY <3>1, EndsNothing DEF Parting
  <2> QED
    BY <2>1, <2>2
<1>7. Erased(d)' /\ Left(d)'
  BY <1>1, <1>5 DEF Erased, Left, Reached, Cleared
<1> QED
  BY <1>6, <1>7 DEF Buried

LEMMA BuriedHeard ==
    ASSUME StoreInv, OnMessage, NEW d \in Doc, Gone(d), Buried(d)
    PROVE  Buried(d)'
<1> DEFINE m == Head(inbox)
           after == Held(d)'
<1>0. TypeInv /\ Heard(m) /\ m \in Letter
  BY MessageHeard DEF StoreInv, BaseInv, TypeInv
<1>1. /\ docs' = docs /\ page' = page /\ loadedRev' = loadedRev /\ backups' = backups
      /\ database' = database /\ disk' = disk /\ diskRev' = diskRev
      /\ replica'.status = replica.status
      /\ inbox # <<>> /\ inbox' = Tail(inbox)
      /\ replica'.colrev = IF Dated(m) THEN m.colrev ELSE replica.colrev
  BY <1>0 DEF Heard, serverVars, diskVars
<1>2. docs[d].rev \in Nat /\ inbox \in Seq(Letter)
  BY GoneTypes
<1>3. Online /\ page = "open"
  BY <1>1 DEF StoreInv, Pages
<1>4. Follows(Held(d), m, after, d)
  BY <1>0, HeldHeard
<1> HIDE DEF after
<1>5. Ends(docs[d].rev, Held(d), inbox, d) /\ Over(Held(d), inbox, Len(inbox), d)
  BY <1>3 DEF Buried, Parting
<1>6. /\ Ends(docs[d].rev, after, inbox', d) /\ Over(after, inbox', Len(inbox'), d)
      /\ Dated(m) /\ docs[d].rev <= m.colrev => Settled(after, inbox', d)
      /\ Settled(Held(d), inbox, d) => Settled(after, inbox', d)
  BY <1>1, <1>2, <1>4, <1>5, EndsRead
<1>7. Parting(d)' /\ Erased(d)'
  BY <1>1, <1>6 DEF Buried, Parting, Erased, after
<1>8. Reached(d)' => Settled(after, inbox', d)
  BY <1>1, <1>3, <1>6 DEF Buried, Left, Reached
<1>9. Cleared(d)'
  <2>1. \A i \in DOMAIN backups : docs[d].rev <= backups[i].rev => after = Null
    BY <1>1, <1>8 DEF Reached, Settled
  <2> QED
    BY <1>1, <1>3, <2>1 DEF Buried, Left, Cleared, after
<1> QED
  BY <1>7, <1>8, <1>9 DEF Buried, Left, after

\* A backup begins: it erases what the page has not.
LEMMA ClearedBegins ==
    ASSUME StoreTypeOK, NEW rev \in Nat, Backup(backupQueue, rev), Len(backups') <= 1,
           disk' = disk, NEW d \in Doc, docs' = docs, Held(d)' = Held(d),
           page = "open", docs[d].rev <= rev => Held(d) = Null, Cleared(d), Backed(d)
    PROVE  Cleared(d)'
<1> SUFFICES ASSUME NEW i \in DOMAIN backups', docs[d].rev <= backups'[i].rev
             PROVE  Held(d) = Null /\ (d \in backups'[i].todo \/ disk[d] = NoItem)
  BY DEF Cleared
<1>1. CASE i \in DOMAIN backups /\ backups'[i] = backups[i]
  BY <1>1 DEF Cleared
<1>2. CASE /\ backups'[i].rev = rev
           /\ d \in backups'[i].todo
                 \/ (d \notin backupQueue /\ \A j \in DOMAIN backups : d \notin backups[j].todo)
  BY <1>2 DEF Backed
<1> QED
  BY <1>1, <1>2, BackupTakes

LEMMA BuriedSync ==
    ASSUME StoreInv, OnSyncComplete, Len(backups') <= 1,
           NEW d \in Doc, Gone(d), Buried(d), Backed(d)
    PROVE  Buried(d)'
<1> DEFINE m == Head(inbox)
<1>0. TypeInv /\ StoreTypeOK
  BY DEF StoreInv, BaseInv, TypeInv
<1>1. /\ docs' = docs /\ page' = page /\ loadedRev' = loadedRev
      /\ database' = database /\ disk' = disk /\ diskRev' = diskRev
      /\ inbox # <<>> /\ m \in Letter /\ m.kind = "sync_complete" /\ m.colrev \in Nat
      /\ inbox' = Tail(inbox) /\ replica'.status = "ready" /\ replica'.colrev = m.colrev
      /\ Backup(backupQueue, m.colrev) /\ Held(d)' = Held(d)
  BY <1>0, SyncHeard, HeldSync DEF serverVars, diskVars
<1>2. docs[d].rev \in Nat /\ inbox \in Seq(Letter)
  BY GoneTypes
<1>3. Online /\ page = "open" /\ Dated(m) /\ ~About(m, d)
  BY <1>1 DEF StoreInv, Pages, Dated, About
<1>4. Ends(docs[d].rev, Held(d), inbox, d) /\ Over(Held(d), inbox, Len(inbox), d)
  BY <1>3 DEF Buried, Parting
<1>5. /\ Ends(docs[d].rev, Held(d), inbox', d) /\ Over(Held(d), inbox', Len(inbox'), d)
      /\ docs[d].rev <= m.colrev => Settled(Held(d), inbox', d)
      /\ Settled(Held(d), inbox, d) => Settled(Held(d), inbox', d)
  <2>1. Follows(Held(d), m, Held(d), d)
    BY <1>3 DEF Follows
  <2> QED
    BY <1>1, <1>2, <1>3, <1>4, <2>1, EndsRead
<1>6. Parting(d)' /\ Erased(d)'
  BY <1>1, <1>5 DEF Buried, Parting, Erased
<1>7. Reached(d)' => Settled(Held(d), inbox', d)
  <2>1. ASSUME NEW i \in DOMAIN backups', docs[d].rev <= backups'[i].rev
        PROVE  Settled(Held(d), inbox', d)
    BY <1>0, <1>1, <1>3, <1>5, <2>1, BackupReaches DEF Buried, Left, Reached
  <2> QED
    BY <1>1, <1>3, <1>5, <2>1 DEF Buried, Left, Reached
<1>8. Cleared(d)'
  <2>1. Cleared(d) /\ (docs[d].rev <= m.colrev => Held(d) = Null)
    BY <1>3, <1>5 DEF Buried, Left, Settled
  <2> QED
    BY <1>0, <1>1, <1>3, <2>1, ClearedBegins
<1> QED
  BY <1>1, <1>6, <1>7, <1>8 DEF Buried, Left

LEMMA BuriedTimer ==
    ASSUME StoreInv, BackupTimer, Len(backups') <= 1,
           NEW d \in Doc, Gone(d), Buried(d), Backed(d)
    PROVE  Buried(d)'
<1>1. /\ docs' = docs /\ loadedRev' = loadedRev /\ page' = page
      /\ inbox' = inbox /\ replica' = replica /\ database' = database
      /\ disk' = disk /\ diskRev' = diskRev /\ Held(d)' = Held(d)
      /\ page = "open" /\ Backup(backupQueue, replica.colrev)
  BY DEF BackupTimer, serverVars, netVars, diskVars, Held, Remote, Local
<1>2. StoreTypeOK /\ replica.colrev \in Nat
  BY DEF StoreInv, BaseInv, TypeInv, StoreTypeOK, Replica
<1>4. Parting(d)' /\ Erased(d)'
  BY <1>1 DEF Buried, Parting, Erased, Online
<1>5. Reached(d)' => Reached(d)
  BY <1>1, <1>2, BackupReaches DEF Reached
<1>6. (Reached(d) => Settled(Held(d), inbox, d)) /\ Cleared(d)
  BY <1>1 DEF Buried, Left
<1>7. Cleared(d)'
  <2>1. docs[d].rev <= replica.colrev => Held(d) = Null
    BY <1>6 DEF Reached, Settled
  <2> QED
    BY <1>1, <1>2, <1>6, <2>1, ClearedBegins
<1> QED
  BY <1>1, <1>4, <1>5, <1>6, <1>7 DEF Buried, Left

\* The page starts from the store.
LEMMA BuriedOpen ==
    ASSUME StoreInv, Open, NEW d \in Doc, Gone(d), Buried(d)
    PROVE  Buried(d)'
<1>1. /\ docs' = docs /\ inbox' = inbox /\ replica' = replica
      /\ database' = database /\ disk' = disk /\ diskRev' = diskRev
      /\ page' = "loading" /\ Held(d)' = Held(d)
      /\ loadedRev' = IF diskRev = NoRev THEN 0 ELSE diskRev
  BY DEF Open, serverVars, netVars, diskVars, Held, Remote, Local
<1>2. docs[d].rev \in Nat /\ ~(docs[d].rev <= 0)
  BY GoneTypes
<1> QED
  BY <1>1, <1>2 DEF Buried, Parting, Erased, Left, Online

LEMMA BuriedLoad ==
    ASSUME StoreInv, Load, Orderly, NEW d \in Doc, Gone(d), Buried(d)
    PROVE  Buried(d)'
<1>1. /\ docs' = docs /\ inbox' = inbox /\ loadedRev' = loadedRev
      /\ backups' = backups /\ backupQueue' = backupQueue /\ database' = TRUE /\ disk' = disk
      /\ diskRev' = (IF database THEN diskRev ELSE 0)
      /\ page = "loading" /\ page' = "open"
  BY DEF Load, serverVars, netVars, backupVars
<1>2. /\ replica'.status = "disconnected" /\ replica'.colrev = loadedRev
      /\ Held(d)' = Null <=> disk[d] = NoItem
  BY LoadFacts, HeldLoad DEF StoreInv, BaseInv, TypeInv
<1>3. inbox = <<>> /\ backups = <<>>
  BY <1>1 DEF StoreInv, Pages
<1>4. docs[d].rev \in Nat /\ ~(docs[d].rev <= 0)
  BY GoneTypes
<1>5. /\ docs[d].rev <= loadedRev => disk[d] = NoItem
      /\ diskRev' # NoRev /\ docs[d].rev <= diskRev' => disk[d] = NoItem
  BY <1>1, <1>4 DEF Orderly, Buried, Erased
<1>6. Parting(d)'
  BY <1>1, <1>2, <1>3, EndsNothing DEF Parting, Online
<1>7. Erased(d)'
  BY <1>1, <1>5 DEF Erased
<1>8. Left(d)'
  <2>1. Reached(d)' => Held(d)' = Null
    BY <1>1, <1>2, <1>3, <1>5 DEF Reached
  <2>2. Held(d)' = Null => Settled(Held(d)', <<>>, d)
    BY EndsNothing
  <2> QED
    BY <1>1, <1>3, <2>1, <2>2 DEF Left, Cleared
<1> QED
  BY <1>6, <1>7, <1>8 DEF Buried

\* A client is told of the deletion if it asks for what changed after a revision before
\* it; one that asks for all must have nothing.
LEMMA BuriedConnect ==
    ASSUME StoreInv, Connect, NEW d \in Doc, Gone(d), Buried(d),
           replica.colrev = 0 => ~Has(replica, d)
    PROVE  Buried(d)'
<1>1. /\ docs' = docs /\ loadedRev' = loadedRev
      /\ backups' = backups /\ backupQueue' = backupQueue /\ database' = database
      /\ disk' = disk /\ diskRev' = diskRev
      /\ page = "open" /\ page' = "open" /\ inbox' \in SyncAnswers(replica.colrev)
  BY DEF Connect, serverVars, backupVars, diskVars
<1>2. replica'.colrev = replica.colrev /\ Held(d)' = Held(d)
  BY DEF Connect, Held, Remote, Local, StoreInv, BaseInv, TypeInv, StoreTypeOK, Replica
<1>3. /\ StoreTypeOK /\ RowsDated /\ replica.colrev \in Nat /\ replica.colrev <= clock
  BY DEF StoreInv, BaseInv, TypeInv, StoreTypeOK, Replica, RevsKnown
<1>4. replica.colrev = 0 => Held(d) = Null
  BY DEF StoreInv, BaseInv, TypeInv, Blank, Absent, Held, Remote, Local
<1>5. Reached(d) => Held(d) = Null
  BY <1>1 DEF Buried, Left, Settled
<1>6. /\ Ends(docs[d].rev, Held(d), inbox', d) /\ Over(Held(d), inbox', Len(inbox'), d)
      /\ \A i \in DOMAIN inbox' : About(inbox'[i], d) => inbox'[i].data = Null
  BY <1>1, <1>3, <1>4, <1>5, EndsAnswer DEF Reached
<1>7. Reached(d)' => Settled(Held(d), inbox', d)
  BY <1>1, <1>2, <1>5, <1>6 DEF Reached, Settled
<1>8. Cleared(d)'
  BY <1>1, <1>2 DEF Buried, Left, Cleared
<1> QED
  BY <1>1, <1>2, <1>6, <1>7, <1>8 DEF Buried, Parting, Erased, Left

LEMMA BuriedLose ==
    ASSUME StoreInv, Lose, NEW d \in Doc, Gone(d), Buried(d)
    PROVE  Buried(d)'
<1>1. /\ docs' = docs /\ loadedRev' = loadedRev /\ page' = page
      /\ backups' = backups /\ backupQueue' = backupQueue /\ database' = database
      /\ disk' = disk /\ diskRev' = diskRev /\ inbox' = <<>>
  BY DEF Lose, Hangup, backupVars, diskVars
<1>2. replica'.colrev = replica.colrev /\ ~Online' /\ Held(d)' = Held(d)
  BY DEF Lose, Online, Held, Remote, Local, StoreInv, BaseInv, TypeInv, StoreTypeOK, Replica
<1>3. Parting(d)' /\ Erased(d)'
  BY <1>1, <1>2, EndsNothing DEF Buried, Parting, Erased
<1>4. Settled(Held(d), inbox, d) => Settled(Held(d), <<>>, d)
  BY DEF Settled
<1>5. Cleared(d) => Cleared(d)'
  BY <1>1, <1>2 DEF Cleared
<1> QED
  BY <1>1, <1>2, <1>3, <1>4, <1>5 DEF Buried, Left, Reached

LEMMA BuriedCloses ==
    ASSUME Closes, NEW d \in Doc, Buried(d)
    PROVE  Buried(d)'
<1>1. /\ docs' = docs /\ page' = "closed" /\ database' = database
      /\ disk' = disk /\ diskRev' = diskRev /\ inbox' = <<>> /\ replica' = NewReplica
  BY DEF Closes, serverVars
<1>2. ~Online'
  BY <1>1, NewReplicaFacts DEF Online
<1> QED
  BY <1>1, <1>2, EndsNothing DEF Buried, Parting, Erased, Left

\* What a backup writes is no copy, if the page has reached the deletion.
LEMMA BuriedWrite ==
    ASSUME StoreInv, NEW i \in DOMAIN backups, NEW c \in Doc, BackupWrite(i, c),
           NEW d \in Doc, Gone(d), Buried(d)
    PROVE  Buried(d)'
<1>1. /\ docs' = docs /\ loadedRev' = loadedRev /\ page' = page
      /\ inbox' = inbox /\ replica' = replica /\ database' = database
      /\ backupQueue' = backupQueue /\ diskRev' = diskRev
      /\ DOMAIN backups' = DOMAIN backups
      /\ \A j \in DOMAIN backups : backups'[j].rev = backups[j].rev
      /\ \A j \in DOMAIN backups : d # c =>
            (d \in backups'[j].todo <=> d \in backups[j].todo)
  BY WriteFacts DEF StoreInv, BaseInv, TypeInv
<1>2. page = "open"
  <2>1. backups # <<>>
    OBVIOUS
  <2> QED
    BY <2>1 DEF StoreInv, Pages
<1>3. Held(d)' = Held(d)
  BY <1>1, HeldSame
<1>4. Cleared(d) /\ (Reached(d) => Settled(Held(d), inbox, d))
  BY <1>2 DEF Buried, Left
<1>5. Reached(d)' <=> Reached(d)
  BY <1>1 DEF Reached
<1>6. Parting(d)'
  BY <1>1, <1>3 DEF Buried, Parting, Online
<1>7. CASE d = c
  <2>1. Held(d) = Null => disk'[d] = NoItem
    BY <1>7, HeldWrite DEF StoreInv, BaseInv, TypeInv
  <2>2. Cleared(d)'
    BY <1>1, <1>3, <1>4, <2>1 DEF Cleared
  <2>3. Erased(d)'
    BY <1>1, <1>2, <1>4, <2>1 DEF Erased, Reached, Settled
  <2> QED
    BY <1>1, <1>3, <1>4, <1>5, <1>6, <2>2, <2>3 DEF Buried, Left
<1>8. CASE d # c
  <2>1. disk'[d] = disk[d]
    BY <1>8, HeldWrite DEF StoreInv, BaseInv, TypeInv
  <2>2. Cleared(d)'
    BY <1>1, <1>3, <1>4, <1>8, <2>1 DEF Cleared
  <2>3. Erased(d)'
    BY <1>1, <2>1 DEF Buried, Erased
  <2> QED
    BY <1>1, <1>3, <1>4, <1>5, <1>6, <2>2, <2>3 DEF Buried, Left
<1> QED
  BY <1>7, <1>8

LEMMA BuriedEnd ==
    ASSUME StoreInv, NEW i \in DOMAIN backups, BackupEnd(i), NEW d \in Doc, Gone(d), Buried(d)
    PROVE  Buried(d)'
<1>1. /\ docs' = docs /\ loadedRev' = loadedRev /\ page' = page
      /\ inbox' = inbox /\ replica' = replica /\ database' = database
      /\ backupQueue' = backupQueue /\ disk' = disk /\ Held(d)' = Held(d)
      /\ backups[i].todo = {} /\ diskRev' = backups[i].rev
  BY EndFacts, HeldSame DEF StoreInv, BaseInv, TypeInv
<1>2. /\ \A j \in DOMAIN backups' : \E k \in DOMAIN backups : backups'[j] = backups[k]
      /\ \A k \in DOMAIN backups : k # i => \E j \in DOMAIN backups' : backups'[j] = backups[k]
  BY EndFacts DEF StoreInv, BaseInv, TypeInv
<1>3. page = "open"
  <2>1. backups # <<>>
    OBVIOUS
  <2> QED
    BY <2>1 DEF StoreInv, Pages
<1>5. Cleared(d) /\ (Reached(d) => Settled(Held(d), inbox, d))
  BY <1>3 DEF Buried, Left
<1>6. docs[d].rev <= diskRev' => disk[d] = NoItem
  BY <1>1, <1>5 DEF Cleared
<1>7. Parting(d)' /\ Erased(d)'
  BY <1>1, <1>3, <1>6 DEF Buried, Parting, Erased, Online
<1>8. Reached(d)' => Reached(d)
  BY <1>1, <1>2 DEF Reached
<1>9. Cleared(d)'
  <2>1. ASSUME NEW j \in DOMAIN backups', docs[d].rev <= backups'[j].rev
        PROVE  Held(d) = Null /\ (d \in backups'[j].todo \/ disk[d] = NoItem)
    BY <1>2, <1>5, <2>1 DEF Cleared
  <2> QED
    BY <1>1, <2>1 DEF Cleared
<1> QED
  BY <1>1, <1>5, <1>7, <1>8, <1>9 DEF Buried, Left

LEMMA BuriedClear ==
    ASSUME StoreInv, ClearDatabase \/ ClearRevision, NEW d \in Doc, Buried(d)
    PROVE  Buried(d)'
<1>1. /\ docs' = docs /\ loadedRev' = loadedRev /\ page' = page
      /\ inbox' = inbox /\ replica' = replica
      /\ backupQueue' = backupQueue /\ backups' = backups /\ Held(d)' = Held(d)
  BY DEF ClearDatabase, ClearRevision, serverVars, netVars, backupVars, Held, Remote, Local
<1>2. Parting(d)'
  BY <1>1 DEF Buried, Parting, Online
<1>3. CASE ClearDatabase
  <2>1. page # "open" /\ database' = FALSE
    BY <1>3 DEF ClearDatabase, StoreInv, Pages
  <2> QED
    BY <1>1, <1>2, <2>1 DEF Buried, Erased, Left
<1>4. CASE ClearRevision
  <2>1. database' = database /\ disk' = disk /\ diskRev' = NoRev
    BY <1>4 DEF ClearRevision
  <2>2. (Reached(d)' => Reached(d)) /\ Erased(d)'
    BY <1>1, <2>1 DEF Reached, Buried, Erased
  <2>3. Cleared(d) => Cleared(d)'
    BY <1>1, <2>1 DEF Cleared
  <2> QED
    BY <1>1, <1>2, <2>2, <2>3 DEF Buried, Left
<1> QED
  BY <1>3, <1>4

\* What goes from the page is queued for backup, and written.
LEMMA BackedStep ==
    ASSUME BaseInv, Pages, [StoreNext]_storeVars, NEW d \in Doc, Backed(d),
           page = "open" /\ page' = "open" /\ Held(d)' # Held(d) => d \in backupQueue'
    PROVE  Backed(d)'
<1>0. TypeInv /\ StoreTypeOK
  BY DEF BaseInv, TypeInv
<1> DEFINE queued == d \in backupQueue \/ \E i \in DOMAIN backups : d \in backups[i].todo
<1> SUFFICES ASSUME page' = "open", Held(d)' = Null, d \notin backupQueue'
             PROVE  disk'[d] = NoItem \/ \E i \in DOMAIN backups' : d \in backups'[i].todo
  BY DEF Backed
<1>1. page = "open" => Held(d) = Null /\ (disk[d] = NoItem \/ queued)
  BY DEF Backed
<1> HIDE DEF queued
<1>2. CASE page = "open" /\ disk' = disk /\ (queued => queued')
  BY <1>1, <1>2 DEF queued
<1>3. CASE Load
  BY <1>0, <1>3, HeldLoad DEF Load
<1>4. ASSUME NEW i \in DOMAIN backups, NEW c \in Doc, BackupWrite(i, c)
      PROVE  disk'[d] = NoItem \/ \E j \in DOMAIN backups' : d \in backups'[j].todo
  <2>1. page = "open"
    <3>1. backups # <<>>
      OBVIOUS
    <3> QED
      BY <3>1 DEF Pages
  <2>2. CASE c = d
    BY <1>0, <1>1, <1>4, <2>1, <2>2, HeldWrite
  <2>3. CASE c # d
    <3>1. disk'[d] = disk[d]
      BY <1>0, <1>4, <2>3, HeldWrite
    <3>2. queued => queued'
      BY <1>0, <1>4, <2>3, WriteFacts DEF queued
    <3> QED
      BY <1>1, <2>1, <3>1, <3>2 DEF queued
  <2> QED
    BY <2>2, <2>3
<1>5. ASSUME NEW i \in DOMAIN backups, BackupEnd(i)
      PROVE  page = "open" /\ disk' = disk /\ (queued => queued')
  <2>1. /\ backupQueue' = backupQueue /\ disk' = disk /\ backups[i].todo = {} /\ page' = page
        /\ \A k \in DOMAIN backups : k # i => \E j \in DOMAIN backups' : backups'[j] = backups[k]
    BY <1>0, <1>5, EndFacts
  <2> QED
    BY <2>1 DEF queued
<1>6. ASSUME NEW rev \in Nat, Backup(backupQueue, rev)
      PROVE  queued => queued'
  BY <1>0, <1>6, BackupTakes DEF queued
<1>7. CASE BackupTimer
  <2>1. page = "open" /\ disk' = disk /\ Backup(backupQueue, replica.colrev)
        /\ replica.colrev \in Nat
    BY <1>0, <1>7 DEF BackupTimer, diskVars, StoreTypeOK, Replica
  <2> QED
    BY <1>2, <1>6, <2>1
<1>8. CASE OnSyncComplete
  <2>1. page' = page /\ disk' = disk /\ Backup(backupQueue, Head(inbox).colrev)
        /\ Head(inbox).colrev \in Nat
    BY <1>0, <1>8, SyncHeard DEF diskVars
  <2> QED
    BY <1>2, <1>6, <2>1
<1>9. CASE /\ page' = page /\ disk' = disk /\ backups' = backups
           /\ backupQueue \subseteq backupQueue'
  BY <1>2, <1>9 DEF queued
<1>10. ~Closes /\ ~Open /\ ~ClearDatabase
  BY DEF Closes, Open, ClearDatabase, Pages
<1>11. CASE Aside \/ Turned \/ \E c \in Doc, m \in Letter : Changes(c, m)
  BY <1>9, <1>11 DEF Aside, Turned, Changes, diskVars, backupVars
<1>12. CASE OnMessage
  BY <1>0, <1>9, <1>12, MessageHeard DEF Heard, OnMessage, diskVars
<1>13. CASE Connect \/ Lose \/ ClearRevision \/ UNCHANGED storeVars
  BY <1>9, <1>13 DEF Connect, Lose, ClearRevision, diskVars, backupVars, storeVars
<1> QED
  BY <1>0, <1>3, <1>4, <1>2, <1>5, <1>7, <1>8, <1>10, <1>11, <1>12, <1>13, StoreSteps

LEMMA BuriedStep ==
    ASSUME StoreInv, Obituaries, Orderly, Orderly', [StoreNext]_storeVars,
           NEW d \in Doc, Gone(d)', Gone(d) => Buried(d), Backed(d),
           ~Online /\ Online' /\ replica.colrev = 0 => ~Has(replica, d)
    PROVE  Buried(d)'
<1>1. BaseInv' /\ TypeInv /\ StoreTypeOK
  BY BaseStep DEF StoreInv, BaseInv, TypeInv
<1>2. Len(backups') <= 1
  BY DEF Orderly
<1>3. docs' = docs => Gone(d) /\ Buried(d)
  BY DEF Gone, Exists, Live
<1>4. CASE Aside
  <2>1. docs' = docs
    BY <1>4 DEF Aside, serverVars
  <2>2. Held(d) = Null => Held(d)' = Null
    BY <1>3, <1>4, <2>1, HeldAside DEF Gone
  <2> QED
    BY <1>3, <1>4, <2>1, <2>2, BuriedAside DEF Aside, SameCopies, diskVars
<1>5. CASE Turned
  <2>1. docs' = docs
    BY <1>5 DEF Turned, serverVars
  <2>2. inbox' = inbox \/ \E m \in Letter : ~About(m, d) /\ Online /\ inbox' = Append(inbox, m)
    BY <1>5 DEF Turned, Post, About
  <2> QED
    BY <1>3, <1>5, <2>1, <2>2, HeldSame, BuriedAside DEF Turned, backupVars, diskVars
<1>6. ASSUME NEW c \in Doc, NEW m \in Letter, Changes(c, m)
      PROVE  Buried(d)'
  <2>1. CASE c = d
    <3>1. docs'[d].data = m.data
      BY <1>1, <1>6, <2>1 DEF Changes, StoreTypeOK
    <3>2. m.data = Null
      BY <3>1 DEF Gone, Live
    <3> QED
      BY <1>1, <1>6, <2>1, <3>2, BuriedNow
  <2>2. CASE c # d
    <3>1. docs'[d] = docs[d] /\ ~About(m, d)
      BY <1>1, <1>6, <2>2 DEF Changes, StoreTypeOK, About
    <3>2. Gone(d) /\ Buried(d)
      BY <3>1 DEF Gone, Exists, Live
    <3>3. inbox' = inbox \/ (Online /\ inbox' = Append(inbox, m))
      BY <1>6 DEF Changes, Post
    <3> QED
      BY <1>6, <3>1, <3>2, <3>3, HeldSame, BuriedAside DEF Changes, backupVars, diskVars
  <2> QED
    BY <2>1, <2>2
<1>7. CASE OnMessage
  <2>1. docs' = docs
    BY <1>7 DEF OnMessage, serverVars
  <2> QED
    BY <1>3, <1>7, <2>1, BuriedHeard
<1>8. CASE OnSyncComplete
  <2>1. docs' = docs
    BY <1>8 DEF OnSyncComplete, serverVars
  <2> QED
    BY <1>2, <1>3, <1>8, <2>1, BuriedSync
<1>9. CASE BackupTimer
  <2>1. docs' = docs
    BY <1>9 DEF BackupTimer, serverVars
  <2> QED
    BY <1>2, <1>3, <1>9, <2>1, BuriedTimer
<1>10. CASE Open \/ Load \/ Lose
  <2>1. docs' = docs
    BY <1>10 DEF Open, Load, Lose, Hangup, serverVars
  <2> QED
    BY <1>3, <1>10, <2>1, BuriedOpen, BuriedLoad, BuriedLose
<1>11. CASE Connect
  <2>1. docs' = docs /\ ~Online /\ Online'
    BY <1>1, <1>11 DEF Connect, serverVars, Online, StoreTypeOK, Replica
  <2> QED
    BY <1>3, <1>11, <2>1, BuriedConnect
<1>12. CASE Closes
  <2>1. docs' = docs
    BY <1>12 DEF Closes, serverVars
  <2> QED
    BY <1>3, <1>12, <2>1, BuriedCloses
<1>13. CASE ClearDatabase \/ ClearRevision
  <2>1. docs' = docs
    BY <1>13 DEF ClearDatabase, ClearRevision, serverVars
  <2> QED
    BY <1>3, <1>13, <2>1, BuriedClear
<1>14. ASSUME NEW i \in DOMAIN backups, BackupEnd(i) \/ \E c \in Doc : BackupWrite(i, c)
       PROVE  Buried(d)'
  <2>1. docs' = docs
    BY <1>14 DEF BackupEnd, BackupWrite, serverVars
  <2> QED
    BY <1>3, <1>14, <2>1, BuriedEnd, BuriedWrite
<1>15. CASE UNCHANGED storeVars
  BY <1>3, <1>15, HeldSame, BuriedAside
     DEF storeVars, serverVars, netVars, backupVars, diskVars
<1> QED
  BY <1>1, <1>4, <1>5, <1>6, <1>7, <1>8, <1>9, <1>10, <1>11, <1>12, <1>13, <1>14, <1>15,
     StoreSteps

\* Documents that are gone are buried, but for those whose removal was not queued.
Backups == \A d \in Doc \ forgotten : Backed(d)
Graves  == \A d \in Doc \ forgotten : Gone(d) => Buried(d)

GraveInv == MCInv /\ Obituaries /\ (mixed \/ (Backups /\ (cut \/ Graves)))

LEMMA GraveInvInit == MCInit => GraveInv
<1> SUFFICES ASSUME MCInit PROVE GraveInv
  OBVIOUS
<1>1. inbox = <<>> /\ \A d \in Doc : docs[d] \in {NoRow, [rev |-> 1, data |-> {}]}
  BY DEF MCInit, StoreInitWith
<1>2. ASSUME NEW d \in Doc PROVE ~Gone(d)
  <2>1. CASE docs[d] = NoRow
    BY <2>1 DEF NoRow, Gone, Exists
  <2>2. CASE docs[d] = [rev |-> 1, data |-> {}]
    BY <2>2, NullAssumption DEF Gone, Live, Version
  <2> QED
    BY <1>1, <2>1, <2>2
<1>3. page = "closed"
  BY DEF MCInit, StoreInitWith
<1> QED
  BY <1>1, <1>2, <1>3, MCInvInit DEF GraveInv, Obituaries, Graves, Backups, Backed

LEMMA GraveInvStep == GraveInv /\ [MCNext]_MCVars => GraveInv'
<1> SUFFICES ASSUME GraveInv, [MCNext]_MCVars PROVE GraveInv'
  OBVIOUS
<1>1. [StoreNext]_storeVars /\ MCInv'
  BY MCSteps, MCInvStep DEF GraveInv, MCInv, MCNext, MCVars
<1>2. BaseInv /\ BaseInv' /\ Obituaries'
  BY <1>1, ObituariesStep DEF GraveInv, MCInv
<1>3. ASSUME ~mixed' PROVE Backups' /\ (cut' \/ Graves')
  <2>1. ~mixed /\ (~cut' => ~cut)
    <3>1. CASE MCNext
      BY <1>3, <3>1, Zenon DEF MCNext, Remember
    <3>2. CASE UNCHANGED MCVars
      BY <1>3, <3>2 DEF MCVars
    <3> QED
      BY <3>1, <3>2
  <2>2. StoreInv /\ Orderly /\ Orderly' /\ Backups /\ (cut \/ Graves)
    BY <1>1, <1>3, <2>1 DEF GraveInv, MCInv
  <2>3. ASSUME NEW d \in Doc, d \notin forgotten'
        PROVE  /\ d \notin forgotten
               /\ page = "open" /\ page' = "open" /\ Held(d)' # Held(d) => d \in backupQueue'
    <3>1. CASE MCNext
      <4>1. Copy(replica, d) = Copy(replica', d) => Held(d)' = Held(d)
        BY DEF Copy, Held, Remote, Local
      <4>2. forgotten' = forgotten \cup
               {c \in Doc : /\ page = "open" /\ page' = "open"
                            /\ Copy(replica, c) # Copy(replica', c) /\ c \notin backupQueue'}
        BY <1>3, <3>1 DEF MCNext, Remember
      <4> QED
        BY <2>3, <4>1, <4>2
    <3>2. CASE UNCHANGED MCVars
      BY <2>3, <3>2 DEF MCVars, storeVars, Held, Remote, Local
    <3> QED
      BY <3>1, <3>2
  <2>4. Backups'
    BY <1>1, <1>2, <2>2, <2>3, BackedStep DEF Backups, StoreInv
  <2>5. ASSUME ~cut', NEW d \in Doc
        PROVE  ~Online /\ Online' /\ replica.colrev = 0 => ~Has(replica, d)
    <3>1. CASE MCNext
      <4>1. ~(~Online /\ Online' /\ replica.colrev = 0 /\ \E c \in Doc : Has(replica, c))
        BY <1>3, <2>5, <3>1, Zenon DEF MCNext, Remember
      <4> QED
        BY <4>1
    <3>2. CASE UNCHANGED MCVars
      BY <3>2 DEF MCVars, storeVars, Online
    <3> QED
      BY <3>1, <3>2
  <2>6. ASSUME ~cut', NEW d \in Doc, d \notin forgotten', Gone(d)' PROVE Buried(d)'
    <3>1. Backed(d) /\ (Gone(d) => Buried(d))
      BY <2>1, <2>2, <2>3, <2>6 DEF Backups, Graves
    <3> QED
      BY <1>1, <2>2, <2>5, <2>6, <3>1, BuriedStep DEF GraveInv
  <2> QED
    BY <2>4, <2>6 DEF Graves
<1> QED
  BY <1>1, <1>2, <1>3 DEF GraveInv

\* No client has a document that was deleted up to its revision, across restarts and
\* lost connections: if its removal was queued for backup, backups did not overlap, no
\* revision outlived its documents, and no client that has documents asked for all there
\* are (handleDelete(), startSync() and backup() in packages/client/src/collection.ts).
THEOREM NoRevenantsUnlessUnsaved == MCSpec => []NoRevenantsIfSaved
<1>1. GraveInv => NoRevenantsIfSaved
  <2> SUFFICES ASSUME GraveInv, ~mixed, ~cut, NEW d \in Doc \ forgotten, page = "open",
                      Exists(d), ~Live(d), docs[d].rev <= replica.colrev
               PROVE  replica.items[d].remote = Null
    BY DEF NoRevenantsIfSaved, NoRevenant
  <2>1. Buried(d)
    BY DEF GraveInv, Graves, Gone
  <2>2. Held(d) = Null
    BY <2>1 DEF Buried, Left, Reached, Settled
  <2> QED
    BY <2>2 DEF Held, Remote
<1> QED
  BY <1>1, GraveInvInit, GraveInvStep, PTL DEF MCSpec

-----------------------------------------------------------------------------
(* What the items are like *)

\* The user's copy has what the server's has.
Nested(item) ==
    item.remote # Null /\ item.local # Null => item.remote \subseteq item.local

\* An item has a copy, and two that are the same if it is synced.
Shaped(item) ==
    /\ Nested(item)
    /\ item.state # "absent" => item.remote # Null \/ item.local # Null
    /\ item.state = "synced" => item.remote # Null /\ item.local = item.remote

\* A flush is due only to a client that is ready.
Whole(k) == (\A d \in Doc : Shaped(k.items[d])) /\ (k.flushTimer => k.status = "ready")

Shapes == Whole(replica) /\ \A d \in Doc : Nested(disk[d])

LEMMA AbsentShaped == Shaped(Absent)
BY DEF Shaped, Nested, Absent

LEMMA NewWhole == Whole(NewReplica)
<1>1. NewReplica.flushTimer = FALSE
  BY DEF NewReplica
<1> QED
  BY <1>1, NewReplicaFacts, AbsentShaped DEF Whole

LEMMA FlushWhole ==
    ASSUME NEW k \in Replica, \A d \in Doc : Shaped(k.items[d]), FlushFrom(k)
    PROVE  Whole(replica')
<1> DEFINE j == [k EXCEPT !.flushTimer = FALSE]
<1>1. j \in Replica /\ j.items = k.items /\ j.flushTimer = FALSE
  BY DEF Replica
<1>2. replica' = Flush(j)
  BY DEF FlushFrom
<1> HIDE DEF j
<1>3. /\ replica'.flushTimer = FALSE
      /\ \A d \in Doc : replica'.items[d] = IF d \in ToFlush(j)
                                            THEN [k.items[d] EXCEPT !.state = "sent"]
                                            ELSE k.items[d]
  BY <1>1, <1>2, FlushLeaves
<1>4. ASSUME NEW d \in ToFlush(j) PROVE d \in Doc /\ Shaped([k.items[d] EXCEPT !.state = "sent"])
  <2>1. d \in Doc /\ k.items[d].state # "absent"
    BY <1>1 DEF ToFlush, Has, Replica
  <2>2. k.items[d] \in Item /\ Shaped(k.items[d])
    BY <2>1, ItemTypes
  <2> QED
    BY <2>1, <2>2 DEF Shaped, Nested, Item
<1> QED
  BY <1>3, <1>4 DEF Whole

LEMMA FlushNowWhole ==
    ASSUME NEW k \in Replica, Whole(k), FlushNow(k)
    PROVE  Whole(replica')
BY FlushWhole DEF FlushNow, Whole

\* l is k but for an item that is shaped.
LEMMA AlterWhole ==
    ASSUME NEW k, NEW l, NEW d \in Doc, Whole(k), Alters(k, l, d), Shaped(l.items[d]),
           l.flushTimer = k.flushTimer
    PROVE  Whole(l)
BY DEF Whole, Alters

LEMMA HandledWhole ==
    ASSUME NEW k \in Replica, Blank(k), Whole(k), NEW m, Proper(m),
           m.kind \in {"doc", "change", "change_error"}
    PROVE  Whole(HandleMessage(k, m))
<1> DEFINE l == HandleMessage(k, m)
           i == k.items[m.id]
           j == l.items[m.id]
<1>1. m.id \in Doc /\ Shaped(i)
  BY ProperTypes DEF Whole
<1>2. /\ l \in Replica /\ l.status = k.status /\ l.stopped = k.stopped
      /\ \A e \in Doc : e # m.id => l.items[e] = k.items[e]
  BY MessageFacts
<1>3. QueuesAs(k, l, m.id) /\ Handled(k, l, m)
  BY HandledFacts
<1> HIDE DEF l
<1>4. Shaped(j)
  <2>1. CASE j = Absent
    BY <2>1, AbsentShaped
  <2>2. CASE j = i
    BY <1>1, <2>2
  <2>3. CASE j.state = "synced" /\ j.remote # Null /\ j.local = j.remote
    BY <2>3 DEF Shaped, Nested
  <2>4. ASSUME m.data \in Version, NEW remote \in Version,
               \/ remote = m.data
               \/ i.remote # Null /\ remote = i.remote \cup m.data,
               Settles(l, m.id, remote, IF i.local = Null THEN Null ELSE i.local \cup m.data)
        PROVE  Shaped(j)
    <3> DEFINE local == IF i.local = Null THEN Null ELSE i.local \cup m.data
    <3>1. remote # Null
      BY NullAssumption DEF Version
    <3>2. local # Null => remote \subseteq local
      BY <1>1, <2>4 DEF Shaped, Nested
    <3> QED
      BY <2>4, <3>1, <3>2 DEF Settles, Shaped, Nested
  <2> QED
    BY <1>3, <2>1, <2>2, <2>3, <2>4 DEF Handled
<1>5. Whole(l)
  BY <1>1, <1>2, <1>3, <1>4, AlterWhole DEF Alters, QueuesAs
<1> QED
  BY <1>5 DEF l

LEMMA EditWhole ==
    ASSUME TypeInv, Whole(replica), NEW d \in Doc, NEW e \in Edit,
           UserCreate(d, e) \/ UserChange(d, e)
    PROVE  Whole(replica')
<1>0. replica \in Replica /\ Blank(replica) /\ Shaped(replica.items[d])
      /\ replica.items[d] \in Item
  BY ItemTypes DEF TypeInv, StoreTypeOK, Whole
<1>1. CASE UserCreate(d, e)
  <2> DEFINE k == Create(replica, d, {e})
  <2>1. {e} \in Version /\ {e} # Null
    BY NullAssumption DEF Version
  <2>2. /\ Alters(replica, k, d)
        /\ k.items[d] = [remote |-> Null, local |-> {e}, state |-> "changed"]
    BY <1>0, <2>1, CreateFacts
  <2>3. k.flushTimer = replica.flushTimer
    BY <1>0 DEF Create, Queue, Put, Replica
  <2>4. FlushNow(k)
    BY <1>1 DEF UserCreate
  <2> HIDE DEF k
  <2>5. Whole(k) /\ k \in Replica
    BY <2>1, <2>2, <2>3, AlterWhole DEF Shaped, Nested, Alters
  <2> QED
    BY <2>4, <2>5, FlushNowWhole
<1>2. CASE UserChange(d, e)
  <2> DEFINE k == Edited(replica, d, e)
  <2>1. CanEdit(replica, d)
    BY <1>2 DEF UserChange
  <2>2. /\ Alters(replica, k, d) /\ k.items[d].remote = Remote(d)
        /\ k.items[d].local = Local(d) \cup {e} /\ k.items[d].state = "changed"
    BY <1>0, <2>1, EditedFacts DEF Remote, Local
  <2>3. k.flushTimer = replica.flushTimer
    BY <1>0 DEF Edited, Queue, Put, Replica
  <2>4. replica' = [k EXCEPT !.flushTimer = @ \/ k.status = "ready"]
    BY <1>2 DEF UserChange
  <2> HIDE DEF k
  <2>5. Local(d) # Null /\ Local(d) \cup {e} # Null
    BY <1>0, <2>1, ItemTypes, NullAssumption DEF CanEdit, Local, Version
  <2>6. Shaped(k.items[d])
    BY <1>0, <2>2, <2>5 DEF Shaped, Nested, Remote, Local
  <2>7. Whole(k) /\ k \in Replica
    BY <2>2, <2>3, <2>6, AlterWhole DEF Alters
  <2>8. /\ replica'.items = k.items /\ replica'.status = k.status
        /\ replica'.flushTimer = (k.flushTimer \/ k.status = "ready")
    BY <2>4, <2>7 DEF Replica
  <2> QED
    BY <2>7, <2>8 DEF Whole
<1> QED
  BY <1>1, <1>2

LEMMA RemoveWhole ==
    ASSUME TypeInv, Whole(replica), NEW d \in Doc, UserDelete(d)
    PROVE  Whole(replica')
<1>0. replica \in Replica /\ Blank(replica) /\ Shaped(replica.items[d])
      /\ replica.items[d] \in Item
  BY ItemTypes DEF TypeInv, StoreTypeOK, Whole
<1> DEFINE k == Delete(replica, d)
<1>1. /\ Alters(replica, k, d)
      /\ k.items[d].remote = Remote(d) /\ k.items[d].local = Null
      /\ Remote(d) = Null => k.items[d] = Absent
  BY <1>0, RemovedFacts DEF Remote
<1>2. k.flushTimer = replica.flushTimer
  BY <1>0 DEF Delete, Queue, Put, Replica
<1>3. Remote(d) # Null => k.items[d].state = "changed"
  BY <1>0 DEF Delete, Queue, Put, Replica, Item, Remote
<1>4. FlushNow(k) \/ replica' = k
  BY DEF UserDelete
<1> HIDE DEF k
<1>5. Shaped(k.items[d])
  BY <1>1, <1>3, AbsentShaped DEF Shaped, Nested
<1>6. Whole(k) /\ k \in Replica
  BY <1>1, <1>2, <1>5, AlterWhole DEF Alters
<1> QED
  BY <1>4, <1>6, FlushNowWhole

LEMMA LoadWhole ==
    ASSUME StoreTypeOK, Load, \A d \in Doc : Nested(disk[d])
    PROVE  Whole(replica')
<1> DEFINE items == [d \in Doc |-> Loaded(disk[d])]
<1>1. replica'.items = items /\ replica'.flushTimer = FALSE
  BY DEF Load, NewReplica
<1>2. ASSUME NEW d \in Doc PROVE Shaped(Loaded(disk[d]))
  <2>1. disk[d] \in [remote: Data, local: Data]
    BY DEF StoreTypeOK
  <2>2. CASE disk[d] = NoItem
    BY <2>2, AbsentShaped DEF Loaded
  <2>3. CASE disk[d] # NoItem
    <3>1. disk[d].remote # Null \/ disk[d].local # Null
      BY <2>1, <2>3 DEF NoItem
    <3>2. /\ Loaded(disk[d]).remote = disk[d].remote
          /\ Loaded(disk[d]).local = disk[d].local
          /\ Loaded(disk[d]).state = "synced" => ~Changed(disk[d])
      BY <2>3 DEF Loaded
    <3> QED
      BY <3>1, <3>2 DEF Shaped, Nested, Changed, HasChanges
  <2> QED
    BY <2>2, <2>3
<1> QED
  BY <1>1, <1>2 DEF Whole

LEMMA ShapesStep ==
    ASSUME TypeInv, Shapes, [StoreNext]_storeVars
    PROVE  Shapes'
<1>0. StoreTypeOK /\ replica \in Replica /\ Blank(replica) /\ Whole(replica)
  BY DEF TypeInv, StoreTypeOK, Shapes
<1>1. \A d \in Doc : Nested(disk'[d])
  <2>1. ASSUME NEW i \in DOMAIN backups, NEW c \in Doc, BackupWrite(i, c), NEW d \in Doc
        PROVE  Nested(disk'[d])
    <3>1. disk'[d] = disk[d] \/ disk'[d] = [remote |-> Remote(d), local |-> Local(d)]
      BY <1>0, <2>1 DEF BackupWrite, StoreTypeOK, Remote, Local
    <3>2. Shaped(replica.items[d]) /\ Nested(disk[d])
      BY <1>0 DEF Shapes, Whole
    <3> QED
      BY <3>1, <3>2 DEF Shaped, Nested, Remote, Local
  <2>2. CASE ClearDatabase
    BY <2>2 DEF ClearDatabase, NoItem, Nested
  <2>3. \/ disk' = disk \/ ClearDatabase
        \/ \E i \in DOMAIN backups : \E c \in Doc : BackupWrite(i, c)
    BY StoreSteps, MessageHeard, SyncHeard
       DEF Aside, Turned, Closes, Changes, Heard, Open, Load, Connect, Lose, BackupTimer,
           ClearRevision, BackupEnd, diskVars, storeVars
  <2> QED
    BY <2>1, <2>2, <2>3 DEF Shapes
<1> SUFFICES Whole(replica')
  BY <1>1 DEF Shapes
<1>2. CASE FlushTimer
  BY <1>0, <1>2, FlushWhole DEF FlushTimer, Whole
<1>3. CASE OnSyncComplete
  <2> DEFINE k == [replica EXCEPT !.colrev = Head(inbox).colrev, !.status = "ready"]
  <2>1. FlushFrom(k) /\ Head(inbox).colrev \in Nat
    BY <1>3, SyncHeard DEF OnSyncComplete
  <2>2. k \in Replica /\ k.items = replica.items
    BY <1>0, <2>1 DEF Replica
  <2> QED
    BY <1>0, <2>1, <2>2, FlushWhole DEF Whole
<1>4. CASE OnMessage
  <2>1. /\ Proper(Head(inbox)) /\ Head(inbox).kind \in {"doc", "change", "change_error"}
        /\ replica' = HandleMessage(replica, Head(inbox))
    BY <1>4 DEF OnMessage, TypeInv, Letter
  <2> QED
    BY <1>0, <2>1, HandledWhole
<1>5. ASSUME NEW d \in Doc, NEW e \in Edit, UserCreate(d, e) \/ UserChange(d, e)
      PROVE  Whole(replica')
  BY <1>0, <1>5, EditWhole
<1>6. ASSUME NEW d \in Doc, UserDelete(d) PROVE Whole(replica')
  BY <1>0, <1>6, RemoveWhole
<1>7. CASE Load
  BY <1>0, <1>7, LoadWhole DEF Shapes
<1>8. CASE Connect
  <2>1. replica.flushTimer = FALSE
    BY <1>0, <1>8 DEF Connect, Whole, Replica
  <2>2. replica'.items = replica.items /\ replica'.flushTimer = FALSE
    BY <1>0, <1>8, <2>1 DEF Connect, Replica
  <2> QED
    BY <1>0, <2>2 DEF Whole
<1>9. CASE Lose
  <2>1. replica'.items = replica.items /\ replica'.flushTimer = FALSE
    BY <1>0, <1>9 DEF Lose, Replica
  <2> QED
    BY <1>0, <2>1 DEF Whole
<1>10. CASE Close \/ Logout \/ OnSyncError
  BY <1>0, <1>10, CloseCloses, NewWhole DEF Closes
<1>11. CASE BackupStep \/ ClearStep \/ ServerStep \/ ServerRefuse("forbidden") \/ Open
            \/ UNCHANGED storeVars
  <2>1. replica' = replica
    BY <1>11 DEF BackupStep, BackupTimer, BackupEnd, BackupWrite, ClearStep, ClearDatabase,
                 ClearRevision, ServerStep, ServerAccept, ServerRefuse, ServerIgnore, Open,
                 storeVars
  <2> QED
    BY <1>0, <2>1
<1>12. ASSUME NEW op, NEW c \in Doc, NEW data, OthersChange(op, c, data)
       PROVE  Whole(replica')
  BY <1>0, <1>12 DEF OthersChange
<1> QED
  BY <1>2, <1>3, <1>4, <1>5, <1>6, <1>7, <1>8, <1>9, <1>10, <1>11, <1>12
     DEF StoreNext, PageStep

-----------------------------------------------------------------------------
(* What is in hand *)

LEMMA TailRange ==
    ASSUME NEW S, NEW s \in Seq(S), s # <<>>
    PROVE  Range(s) = {Head(s)} \cup Range(Tail(s))
<1>1. /\ DOMAIN s = 1..Len(s) /\ Len(s) \in Nat /\ Head(s) = s[1] /\ 1 \in DOMAIN s
      /\ Tail(s) \in Seq(S) /\ Len(Tail(s)) = Len(s) - 1
      /\ \A i \in 1..(Len(s) - 1) : Tail(s)[i] = s[i + 1]
  OBVIOUS
<1>2. DOMAIN Tail(s) = 1..(Len(s) - 1)
  BY <1>1
<1>3. ASSUME NEW i \in DOMAIN s PROVE s[i] = Head(s) \/ \E j \in DOMAIN Tail(s) : Tail(s)[j] = s[i]
  <2>1. CASE i = 1
    BY <1>1, <2>1
  <2>2. CASE i # 1
    <3>1. i - 1 \in 1..(Len(s) - 1) /\ (i - 1) + 1 = i
      BY <1>1, <2>2
    <3> QED
      BY <1>1, <1>2, <3>1
  <2> QED
    BY <2>1, <2>2
<1>4. ASSUME NEW j \in DOMAIN Tail(s) PROVE Tail(s)[j] \in Range(s)
  <2>1. j + 1 \in DOMAIN s /\ Tail(s)[j] = s[j + 1]
    BY <1>1, <1>2
  <2> QED
    BY <2>1 DEF Range
<1> QED
  BY <1>1, <1>3, <1>4 DEF Range

LEMMA AppendRange ==
    ASSUME NEW S, NEW s \in Seq(S), NEW x
    PROVE  Range(Append(s, x)) = Range(s) \cup {x}
<1> DEFINE t == Append(s, x)
           n == Len(s)
<1>1. n \in Nat /\ DOMAIN s = 1..n
  OBVIOUS
<1>2. s \in Seq(S \cup {x}) /\ x \in S \cup {x}
  OBVIOUS
<1>3. DOMAIN t = 1..(n + 1) /\ t[n + 1] = x /\ \A i \in 1..n : t[i] = s[i]
  BY <1>2
<1> HIDE DEF t
<1>4. \A i \in 1..(n + 1) : i = n + 1 \/ i \in 1..n
  BY <1>1
<1>5. n + 1 \in 1..(n + 1) /\ \A i \in 1..n : i \in 1..(n + 1)
  BY <1>1
<1>6. Range(t) = Range(s) \cup {x}
  BY <1>1, <1>3, <1>4, <1>5 DEF Range
<1> QED
  BY <1>6 DEF t

\* A request for op on document d is on its way to the server; or for edit e of it.
Sending(op, d) ==
    \E m \in Range(outbox) : m.kind = "change" /\ m.op = op /\ m.id = d

Bears(d, e) ==
    \E m \in Range(outbox) : m.kind = "change" /\ m.op = "*" /\ m.id = d /\ e \in m.data

\* Word of document d is on its way to the page; or that a change of it is refused.
Told(d) == \E m \in Range(inbox) : About(m, d)

Denied(d) ==
    \E m \in Range(inbox) : m.kind = "change_error" /\ m.id = d /\ m.code = "forbidden"

\* A document that the server has not acknowledged was sent: it is still to be read,
\* or is there.
New(d) ==
    Has(replica, d) /\ Remote(d) = Null =>
        /\ replica.items[d].state = "sent"
        /\ \/ Denied(d)
           \/ ~Exists(d) /\ Sending("+", d)
           \/ Live(d) /\ Local(d) \subseteq docs[d].data

\* What the user did to the server's copy was sent: the deletion; or each edit, and
\* then there is an answer to come.
Asked(d) ==
    IF Local(d) = Null THEN Sending("-", d)
    ELSE /\ \A e \in Local(d) \ Remote(d) : Bears(d, e) \/ (Live(d) /\ e \in docs[d].data)
         /\ replica.items[d].state # "synced" => Sending("*", d) \/ Told(d)

Due(d) == Remote(d) # Null => Late(replica, d) \/ Denied(d) \/ Asked(d)

Fits(d) == New(d) /\ Due(d)

\* What the sync will send.
Waiting(d) ==
    Has(replica, d) /\ replica.items[d].state # "synced" => d \in replica.flushQueue

\* The sync brings what the page lacks, before it is complete.
Comes(d) ==
    Live(d) /\ Remote(d) = Null =>
        \E i \in DOMAIN inbox : About(inbox[i], d)
                                /\ \A j \in 1..i : inbox[j].kind # "sync_complete"

Creation(m) == m.kind = "change" /\ m.op = "+"

\* A creation on its way is of a document as the page has it, or there is one already.
Announced ==
    \A m \in Range(outbox) : Creation(m) =>
        Exists(m.id) \/ (Creating(replica, m.id) /\ m.data = Local(m.id))

InHand ==
    /\ replica.status # "ready" => \A d \in Doc : Waiting(d)
    /\ replica.status = "connected" =>
          /\ \A m \in Range(outbox) : ~Creation(m)
          /\ \A d \in Doc : Comes(d)
    /\ replica.status = "ready" => Announced /\ \A d \in Doc : ~Gone(d) => Fits(d)

-----------------------------------------------------------------------------
(* What becomes of it *)

\* A message about document d.
Concerns(m, d) == m.kind \in {"doc", "change", "change_error"} /\ m.id = d

LEMMA FitStays ==
    ASSUME NEW d \in Doc, replica'.items[d] = replica.items[d], docs'[d] = docs[d],
           Late(replica, d) => Late(replica', d),
           \A m \in Range(outbox) : m.kind = "change" /\ m.id = d => m \in Range(outbox'),
           \A m \in Range(inbox) : Concerns(m, d) => m \in Range(inbox'),
           Fits(d)
    PROVE  Fits(d)'
<1>1. /\ Remote(d)' = Remote(d) /\ Local(d)' = Local(d) /\ Has(replica', d) = Has(replica, d)
      /\ Exists(d)' = Exists(d) /\ Live(d)' = Live(d)
  BY DEF Remote, Local, Has, Exists, Live
<1>2. /\ \A op : Sending(op, d) => Sending(op, d)'
      /\ \A e : Bears(d, e) => Bears(d, e)'
  BY DEF Sending, Bears
<1>3. (Told(d) => Told(d)') /\ (Denied(d) => Denied(d)')
  BY DEF Told, Denied, Concerns, About
<1>4. New(d)'
  BY <1>1, <1>2, <1>3 DEF Fits, New
<1>5. Asked(d) => Asked(d)'
  BY <1>1, <1>2, <1>3 DEF Asked
<1>6. Due(d)'
  BY <1>1, <1>3, <1>5 DEF Fits, Due
<1> QED
  BY <1>4, <1>6 DEF Fits

\* What a flush sends: of each queued document, what there is to send.
LEMMA FlushDone ==
    ASSUME StoreTypeOK, NEW k \in Replica, FlushFrom(k)
    PROVE  /\ replica'.status = k.status /\ replica'.flushQueue = {}
           /\ Range(outbox) \subseteq Range(outbox')
           /\ \A m \in Range(outbox') : m \in Range(outbox) \/
                 \E d \in ToFlush(k) : d \in Doc /\ m = FlushMessage(d, k.items[d])
           /\ \A d \in Doc :
                 /\ replica'.items[d].remote = k.items[d].remote
                 /\ replica'.items[d].local = k.items[d].local
                 /\ d \notin ToFlush(k) => replica'.items[d] = k.items[d]
                 /\ d \in ToFlush(k) => /\ replica'.items[d].state = "sent"
                                        /\ FlushMessage(d, k.items[d]) \in Range(outbox')
<1> DEFINE j == [k EXCEPT !.flushTimer = FALSE]
<1>1. /\ j \in Replica /\ j.items = k.items /\ j.status = k.status
      /\ ToFlush(j) = ToFlush(k)
  BY DEF Replica, ToFlush, Has
<1>2. PICK order \in SetToSeqs(ToFlush(k)) :
         /\ replica' = Flush(j)
         /\ outbox' = outbox \o [i \in DOMAIN order |-> FlushMessage(order[i], k.items[order[i]])]
  BY DEF FlushFrom
<1> DEFINE msgs == [i \in DOMAIN order |-> FlushMessage(order[i], k.items[order[i]])]
<1> HIDE DEF j
<1>3. /\ msgs \in Seq(ClientMessage)
      /\ \A m \in Range(msgs) : \E d \in ToFlush(k) : m = FlushMessage(d, k.items[d])
      /\ \A d \in ToFlush(k) : FlushMessage(d, k.items[d]) \in Range(msgs)
  BY StoreAssumption, FlushMessages, FlushSends
<1> HIDE DEF msgs
<1>4. Range(outbox') = Range(outbox) \cup Range(msgs)
  <2>1. outbox' = outbox \o msgs /\ outbox \in Seq(ClientMessage)
    BY <1>2 DEF StoreTypeOK, msgs
  <2> QED
    BY <1>3, <2>1, RangeConcatenation
<1>5. /\ replica'.flushQueue = {} /\ replica'.status = k.status
      /\ \A d \in Doc : replica'.items[d] = IF d \in ToFlush(k)
                                            THEN [k.items[d] EXCEPT !.state = "sent"]
                                            ELSE k.items[d]
  BY <1>1, <1>2, FlushLeaves
<1>6. \A d \in Doc : LET i == [k.items[d] EXCEPT !.state = "sent"] IN
         i.remote = k.items[d].remote /\ i.local = k.items[d].local /\ i.state = "sent"
  BY ItemTypes DEF Item
<1>7. ToFlush(k) \subseteq Doc
  BY DEF ToFlush, Replica
<1> QED
  BY <1>3, <1>4, <1>5, <1>6, <1>7

LEMMA FlushKinds ==
    ASSUME NEW d \in Doc, NEW i
    PROVE  LET m == FlushMessage(d, i) IN
           /\ Creation(m) => i.remote = Null /\ m.id = d /\ m.data = i.local
           /\ i.local # Null /\ i.remote = Null => m.kind = "change" /\ m.op = "+" /\ m.id = d
           /\ i.local = Null /\ i.remote # Null => m.kind = "change" /\ m.op = "-" /\ m.id = d
           /\ i.local # Null /\ i.remote # Null =>
                 /\ m.kind = "change" /\ m.op = "*" /\ m.id = d
                 /\ m.data = i.local \ i.remote
BY DEF FlushMessage, Change, UpdateSince, Creation

\* Once what is queued has been sent, document d is in hand.
LEMMA FlushFits ==
    ASSUME StoreTypeOK, NEW k \in Replica, Blank(k), FlushFrom(k), NEW d \in Doc,
           Shaped(k.items[d]), docs' = docs,
           \A m \in Range(inbox) : Concerns(m, d) => m \in Range(inbox'),
           \/ d \in ToFlush(k) /\ (k.items[d].remote = Null => ~Exists(d))
           \/ /\ k.items[d] = replica.items[d] /\ New(d)
              /\ d \in ToFlush(k) \/ Remote(d) = Null \/ Denied(d) \/ Asked(d)
    PROVE  Fits(d)'
<1>1. /\ \A m \in Range(outbox) : m \in Range(outbox')
      /\ Remote(d)' = k.items[d].remote /\ Local(d)' = k.items[d].local
      /\ d \notin ToFlush(k) => replica'.items[d] = k.items[d]
      /\ d \in ToFlush(k) => /\ replica'.items[d].state = "sent"
                             /\ FlushMessage(d, k.items[d]) \in Range(outbox')
  BY FlushDone DEF Remote, Local
<1>2. /\ Exists(d)' = Exists(d) /\ Live(d)' = Live(d) /\ docs'[d].data = docs[d].data
  BY DEF Exists, Live
<1>3. /\ \A op : Sending(op, d) => Sending(op, d)'
      /\ \A e : Bears(d, e) => Bears(d, e)'
      /\ (Told(d) => Told(d)') /\ (Denied(d) => Denied(d)')
  BY <1>1 DEF Sending, Bears, Told, Denied, Concerns, About
<1>4. CASE d \in ToFlush(k)
  <2>1. Has(k, d) /\ (k.items[d].local # Null \/ k.items[d].remote # Null)
    BY <1>4 DEF ToFlush, Has, Shaped
  <2>2. Remote(d)' = Null => Sending("+", d)'
    BY <1>1, <1>4, <2>1, FlushKinds DEF Sending
  <2>3. New(d)'
    <3>1. CASE k.items[d].remote = Null => ~Exists(d)
      BY <1>1, <1>2, <1>4, <2>2, <3>1 DEF New
    <3>2. CASE k.items[d] = replica.items[d] /\ New(d)
      <4>1. Has(replica, d) /\ Remote(d)' = Remote(d) /\ Local(d)' = Local(d)
        BY <1>1, <2>1, <3>2 DEF Has, Remote, Local
      <4> QED
        BY <1>1, <1>2, <1>3, <1>4, <3>2, <4>1 DEF New
    <3> QED
      BY <3>1, <3>2
  <2>4. Remote(d)' # Null => Asked(d)'
    <3>0. PICK m \in Range(outbox') : m = FlushMessage(d, k.items[d])
      BY <1>1, <1>4
    <3>1. LET i == k.items[d] IN
          /\ i.local = Null /\ i.remote # Null => m.kind = "change" /\ m.op = "-" /\ m.id = d
          /\ i.local # Null /\ i.remote # Null =>
                m.kind = "change" /\ m.op = "*" /\ m.id = d /\ m.data = i.local \ i.remote
      BY <3>0, FlushKinds
    <3>2. /\ Remote(d)' # Null /\ Local(d)' = Null => Sending("-", d)'
          /\ Remote(d)' # Null /\ Local(d)' # Null =>
                m.kind = "change" /\ m.op = "*" /\ m.id = d /\ m.data = Local(d)' \ Remote(d)'
      BY <1>1, <3>1 DEF Sending
    <3>3. Remote(d)' # Null /\ Local(d)' # Null =>
             Sending("*", d)' /\ \A e \in Local(d)' \ Remote(d)' : Bears(d, e)'
      BY <3>2 DEF Sending, Bears
    <3> QED
      BY <3>2, <3>3 DEF Asked
  <2> QED
    BY <2>3, <2>4 DEF Fits, Due
<1>5. CASE d \notin ToFlush(k)
  <2>1. /\ replica'.items[d] = replica.items[d] /\ New(d)
        /\ Remote(d) = Null \/ Denied(d) \/ Asked(d)
    BY <1>1, <1>5
  <2>2. Remote(d)' = Remote(d) /\ Local(d)' = Local(d) /\ Has(replica', d) = Has(replica, d)
    BY <2>1 DEF Remote, Local, Has
  <2>3. New(d)'
    BY <1>2, <1>3, <2>1, <2>2 DEF New
  <2>4. Asked(d) => Asked(d)'
    BY <1>2, <1>3, <2>1, <2>2 DEF Asked
  <2> QED
    BY <1>3, <2>1, <2>2, <2>3, <2>4 DEF Fits, Due
<1> QED
  BY <1>4, <1>5

\* The same, of a document that was in hand.
LEMMA FlushKeepsFit ==
    ASSUME StoreTypeOK, NEW k \in Replica, Blank(k), FlushFrom(k), NEW d \in Doc,
           Shaped(k.items[d]), docs' = docs,
           \A m \in Range(inbox) : Concerns(m, d) => m \in Range(inbox'),
           k.items[d] = replica.items[d],
           d \in replica.flushQueue => d \in k.flushQueue, Fits(d)
    PROVE  Fits(d)'
<1>1. Remote(d) # Null => Has(k, d)
  BY DEF Blank, Remote, Absent
<1>2. d \in ToFlush(k) \/ Remote(d) = Null \/ Denied(d) \/ Asked(d)
  BY <1>1 DEF Fits, Due, Late, ToFlush
<1> QED
  BY <1>2, FlushFits DEF Fits

\* What the page has of a live document grows with a message about it.
LEMMA HeardGrows ==
    ASSUME StoreInv, OnMessage, NEW d \in Doc, Live(d), About(Head(inbox), d)
    PROVE  Remote(d)' # Null /\ (Remote(d) # Null => Remote(d) \subseteq Remote(d)')
<1>1. Heard(Head(inbox)) /\ inbox \in Seq(Letter) /\ docs[d].data \in Version /\ Remote(d) \in Data
  BY MessageHeard, RowTypes DEF StoreInv, BaseInv, TypeInv
<1>2. Tracked(docs[d], Remote(d), inbox, d) /\ Followed(docs[d], Remote(d), inbox, d)
  <2>1. Online /\ Arriving(d)
    BY <1>1 DEF StoreInv, Pages, Followers, Heard
  <2> QED
    BY <2>1 DEF Arriving
<1>3. /\ Applied(Remote(d), Head(inbox)) = Head(inbox).data /\ Head(inbox).data # Null
      /\ Remote(d) # Null => Remote(d) \subseteq Head(inbox).data
  BY <1>1, <1>2, NextCopy, NullAssumption DEF Heard, Version
<1> QED
  BY <1>1, <1>3 DEF Heard, Remote

LEMMA LocalMerged ==
    ASSUME NEW item \in Item, item.local # Null, NEW data \in Version
    PROVE  item.local \cup data # Null
BY NullAssumption DEF Item, Data, Version

\* A message leaves in hand what was: the document it is about, and the others.
LEMMA HeardReads ==
    ASSUME TypeInv, OnMessage
    PROVE  LET m == Head(inbox) IN
           /\ m \in Letter /\ Proper(m) /\ m.kind \in {"doc", "change", "change_error"}
           /\ m.id \in Doc
           /\ replica' = HandleMessage(replica, m) /\ replica'.status = replica.status
           /\ QueuesAs(replica, replica', m.id) /\ Handled(replica, replica', m)
           /\ \A d \in Doc : d # m.id => replica'.items[d] = replica.items[d]
           /\ docs' = docs /\ page' = page
           /\ inbox # <<>> /\ inbox' = Tail(inbox)
           /\ Range(inbox) = {m} \cup Range(inbox')
           /\ Range(outbox) \subseteq Range(outbox')
           /\ \A x \in Range(outbox') : x \in Range(outbox) \/ x.kind = "garbled"
<1> DEFINE m == Head(inbox)
<1>1. /\ m \in Letter /\ Proper(m) /\ m.kind \in {"doc", "change", "change_error"}
      /\ replica' = HandleMessage(replica, m) /\ docs' = docs /\ page' = page
      /\ inbox # <<>> /\ inbox' = Tail(inbox)
      /\ outbox' = outbox \/ outbox' = Append(outbox, Get(m.id))
      /\ replica \in Replica /\ Blank(replica)
      /\ inbox \in Seq(Letter) /\ outbox \in Seq(ClientMessage)
  BY MessageHeard DEF OnMessage, TypeInv, StoreTypeOK, Letter, serverVars
<1>2. m.id \in Doc
  BY <1>1, ProperTypes
<1>3. QueuesAs(replica, replica', m.id) /\ Handled(replica, replica', m)
  BY <1>1, HandledFacts
<1>4. /\ replica'.status = replica.status
      /\ \A d \in Doc : d # m.id => replica'.items[d] = replica.items[d]
  BY <1>1, MessageFacts
<1>5. Range(inbox) = {m} \cup Range(inbox')
  BY <1>1, TailRange
<1>6. /\ Range(outbox) \subseteq Range(outbox')
      /\ \A x \in Range(outbox') : x \in Range(outbox) \/ x.kind = "garbled"
  <2>1. Range(Append(outbox, Get(m.id))) = Range(outbox) \cup {Get(m.id)}
    BY <1>1, AppendRange
  <2>2. Get(m.id).kind = "garbled"
    BY DEF Get
  <2> QED
    BY <1>1, <2>1, <2>2
<1> HIDE DEF m
<1> QED
  BY <1>1, <1>2, <1>3, <1>4, <1>5, <1>6 DEF m

LEMMA HeardFits ==
    ASSUME StoreInv, StoreInv', Shapes, OnMessage, NEW d \in Doc, ~Gone(d), Fits(d)
    PROVE  Fits(d)'
<1> DEFINE m == Head(inbox)
           i == replica.items[d]
           j == replica'.items[d]
<1>1. /\ m \in Letter /\ m.kind \in {"doc", "change", "change_error"}
      /\ m.id \in Doc /\ replica'.status = replica.status
      /\ QueuesAs(replica, replica', m.id) /\ Handled(replica, replica', m)
      /\ \A c \in Doc : c # m.id => replica'.items[c] = replica.items[c]
      /\ docs' = docs /\ inbox # <<>> /\ inbox' = Tail(inbox)
      /\ Range(inbox) = {m} \cup Range(inbox')
      /\ Range(outbox) \subseteq Range(outbox')
  BY HeardReads DEF StoreInv, BaseInv
<1>2. CASE d # m.id
  <2>1. Late(replica, d) => Late(replica', d)
    BY <1>1, <1>2 DEF Late, QueuesAs
  <2>2. \A x \in Range(inbox) : Concerns(x, d) => x \in Range(inbox')
    BY <1>1, <1>2 DEF Concerns
  <2>3. replica'.items[d] = replica.items[d] /\ docs'[d] = docs[d]
    BY <1>1, <1>2
  <2> HIDE DEF m
  <2> QED
    BY <1>1, <2>1, <2>2, <2>3, FitStays
<1>3. CASE d = m.id
  <2>1. /\ Exists(d)' = Exists(d) /\ Live(d)' = Live(d) /\ docs'[d].data = docs[d].data
        /\ Gone(d)' = Gone(d)
    BY <1>1 DEF Exists, Live, Gone
  <2>2. /\ \A op : Sending(op, d) => Sending(op, d)'
        /\ \A e : Bears(d, e) => Bears(d, e)'
    BY <1>1 DEF Sending, Bears
  <2>3. /\ Denied(d) => Denied(d)' \/ (m.kind = "change_error" /\ m.code = "forbidden")
        /\ Told(d) => Told(d)' \/ m.kind \in {"doc", "change"}
    BY <1>1 DEF Denied, Told, About
  <2>4. /\ Remote(d) = i.remote /\ Local(d) = i.local /\ Remote(d)' = j.remote
        /\ Local(d)' = j.local /\ (Has(replica', d) <=> j.state # "absent")
        /\ (Has(replica, d) <=> i.state # "absent")
    BY DEF Remote, Local, Has
  <2>5. Shaped(i) /\ i \in Item /\ (i.state = "absent" => i = Absent)
    BY ItemTypes DEF Shapes, Whole, StoreInv, BaseInv, TypeInv, StoreTypeOK, Blank, Has
  <2>6. Remote(d)' # Null => Exists(d) /\ Live(d)
    <3>1. Remote(d)' # Null => Exists(d)'
      BY DEF StoreInv, Unheard
    <3> QED
      BY <2>1, <3>1 DEF Gone
  <2>7. Live(d) => Remote(d)' = docs[d].data \/ Told(d)'
    <3>1. Live(d) => Arriving(d)'
      BY <2>1 DEF StoreInv, Followers
    <3>2. Online'
      BY <1>1 DEF StoreInv, Pages, Online
    <3> QED
      BY <2>1, <3>1, <3>2 DEF Arriving, Followed, Told, Range
  <2>8. d \in replica.flushQueue /\ d \in replica'.flushQueue /\ Late(replica, d) =>
           Late(replica', d)
    BY <1>1 DEF Late, QueuesAs
  <2> HIDE DEF m, i, j
  <2>9. CASE j = Absent
    BY <2>4, <2>9 DEF Fits, New, Due, Absent
  <2>10. CASE /\ j = i /\ (d \in replica'.flushQueue <=> d \in replica.flushQueue)
              /\ \/ m.kind = "change" /\ m.op = "*" /\ i.remote = Null
                 \/ m.kind = "change_error" /\ m.code # "forbidden"
    <3>1. Denied(d) => Denied(d)'
      BY <2>3, <2>10
    <3>2. New(d)'
      BY <2>1, <2>2, <2>4, <2>10, <3>1 DEF Fits, New, i, j
    <3>3. Late(replica, d) => Late(replica', d)
      BY <2>8, <2>10 DEF Late
    <3>4. Remote(d) # Null => (Told(d) => Told(d)')
      BY <2>3, <2>4, <2>10
    <3>5. Remote(d) # Null /\ Asked(d) => Asked(d)'
      BY <2>1, <2>2, <2>4, <2>10, <3>4 DEF Asked, i, j
    <3> QED
      BY <2>4, <2>10, <3>1, <3>2, <3>3, <3>5 DEF Fits, Due
  <2>11. CASE j.state = "synced" /\ j.remote # Null /\ j.local = j.remote
    <3>1. Asked(d)'
      BY <2>4, <2>11 DEF Asked, j
    <3> QED
      BY <2>4, <2>11, <3>1 DEF Fits, New, Due
  <2>12. ASSUME m.kind \in {"doc", "change"}, m.data \in Version, Has(replica, d),
                NEW remote \in Version,
                \/ remote = m.data
                \/ i.remote # Null /\ remote = i.remote \cup m.data,
                Settles(replica', d, remote,
                        IF i.local = Null THEN Null ELSE i.local \cup m.data)
         PROVE  Fits(d)'
    <3> DEFINE local == IF i.local = Null THEN Null ELSE i.local \cup m.data
    <3>1. Remote(d)' = remote /\ Local(d)' = local /\ remote # Null
      BY <2>4, <2>12, NullAssumption DEF Settles, Version, j
    <3>2. Live(d) /\ Exists(d)
      BY <2>6, <3>1
    <3>3. New(d)'
      BY <3>1 DEF New
    <3>4. i.remote # Null => i.remote \subseteq remote
      BY <1>1, <1>3, <2>12, <2>4, <3>1, <3>2, HeardGrows DEF About, m
    <3>5. CASE ~(local = Null \/ ~(local \subseteq remote))
      <4>1. j.state = "synced" /\ local # Null /\ local \ remote = {}
        BY <2>12, <3>5 DEF Settles, j
      <4>2. Asked(d)'
        BY <3>1, <4>1 DEF Asked, j
      <4> QED
        BY <3>3, <4>2 DEF Fits, Due
    <3>6. CASE local = Null \/ ~(local \subseteq remote)
      <4>1. d \in replica'.flushQueue
        BY <2>12, <3>6 DEF Settles
      <4>2. Late(replica, d) => Late(replica', d)
        BY <2>8, <4>1 DEF Late
      <4>3. Denied(d) => Denied(d)'
        BY <2>3, <2>12
      <4>4. \A e \in local \ remote : Bears(d, e) \/ e \in docs[d].data \/ Denied(d) \/ Late(replica, d)
                \/ local = Null
        <5> SUFFICES ASSUME local # Null, NEW e \in local \ remote, ~Denied(d), ~Late(replica, d)
                     PROVE  Bears(d, e) \/ e \in docs[d].data
          OBVIOUS
        <5>1. i.local # Null /\ e \in i.local
          BY <2>12
        <5>2. CASE i.remote = Null
          <6>1. Local(d) \subseteq docs[d].data
            BY <2>4, <2>12, <3>2, <5>2 DEF Fits, New
          <6> QED
            BY <2>4, <5>1, <6>1
        <5>3. CASE i.remote # Null
          <6>1. Asked(d) /\ e \in Local(d) \ Remote(d)
            BY <2>4, <3>4, <5>1, <5>3 DEF Fits, Due
          <6> QED
            BY <2>4, <5>1, <6>1 DEF Asked
        <5> QED
          BY <5>2, <5>3
      <4>5. CASE local = Null
        <5>1. i.local = Null /\ i.remote # Null
          BY <2>4, <2>5, <2>12, <3>1, <4>5, LocalMerged DEF Shaped
        <5>2. Late(replica, d) \/ Denied(d) \/ Sending("-", d)
          BY <2>4, <5>1 DEF Fits, Due, Asked
        <5>3. Sending("-", d)' => Asked(d)'
          BY <3>1, <4>5 DEF Asked
        <5> QED
          BY <2>2, <3>3, <4>2, <4>3, <5>2, <5>3 DEF Fits, Due
      <4>6. CASE local # Null /\ ~Denied(d) /\ ~Late(replica, d)
        <5>1. \A e \in local \ remote : Bears(d, e) \/ e \in docs[d].data
          BY <4>4, <4>6
        <5>2. PICK e \in local : e \notin remote
          BY <3>6, <4>6
        <5>3. Bears(d, e) => Sending("*", d)
          BY DEF Bears, Sending
        <5>4. e \in docs[d].data => Told(d)'
          BY <2>7, <3>1, <3>2, <5>2
        <5>5. Asked(d)'
          <6>1. Sending("*", d)' \/ Told(d)'
            BY <2>2, <5>1, <5>2, <5>3, <5>4
          <6>2. \A x \in Local(d)' \ Remote(d)' : Bears(d, x)' \/ (Live(d)' /\ x \in docs'[d].data)
            BY <2>1, <2>2, <3>1, <3>2, <5>1
          <6> QED
            BY <3>1, <4>6, <6>1, <6>2 DEF Asked
        <5> QED
          BY <3>3, <5>5 DEF Fits, Due
      <4>7. CASE Denied(d) \/ Late(replica, d)
        BY <3>3, <4>2, <4>3, <4>7 DEF Fits, Due
      <4> QED
        BY <4>5, <4>6, <4>7
    <3> QED
      BY <3>5, <3>6
  <2>13. \/ j = Absent
         \/ /\ j = i /\ (d \in replica'.flushQueue <=> d \in replica.flushQueue)
            /\ \/ m.kind = "change" /\ m.op = "*" /\ i.remote = Null
               \/ m.kind = "change_error" /\ m.code # "forbidden"
         \/ j.state = "synced" /\ j.remote # Null /\ j.local = j.remote
         \/ /\ m.kind \in {"doc", "change"} /\ m.data \in Version /\ Has(replica, d)
            /\ \E remote \in Version :
                  /\ \/ remote = m.data
                     \/ i.remote # Null /\ remote = i.remote \cup m.data
                  /\ Settles(replica', d, remote,
                             IF i.local = Null THEN Null ELSE i.local \cup m.data)
    BY <1>1, <1>3 DEF Handled, i, j
  <2> QED
    BY <2>9, <2>10, <2>11, <2>12, <2>13
<1> QED
  BY <1>2, <1>3

\* The user's copy of a document goes to the server, or comes from it.
NothingDropped ==
    \A d \in Doc : Creating(replica, d) /\ ~Creating(replica', d) => Remote(d)' # Null

LEMMA HeardAnnounced ==
    ASSUME StoreInv, StoreInv', OnMessage, NothingDropped, Announced
    PROVE  Announced'
<1> DEFINE m == Head(inbox)
<1>1. /\ m.id \in Doc /\ Handled(replica, replica', m) /\ docs' = docs
      /\ \A c \in Doc : c # m.id => replica'.items[c] = replica.items[c]
      /\ \A x \in Range(outbox') : x \in Range(outbox) \/ x.kind = "garbled"
      /\ outbox \in Seq(ClientMessage)
  BY HeardReads DEF StoreInv, BaseInv, TypeInv, StoreTypeOK
<1> HIDE DEF m
<1> SUFFICES ASSUME NEW x \in Range(outbox'), Creation(x)
             PROVE  Exists(x.id)' \/ (Creating(replica', x.id) /\ x.data = Local(x.id)')
  BY DEF Announced
<1>2. x \in Range(outbox) /\ x \in ClientMessage
  BY <1>1, RangeOfSeq DEF Creation
<1>3. x.id \in Doc
  BY <1>2 DEF Creation, ClientMessage, ChangeRequest, GetRequest, Garbled
<1>4. Exists(x.id)' = Exists(x.id)
  BY <1>1 DEF Exists
<1>5. Exists(x.id) \/ (Creating(replica, x.id) /\ x.data = Local(x.id))
  BY <1>2 DEF Announced
<1>6. Creating(replica', x.id) => replica'.items[x.id] = replica.items[x.id]
  <2>1. ASSUME NEW remote, NEW local, Settles(replica', m.id, remote, local)
        PROVE  replica'.items[m.id].state # "sent"
    BY <2>1 DEF Settles
  <2>2. \/ replica'.items[m.id].state \in {"absent", "synced"}
        \/ replica'.items[m.id] = replica.items[m.id]
        \/ \E remote, local : Settles(replica', m.id, remote, local)
    BY <1>1 DEF Handled, Absent
  <2> QED
    BY <1>1, <1>3, <2>1, <2>2 DEF Creating
<1>7. CASE Creating(replica', x.id)
  BY <1>4, <1>5, <1>6, <1>7 DEF Local
<1>8. CASE ~Creating(replica', x.id)
  <2>1. Creating(replica, x.id) => Exists(x.id)'
    BY <1>3, <1>8 DEF NothingDropped, StoreInv, Unheard
  <2> QED
    BY <1>4, <1>5, <2>1
<1> QED
  BY <1>7, <1>8

LEMMA HeardWaiting ==
    ASSUME TypeInv, OnMessage, NEW d \in Doc, Waiting(d)
    PROVE  Waiting(d)'
<1> DEFINE m == Head(inbox)
<1>1. /\ m.id \in Doc /\ QueuesAs(replica, replica', m.id) /\ Handled(replica, replica', m)
      /\ \A c \in Doc : c # m.id => replica'.items[c] = replica.items[c]
  BY HeardReads
<1> HIDE DEF m
<1>2. CASE d # m.id
  BY <1>1, <1>2 DEF Waiting, QueuesAs, Has
<1>3. CASE d = m.id
  <2>1. ASSUME NEW remote, NEW local, Settles(replica', d, remote, local)
        PROVE  replica'.items[d].state # "synced" => d \in replica'.flushQueue
    BY <2>1 DEF Settles
  <2>2. \/ replica'.items[d].state \in {"absent", "synced"}
        \/ /\ replica'.items[d] = replica.items[d]
           /\ d \in replica'.flushQueue <=> d \in replica.flushQueue
        \/ \E remote, local : Settles(replica', d, remote, local)
    BY <1>1, <1>3 DEF Handled, Absent
  <2> QED
    BY <2>1, <2>2 DEF Waiting, Has
<1> QED
  BY <1>2, <1>3

LEMMA HeardComes ==
    ASSUME StoreInv, OnMessage, NEW d \in Doc, Comes(d)
    PROVE  Comes(d)'
<1>1. /\ Heard(Head(inbox)) /\ inbox \in Seq(Letter) /\ docs' = docs
  BY MessageHeard DEF StoreInv, BaseInv, TypeInv, OnMessage, serverVars
<1> SUFFICES ASSUME Live(d), Remote(d)' = Null
             PROVE  \E i \in DOMAIN inbox' : About(inbox'[i], d)
                       /\ \A j \in 1..i : inbox'[j].kind # "sync_complete"
  BY <1>1 DEF Comes, Live
<1>2. ~About(Head(inbox), d)
  BY HeardGrows
<1>3. Remote(d) = Null
  BY <1>1, <1>2 DEF Heard, Remote
<1>4. PICK i \in DOMAIN inbox :
         About(inbox[i], d) /\ \A j \in 1..i : inbox[j].kind # "sync_complete"
  BY <1>3 DEF Comes
<1>5. /\ inbox # <<>> /\ inbox' = Tail(inbox) /\ Head(inbox) = inbox[1]
      /\ DOMAIN inbox' = 1..(Len(inbox) - 1) /\ DOMAIN inbox = 1..Len(inbox)
      /\ \A j \in DOMAIN inbox' : inbox'[j] = inbox[j + 1]
  BY <1>1 DEF Heard
<1>6. i # 1 /\ i - 1 \in DOMAIN inbox' /\ (i - 1) + 1 = i
  BY <1>2, <1>4, <1>5
<1>7. \A j \in 1..(i - 1) : j \in DOMAIN inbox' /\ j + 1 \in 1..i
  BY <1>5, <1>6
<1> QED
  BY <1>4, <1>5, <1>6, <1>7

LEMMA HandHeard ==
    ASSUME StoreInv, StoreInv', Shapes, OnMessage, NothingDropped, InHand
    PROVE  InHand'
<1>1. /\ TypeInv /\ replica'.status = replica.status /\ docs' = docs
      /\ \A x \in Range(outbox') : x \in Range(outbox) \/ x.kind = "garbled"
  BY HeardReads DEF StoreInv, BaseInv
<1>2. CASE replica.status # "ready"
  <2>1. \A d \in Doc : Waiting(d)'
    BY <1>1, <1>2, HeardWaiting DEF InHand
  <2>2. replica.status = "connected" =>
           (\A m \in Range(outbox') : ~Creation(m)) /\ \A d \in Doc : Comes(d)'
    BY <1>1, HeardComes DEF InHand, Creation
  <2> QED
    BY <1>1, <1>2, <2>1, <2>2 DEF InHand
<1>3. CASE replica.status = "ready"
  <2>1. Announced'
    BY <1>3, HeardAnnounced DEF InHand
  <2>2. ASSUME NEW d \in Doc, ~Gone(d)' PROVE Fits(d)'
    <3>1. ~Gone(d)
      BY <1>1, <2>2 DEF Gone, Exists, Live
    <3> QED
      BY <1>3, <3>1, HeardFits DEF InHand
  <2> QED
    BY <1>1, <1>3, <2>1, <2>2 DEF InHand
<1> QED
  BY <1>2, <1>3

LEMMA FlushAnnounced ==
    ASSUME StoreTypeOK, NEW k \in Replica, FlushFrom(k), docs' = docs,
           \A m \in Range(outbox) : Creation(m) =>
              Exists(m.id) \/ (Creating(k, m.id) /\ m.data = k.items[m.id].local)
    PROVE  Announced'
<1> SUFFICES ASSUME NEW x \in Range(outbox'), Creation(x)
             PROVE  Exists(x.id)' \/ (Creating(replica', x.id) /\ x.data = Local(x.id)')
  BY DEF Announced
<1>1. ASSUME NEW d \in Doc
      PROVE  /\ replica'.items[d].remote = k.items[d].remote /\ Local(d)' = k.items[d].local
             /\ replica'.items[d].state \in {k.items[d].state, "sent"}
             /\ d \in ToFlush(k) => replica'.items[d].state = "sent"
  BY FlushDone DEF Local
<1>2. CASE x \in Range(outbox)
  <2>1. x.id \in Doc
    <3>1. x \in ClientMessage
      BY <1>2, RangeOfSeq DEF StoreTypeOK
    <3> QED
      BY <3>1 DEF Creation, ClientMessage, ChangeRequest, GetRequest, Garbled
  <2>2. Exists(x.id)' = Exists(x.id)
    BY DEF Exists
  <2> QED
    BY <1>1, <1>2, <2>1, <2>2 DEF Creating
<1>3. ASSUME NEW d \in ToFlush(k), d \in Doc, x = FlushMessage(d, k.items[d])
      PROVE  Creating(replica', x.id) /\ x.data = Local(x.id)'
  <2>1. k.items[d].remote = Null /\ x.id = d /\ x.data = k.items[d].local
    BY <1>3, FlushKinds
  <2> QED
    BY <1>1, <1>3, <2>1 DEF Creating
<1> QED
  BY <1>2, <1>3, FlushDone

LEMMA FlushHand ==
    ASSUME StoreTypeOK, NEW k \in Replica, k.status = "ready", FlushFrom(k), docs' = docs,
           \A m \in Range(outbox) : Creation(m) =>
              Exists(m.id) \/ (Creating(k, m.id) /\ m.data = k.items[m.id].local),
           \A d \in Doc : ~Gone(d) => Fits(d)'
    PROVE  InHand'
<1>1. Announced' /\ replica'.status = "ready"
  BY FlushAnnounced, FlushDone
<1>2. \A d \in Doc : Gone(d)' = Gone(d)
  BY DEF Gone, Exists, Live
<1> QED
  BY <1>1, <1>2 DEF InHand

LEMMA HandTimer ==
    ASSUME StoreInv, Shapes, FlushTimer, InHand
    PROVE  InHand'
<1>1. /\ StoreTypeOK /\ replica \in Replica /\ Blank(replica) /\ FlushFrom(replica)
      /\ replica.status = "ready" /\ docs' = docs /\ inbox' = inbox
  BY DEF StoreInv, BaseInv, TypeInv, StoreTypeOK, FlushTimer, Shapes, Whole, serverVars
<1>2. Announced /\ \A d \in Doc : ~Gone(d) => Fits(d)
  BY <1>1 DEF InHand
<1>3. ASSUME NEW d \in Doc, ~Gone(d) PROVE Fits(d)'
  <2>1. Shaped(replica.items[d])
    BY DEF Shapes, Whole
  <2> QED
    BY <1>1, <1>2, <1>3, <2>1, FlushKeepsFit
<1> QED
  BY <1>1, <1>2, <1>3, FlushHand DEF Announced, Local

LEMMA HandSync ==
    ASSUME StoreInv, Shapes, OnSyncComplete, InHand
    PROVE  InHand'
<1> DEFINE k == [replica EXCEPT !.colrev = Head(inbox).colrev, !.status = "ready"]
<1>1. /\ StoreTypeOK /\ replica \in Replica /\ Blank(replica) /\ FlushFrom(k)
      /\ Head(inbox).colrev \in Nat /\ Head(inbox).kind = "sync_complete"
      /\ docs' = docs /\ inbox # <<>> /\ inbox' = Tail(inbox) /\ inbox \in Seq(Letter)
  BY SyncHeard DEF StoreInv, BaseInv, TypeInv, StoreTypeOK, OnSyncComplete, serverVars
<1>2. /\ k \in Replica /\ k.items = replica.items /\ k.status = "ready"
      /\ k.flushQueue = replica.flushQueue
  BY <1>1 DEF Replica
<1> HIDE DEF k
<1>3. Blank(k) /\ \A d \in Doc : Shaped(k.items[d])
  BY <1>1, <1>2 DEF Blank, Has, Shapes, Whole
<1>4. \A d \in Doc : \A m \in Range(inbox) : Concerns(m, d) => m \in Range(inbox')
  <2>1. Range(inbox) = {Head(inbox)} \cup Range(inbox')
    BY <1>1, TailRange
  <2> QED
    BY <1>1, <2>1 DEF Concerns
<1>5. CASE replica.status = "ready"
  <2>1. Announced /\ \A d \in Doc : ~Gone(d) => Fits(d)
    BY <1>5 DEF InHand
  <2>2. ASSUME NEW d \in Doc, ~Gone(d) PROVE Fits(d)'
    <3>1. Fits(d) /\ Shaped(k.items[d]) /\ k.items[d] = replica.items[d]
      BY <1>2, <1>3, <2>1, <2>2
    <3> QED
      BY <1>1, <1>2, <1>3, <1>4, <3>1, FlushKeepsFit
  <2>3. \A m \in Range(outbox) : Creation(m) =>
           Exists(m.id) \/ (Creating(k, m.id) /\ m.data = k.items[m.id].local)
    BY <1>2, <2>1 DEF Announced, Creating, Local
  <2> QED
    BY <1>1, <1>2, <2>2, <2>3, FlushHand
<1>6. CASE replica.status # "ready"
  <2>1. Online
    BY <1>1 DEF StoreInv, Pages
  <2>2. replica.status = "connected"
    BY <1>6, <2>1 DEF Online
  <2>3. ASSUME NEW d \in Doc, ~Gone(d) PROVE Fits(d)'
    <3>1. Waiting(d) /\ Comes(d)
      BY <2>2 DEF InHand
    <3>2. Has(k, d) => d \in ToFlush(k) \/ replica.items[d].state = "synced"
      BY <1>2, <3>1 DEF Waiting, Has, ToFlush
    <3>3. Shaped(replica.items[d]) /\ k.items[d] = replica.items[d]
      BY <1>2 DEF Shapes, Whole
    <3>4. CASE d \in ToFlush(k)
      <4>1. k.items[d].remote = Null => ~Exists(d)
        <5> SUFFICES ASSUME Remote(d) = Null, Live(d) PROVE FALSE
          BY <2>3, <3>3 DEF Gone, Remote
        <5>1. PICK i \in DOMAIN inbox : \A j \in 1..i : inbox[j].kind # "sync_complete"
          BY <3>1 DEF Comes
        <5>2. Head(inbox) = inbox[1] /\ 1 \in 1..i
          BY <1>1, <5>1
        <5> QED
          BY <1>1, <5>1, <5>2
      <4> QED
        BY <1>1, <1>2, <1>3, <1>4, <3>3, <3>4, <4>1, FlushFits
    <3>5. CASE d \notin ToFlush(k)
      <4>1. ~Has(replica, d) \/ replica.items[d].state = "synced"
        BY <1>2, <3>2, <3>5 DEF Has
      <4>2. New(d)
        BY <3>3, <4>1 DEF New, Shaped, Remote
      <4>3. Remote(d) = Null \/ Asked(d)
        <5>1. CASE ~Has(replica, d)
          BY <1>1, <5>1 DEF Blank, Remote, Absent
        <5>2. CASE replica.items[d].state = "synced"
          BY <3>3, <5>2 DEF Asked, Shaped, Remote, Local
        <5> QED
          BY <4>1, <5>1, <5>2
      <4> QED
        BY <1>1, <1>2, <1>3, <1>4, <3>3, <4>2, <4>3, FlushFits
    <3> QED
      BY <3>4, <3>5
  <2>4. \A m \in Range(outbox) : ~Creation(m)
    BY <2>2 DEF InHand
  <2> QED
    BY <1>1, <1>2, <2>3, <2>4, FlushHand
<1> QED
  BY <1>5, <1>6

\* A step that leaves alone the client, the server and what is on its way.
LEMMA HandSame ==
    ASSUME InHand, replica' = replica, docs' = docs, outbox' = outbox, inbox' = inbox
    PROVE  InHand'
BY DEF InHand, Waiting, Comes, Announced, Fits, New, Due, Asked, Sending, Bears, Told, Denied,
       Gone, Exists, Live, Remote, Local

\* What the last page left unsent is queued.
LEMMA HandLoad ==
    ASSUME StoreTypeOK, Load
    PROVE  InHand'
<1> DEFINE items == [d \in Doc |-> Loaded(disk[d])]
<1>1. /\ replica'.items = items /\ replica'.status = "disconnected"
      /\ replica'.flushQueue = Unsaved
  BY DEF Load, NewReplica
<1>2. ASSUME NEW d \in Doc, Loaded(disk[d]).state \notin {"absent", "synced"}
      PROVE  d \in Unsaved
  BY <1>2 DEF Loaded, Unsaved, Absent
<1>3. \A d \in Doc : Waiting(d)'
  BY <1>1, <1>2 DEF Waiting, Has
<1> QED
  BY <1>1, <1>3 DEF InHand

\* A sync brings each document that the page lacks.
LEMMA HandConnect ==
    ASSUME StoreInv, Connect, InHand, \A m \in Range(outbox) : ~Creation(m)
    PROVE  InHand'
<1>1. /\ page = "open" /\ docs' = docs /\ outbox' = outbox
      /\ replica.status = "disconnected" /\ inbox' \in SyncAnswers(replica.colrev)
  BY DEF Connect, serverVars
<1>2. /\ StoreTypeOK /\ RowsDated /\ replica.colrev \in Nat /\ replica.colrev <= clock
      /\ clock \in Nat
  BY DEF StoreInv, BaseInv, TypeInv, StoreTypeOK, Replica, RevsKnown
<1>3. /\ replica'.status = "connected" /\ replica'.items = replica.items
      /\ replica'.flushQueue = replica.flushQueue
  BY <1>2 DEF Connect, StoreTypeOK, Replica
<1>4. \A d \in Doc : Waiting(d)'
  BY <1>1, <1>3 DEF InHand, Waiting, Has
<1>5. ASSUME NEW d \in Doc, Live(d)', Remote(d)' = Null
      PROVE  \E i \in DOMAIN inbox' :
                About(inbox'[i], d) /\ \A j \in 1..i : inbox'[j].kind # "sync_complete"
  <2>1. Live(d) /\ Remote(d) = Null /\ docs[d].rev \in Nat
    BY <1>1, <1>2, <1>3, <1>5 DEF Live, Remote, StoreTypeOK
  <2>2. ~(docs[d].rev <= replica.colrev)
    BY <1>1, <2>1 DEF StoreInv, Followers, Resumes, Live
  <2>3. docs[d].rev > replica.colrev
    BY <1>2, <2>1, <2>2
  <2>4. /\ inbox' \in Seq(Letter)
        /\ \A i \in DOMAIN inbox' : Dated(inbox'[i]) => i = Len(inbox')
        /\ \A e \in Doc : replica.colrev <= clock /\ (Live(e) \/ replica.colrev # 0)
                          /\ docs[e].rev > replica.colrev =>
              \E i \in DOMAIN inbox' : About(inbox'[i], e)
    BY <1>1, <1>2, AnswerFacts
  <2>5. PICK i \in DOMAIN inbox' : About(inbox'[i], d)
    BY <1>2, <2>1, <2>3, <2>4
  <2>6. DOMAIN inbox' = 1..Len(inbox') /\ Len(inbox') \in Nat
    BY <2>4
  <2>7. ASSUME NEW j \in 1..i, inbox'[j].kind = "sync_complete" PROVE FALSE
    <3>1. j \in DOMAIN inbox' /\ Dated(inbox'[j])
      BY <2>5, <2>6, <2>7 DEF Dated
    <3>2. j = Len(inbox')
      BY <2>4, <3>1
    <3>3. j = i
      BY <2>5, <2>6, <3>2
    <3> QED
      BY <2>5, <2>7, <3>3 DEF About
  <2> QED
    BY <2>5, <2>7
<1>6. \A d \in Doc : Comes(d)'
  BY <1>5 DEF Comes
<1> QED
  BY <1>1, <1>3, <1>4, <1>6 DEF InHand

\* The user creates or deletes document d: it is sent, or queued, or no more.
LEMMA HandUser ==
    ASSUME StoreInv, Shapes, InHand, outbox = <<>>, docs' = docs, inbox' = inbox,
           NEW k, NEW d \in Doc, Alters(replica, k, d), Blank(k), QueuesAs(replica, k, d),
           k.items[d].remote = Remote(d), Shaped(k.items[d]),
           Has(k, d) => d \in k.flushQueue /\ (Remote(d) = Null => ~Exists(d)),
           \/ FlushNow(k)
           \/ replica' = k /\ outbox' = outbox /\ ~Has(k, d)
    PROVE  InHand'
<1>1. /\ StoreTypeOK /\ replica \in Replica /\ k \in Replica /\ k.status = replica.status
      /\ \A e \in Doc : e # d => /\ k.items[e] = replica.items[e]
                                 /\ e \in k.flushQueue <=> e \in replica.flushQueue
      /\ k.flushTimer = replica.flushTimer /\ Range(outbox) = {}
  BY DEF StoreInv, BaseInv, TypeInv, StoreTypeOK, Alters, QueuesAs, Range
<1>2. CASE replica.status # "ready"
  <2>1. replica' = k /\ outbox' = outbox
    BY <1>1, <1>2 DEF FlushNow
  <2>2. \A e \in Doc : Waiting(e)'
    BY <1>1, <1>2, <2>1 DEF InHand, Waiting, Has
  <2>3. \A e \in Doc : Remote(e)' = Remote(e)
    BY <1>1, <2>1 DEF Remote
  <2>4. replica.status = "connected" => \A e \in Doc : Comes(e)'
    BY <2>3 DEF InHand, Comes, Live
  <2> QED
    BY <1>1, <1>2, <2>1, <2>2, <2>4 DEF InHand
<1>3. CASE replica.status = "ready" /\ ~Has(k, d) /\ replica' = k /\ outbox' = outbox
  <2>1. Announced'
    BY <1>1, <1>3 DEF Announced
  <2>2. ASSUME NEW e \in Doc, ~Gone(e)' PROVE Fits(e)'
    <3>1. ~Gone(e) /\ Fits(e)
      BY <1>3, <2>2 DEF InHand, Gone, Exists, Live
    <3>2. CASE e = d
      <4>1. replica'.items[d] = Absent
        BY <1>3 DEF Blank
      <4> QED
        BY <3>2, <4>1 DEF Fits, New, Due, Has, Remote, Absent
    <3>3. CASE e # d
      <4>1. Late(replica, e) => Late(replica', e)
        BY <1>1, <1>3, <3>3 DEF Late
      <4>2. replica'.items[e] = replica.items[e]
        BY <1>1, <1>3, <3>3
      <4> QED
        BY <1>3, <3>1, <4>1, <4>2, FitStays
    <3> QED
      BY <3>2, <3>3
  <2> QED
    BY <1>1, <1>3, <2>1, <2>2 DEF InHand
<1>4. CASE replica.status = "ready" /\ FlushNow(k)
  <2>1. FlushFrom(k) /\ k.status = "ready"
    BY <1>1, <1>4 DEF FlushNow
  <2>2. ASSUME NEW e \in Doc, ~Gone(e) PROVE Fits(e)'
    <3>1. Fits(e) /\ Shaped(replica.items[e])
      BY <1>4, <2>2 DEF InHand, Shapes, Whole
    <3>2. CASE e # d
      <4>1. k.items[e] = replica.items[e] /\ (e \in replica.flushQueue => e \in k.flushQueue)
        BY <1>1, <3>2
      <4> QED
        BY <1>1, <2>1, <3>1, <4>1, FlushKeepsFit
    <3>3. CASE e = d /\ Has(k, d)
      <4>1. d \in ToFlush(k) /\ (k.items[d].remote = Null => ~Exists(d))
        BY <3>3 DEF ToFlush
      <4> QED
        BY <1>1, <2>1, <3>3, <4>1, FlushFits
    <3>4. CASE e = d /\ ~Has(k, d)
      <4>1. replica'.items[d] = k.items[d]
        BY <1>1, <2>1, <3>4, FlushDone DEF ToFlush
      <4>2. replica'.items[d] = Absent
        BY <3>4, <4>1 DEF Blank
      <4> QED
        BY <3>4, <4>2 DEF Fits, New, Due, Has, Remote, Absent
    <3> QED
      BY <3>2, <3>3, <3>4
  <2> QED
    BY <1>1, <2>1, <2>2, FlushHand
<1> QED
  BY <1>2, <1>3, <1>4

LEMMA HandCreate ==
    ASSUME StoreInv, Shapes, InHand, outbox = <<>>,
           NEW d \in Doc, NEW e \in Edit, UserCreate(d, e)
    PROVE  InHand'
<1> DEFINE k == Create(replica, d, {e})
<1>1. /\ replica \in Replica /\ Blank(replica) /\ ~Has(replica, d) /\ ~Exists(d)
      /\ FlushNow(k) /\ docs' = docs /\ inbox' = inbox
  BY DEF StoreInv, BaseInv, TypeInv, StoreTypeOK, UserCreate, serverVars
<1>2. {e} \in Version /\ {e} # Null
  BY NullAssumption DEF Version
<1>3. /\ Alters(replica, k, d)
      /\ k.items[d] = [remote |-> Null, local |-> {e}, state |-> "changed"]
  BY <1>1, <1>2, CreateFacts
<1>4. QueuesAs(replica, k, d) /\ d \in k.flushQueue
  BY <1>1, PutQueues DEF Create
<1> HIDE DEF k
<1>5. Remote(d) = Null
  BY <1>1 DEF Blank, Remote, Absent
<1>6. Blank(k)
  BY <1>1, <1>3 DEF Alters, Blank, Has
<1>7. Shaped(k.items[d]) /\ k.items[d].remote = Null
  BY <1>2, <1>3 DEF Shaped, Nested
<1> QED
  BY <1>1, <1>3, <1>4, <1>5, <1>6, <1>7, HandUser

LEMMA HandDelete ==
    ASSUME StoreInv, Shapes, InHand, outbox = <<>>, NEW d \in Doc, UserDelete(d)
    PROVE  InHand'
<1> DEFINE k == Delete(replica, d)
<1>1. /\ replica \in Replica /\ Blank(replica) /\ docs' = docs /\ inbox' = inbox
      /\ IF Has(k, d) THEN FlushNow(k) ELSE replica' = k /\ outbox' = outbox
  BY DEF StoreInv, BaseInv, TypeInv, StoreTypeOK, UserDelete, serverVars
<1>2. /\ Alters(replica, k, d) /\ k.items[d].remote = Remote(d) /\ k.items[d].local = Null
      /\ ~Has(k, d) => k.items[d] = Absent
      /\ Remote(d) = Null => k.items[d] = Absent
  BY <1>1, RemovedFacts DEF Remote
<1>3. QueuesAs(replica, k, d) /\ (Remote(d) # Null => d \in k.flushQueue)
  BY <1>1, PutQueues DEF Delete, Remote
<1>4. Has(k, d) => k.items[d].state = "changed"
  BY <1>1 DEF Delete, Queue, Put, Replica, Item, Remote, Has, Absent
<1> HIDE DEF k
<1>5. Has(k, d) => Remote(d) # Null
  BY <1>2 DEF Has, Absent
<1>6. Blank(k)
  BY <1>1, <1>2 DEF Alters, Blank, Has
<1>7. Shaped(k.items[d])
  BY <1>2, <1>4, <1>5, AbsentShaped DEF Shaped, Nested, Has
<1> QED
  BY <1>1, <1>2, <1>3, <1>5, <1>6, <1>7, HandUser

\* An edit: it is queued, and the flush is due, or follows the sync.
LEMMA HandChange ==
    ASSUME StoreInv, InHand, outbox = <<>>, NothingDropped,
           NEW d \in Doc, NEW e \in Edit, UserChange(d, e)
    PROVE  InHand'
<1> DEFINE k == Edited(replica, d, e)
<1>1. /\ replica \in Replica /\ Blank(replica) /\ CanEdit(replica, d)
      /\ replica' = [k EXCEPT !.flushTimer = @ \/ k.status = "ready"]
      /\ docs' = docs /\ inbox' = inbox /\ outbox' = outbox
  BY DEF StoreInv, BaseInv, TypeInv, StoreTypeOK, UserChange, serverVars, netVars
<1>2. /\ Alters(replica, k, d) /\ k.items[d].remote = Remote(d)
      /\ k.items[d].state = "changed"
  BY <1>1, EditedFacts DEF Remote
<1>3. QueuesAs(replica, k, d) /\ d \in k.flushQueue
  BY <1>1, PutQueues DEF Edited
<1> HIDE DEF k
<1>4. /\ replica'.items = k.items /\ replica'.status = replica.status
      /\ replica'.flushQueue = k.flushQueue
      /\ replica'.flushTimer = (k.flushTimer \/ replica.status = "ready")
  BY <1>1, <1>2 DEF Replica, Alters
<1>5. \A c \in Doc : Remote(c)' = Remote(c) /\ (c # d => replica'.items[c] = replica.items[c])
  BY <1>2, <1>4 DEF Alters, Remote
<1>6. \A c \in Doc : c # d => (c \in replica'.flushQueue <=> c \in replica.flushQueue)
  BY <1>3, <1>4 DEF QueuesAs
<1>7. CASE replica.status # "ready"
  <2>1. \A c \in Doc : Waiting(c)'
    BY <1>3, <1>4, <1>5, <1>6, <1>7 DEF InHand, Waiting, Has
  <2>2. replica.status = "connected" => \A c \in Doc : Comes(c)'
    BY <1>1, <1>5 DEF InHand, Comes, Live
  <2> QED
    BY <1>1, <1>4, <1>7, <2>1, <2>2 DEF InHand
<1>8. CASE replica.status = "ready"
  <2>1. Announced'
    BY <1>1 DEF Announced, Range
  <2>2. ASSUME NEW c \in Doc, ~Gone(c)' PROVE Fits(c)'
    <3>1. ~Gone(c) /\ Fits(c)
      BY <1>1, <1>8, <2>2 DEF InHand, Gone, Exists, Live
    <3>2. CASE c # d
      <4>1. Late(replica, c) => Late(replica', c)
        BY <1>3, <1>4, <1>6, <3>2 DEF Late, QueuesAs
      <4> QED
        BY <1>1, <1>5, <3>1, <3>2, <4>1, FitStays
    <3>3. CASE c = d
      <4>1. Remote(d) # Null
        <5> SUFFICES ASSUME Remote(d) = Null PROVE FALSE
          OBVIOUS
        <5>1. Has(replica, d)
          BY <1>1 DEF Blank, CanEdit, Absent
        <5>2. Creating(replica, d)
          BY <3>1, <3>3, <5>1 DEF Fits, New, Creating, Remote
        <5>3. ~Creating(replica', d)
          BY <1>2, <1>4 DEF Creating
        <5> QED
          BY <1>5, <5>2, <5>3 DEF NothingDropped
      <4>2. Late(replica', d)
        BY <1>3, <1>4, <1>8 DEF Late
      <4> QED
        BY <1>5, <3>3, <4>1, <4>2 DEF Fits, New, Due
    <3> QED
      BY <3>2, <3>3
  <2> QED
    BY <1>4, <1>8, <2>1, <2>2 DEF InHand
<1> QED
  BY <1>7, <1>8

\* What is appended to what is on its way to the page leaves that as it was.
LEMMA CameStays ==
    ASSUME NEW msgs \in Seq(Letter), NEW m \in Letter, NEW d \in Doc
    PROVE  LET all == Append(msgs, m) IN
           /\ Range(msgs) \subseteq Range(all) /\ m \in Range(all)
           /\ (\E i \in DOMAIN msgs :
                 About(msgs[i], d) /\ \A j \in 1..i : msgs[j].kind # "sync_complete") =>
              \E i \in DOMAIN all :
                 About(all[i], d) /\ \A j \in 1..i : all[j].kind # "sync_complete"
<1> DEFINE all == Append(msgs, m)
<1>1. Range(all) = Range(msgs) \cup {m}
  BY AppendRange
<1>2. /\ DOMAIN msgs = 1..Len(msgs) /\ DOMAIN all = 1..(Len(msgs) + 1) /\ Len(msgs) \in Nat
      /\ \A i \in DOMAIN msgs : all[i] = msgs[i]
  OBVIOUS
<1> HIDE DEF all
<1>3. ASSUME NEW i \in DOMAIN msgs, About(msgs[i], d),
             \A j \in 1..i : msgs[j].kind # "sync_complete"
      PROVE  /\ i \in DOMAIN all /\ About(all[i], d)
             /\ \A j \in 1..i : all[j].kind # "sync_complete"
  <2>1. i \in DOMAIN all /\ 1..i \subseteq DOMAIN msgs
    BY <1>2
  <2> QED
    BY <1>2, <1>3, <2>1
<1> QED
  BY <1>1, <1>3 DEF all

\* What a request to the server does to document c: it is on its way no longer.
LEMMA HandApplied ==
    ASSUME StoreInv, InHand, NEW op \in Op, NEW c \in Doc, NEW data \in Data,
           op = "-" <=> data = Null, Acceptable(op, c), Apply(op, c, data),
           replica' = replica, Range(outbox') \subseteq Range(outbox),
           \A x \in Range(outbox) : x \in Range(outbox') \/
              (x.kind = "change" /\ x.op = op /\ x.id = c /\ x.data = data),
           op = "+" /\ Online =>
              \E x \in Range(outbox) : Creation(x) /\ x.id = c /\ x.data = data,
           \A d \in Doc : Gone(d) => Gone(d)'
    PROVE  InHand'
<1> DEFINE merged == IF op = "*" THEN Merge(docs[c].data, data) ELSE data
           m == ServerChange(op, c, merged, clock + 1)
<1>0. /\ docs \in [Doc -> [rev: Nat, data: Data]] /\ clock \in Nat /\ inbox \in Seq(Letter)
      /\ outbox \in Seq(ClientMessage)
      /\ \A d \in Doc : docs[d].rev \in Nat /\ docs[d].data \in Data
      /\ \A d \in Doc : Live(d) => Exists(d) /\ docs[d].data \in Version
  BY RowTypes DEF StoreInv, BaseInv, TypeInv, StoreTypeOK
<1>1. /\ docs' = [docs EXCEPT ![c] = [rev |-> clock + 1, data |-> merged]] /\ Post(m)
      /\ merged \in Data
  <2>1. op = "*" => merged \in Version
    BY <1>0, NullAssumption DEF Acceptable, Merge, Data, Version
  <2> QED
    BY <2>1 DEF Apply, Data
<1>2. m \in Letter /\ m.kind = "change" /\ m.id = c
  <2>1. op = "+" \/ op = "*" => merged \in Version
    BY <1>0, NullAssumption DEF Acceptable, Merge, Data, Version
  <2>2. op = "-" => merged = Null
    OBVIOUS
  <2> QED
    BY <1>0, <1>1, <2>1, <2>2 DEF ServerChange, Letter, Proper, ServerMessage
<1>3. /\ docs'[c].data = merged /\ docs'[c].rev = clock + 1 /\ clock + 1 > 0
      /\ \A d \in Doc : d # c => docs'[d] = docs[d]
  BY <1>0, <1>1
<1>4. \A d \in Doc : /\ Exists(d) => Exists(d)'
                     /\ Has(replica', d) = Has(replica, d)
                     /\ Remote(d)' = Remote(d) /\ Local(d)' = Local(d)
  BY <1>3 DEF Exists, Remote, Local
<1>5. Exists(c)' /\ (op = "-" => Gone(c)') /\ (op # "-" => Live(c)')
  <2>1. op # "-" => merged # Null
    BY <1>0, NullAssumption DEF Acceptable, Merge, Data, Version
  <2> QED
    BY <1>3, <2>1 DEF Exists, Live, Gone
<1>6. CASE replica.status # "ready"
  <2>1. \A d \in Doc : Waiting(d)'
    BY <1>6 DEF InHand, Waiting
  <2>2. ASSUME replica.status = "connected", NEW d \in Doc PROVE Comes(d)'
    <3>1. Comes(d) /\ inbox' = Append(inbox, m) /\ op # "+"
      BY <1>1, <2>2 DEF InHand, Online, Post
    <3>2. Live(d)' => Live(d)
      BY <1>3, <1>5, <3>1 DEF Live, Gone, Acceptable, Op
    <3> QED
      BY <1>0, <1>2, <1>4, <3>1, <3>2, CameStays DEF Comes
  <2> QED
    BY <1>6, <2>1, <2>2 DEF InHand
<1>7. CASE replica.status = "ready"
  <2>1. inbox' = Append(inbox, m) /\ Announced
    BY <1>1, <1>7 DEF InHand, Online, Post
  <2>2. Range(inbox) \subseteq Range(inbox') /\ m \in Range(inbox')
    BY <1>0, <1>2, <2>1, CameStays
  <2>3. Announced'
    <3> SUFFICES ASSUME NEW x \in Range(outbox'), Creation(x)
                 PROVE  Exists(x.id)' \/ (Creating(replica', x.id) /\ x.data = Local(x.id)')
      BY DEF Announced
    <3>1. x.id \in Doc
      <4>1. x \in ClientMessage
        BY <1>0, RangeOfSeq
      <4> QED
        BY <4>1 DEF Creation, ClientMessage, ChangeRequest, GetRequest, Garbled
    <3> QED
      BY <1>4, <2>1, <3>1 DEF Announced
  <2>4. ASSUME NEW d \in Doc, ~Gone(d)' PROVE Fits(d)'
    <3>1. Fits(d) /\ ~Gone(d)
      BY <1>7, <2>4 DEF InHand
    <3> HIDE DEF m
    <3>2. CASE d # c
      <4>1. \A x \in Range(outbox) : x.kind = "change" /\ x.id = d => x \in Range(outbox')
        BY <3>2
      <4> QED
        BY <1>3, <2>2, <3>1, <3>2, <4>1, FitStays
    <3>3. CASE d = c
      <4>1. op # "-" /\ Live(d)' /\ Told(d)'
        BY <1>2, <1>5, <2>2, <2>4, <3>3 DEF Told, About
      <4>2. op = "*" => Live(d) /\ docs'[d].data = docs[d].data \cup data
        BY <1>3, <3>3 DEF Acceptable, Merge
      <4>3. Denied(d) => Denied(d)'
        BY <2>2 DEF Denied
      <4>4. New(d)'
        <5>1. CASE op = "+"
          <6>1. ~Exists(d) /\ ~Live(d)
            BY <1>0, <3>3, <5>1 DEF Acceptable
          <6>2. data = Local(d)
            BY <1>7, <2>1, <3>3, <5>1, <6>1 DEF Announced, Online
          <6>3. docs'[d].data = Local(d)
            BY <1>3, <3>3, <5>1, <6>2
          <6> QED
            BY <1>4, <3>1, <4>1, <4>3, <6>3 DEF Fits, New
        <5>2. CASE op = "*"
          <6>1. Live(d) /\ Exists(d) /\ docs[d].data \subseteq docs'[d].data
            BY <1>0, <4>2, <5>2
          <6> QED
            BY <1>4, <3>1, <4>1, <4>3, <6>1 DEF Fits, New
        <5> QED
          BY <4>1, <5>1, <5>2 DEF Op
      <4>5. ASSUME Remote(d) # Null PROVE op = "*"
        <5>1. Exists(d)
          BY <4>5 DEF StoreInv, Unheard
        <5> QED
          BY <3>3, <4>1, <5>1 DEF Acceptable, Op
      <4>6. Remote(d) # Null /\ Asked(d) => Asked(d)'
        <5> SUFFICES ASSUME Remote(d) # Null, Asked(d) PROVE Asked(d)'
          OBVIOUS
        <5>1. /\ op = "*" /\ Live(d) /\ docs[d].data \subseteq docs'[d].data
              /\ data \subseteq docs'[d].data
          BY <4>2, <4>5
        <5>2. Sending("-", d) => Sending("-", d)'
          BY <5>1 DEF Sending
        <5>3. \A e : Bears(d, e) => Bears(d, e)' \/ e \in docs'[d].data
          BY <5>1 DEF Bears
        <5> QED
          BY <1>4, <4>1, <5>1, <5>2, <5>3 DEF Asked
      <4>7. Due(d)'
        BY <1>4, <3>1, <4>3, <4>6 DEF Fits, Due
      <4> QED
        BY <4>4, <4>7 DEF Fits
    <3> QED
      BY <3>2, <3>3
  <2> QED
    BY <1>7, <2>3, <2>4 DEF InHand
<1> QED
  BY <1>6, <1>7

\* No creation is left of earlier connections.
Timely == Online => \A m \in Range(late) : ~Creation(m)

LEMMA HandAccept ==
    ASSUME StoreInv, InHand, Timely, ServerAccept
    PROVE  InHand'
<1>1. PICK m \in Unread :
         /\ Read(m) /\ m.kind = "change"
         /\ Acceptable(m.op, m.id) /\ Apply(m.op, m.id, m.data)
  BY DEF ServerAccept
<1>2. /\ m \in ClientMessage /\ replica' = replica
      /\ outbox \in Seq(ClientMessage) /\ late \in Seq(ClientMessage)
  BY <1>1, ReadTypes DEF ServerAccept, StoreInv, BaseInv, TypeInv, StoreTypeOK
<1>3. \/ outbox' = outbox /\ m \in Range(late)
      \/ m \in Range(outbox) /\ Range(outbox) = {m} \cup Range(outbox')
  <2>1. CASE ReadLate(m)
    BY <1>2, <2>1, TailRange DEF ReadLate
  <2>2. CASE ReadSent(m)
    BY <1>2, <2>2, TailRange DEF ReadSent
  <2> QED
    BY <1>1, <2>1, <2>2 DEF Read
<1>4. m.op \in Op /\ m.id \in Doc /\ m.data \in Data /\ (m.op = "-" <=> m.data = Null)
  BY <1>1, <1>2 DEF ClientMessage, ChangeRequest, GetRequest, Garbled
<1>5. \A d \in Doc : Gone(d) => Gone(d)'
  <2>1. StoreNext
    BY DEF StoreNext, ServerStep
  <2> QED
    BY <2>1, GoneStays DEF StoreInv
<1>6. m.op = "+" /\ Online => m \in Range(outbox) /\ Creation(m)
  BY <1>1, <1>3 DEF Timely, Creation
<1>7. /\ Range(outbox') \subseteq Range(outbox)
      /\ \A x \in Range(outbox) : x \in Range(outbox') \/ x = m
  BY <1>3
<1> QED
  BY <1>1, <1>2, <1>4, <1>5, <1>6, <1>7, HandApplied

LEMMA HandOthers ==
    ASSUME StoreInv, InHand, NEW d \in Doc,
           \/ OthersChange("-", d, Null)
           \/ \E e \in Edit : OthersChange("*", d, {e})
    PROVE  InHand'
<1>1. \A c \in Doc : Gone(c) => Gone(c)'
  <2>1. StoreNext
    BY DEF StoreNext
  <2> QED
    BY <2>1, GoneStays DEF StoreInv
<1>2. ASSUME NEW op \in {"*", "-"}, NEW data \in Data, op = "-" <=> data = Null,
             OthersChange(op, d, data)
      PROVE  InHand'
  <2>1. op \in Op /\ op # "+" /\ Acceptable(op, d) /\ Apply(op, d, data)
        /\ replica' = replica /\ outbox' = outbox
    BY <1>2 DEF OthersChange, Op
  <2> QED
    BY <1>1, <1>2, <2>1, HandApplied
<1>3. CASE OthersChange("-", d, Null)
  BY <1>2, <1>3 DEF Data
<1>4. ASSUME NEW e \in Edit, OthersChange("*", d, {e}) PROVE InHand'
  <2>1. {e} \in Data /\ {e} # Null
    BY NullAssumption DEF Data, Version
  <2> QED
    BY <1>2, <1>4, <2>1
<1> QED
  BY <1>3, <1>4

\* A request is refused: it is denied, or what came before it made it pointless.
LEMMA HandTurned ==
    ASSUME StoreInv, InHand,
           NEW code \in {"forbidden", "unprocessable_content"}, ServerRefuse(code) \/ ServerIgnore
    PROVE  InHand'
<1>0. /\ replica' = replica /\ docs' = docs
      /\ outbox \in Seq(ClientMessage) /\ inbox \in Seq(Letter)
  BY DEF ServerRefuse, ServerIgnore, StoreInv, BaseInv, TypeInv, StoreTypeOK
<1> SUFFICES ASSUME NEW x \in Unread, ReadSent(x),
                    \/ x \in Garbled /\ inbox' = inbox
                    \/ /\ x.kind = "change" /\ Post(ChangeError(x.id, code))
                       /\ code = "forbidden" \/ ~Acceptable(x.op, x.id)
             PROVE  InHand'
  <2>1. ASSUME NEW x \in Unread, ReadLate(x), inbox' = inbox PROVE InHand'
    BY <1>0, <2>1, HandSame DEF ReadLate
  <2> QED
    BY <2>1 DEF ServerRefuse, ServerIgnore, Read
<1> DEFINE m == ChangeError(x.id, code)
<1>1. /\ outbox # <<>> /\ outbox' = Tail(outbox) /\ replica' = replica /\ docs' = docs
      /\ outbox \in Seq(ClientMessage) /\ inbox \in Seq(Letter) /\ x = Head(outbox)
  BY <1>0 DEF ReadSent
<1>2. /\ Range(outbox) = {x} \cup Range(outbox') /\ x \in ClientMessage
  BY <1>1, TailRange
<1>3. \/ x.kind = "garbled" /\ inbox' = inbox
      \/ /\ x.kind = "change" /\ x.id \in Doc /\ x.op \in Op /\ Post(m)
         /\ code = "forbidden" \/ ~Acceptable(x.op, x.id)
  BY <1>2 DEF ClientMessage, ChangeRequest, GetRequest, Garbled
<1>4. x.id \in Doc => m \in Letter /\ m.kind = "change_error" /\ m.id = x.id /\ m.code = code
  BY DEF ChangeError, Letter, Proper, ServerMessage, ErrorCode
<1> HIDE DEF m
<1>5. /\ \A d \in Doc : Gone(d)' = Gone(d) /\ Live(d)' = Live(d) /\ Exists(d)' = Exists(d)
      /\ \A d \in Doc : Remote(d)' = Remote(d) /\ Local(d)' = Local(d)
  BY <1>1 DEF Gone, Live, Exists, Remote, Local
<1>6. CASE replica.status # "ready"
  <2>1. \A d \in Doc : Waiting(d)'
    BY <1>1, <1>6 DEF InHand, Waiting
  <2>2. ASSUME replica.status = "connected", NEW d \in Doc PROVE Comes(d)'
    <3>1. Comes(d)
      BY <2>2 DEF InHand
    <3>2. CASE inbox' = inbox
      BY <1>5, <3>1, <3>2 DEF Comes
    <3>3. CASE x.id \in Doc /\ Post(m)
      <4>1. inbox' = Append(inbox, m)
        BY <2>2, <3>3 DEF Post, Online
      <4> QED
        BY <1>1, <1>4, <1>5, <3>1, <3>3, <4>1, CameStays DEF Comes
    <3> QED
      BY <1>3, <3>2, <3>3
  <2>3. replica.status = "connected" => \A y \in Range(outbox') : ~Creation(y)
    BY <1>2 DEF InHand
  <2> QED
    BY <1>1, <1>6, <2>1, <2>2, <2>3 DEF InHand
<1>7. CASE replica.status = "ready"
  <2>1. Announced /\ \A d \in Doc : ~Gone(d) => Fits(d)
    BY <1>7 DEF InHand
  <2>2. Announced'
    <3> SUFFICES ASSUME NEW y \in Range(outbox'), Creation(y)
                 PROVE  Exists(y.id)' \/ (Creating(replica', y.id) /\ y.data = Local(y.id)')
      BY DEF Announced
    <3>1. y \in Range(outbox) /\ y.id \in Doc
      <4>1. y \in ClientMessage
        BY <1>1, <1>2, RangeOfSeq
      <4> QED
        BY <1>2, <4>1 DEF Creation, ClientMessage, ChangeRequest, GetRequest, Garbled
    <3> QED
      BY <1>1, <1>5, <2>1, <3>1 DEF Announced
  <2>3. Range(inbox) \subseteq Range(inbox') /\ (x.id \in Doc /\ Post(m) => m \in Range(inbox'))
    BY <1>1, <1>3, <1>4, <1>7, CameStays DEF Post, Online
  <2>4. ASSUME NEW d \in Doc, ~Gone(d)' PROVE Fits(d)'
    <3>1. Fits(d) /\ ~Gone(d)
      BY <1>5, <2>1, <2>4
    <3>2. CASE ~(x.kind = "change" /\ x.id = d)
      <4>1. \A y \in Range(outbox) : y.kind = "change" /\ y.id = d => y \in Range(outbox')
        BY <1>2, <3>2
      <4> QED
        BY <1>1, <2>3, <3>1, <4>1, FitStays
    <3>3. CASE x.kind = "change" /\ x.id = d /\ code = "forbidden"
      <4>1. Denied(d)'
        BY <1>3, <1>4, <2>3, <3>3 DEF Denied
      <4>2. New(d)'
        BY <1>1, <1>5, <3>1, <4>1 DEF Fits, New
      <4> QED
        BY <4>1, <4>2 DEF Fits, Due
    <3>4. CASE x.kind = "change" /\ x.id = d /\ ~Acceptable(x.op, d)
      <4>1. (Denied(d) => Denied(d)') /\ (Told(d) => Told(d)')
        BY <2>3 DEF Denied, Told
      <4>2. x.op = "+" => Live(d) /\ Exists(d)
        BY <3>1, <3>4 DEF Acceptable, Gone
      <4>3. x.op # "+" => ~Live(d) /\ Remote(d) = Null
        BY <3>1, <3>4 DEF Acceptable, Gone, StoreInv, Unheard
      <4>4. \A op : Sending(op, d) => op = x.op \/ Sending(op, d)'
        BY <1>2 DEF Sending
      <4>5. x.op = "+" => \A e : Bears(d, e) => Bears(d, e)'
        BY <1>2 DEF Bears
      <4>6. New(d)'
        BY <1>1, <1>5, <3>1, <4>1, <4>2, <4>4 DEF Fits, New
      <4>7. x.op = "+" /\ Asked(d) => Asked(d)'
        BY <1>1, <1>5, <4>1, <4>4, <4>5 DEF Asked
      <4>8. Due(d)'
        BY <1>1, <1>5, <3>1, <4>1, <4>3, <4>7 DEF Fits, Due
      <4> QED
        BY <4>6, <4>8 DEF Fits
    <3> QED
      BY <1>3, <3>2, <3>3, <3>4
  <2> QED
    BY <1>1, <1>7, <2>2, <2>4 DEF InHand
<1> QED
  BY <1>6, <1>7

\* What is sent is sent on a connection.
Silent == ~Online => outbox = <<>>

LEMMA SilentStep ==
    ASSUME StoreInv, Shapes, Silent, [StoreNext]_storeVars
    PROVE  Silent'
<1>0. /\ replica \in Replica /\ Blank(replica) /\ TypeInv /\ StoreTypeOK
      /\ ~Online => inbox = <<>>
      /\ replica.flushTimer => replica.status = "ready"
  BY DEF StoreInv, BaseInv, TypeInv, StoreTypeOK, Pages, Shapes, Whole
<1>1. CASE Online'
  BY <1>1 DEF Silent
<1>2. ASSUME replica'.status = replica.status, ~Online => outbox' = outbox PROVE Silent'
  BY <1>2 DEF Silent, Online
<1>3. ASSUME Aside, NEW k, k.status = replica.status, FlushNow(k) \/ outbox' = outbox
      PROVE  Silent'
  <2>1. ~Online => outbox' = outbox
    BY <1>3 DEF FlushNow, Online
  <2> QED
    BY <1>2, <1>3, <2>1 DEF Aside, SameCopies
<1>4. ASSUME NEW d \in Doc, NEW e \in Edit, UserCreate(d, e) PROVE Silent'
  <2>1. Create(replica, d, {e}).status = replica.status
    BY <1>0, CreateFacts DEF Alters, Version
  <2> QED
    BY <1>0, <1>3, <1>4, <2>1, CreateAside DEF UserCreate
<1>5. ASSUME NEW d \in Doc, NEW e \in Edit, UserChange(d, e) PROVE Silent'
  BY <1>0, <1>3, <1>5, ChangeAside DEF UserChange, netVars
<1>6. ASSUME NEW d \in Doc, UserDelete(d) PROVE Silent'
  <2>1. Delete(replica, d).status = replica.status
    BY <1>0, RemovedFacts DEF Alters
  <2>2. FlushNow(Delete(replica, d)) \/ outbox' = outbox
    BY <1>6 DEF UserDelete
  <2> QED
    BY <1>0, <1>3, <1>6, <2>1, <2>2, DeleteAside
<1>7. CASE FlushTimer
  <2>1. Online' = Online /\ Online
    BY <1>0, <1>7, FlushTimerAside DEF Aside, SameCopies, FlushTimer, Online
  <2> QED
    BY <1>1, <2>1
<1>8. CASE OnMessage
  <2>1. replica'.status = replica.status /\ Online
    BY <1>0, <1>8, HeardReads DEF OnMessage
  <2> QED
    BY <1>2, <2>1
<1>9. CASE OnSyncComplete \/ Connect
  <2>1. Online'
    BY <1>0, <1>9, SyncHeard DEF Connect, Online, Replica
  <2> QED
    BY <1>1, <2>1
<1>10. CASE Lose \/ Close \/ Logout \/ OnSyncError
  BY <1>10 DEF Lose, Close, Logout, OnSyncError, Forget, Hangup, Silent
<1>11. ASSUME NEW m \in Unread, Read(m), replica' = replica PROVE Silent'
  <2>1. ~Online => outbox' = outbox
    BY <1>11 DEF Silent, Read, ReadLate, ReadSent
  <2> QED
    BY <1>2, <1>11, <2>1
<1>12. CASE ServerStep \/ ServerRefuse("forbidden")
  <2>1. replica' = replica /\ \E m \in Unread : Read(m)
    BY <1>12 DEF ServerStep, ServerAccept, ServerRefuse, ServerIgnore, Read
  <2> QED
    BY <1>11, <2>1
<1>13. CASE Load
  <2>1. replica.status = "disconnected" /\ outbox' = outbox
    BY <1>0, <1>13, NewReplicaFacts DEF Load, StoreInv, Pages, netVars
  <2> QED
    BY <2>1 DEF Silent, Online
<1>14. CASE Open \/ BackupStep \/ ClearStep
            \/ \E d \in Doc : \/ OthersChange("-", d, Null)
                              \/ \E e \in Edit : \/ OthersChange("+", d, {e})
                                                \/ OthersChange("*", d, {e})
  <2>1. replica' = replica /\ outbox' = outbox
    BY <1>14 DEF Open, BackupStep, BackupTimer, BackupEnd, BackupWrite, ClearStep,
                 ClearDatabase, ClearRevision, OthersChange, netVars
  <2> QED
    BY <1>2, <2>1
<1>15. CASE UNCHANGED storeVars
  BY <1>2, <1>15 DEF storeVars, netVars
<1> QED
  BY <1>4, <1>5, <1>6, <1>7, <1>8, <1>9, <1>10, <1>12, <1>13, <1>14, <1>15
     DEF StoreNext, PageStep

\* While a connection lasts, nothing is added to what is left of earlier ones.
LEMMA TimelyStep ==
    ASSUME StoreInv, StoreNext, page' = "open", ~(Online /\ ~Online'),
           Online => Timely, ~Online /\ Online' => \A m \in Range(late) : ~Creation(m)
    PROVE  Timely'
<1>0. TypeInv /\ StoreTypeOK /\ late \in Seq(ClientMessage)
  BY DEF StoreInv, BaseInv, TypeInv, StoreTypeOK
<1>1. CASE Range(late') \subseteq Range(late)
  BY <1>1 DEF Timely
<1>2. ~Close /\ ~Logout /\ ~OnSyncError
  BY DEF Close, Logout, OnSyncError, Forget
<1>3. CASE Lose
  BY <1>3 DEF Lose, Online, Timely, StoreTypeOK, Replica
<1>4. CASE ServerStep \/ ServerRefuse("forbidden")
  <2>1. PICK m \in Unread : Read(m)
    BY <1>4 DEF ServerStep, ServerAccept, ServerRefuse, ServerIgnore, Read
  <2>2. late' = late \/ (late # <<>> /\ late' = Tail(late))
    BY <2>1 DEF Read, ReadLate, ReadSent
  <2> QED
    BY <1>0, <1>1, <2>2, TailRange
<1>5. CASE PageStep \/ BackupStep \/ ClearStep
           \/ \E d \in Doc : \/ UserDelete(d)
                             \/ OthersChange("-", d, Null)
                             \/ \E e \in Edit : \/ UserCreate(d, e) \/ UserChange(d, e)
                                               \/ OthersChange("+", d, {e})
                                               \/ OthersChange("*", d, {e})
  <2>1. late' = late
    BY <1>5 DEF PageStep, Open, Load, Connect, OnMessage, OnSyncComplete, FlushTimer,
                BackupStep, BackupTimer, BackupEnd, BackupWrite, ClearStep, ClearDatabase,
                ClearRevision, UserDelete, UserCreate, UserChange, OthersChange, serverVars
  <2> QED
    BY <1>1, <2>1
<1> QED
  BY <1>2, <1>3, <1>4, <1>5 DEF StoreNext

\* What is in hand while the page is open, since it was loaded.
SettledInv ==
    /\ GraveInv /\ Shapes
    /\ ~mixed => Silent
    /\ page = "open" /\ ~mixed /\ ~lost => InHand /\ Timely

LEMMA SettledInvInit == MCInit => SettledInv
<1> SUFFICES ASSUME MCInit PROVE SettledInv
  OBVIOUS
<1>1. page = "closed" /\ replica = NewReplica /\ disk = [d \in Doc |-> NoItem] /\ outbox = <<>>
  BY DEF MCInit, StoreInitWith
<1>2. \A d \in Doc : Nested(disk[d])
  BY <1>1 DEF Nested, NoItem
<1> QED
  BY <1>1, <1>2, NewWhole, GraveInvInit DEF SettledInv, Shapes, Silent

LEMMA SettledInvStep == SettledInv /\ [MCNext]_MCVars => SettledInv'
<1> SUFFICES ASSUME SettledInv, [MCNext]_MCVars PROVE SettledInv'
  OBVIOUS
<1>1. GraveInv' /\ GraveInv
  BY GraveInvStep DEF SettledInv
<1>2. [StoreNext]_storeVars /\ MCInv /\ MCInv'
  BY <1>1, MCSteps DEF GraveInv, MCInv, MCNext, MCVars
<1>3. Shapes'
  BY <1>2, ShapesStep DEF SettledInv, MCInv, BaseInv
<1>4. ASSUME page' = "open", ~mixed', ~lost' PROVE InHand' /\ Timely'
  <2>1. CASE UNCHANGED MCVars
    <3>1. InHand /\ Timely
      BY <1>4, <2>1 DEF SettledInv, MCVars, storeVars
    <3> QED
      BY <2>1, <3>1, HandSame DEF MCVars, storeVars, serverVars, netVars, Timely, Online
  <2>2. CASE MCNext
    <3>1. /\ ~mixed
          /\ page = "open" => ~lost
          /\ ~(Online /\ ~Online')
          /\ ~Online /\ Online' => \A m \in Range(late) : ~Creation(m)
          /\ NothingDropped
      <4>1. mixed' = (mixed \/ ~Orderly')
        BY <2>2 DEF MCNext, Remember
      <4>2. lost' = /\ ~mixed' /\ page' = "open"
                    /\ \/ lost
                       \/ Online /\ ~Online'
                       \/ ~Online /\ Online' /\ \E m \in Range(late) :
                             m.kind = "change" /\ m.op = "+"
                       \/ \E d \in Doc : /\ Creating(replica, d)
                                         /\ ~Creating(replica', d)
                                         /\ replica'.items[d].remote = Null
        BY <2>2, Zenon DEF MCNext, Remember
      <4> QED
        BY <1>4, <4>1, <4>2 DEF NothingDropped, Remote, Creation
    <3>2. StoreInv /\ StoreInv' /\ Shapes /\ Silent
      BY <1>2, <1>4, <3>1 DEF MCInv, SettledInv
    <3>3. page = "open" => InHand /\ Timely
      BY <3>1 DEF SettledInv
    <3>6. Timely'
      <4>1. Online => page = "open"
        BY <3>2, NewReplicaFacts DEF StoreInv, Pages, Online
      <4>2. StoreNext
        BY <1>2, <2>2, MCSteps DEF MCInv, MCNext
      <4> QED
        BY <1>4, <3>1, <3>2, <3>3, <4>1, <4>2, TimelyStep
    <3>4. CASE Load
      BY <3>2, <3>4, <3>6, HandLoad DEF StoreInv, BaseInv, TypeInv
    <3>5. ASSUME ~Load PROVE InHand'
      <4>1. Step
        BY <2>2 DEF MCNext
      <4>2. page = "open" /\ InHand /\ Timely
        <5>1. page' # page => page' \in {"closed", "loading"} \/ Load
          BY <1>2, StoreSteps, MessageHeard, SyncHeard, <3>2
             DEF StoreInv, BaseInv, Aside, Turned, Closes, Changes, Heard, Open, Connect, Lose,
                 BackupTimer, ClearDatabase, ClearRevision, BackupEnd, BackupWrite, storeVars
        <5> QED
          BY <1>4, <3>3, <3>5, <5>1
      <4>3. CASE Connect
        <5>1. outbox = <<>>
          BY <3>2, <4>3 DEF Connect, Online, Silent
        <5>2. \A m \in Range(outbox) : ~Creation(m)
          BY <5>1 DEF Range
        <5> QED
          BY <3>2, <4>2, <4>3, <5>2, HandConnect
      <4>4. CASE OnMessage \/ OnSyncComplete \/ FlushTimer
        BY <3>1, <3>2, <4>2, <4>4, HandHeard, HandSync, HandTimer
      <4>5. CASE BackupStep \/ ClearStep
        <5>1. replica' = replica /\ docs' = docs /\ outbox' = outbox /\ inbox' = inbox
          BY <4>5 DEF BackupStep, BackupTimer, BackupEnd, BackupWrite, ClearStep, ClearDatabase,
                      ClearRevision, serverVars, netVars
        <5> QED
          BY <4>2, <5>1, HandSame
      <4>6. CASE ServerStep \/ ServerRefuse("forbidden")
        BY <3>2, <4>2, <4>6, HandAccept, HandTurned DEF ServerStep
      <4>7. CASE Open \/ Close \/ Logout
        BY <1>4, <4>7 DEF Open, Close, Logout, Forget
      <4>8. CASE Lose
        <5>1. Online /\ ~Online'
          BY <4>8, <3>2 DEF Lose, Online, StoreInv, BaseInv, TypeInv, StoreTypeOK, Replica
        <5> QED
          BY <3>1, <5>1
      <4>9. ASSUME Prompt, NEW d \in UserDocs, UserDelete(d) PROVE InHand'
        BY <3>2, <4>2, <4>9, UserDocsAssumption, HandDelete DEF Prompt
      <4>10. ASSUME Prompt, NEW d \in UserDocs, NEW e \in Edit,
                    UserCreate(d, e) \/ UserChange(d, e)
             PROVE  InHand'
        BY <3>1, <3>2, <4>2, <4>10, UserDocsAssumption, HandCreate, HandChange DEF Prompt
      <4>11. ASSUME NEW d \in Doc, OthersChange("-", d, Null) PROVE InHand'
        BY <3>2, <4>2, <4>11, HandOthers
      <4>12. ASSUME NEW d \in Doc \ UserDocs, NEW e \in Edit, OthersChange("*", d, {e})
             PROVE  InHand'
        BY <3>2, <4>2, <4>12, HandOthers
      <4>13. CASE /\ Prompt /\ made # Edit
                  /\ LET e == CHOOSE e \in Edit \ made : TRUE IN
                     /\ made' = made \cup {e}
                     /\ \/ \E d \in UserDocs : UserCreate(d, e) \/ UserChange(d, e)
                        \/ /\ clock < MaxClock
                           /\ \E d \in Doc \ UserDocs : OthersChange("*", d, {e})
                  /\ UNCHANGED trouble
        <5> DEFINE e == CHOOSE e \in Edit \ made : TRUE
        <5>1. e \in Edit
          BY <1>2, <4>13 DEF MCInv
        <5>2. /\ Prompt
              /\ \/ \E d \in UserDocs : UserCreate(d, e) \/ UserChange(d, e)
                 \/ \E d \in Doc \ UserDocs : OthersChange("*", d, {e})
          BY <4>13
        <5> HIDE DEF e
        <5> QED
          BY <4>10, <4>12, <5>1, <5>2
      <4> QED
        BY <3>5, <4>1, <4>3, <4>4, <4>5, <4>6, <4>7, <4>8, <4>9, <4>11, <4>13
           DEF Step, PageStep, Saving
    <3> QED
      BY <3>4, <3>5, <3>6
  <2> QED
    BY <2>1, <2>2
<1>5. ASSUME ~mixed' PROVE Silent'
  <2>1. ~mixed
    BY <1>5 DEF MCNext, Remember, MCVars
  <2> QED
    BY <1>2, <2>1, SilentStep DEF SettledInv, MCInv
<1> QED
  BY <1>1, <1>3, <1>4, <1>5 DEF SettledInv

\* When nothing is on its way or due, what is in hand has been done.
LEMMA QuietAgrees ==
    ASSUME StoreInv, Shapes, InHand, Quiet, NEW d \in Doc, Gone(d) => Buried(d)
    PROVE  Agree(d)
<1>1. /\ replica.status = "ready" /\ ~replica.flushTimer /\ Range(outbox) = {}
      /\ Range(inbox) = {} /\ inbox = <<>> /\ Online
  BY DEF Quiet, Online, Range
<1>2. ~Denied(d) /\ ~Told(d) /\ \A op, e : ~Sending(op, d) /\ ~Bears(d, e)
  BY <1>1 DEF Denied, Told, Sending, Bears
<1>3. ~Late(replica, d)
  BY <1>1 DEF Late
<1>4. /\ Shaped(replica.items[d]) /\ replica.items[d] \in Item
      /\ ~Has(replica, d) => replica.items[d] = Absent
  BY ItemTypes DEF Shapes, Whole, StoreInv, BaseInv, TypeInv, StoreTypeOK, Blank
<1>5. CASE Live(d)
  <2>1. New(d) /\ Due(d)
    BY <1>1, <1>5 DEF InHand, Gone, Fits
  <2>2. Remote(d) = docs[d].data
    <3>1. Followed(docs[d], Remote(d), inbox, d)
      BY <1>1, <1>5 DEF StoreInv, Followers, Arriving
    <3> QED
      BY <1>1, <3>1 DEF Followed
  <2>3. Remote(d) # Null /\ Asked(d)
    BY <1>2, <1>3, <1>5, <2>1, <2>2 DEF Due, Live
  <2>4. /\ Local(d) # Null /\ Local(d) \ Remote(d) \subseteq docs[d].data
        /\ replica.items[d].state = "synced"
    BY <1>2, <2>3 DEF Asked
  <2>5. Local(d) = Remote(d)
    BY <1>4, <2>4 DEF Shaped, Local, Remote
  <2> QED
    BY <2>2, <2>4, <2>5 DEF Agree, Local
<1>6. CASE ~Exists(d)
  <2>1. docs[d].data = Null /\ Remote(d) = Null
    BY <1>6 DEF StoreInv, BaseInv, RowsDated, TypeInv, StoreTypeOK, Exists, Unheard
  <2>2. New(d) /\ ~Live(d)
    BY <1>1, <1>6, <2>1 DEF InHand, Gone, Fits, Live
  <2>3. ~Has(replica, d)
    BY <1>2, <2>1, <2>2 DEF New
  <2> QED
    BY <1>4, <2>1, <2>3 DEF Agree, Absent
<1>7. CASE Gone(d)
  <2>1. Over(Held(d), inbox, Len(inbox), d)
    BY <1>1, <1>7 DEF Buried, Parting
  <2>2. Held(d) = Null
    BY <1>1, <2>1 DEF Over
  <2>3. Remote(d) = Null /\ Local(d) = Null
    BY <2>2 DEF Held
  <2>4. ~Has(replica, d)
    BY <1>4, <2>3 DEF Shaped, Has, Remote, Local
  <2> QED
    BY <1>7, <2>3, <2>4 DEF Agree, Gone, Live, Local
<1> QED
  BY <1>5, <1>6, <1>7 DEF Gone

\* When nothing is on its way and nothing is due but backups, the user has what the
\* server has, whatever earlier pages left unsent: for any documents and edits, any
\* other user, and however often the page is closed or the user logs out; but for what
\* is lost with a connection, and what the store never had (startSync(), flush(),
\* handleChange() and handleChangeError() in packages/client/src/collection.ts).
THEOREM SettlesUnlessLost == MCSpec => []SettledUnlessLost
<1>1. SettledInv => SettledUnlessLost
  <2> SUFFICES ASSUME SettledInv, Quiet, ~lost, ~mixed, ~cut, NEW d \in Doc \ forgotten
               PROVE  Agree(d)
    BY DEF SettledUnlessLost
  <2>1. StoreInv /\ (Gone(d) => Buried(d))
    BY DEF SettledInv, GraveInv, MCInv, Graves
  <2>2. InHand /\ Shapes
    BY DEF SettledInv, Quiet
  <2> QED
    BY <2>1, <2>2, QuietAgrees
<1> QED
  BY <1>1, SettledInvInit, SettledInvStep, PTL DEF MCSpec
=============================================================================
