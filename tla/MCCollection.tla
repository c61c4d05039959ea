---------------------------- MODULE MCCollection ----------------------------
(***************************************************************************)
(* The collection under clients that may send any request at any time, for *)
(* TLC: at most MaxRev revisions, and MaxBacklog messages on their way to  *)
(* a session when it is asked something.                                   *)
(***************************************************************************)
EXTENDS Collection

CONSTANTS MaxRev, MaxBacklog

\* Documents are created empty, and an update carries an edit.
Requests ==
    {m \in ClientMessage :
        m.kind = "change" => \/ m.op = "-"
                             \/ m.op = "+" /\ m.data = {}
                             \/ m.op = "*" /\ Cardinality(m.data) = 1}

\* One connection at a time; the API is the other author.
Alone == \A s \in Session : stage[s] = "idle"

Room(s) == Len(wire[s]) + Len(mailbox[s]) < MaxBacklog

\* A revision is left for one more change than those asked for already.
RevisionLeft == colrev + Cardinality({s \in Session : call[s].kind = "change"}) < MaxRev

Sym == Permutations(Doc) \cup Permutations(Edit)

MCNext ==
    \/ \E s \in Session :
          \/ Subscribe(s) \/ Exit(s) \/ Close(s) \/ Receive(s)
          \/ Forward(s)
          \/ ServeSync(s)
          \/ ServeGet(s)
          \/ ServeChange(s) \/ Fail(s)
          \/ Alone /\ \E r \in 0..MaxRev : Connect(s, r)
          \/ Room(s) /\ \E m \in Requests : (m.kind = "change" => RevisionLeft) /\ Take(s, m)
    \/ RevisionLeft /\ \E m \in Requests \cap ChangeRequest : ApiChange(m)
    \/ \E d \in Doc : Lock(d)

MCSpec == Init /\ [][MCNext]_colVars
=============================================================================
