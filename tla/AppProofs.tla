------------------------------ MODULE AppProofs ------------------------------
(***************************************************************************)
(* Requests of any users about a space, in any mix and with any mishaps:   *)
(* who is a member has agreed to be, and in a high rank by an owner's      *)
(* wish; members have the access that their role gives, and what is        *)
(* recorded of a document or file in two places agrees, unless two         *)
(* requests about it were at once or one was cut short; and a page shows   *)
(* the user's role unless there is something to come or it has missed it.  *)
(*                                                                         *)
(* Then pages that edit the categories of a space: unless edits crossed,   *)
(* all come to have one whole tree.  At the end, what is not about spaces: *)
(* the verdict on a field of a form is on its value, and a person's        *)
(* accounts, tokens and marks are in order once nothing is under way.      *)
(***************************************************************************)
EXTENDS MCRequests, MCCategories, Forms, MCAccounts,
        FiniteSetTheorems, SequenceTheorems, WellFoundedInduction, TLAPS

-----------------------------------------------------------------------------
(* Requests under way *)

Asked ==
    [op: Operation, by: User, to: User, role: Rank, on: Target \cup {Nothing}, pc: Nat,
     calls: Seq(Call), saw: Rank \cup {"none"}]

\* What users ask for, of whom and about what.
Well(k) ==
    /\ k.op \in {"create", "delete", "accept", "decline", "leave"} => k.by = k.to
    /\ k.op \in {"create", "delete"} => k.op = "delete" \/ k.by = Owner
    /\ k.op \in {"accept", "decline"} => k.by = b
    /\ k.op = "invite" => k.to = b
    /\ k.op \in {"invite", "update"} => k.role \in {"admin", "readonly"}
    /\ k.op \in {"accept", "decline", "update", "cancel"} => k.on \in Invite
    /\ k.op \in {"lock", "unlock", "publish", "unpublish", "copy"} => k.on \in DOMAIN docs
    /\ k.op = "upload" => k.on \in File
    /\ k.op = "none" => k = Idle

RequestsTypeOK ==
    /\ SpacesTypeOK /\ ContentTypeOK /\ ProfileTypeOK
    /\ consents \in [User -> Nat] /\ granted \subseteq User \X Rank
    /\ \A q \in Request : Well(req[q])

-----------------------------------------------------------------------------
(* Steps of a request *)

\* Of the requests at most q changes.
Only(q) ==
    /\ req' \in [Request -> Asked]
    /\ \A p \in Request : p # q => req'[p] = req[p]

\* Request q is about what it was about, by whom and of whom.
Alike(q) ==
    /\ req'[q].op = req[q].op /\ req'[q].by = req[q].by /\ req'[q].to = req[q].to
    /\ req'[q].on = req[q].on

\* Request q takes a step to pc n, with these calls queued.
Goes(q, n, calls) ==
    /\ Only(q) /\ Alike(q)
    /\ req'[q].role = req[q].role
    /\ req'[q].pc = n /\ req'[q].calls = calls

Ends(q) == Only(q) /\ req'[q] = Idle

LEMMA IdleTypes == Idle \in Asked
<1>1. Owner \in User /\ "owner" \in Rank /\ Nothing \in Target \cup {Nothing}
  BY SpacesAssumption DEF Rank
<1>2. <<>> \in Seq(Call) /\ "none" \in Operation
  BY DEF Operation
<1> QED
  BY <1>1, <1>2 DEF Idle, Asked

LEMMA AdvanceFacts ==
    ASSUME req \in [Request -> Asked], NEW q \in Request, Advance(q)
    PROVE  Goes(q, req[q].pc + 1, req[q].calls) /\ req'[q].saw = req[q].saw
<1>1. req[q] \in Asked /\ req[q].pc + 1 \in Nat
  BY DEF Asked
<1>2. [req[q] EXCEPT !.pc = req[q].pc + 1] \in Asked
  BY <1>1 DEF Asked
<1>3. req' = [req EXCEPT ![q] = [req[q] EXCEPT !.pc = req[q].pc + 1]]
  BY DEF Advance
<1>4. /\ [req[q] EXCEPT !.pc = @ + 1].op = req[q].op
      /\ [req[q] EXCEPT !.pc = @ + 1].by = req[q].by
      /\ [req[q] EXCEPT !.pc = @ + 1].to = req[q].to
      /\ [req[q] EXCEPT !.pc = @ + 1].role = req[q].role
      /\ [req[q] EXCEPT !.pc = @ + 1].on = req[q].on
      /\ [req[q] EXCEPT !.pc = @ + 1].calls = req[q].calls
      /\ [req[q] EXCEPT !.pc = @ + 1].saw = req[q].saw
      /\ [req[q] EXCEPT !.pc = @ + 1].pc = req[q].pc + 1
  BY <1>1 DEF Asked
<1> HIDE DEF Asked
<1> QED
  BY <1>2, <1>3, <1>4 DEF Goes, Only, Alike

LEMMA DoneFacts ==
    ASSUME req \in [Request -> Asked], NEW q \in Request, Done(q)
    PROVE  Ends(q)
BY IdleTypes DEF Done, Ends, Only

LEMMA AdvanceIfFacts ==
    ASSUME req \in [Request -> Asked], NEW q \in Request, NEW ok, AdvanceIf(q, ok)
    PROVE  \/ ok /\ Goes(q, req[q].pc + 1, req[q].calls)
           \/ ~ok /\ Ends(q)
BY AdvanceFacts, DoneFacts DEF AdvanceIf

LEMMA CallingFacts ==
    ASSUME req \in [Request -> Asked], NEW q \in Request, NEW calls \in Seq(Call),
           Calling(q, calls)
    PROVE  Goes(q, req[q].pc + 1, calls)
<1> DEFINE k == [req[q] EXCEPT !.calls = calls, !.pc = req[q].pc + 1]
<1>1. req[q] \in Asked /\ req[q].pc + 1 \in Nat
  BY DEF Asked
<1>2. k \in Asked
  BY <1>1 DEF Asked
<1>3. req' = [req EXCEPT ![q] = k]
  BY DEF Calling
<1>4. /\ k.op = req[q].op /\ k.by = req[q].by /\ k.to = req[q].to /\ k.role = req[q].role
      /\ k.on = req[q].on /\ k.calls = calls /\ k.pc = req[q].pc + 1
  BY <1>1 DEF Asked
<1> HIDE DEF k
<1> QED
  BY <1>2, <1>3, <1>4 DEF Goes, Only, Alike

LEMMA SawFacts ==
    ASSUME req \in [Request -> Asked], NEW q \in Request, NEW of \in Rank,
           req' = [req EXCEPT ![q].saw = of, ![q].pc = 2]
    PROVE  Goes(q, 2, req[q].calls)
<1> DEFINE k == [req[q] EXCEPT !.saw = of, !.pc = 2]
<1>1. req[q] \in Asked /\ k \in Asked
  BY DEF Asked
<1>2. req' = [req EXCEPT ![q] = k]
  OBVIOUS
<1>3. /\ k.op = req[q].op /\ k.by = req[q].by /\ k.to = req[q].to /\ k.role = req[q].role
      /\ k.on = req[q].on /\ k.calls = req[q].calls /\ k.pc = 2
  BY <1>1 DEF Asked
<1> HIDE DEF k
<1> QED
  BY <1>1, <1>2, <1>3 DEF Goes, Only, Alike

LEMMA RoleFacts ==
    ASSUME req \in [Request -> Asked], NEW q \in Request, NEW r \in Rank,
           req' = [req EXCEPT ![q].role = r, ![q].pc = 3]
    PROVE  Only(q) /\ Alike(q) /\ req'[q].role = r /\ req'[q].pc = 3
           /\ req'[q].calls = req[q].calls
<1> DEFINE k == [req[q] EXCEPT !.role = r, !.pc = 3]
<1>1. req[q] \in Asked /\ k \in Asked
  BY DEF Asked
<1>2. req' = [req EXCEPT ![q] = k]
  OBVIOUS
<1>3. /\ k.op = req[q].op /\ k.by = req[q].by /\ k.to = req[q].to /\ k.role = r
      /\ k.on = req[q].on /\ k.calls = req[q].calls /\ k.pc = 3
  BY <1>1 DEF Asked
<1> HIDE DEF k
<1> QED
  BY <1>1, <1>2, <1>3 DEF Only, Alike

\* A step of request q, which may end it; only an invite that is accepted gives it
\* another role.
Steps(q) ==
    /\ Only(q)
    /\ \/ req'[q] = Idle
       \/ Alike(q) /\ (req[q].op # "accept" => req'[q].role = req[q].role)

LEMMA StepsFacts ==
    ASSUME NEW q \in Request
    PROVE  /\ Ends(q) => Steps(q)
           /\ \A n, calls : Goes(q, n, calls) => Steps(q)
BY DEF Ends, Goes, Steps

DbTypeOK ==
    /\ space \in {"none", "creating", "live", "deleting", "deleted"}
    /\ rows \in [User -> Seq(Rank)]
    /\ invites \in [Invite -> [status: {"none", "sent", "accepted", "declined",
                                        "cancelled", "deleted"},
                               to: User, role: Rank]]

AccessTypeOK == exist \subseteq Group /\ access \in [User -> SUBSET Group]

LEMMA CallTypes ==
    /\ \A do \in {"create", "add", "remove", "delete", "other"}, g \in Group : Ask(do, g) \in Call
    /\ \A r : GroupOf(r) \in Group
    /\ {"members", "readonly"} \subseteq Group
    /\ \A r, s : Moves(r, s) \in Seq(Call)
<1>1. \A do \in {"create", "add", "remove", "delete", "other"}, g \in Group : Ask(do, g) \in Call
  BY DEF Ask, Call
<1>2. (\A r : GroupOf(r) \in Group) /\ {"members", "readonly"} \subseteq Group
  BY DEF GroupOf, Group
<1>3. ASSUME NEW r, NEW s PROVE Moves(r, s) \in Seq(Call)
  <2>1. /\ Ask("add", "readonly") \in Call /\ Ask("remove", "members") \in Call
        /\ Ask("remove", "readonly") \in Call /\ Ask("add", "members") \in Call
    BY <1>1, <1>2
  <2> QED
    BY <2>1 DEF Moves
<1> QED
  BY <1>1, <1>2, <1>3

\* A call to the sync server.
LEMMA MakeCallFacts ==
    ASSUME SpacesTypeOK, NEW q \in Request, MakeCall(q)
    PROVE  /\ Goes(q, req[q].pc, Tail(req[q].calls))
           /\ AccessTypeOK'
<1>1. req \in [Request -> Asked] /\ req[q] \in Asked
  BY DEF SpacesTypeOK, Asked
<1>2. req[q].calls \in Seq(Call) /\ req[q].calls # <<>> /\ req[q].to \in User
  BY <1>1 DEF Asked, MakeCall
<1>3. Tail(req[q].calls) \in Seq(Call) /\ Head(req[q].calls) \in Call
  BY <1>2
<1> DEFINE k == [req[q] EXCEPT !.calls = Tail(req[q].calls)]
<1>4. k \in Asked /\ req' = [req EXCEPT ![q] = k]
  BY <1>1, <1>3 DEF Asked, MakeCall
<1>5. /\ k.op = req[q].op /\ k.by = req[q].by /\ k.to = req[q].to /\ k.role = req[q].role
      /\ k.on = req[q].on /\ k.calls = Tail(req[q].calls) /\ k.pc = req[q].pc
  BY <1>1 DEF Asked
<1>6. Goes(q, req[q].pc, Tail(req[q].calls))
  <2> HIDE DEF k
  <2> QED
    BY <1>1, <1>4, <1>5 DEF Goes, Only, Alike
<1>7. AccessTypeOK'
  <2> DEFINE c == Head(req[q].calls)
  <2>1. c.group \in Group /\ DoCall(req[q].to, c)
    BY <1>3 DEF Call, MakeCall
  <2>2. exist \subseteq Group /\ access \in [User -> SUBSET Group]
    BY DEF SpacesTypeOK
  <2> HIDE DEF c
  <2> QED
    BY <1>2, <2>1, <2>2 DEF DoCall, AccessTypeOK
<1> QED
  BY <1>6, <1>7

LEMMA OwnerRowsFacts ==
    ASSUME NEW s \in Seq(Rank)
    PROVE  /\ OwnerRows(s) \in Seq(Rank)
           /\ Len(OwnerRows(s)) <= Len(s)
           /\ ToSet(OwnerRows(s)) \subseteq ToSet(s)
<1> DEFINE own == {i \in DOMAIN s : s[i] = "owner"}
<1>1. IsFiniteSet(DOMAIN s) /\ Cardinality(DOMAIN s) = Len(s)
  <2>1. PICK n : n = Len(s)
    OBVIOUS
  <2>2. DOMAIN s = 1 .. n /\ n \in Nat
    BY <2>1
  <2>3. IsFiniteSet(1 .. n) /\ Cardinality(1 .. n) = IF 1 > n THEN 0 ELSE n - 1 + 1
    BY <2>2, FS_Interval
  <2>4. Cardinality(1 .. n) = n
    BY <2>2, <2>3
  <2> QED
    BY <2>1, <2>2, <2>3, <2>4
<1>2. IsFiniteSet(own) /\ Cardinality(own) <= Len(s)
  BY <1>1, FS_Subset
<1>3. Cardinality(own) \in Nat
  BY <1>2, FS_CardinalityType
<1>4. OwnerRows(s) = [n \in 1 .. Cardinality(own) |-> "owner"]
  BY DEF OwnerRows
<1>5. OwnerRows(s) \in Seq({"owner"}) /\ Len(OwnerRows(s)) = Cardinality(own)
  BY <1>3, <1>4
<1>6. ASSUME NEW r \in ToSet(OwnerRows(s)) PROVE r \in ToSet(s)
  <2>1. r = "owner" /\ 1 .. Cardinality(own) # {}
    BY <1>4, <1>6 DEF ToSet
  <2>2. own # {}
    BY <2>1, FS_EmptySet
  <2> QED
    BY <2>1, <2>2 DEF ToSet
<1>7. OwnerRows(s) \in Seq(Rank)
  BY <1>5 DEF Rank
<1> QED
  BY <1>2, <1>5, <1>6, <1>7

LEMMA TellTypes ==
    ASSUME ChannelsTypeOK, NEW u \in User, Tell(u)
    PROVE  ChannelsTypeOK' /\ chan' = chan
<1>1. mail[u] + 1 \in Nat
  BY DEF ChannelsTypeOK
<1> QED
  BY <1>1 DEF ChannelsTypeOK, Tell

LEMMA RolesTypes ==
    ASSUME SpacesTypeOK, NEW u \in User
    PROVE  /\ Roles(u) \subseteq Rank \cup {"none"} /\ Roles(u) # {}
           /\ "none" \in Roles(u) <=> rows[u] = <<>>
           /\ \A r \in Roles(u) : r # "none" => r \in ToSet(rows[u])
<1>1. rows[u] \in Seq(Rank)
  BY DEF SpacesTypeOK
<1>2. ASSUME rows[u] # <<>> PROVE rows[u][1] \in ToSet(rows[u])
  BY <1>1, <1>2 DEF ToSet
<1>3. ToSet(rows[u]) \subseteq Rank
  BY <1>1 DEF ToSet
<1>4. "none" \notin Rank
  BY DEF Rank
<1> QED
  BY <1>2, <1>3, <1>4 DEF Roles

\* What a step of a request about members and invites may change.
LEMMA MemberTypes ==
    ASSUME SpacesTypeOK, NEW q \in Request, Well(req[q]), MemberStep(q)
    PROVE  Steps(q) /\ DbTypeOK' /\ AccessTypeOK' /\ ChannelsTypeOK'
<1> DEFINE k == req[q]
<1>1. req \in [Request -> Asked] /\ k \in Asked
  BY DEF SpacesTypeOK, Asked
<1>2. /\ k.by \in User /\ k.to \in User /\ k.role \in Rank /\ k.on \in Target \cup {Nothing}
      /\ k.pc \in Nat
  BY <1>1 DEF Asked
<1>3. DbTypeOK /\ AccessTypeOK /\ ChannelsTypeOK
  BY DEF SpacesTypeOK, DbTypeOK, AccessTypeOK
<1>4. ASSUME UNCHANGED dbVars PROVE DbTypeOK'
  BY <1>3, <1>4 DEF dbVars, DbTypeOK
<1>5. ASSUME UNCHANGED syncVars PROVE AccessTypeOK'
  BY <1>3, <1>5 DEF syncVars, AccessTypeOK
<1>6. ASSUME UNCHANGED channelVars PROVE ChannelsTypeOK'
  BY <1>3, <1>6 DEF channelVars, ChannelsTypeOK
<1>7. ASSUME NEW r \in Seq(Rank), NEW u \in User, rows' = [rows EXCEPT ![u] = r],
             UNCHANGED <<space, invites>>
      PROVE  DbTypeOK'
  BY <1>3, <1>7 DEF DbTypeOK
<1>8. ASSUME NEW i \in Invite, NEW n, SetInvite(i, n), UNCHANGED <<space, rows>>,
             n \in [status: {"none", "sent", "accepted", "declined", "cancelled", "deleted"},
                    to: User, role: Rank]
      PROVE  DbTypeOK'
  BY <1>3, <1>8 DEF DbTypeOK, SetInvite
<1>9. \A i \in Invite :
         invites[i] \in [status: {"none", "sent", "accepted", "declined", "cancelled", "deleted"},
                        to: User, role: Rank]
  BY <1>3 DEF DbTypeOK
<1>10. ASSUME NEW i \in Invite,
              NEW st \in {"none", "sent", "accepted", "declined", "cancelled", "deleted"},
              SetStatus(i, st), UNCHANGED <<space, rows>>
       PROVE  DbTypeOK'
  <2>1. [invites[i] EXCEPT !.status = st] \in
           [status: {"none", "sent", "accepted", "declined", "cancelled", "deleted"},
            to: User, role: Rank]
    BY <1>9
  <2> QED
    BY <1>8, <1>10, <2>1 DEF SetStatus
<1>11. NoInvite \in [status: {"none", "sent", "accepted", "declined", "cancelled", "deleted"},
                     to: User, role: Rank]
  BY SpacesAssumption DEF NoInvite, Rank
<1> HIDE DEF k
<1>20. CASE MakeCall(q)
  BY <1>4, <1>6, <1>20, MakeCallFacts, StepsFacts DEF MakeCall
<1>21. CASE CreateSpace(q)
  <2>1. Steps(q)
    <3>1. /\ <<Ask("create", "readonly"), Ask("create", "members"),
               Ask("other", "members"), Ask("other", "members")>> \in Seq(Call)
          /\ <<Ask("add", "members")>> \in Seq(Call)
      BY CallTypes
    <3> QED
      BY <1>1, <1>21, <3>1, CallingFacts, DoneFacts, StepsFacts DEF CreateSpace
  <2>2. DbTypeOK'
    <3>1. <<"owner">> \in Seq(Rank)
      BY DEF Rank
    <3>2. CASE UNCHANGED rows
      BY <1>3, <1>21, <3>2 DEF CreateSpace, DbTypeOK
    <3>3. CASE rows' = [rows EXCEPT ![Owner] = <<"owner">>] /\ UNCHANGED <<space, invites>>
      BY <1>7, <3>1, <3>3, SpacesAssumption
    <3> QED
      BY <1>21, <3>2, <3>3 DEF CreateSpace
  <2> QED
    BY <1>5, <1>6, <1>21, <2>1, <2>2 DEF CreateSpace
<1>5a. CASE DeleteSpace(q)
  <2>1. Steps(q)
    <3>1. <<Ask("other", "members"), Ask("delete", "readonly"), Ask("delete", "members")>>
             \in Seq(Call)
      BY CallTypes
    <3> QED
      BY <1>1, <1>5a, <3>1, CallingFacts, DoneFacts, AdvanceIfFacts, StepsFacts DEF DeleteSpace
  <2>2. DbTypeOK'
    <3>1. CASE UNCHANGED <<rows, invites>>
      BY <1>3, <1>5a, <3>1 DEF DeleteSpace, DbTypeOK
    <3>2. CASE /\ space' = "deleted" /\ rows' = [u \in User |-> <<>>]
               /\ invites' = [i \in Invite |-> [NoInvite EXCEPT !.status =
                            IF invites[i].status = "none" THEN "none" ELSE "deleted"]]
      BY <1>11, <3>2 DEF DbTypeOK
    <3> QED
      BY <1>5a, <3>1, <3>2 DEF DeleteSpace
  <2> QED
    BY <1>5, <1>6, <1>5a, <2>1, <2>2 DEF DeleteSpace
<1>23. CASE LeaveSpace(q)
  <2>1. Steps(q)
    BY <1>1, <1>23, DoneFacts, StepsFacts DEF LeaveSpace
  <2>2. rows[k.by] \in Seq(Rank)
    BY <1>2, <1>3 DEF DbTypeOK
  <2>3. OwnerRows(rows[k.by]) \in Seq(Rank)
    BY <2>2, OwnerRowsFacts
  <2>4. DbTypeOK'
    BY <1>2, <1>7, <1>23, <2>3 DEF LeaveSpace, k
  <2> QED
    BY <1>5, <1>6, <1>23, <2>1, <2>4 DEF LeaveSpace
<1>24. CASE CheckMember(q)
  <2>1. Steps(q)
    <3>1. ASSUME NEW of \in Roles(k.to), of # "none",
                 req' = [req EXCEPT ![q].saw = of, ![q].pc = 2]
          PROVE  Steps(q)
      <4>1. of \in Rank
        BY <1>2, <3>1, RolesTypes
      <4> QED
        BY <1>1, <3>1, <4>1, SawFacts, StepsFacts
    <3> QED
      BY <1>1, <1>24, <3>1, DoneFacts, AdvanceIfFacts, StepsFacts DEF CheckMember, k
  <2> QED
    BY <1>4, <1>5, <1>6, <1>24, <2>1 DEF CheckMember
<1>25. CASE ChangeMemberRole(q)
  <2>1. Steps(q)
    BY <1>1, <1>25, CallTypes, CallingFacts, DoneFacts, StepsFacts DEF ChangeMemberRole
  <2>2. DbTypeOK'
    <3>1. rows[k.to] \in Seq(Rank)
      BY <1>2, <1>3 DEF DbTypeOK
    <3>2. [i \in DOMAIN rows[k.to] |-> k.role] \in Seq(Rank)
      BY <1>2, <3>1
    <3> QED
      BY <1>2, <1>4, <1>7, <1>25, <3>2 DEF ChangeMemberRole, dbVars, k
  <2>3. ChannelsTypeOK'
    BY <1>2, <1>3, <1>6, <1>25, TellTypes DEF ChangeMemberRole, k
  <2> QED
    BY <1>5, <1>25, <2>1, <2>2, <2>3 DEF ChangeMemberRole
<1>26. CASE RemoveMember(q)
  <2>1. Steps(q)
    <3>1. <<Ask("remove", "members"), Ask("remove", "readonly")>> \in Seq(Call)
      BY CallTypes
    <3> QED
      BY <1>1, <1>26, <3>1, CallingFacts, DoneFacts, StepsFacts DEF RemoveMember
  <2>2. DbTypeOK'
    <3>1. <<>> \in Seq(Rank)
      OBVIOUS
    <3> QED
      BY <1>2, <1>4, <1>7, <1>26, <3>1 DEF RemoveMember, dbVars, k
  <2>3. ChannelsTypeOK'
    BY <1>2, <1>3, <1>6, <1>26, TellTypes DEF RemoveMember, k
  <2> QED
    BY <1>5, <1>26, <2>1, <2>2, <2>3 DEF RemoveMember
<1>27. CASE CreateInvite(q)
  <2>1. Steps(q)
    BY <1>1, <1>27, AdvanceFacts, DoneFacts, AdvanceIfFacts, StepsFacts DEF CreateInvite
  <2>2. DbTypeOK'
    <3>1. CASE UNCHANGED invites
      BY <1>4, <1>27, <3>1 DEF CreateInvite, dbVars
    <3>2. CASE invites' = [i \in Invite |->
                IF invites[i].to = req[q].to /\ invites[i].status = "sent"
                THEN [invites[i] EXCEPT !.status = "deleted"] ELSE invites[i]]
      <4>1. \A i \in Invite : [invites[i] EXCEPT !.status = "deleted"] \in
               [status: {"none", "sent", "accepted", "declined", "cancelled", "deleted"},
                to: User, role: Rank]
        BY <1>9
      <4> QED
        BY <1>3, <1>9, <1>27, <3>2, <4>1 DEF CreateInvite, DbTypeOK
    <3>3. CASE \E i \in Invite :
                 SetInvite(i, [NoInvite EXCEPT !.status = "sent", !.to = k.to, !.role = k.role])
      <4>1. [NoInvite EXCEPT !.status = "sent", !.to = k.to, !.role = k.role] \in
               [status: {"none", "sent", "accepted", "declined", "cancelled", "deleted"},
                to: User, role: Rank]
        BY <1>2, <1>11
      <4> QED
        BY <1>8, <1>27, <3>3, <4>1 DEF CreateInvite
    <3> QED
      BY <1>27, <3>1, <3>2, <3>3 DEF CreateInvite, k
  <2> QED
    BY <1>5, <1>6, <1>27, <2>1, <2>2 DEF CreateInvite
<1>28. CASE CheckInvite(q)
  BY <1>1, <1>4, <1>5, <1>6, <1>28, AdvanceIfFacts, StepsFacts DEF CheckInvite
<1>29. CASE WriteInvite(q)
  <2>1. Steps(q)
    BY <1>1, <1>29, DoneFacts, StepsFacts DEF WriteInvite
  <2>2. k.on \in Invite
    BY <1>29 DEF WriteInvite, At, Well, k
  <2>3. [invites[k.on] EXCEPT !.role = k.role] \in
           [status: {"none", "sent", "accepted", "declined", "cancelled", "deleted"},
            to: User, role: Rank]
    BY <1>2, <1>9, <2>2
  <2>4. DbTypeOK'
    BY <1>4, <1>8, <1>10, <1>29, <2>2, <2>3 DEF WriteInvite, dbVars, k
  <2> QED
    BY <1>5, <1>6, <1>29, <2>1, <2>4 DEF WriteInvite
<1>30. CASE AcceptInvite(q)
  <2>1. k.on \in Invite /\ k.op = "accept"
    BY <1>30 DEF AcceptInvite, At, Well, k
  <2>2. Steps(q)
    <3>1. <<Ask("add", GroupOf(k.role))>> \in Seq(Call)
      BY CallTypes
    <3>2. ASSUME req' = [req EXCEPT ![q].role = invites[k.on].role, ![q].pc = 3]
          PROVE  Steps(q)
      <4> DEFINE n == [req[q] EXCEPT !.role = invites[k.on].role, !.pc = 3]
      <4>1. invites[k.on].role \in Rank
        BY <1>9, <2>1
      <4>2. n \in Asked /\ req' = [req EXCEPT ![q] = n]
        BY <1>1, <3>2, <4>1 DEF Asked, k
      <4>3. n.op = k.op /\ n.by = k.by /\ n.to = k.to /\ n.on = k.on
        BY <1>1 DEF Asked, k
      <4> HIDE DEF n
      <4> QED
        BY <1>1, <2>1, <4>2, <4>3 DEF Steps, Only, Alike, k
    <3> QED
      BY <1>1, <1>30, <3>1, <3>2, CallingFacts, DoneFacts, AdvanceIfFacts, StepsFacts
         DEF AcceptInvite, k
  <2>3. DbTypeOK'
    <3>1. Append(rows[k.by], k.role) \in Seq(Rank)
      BY <1>2, <1>3 DEF DbTypeOK
    <3> QED
      BY <1>2, <1>4, <1>7, <1>10, <1>30, <2>1, <3>1 DEF AcceptInvite, dbVars, k
  <2> QED
    BY <1>5, <1>6, <1>30, <2>2, <2>3 DEF AcceptInvite
<1>31. CASE DeclineInvite(q)
  <2>1. Steps(q)
    BY <1>1, <1>31, DoneFacts, StepsFacts DEF DeclineInvite
  <2>2. k.on \in Invite
    BY <1>31 DEF DeclineInvite, At, Well, k
  <2>3. DbTypeOK'
    BY <1>4, <1>10, <1>31, <2>2 DEF DeclineInvite, dbVars, k
  <2> QED
    BY <1>5, <1>6, <1>31, <2>1, <2>3 DEF DeclineInvite
<1> QED
  BY <1>20, <1>21, <1>5a, <1>23, <1>24, <1>25, <1>26, <1>27, <1>28, <1>29, <1>30, <1>31
     DEF MemberStep

DocFields == [there: BOOLEAN, open: BOOLEAN, locked: BOOLEAN, published: BOOLEAN]

ContentOps == {"lock", "unlock", "publish", "unpublish", "copy", "upload"}

\* A document is written, or made.
LEMMA SetFacts ==
    ASSUME ContentTypeOK, NEW d \in DOMAIN docs, NEW n \in DocFields, Set(d, n)
    PROVE  /\ DOMAIN docs' = DOMAIN docs /\ docs' \in [DOMAIN docs' -> DocFields]
           /\ docs'[d] = n /\ \A e \in DOMAIN docs : e # d => docs'[e] = docs[e]
BY DEF ContentTypeOK, Set, DocFields

LEMMA CopyFacts ==
    ASSUME ContentTypeOK, NEW new \in Doc \ DOMAIN docs,
           docs' = [d \in DOMAIN docs \cup {new} |-> IF d = new THEN NewDoc ELSE docs[d]]
    PROVE  /\ DOMAIN docs' = DOMAIN docs \cup {new} /\ docs' \in [DOMAIN docs' -> DocFields]
           /\ docs'[new] = NewDoc /\ \A e \in DOMAIN docs : docs'[e] = docs[e]
<1>2. NewDoc \in DocFields
  BY DEF NewDoc, DocFields
<1>3. \A d \in DOMAIN docs : docs[d] \in DocFields
  BY DEF ContentTypeOK, DocFields
<1> QED
  BY <1>2, <1>3

\* What a step of a request about content may change.
LEMMA ContentTypes ==
    ASSUME SpacesTypeOK, ContentTypeOK, NEW q \in Request, Well(req[q]), ContentStep(q)
    PROVE  /\ Ends(q) \/ Goes(q, req[q].pc + 1, req[q].calls)
           /\ req[q].op \in ContentOps
           /\ UNCHANGED <<dbVars, syncVars, channelVars>>
           /\ ContentTypeOK' /\ DOMAIN docs \subseteq DOMAIN docs'
<1> DEFINE k == req[q]
<1>1. req \in [Request -> Asked] /\ k \in Asked
  BY DEF SpacesTypeOK, Asked
<1>2. /\ k.op \in ContentOps \ {"upload"} => k.on \in DOMAIN docs /\ docs[k.on] \in DocFields
      /\ k.op = "upload" => k.on \in File
  BY DEF Well, ContentOps, ContentTypeOK, DocFields
<1>3. ASSUME UNCHANGED contentVars PROVE ContentTypeOK' /\ DOMAIN docs \subseteq DOMAIN docs'
  BY <1>3 DEF contentVars, fileVars, ContentTypeOK
<1>4. ASSUME NEW d \in DOMAIN docs, NEW n \in DocFields, Set(d, n), UNCHANGED <<posts, fileVars>>
      PROVE  ContentTypeOK' /\ DOMAIN docs \subseteq DOMAIN docs'
  BY <1>4, SetFacts DEF fileVars, ContentTypeOK, DocFields
<1> HIDE DEF k
<1>5. CASE CheckRole(q)
  BY <1>1, <1>3, <1>5, AdvanceIfFacts DEF CheckRole, At, ContentOps
<1>6. CASE LockDocument(q)
  <2>1. k.on \in DOMAIN docs /\ docs[k.on] \in DocFields /\ k.op \in ContentOps
    BY <1>2, <1>6 DEF LockDocument, ContentOps, k
  <2>2. \A x \in BOOLEAN : /\ [docs[k.on] EXCEPT !.open = x] \in DocFields
                           /\ [docs[k.on] EXCEPT !.locked = x] \in DocFields
    BY <2>1 DEF DocFields
  <2>3. ContentTypeOK' /\ DOMAIN docs \subseteq DOMAIN docs'
    BY <1>3, <1>4, <1>6, <2>1, <2>2 DEF LockDocument, contentVars, k
  <2> QED
    BY <1>1, <1>6, <2>1, <2>3, AdvanceFacts, AdvanceIfFacts, DoneFacts DEF LockDocument, k
<1>7. CASE PublishPost(q) \/ UnpublishPost(q)
  <2>1. /\ k.on \in DOMAIN docs /\ k.on \in Doc /\ docs[k.on] \in DocFields /\ k.op \in ContentOps
    BY <1>2, <1>7 DEF PublishPost, UnpublishPost, At, ContentOps, k, ContentTypeOK
  <2>2. \A x \in BOOLEAN : [docs[k.on] EXCEPT !.published = x] \in DocFields
    BY <2>1 DEF DocFields
  <2>3. ContentTypeOK' /\ DOMAIN docs \subseteq DOMAIN docs'
    <3>1. CASE UNCHANGED docs
      <4>1. posts' \subseteq Doc
        BY <1>7, <2>1 DEF PublishPost, UnpublishPost, ContentTypeOK, k
      <4> QED
        BY <1>7, <3>1, <4>1 DEF PublishPost, UnpublishPost, ContentTypeOK, fileVars
    <3>2. CASE \E x \in BOOLEAN : SetPublished(q, x) /\ UNCHANGED <<posts, fileVars>>
      BY <1>3, <1>4, <2>1, <2>2, <3>2 DEF SetPublished, contentVars, k
    <3> QED
      BY <1>7, <3>1, <3>2 DEF PublishPost, UnpublishPost
  <2> QED
    BY <1>1, <1>7, <2>1, <2>3, AdvanceFacts, AdvanceIfFacts, DoneFacts
       DEF PublishPost, UnpublishPost, SetPublished, k
<1>8. CASE UploadFile(q)
  <2>1. k.on \in File /\ k.op \in ContentOps
    BY <1>2, <1>8 DEF UploadFile, At, ContentOps, k
  <2>2. stored' \subseteq File /\ files' \subseteq File /\ usedStorage' \in Nat
    BY <1>8, <2>1 DEF UploadFile, fileVars, ContentTypeOK, k
  <2> QED
    BY <1>1, <1>8, <2>1, <2>2, AdvanceFacts, AdvanceIfFacts, DoneFacts
       DEF UploadFile, ContentTypeOK, k
<1>9. CASE CopyRoles(q)
  BY <1>1, <1>3, <1>9, AdvanceIfFacts DEF CopyRoles, At, ContentOps
<1>10. CASE CopyDocument(q)
  <2>1. ContentTypeOK' /\ DOMAIN docs \subseteq DOMAIN docs'
    <3>1. CASE UNCHANGED docs
      BY <1>3, <1>10, <3>1 DEF CopyDocument, contentVars
    <3>2. CASE \E new \in Doc \ DOMAIN docs :
                 docs' = [d \in DOMAIN docs \cup {new} |-> IF d = new THEN NewDoc ELSE docs[d]]
      BY <1>10, <3>2, CopyFacts DEF CopyDocument, ContentTypeOK, fileVars, DocFields
    <3>3. ASSUME Doc # DOMAIN docs
          PROVE  (CHOOSE d \in Doc : d \notin DOMAIN docs) \in Doc \ DOMAIN docs
      BY <3>3 DEF ContentTypeOK
    <3> QED
      BY <1>10, <3>1, <3>2, <3>3 DEF CopyDocument
  <2> QED
    BY <1>1, <1>10, <2>1, AdvanceIfFacts, DoneFacts DEF CopyDocument, At, ContentOps
<1> QED
  BY <1>5, <1>6, <1>7, <1>8, <1>9, <1>10 DEF ContentStep

-----------------------------------------------------------------------------
(* The steps, by kind *)

Members(q)  == MemberStep(q) /\ SpaceContent(q) /\ UNCHANGED profileVars /\ Requesting({})
Contents(q) == ContentStep(q) /\ UNCHANGED profileVars /\ Requesting({})
Sends(q)    == Send(q) /\ UNCHANGED <<contentVars, profileVars>> /\ Requesting({})
Fails(q)    ==
    /\ CallFails(q) \/ StepFails(q)
    /\ UNCHANGED <<dbVars, syncVars, channelVars, contentVars, profileVars>>
    /\ Requesting({q})
Deletes(d)  == DeleteDoc(d) /\ UNCHANGED profileVars /\ Requesting({})
Stops       == Restart /\ UNCHANGED contentVars /\ Requesting(Underway)

PageStep(u) ==
    \/ u \in open /\ ProfileStep(u)
    \/ OpenPage(u) \/ LoseChannel(u)
    \/ \E i \in DOMAIN fetches[u] : FetchFails(u, i)

Pages(u) ==
    PageStep(u) /\ UNCHANGED <<dbVars, syncVars, req, contentVars>> /\ Requesting({})

LEMMA StepKinds ==
    ASSUME ProfileTypeOK, [RequestsNext]_requestsVars
    PROVE  \/ UNCHANGED requestsVars
           \/ \E q \in Request : /\ req[q].op # "none"
                                 /\ Members(q) \/ Contents(q) \/ Fails(q)
           \/ \E q \in Request : Sends(q)
           \/ \E d \in DOMAIN docs : Deletes(d)
           \/ \E u \in Page : Pages(u)
           \/ Stops
<1>1. open \subseteq Page
  BY DEF ProfileTypeOK
<1>2. NextRequest \subseteq Request
  BY DEF NextRequest
<1>3. ASSUME NEW u, ProfileStep(u) PROVE UNCHANGED <<dbVars, syncVars, req>>
  BY <1>3 DEF ProfileStep, ConnectChannel, OnProfile, Retry, ReadProfile, UpdateUser,
              spacesVars, dbVars, syncVars
<1>4. ASSUME NEW u, OpenPage(u) \/ LoseChannel(u) \/ \E i \in DOMAIN fetches[u] : FetchFails(u, i)
      PROVE  UNCHANGED <<dbVars, syncVars, req>>
  BY <1>4 DEF OpenPage, LoseChannel, FetchFails, spacesVars, dbVars, syncVars
<1>5. ASSUME NEW q, CallFails(q) PROVE UNCHANGED <<dbVars, syncVars, channelVars>>
  BY <1>5 DEF CallFails
<1>6. ASSUME NEW q, StepFails(q)
      PROVE  UNCHANGED <<dbVars, syncVars, channelVars, contentVars>>
  BY <1>6 DEF StepFails
<1> QED
  BY <1>1, <1>2, <1>3, <1>4, <1>5, <1>6
     DEF RequestsNext, Members, Contents, Sends, Fails, Deletes, Stops, PageStep, Pages, Underway

\* A request whose call fails goes on; one whose step fails ends.
LEMMA FailsFacts ==
    ASSUME SpacesTypeOK, NEW q \in Request, Fails(q)
    PROVE  \/ req[q].calls # <<>> /\ Goes(q, req[q].pc, Tail(req[q].calls))
           \/ StepFails(q) /\ Ends(q)
<1>1. req \in [Request -> Asked] /\ req[q] \in Asked
  BY DEF SpacesTypeOK, Asked
<1>2. CASE CallFails(q)
  <2> DEFINE k == [req[q] EXCEPT !.calls = Tail(req[q].calls)]
  <2>1. req[q].calls \in Seq(Call) /\ req[q].calls # <<>>
    BY <1>1, <1>2 DEF CallFails, Asked
  <2>2. k \in Asked /\ req' = [req EXCEPT ![q] = k]
    <3>1. Tail(req[q].calls) \in Seq(Call)
      BY <2>1
    <3> QED
      BY <1>1, <1>2, <3>1 DEF CallFails, Asked
  <2>3. k.op = req[q].op /\ k.by = req[q].by /\ k.to = req[q].to /\ k.on = req[q].on
        /\ k.role = req[q].role /\ k.pc = req[q].pc /\ k.calls = Tail(req[q].calls)
    BY <1>1 DEF Asked
  <2> HIDE DEF k
  <2> QED
    BY <1>1, <2>1, <2>2, <2>3 DEF Goes, Only, Alike
<1>3. CASE StepFails(q)
  BY <1>1, <1>3, DoneFacts DEF StepFails
<1> QED
  BY <1>2, <1>3 DEF Fails

LEMMA PageTypes ==
    ASSUME ProfileTypeOK, SpacesTypeOK, NEW u \in Page, PageStep(u)
    PROVE  ProfileTypeOK' /\ ChannelsTypeOK'
<1>1. /\ u \in User /\ ChannelsTypeOK
      /\ fetches[u] \in Seq(Shown \cup {"asked"}) /\ Len(fetches[u]) \in Nat
  BY ProfileAssumption DEF SpacesTypeOK, ProfileTypeOK
<1>2. ASSUME Fetch(u) PROVE /\ fetches' \in [Page -> Seq(Shown \cup {"asked"})]
                           /\ retry' \subseteq Page
  <2>1. Append(fetches[u], "asked") \in Seq(Shown \cup {"asked"})
    BY <1>1
  <2> QED
    BY <1>2, <2>1 DEF Fetch, ProfileTypeOK
<1>3. ASSUME NEW i \in DOMAIN fetches[u]
      PROVE  /\ RemoveAt(fetches[u], i) \in Seq(Shown \cup {"asked"})
             /\ fetches[u][i] \in Shown \cup {"asked"}
  <2>1. i \in 1 .. Len(fetches[u])
    BY <1>1
  <2>2. /\ SubSeq(fetches[u], 1, i - 1) \in Seq(Shown \cup {"asked"})
        /\ SubSeq(fetches[u], i + 1, Len(fetches[u])) \in Seq(Shown \cup {"asked"})
    BY <1>1, <2>1
  <2> QED
    BY <1>1, <2>1, <2>2 DEF RemoveAt
<1>4. CASE ConnectChannel(u)
  BY <1>1, <1>4 DEF ConnectChannel, ChannelUp, profileVars, ProfileTypeOK, ChannelsTypeOK
<1>5. CASE OnProfile(u)
  <2>1. mail[u] - 1 \in Nat
    BY <1>1, <1>5 DEF OnProfile, ChannelsTypeOK
  <2> QED
    BY <1>1, <1>2, <1>5, <2>1 DEF OnProfile, ProfileTypeOK, ChannelsTypeOK
<1>6. CASE Retry(u) \/ OpenPage(u)
  BY <1>1, <1>2, <1>6 DEF Retry, OpenPage, spacesVars, channelVars, ProfileTypeOK, ChannelsTypeOK
<1>7. CASE \E i \in DOMAIN fetches[u] : ReadProfile(u, i)
  <2>1. PICK i \in DOMAIN fetches[u] : ReadProfile(u, i)
    BY <1>7
  <2>2. PICK r \in Roles(u) : fetches' = [fetches EXCEPT ![u][i] = r]
    BY <2>1 DEF ReadProfile
  <2>3. r \in Shown
    BY <1>1, <2>2, RolesTypes DEF Shown
  <2>4. [fetches[u] EXCEPT ![i] = r] \in Seq(Shown \cup {"asked"})
    BY <1>1, <2>3
  <2>5. fetches' = [fetches EXCEPT ![u] = [fetches[u] EXCEPT ![i] = r]]
    BY <2>2
  <2> QED
    BY <1>1, <2>1, <2>4, <2>5 DEF ReadProfile, spacesVars, channelVars, ProfileTypeOK, ChannelsTypeOK
<1>8. CASE \E i \in DOMAIN fetches[u] : UpdateUser(u, i)
  <2>1. PICK i \in DOMAIN fetches[u] : UpdateUser(u, i)
    BY <1>8
  <2>2. fetches[u][i] \in Shown
    BY <1>3, <2>1 DEF UpdateUser
  <2> QED
    BY <1>1, <1>3, <2>1, <2>2 DEF UpdateUser, spacesVars, channelVars, ProfileTypeOK, ChannelsTypeOK
<1>9. CASE LoseChannel(u)
  BY <1>1, <1>9 DEF LoseChannel, ChannelDown, profileVars, ProfileTypeOK, ChannelsTypeOK
<1>10. CASE \E i \in DOMAIN fetches[u] : FetchFails(u, i)
  BY <1>1, <1>3, <1>10 DEF FetchFails, spacesVars, channelVars, ProfileTypeOK, ChannelsTypeOK
<1> QED
  BY <1>4, <1>5, <1>6, <1>7, <1>8, <1>9, <1>10 DEF PageStep, ProfileStep

\* A request that begins.
LEMMA SendFacts ==
    ASSUME SpacesTypeOK, ContentTypeOK, NEW q \in Request, Send(q)
    PROVE  /\ req[q].op = "none" /\ Only(q)
           /\ req'[q].pc = 1 /\ req'[q].calls = <<>> /\ req'[q].op # "none"
           /\ Well(req'[q])
           /\ IF space = "none" THEN req'[q].op = "create" ELSE req'[q].op # "create"
           /\ space # "creating"
           /\ UNCHANGED <<dbVars, syncVars, channelVars>>
<1>1. PICK r \in Requests :
         /\ r[1] \in {"change", "remove"} => r[2] # r[3]
         /\ IF space = "none" THEN r[1] = "create" ELSE r[1] # "create"
         /\ space # "creating"
         /\ Begin(q, r[1], r[2], r[3], r[4], r[5])
  BY DEF Send
<1> DEFINE k == [Idle EXCEPT !.op = r[1], !.by = r[2], !.to = r[3], !.role = r[4],
                             !.on = r[5], !.pc = 1]
<1>2. /\ a \in User /\ b \in User /\ Owner \in User /\ Invite \subseteq Target /\ i1 \in Invite
      /\ Doc \cup File \subseteq Target /\ DOMAIN docs \subseteq Doc
  BY SpacesAssumption, ContentAssumption, RequestsAssumption DEF ContentTypeOK
<1>3. /\ r[1] \in Operation \ {"none"} /\ r[2] \in User /\ r[3] \in User /\ r[4] \in Rank
      /\ r[5] \in Target \cup {Nothing}
  <2>1. {"create", "delete", "leave", "change", "remove", "invite", "update", "cancel",
         "accept", "decline", "lock", "unlock", "publish", "unpublish", "copy", "upload"}
           \subseteq Operation \ {"none"}
    BY DEF Operation
  <2> QED
    BY <1>1, <1>2, <2>1 DEF Requests, Grants, Rank
<1>4. req \in [Request -> Asked] /\ req' = [req EXCEPT ![q] = k] /\ req[q].op = "none"
  BY <1>1 DEF Begin, SpacesTypeOK, Asked
<1>5. /\ k \in Asked /\ k.op = r[1] /\ k.by = r[2] /\ k.to = r[3] /\ k.role = r[4] /\ k.on = r[5]
      /\ k.pc = 1 /\ k.calls = <<>>
  BY <1>3, IdleTypes DEF Idle, Asked
<1>6. /\ r[1] \in {"create", "delete", "accept", "decline", "leave"} => r[2] = r[3]
      /\ r[1] = "create" => r[2] = Owner
      /\ r[1] \in {"accept", "decline"} => r[2] = b
      /\ r[1] = "invite" => r[3] = b
      /\ r[1] \in {"invite", "update"} => r[4] \in {"admin", "readonly"}
      /\ r[1] \in {"accept", "decline", "update", "cancel"} => r[5] \in Invite
      /\ r[1] \in {"lock", "unlock", "publish", "unpublish", "copy"} => r[5] \in DOMAIN docs
      /\ r[1] = "upload" => r[5] \in File
  BY <1>1, <1>2 DEF Requests, Grants
<1> HIDE DEF k
<1>7. Well(k)
  BY <1>3, <1>5, <1>6 DEF Well
<1> QED
  BY <1>1, <1>3, <1>4, <1>5, <1>7 DEF Only, Begin

-----------------------------------------------------------------------------
(* Types *)

LEMMA IdleWell == Well(Idle) /\ Well(Idle)'
BY DEF Well, Idle

LEMMA WellKept ==
    ASSUME NEW p, Well(p), DOMAIN docs \subseteq DOMAIN docs'
    PROVE  Well(p)'
BY DEF Well

LEMMA WellSteps ==
    ASSUME NEW q \in Request, req[q].op # "none", Steps(q), DOMAIN docs \subseteq DOMAIN docs',
           \A p \in Request : Well(req[p])
    PROVE  \A p \in Request : Well(req[p])'
<1>1. Well(req[q])'
  <2>1. CASE req'[q] = Idle
    BY <2>1, IdleWell
  <2>2. CASE Alike(q) /\ (req[q].op # "accept" => req'[q].role = req[q].role)
    BY <2>2 DEF Well, Alike
  <2> QED
    BY <2>1, <2>2 DEF Steps
<1>2. ASSUME NEW p \in Request, p # q PROVE Well(req[p])'
  BY <1>2 DEF Steps, Only, Well
<1> QED
  BY <1>1, <1>2

LEMMA HistoryTypes ==
    ASSUME RequestsTypeOK, NEW hurt, RememberRequests(hurt)
    PROVE  consents' \in [User -> Nat] /\ granted' \subseteq User \X Rank
<1>1. consents' \in [User -> Nat]
  <2>1. CASE invites' = invites
    BY <2>1 DEF RememberRequests, RequestsTypeOK
  <2>2. CASE invites' # invites
    <3> DEFINE new(u) == {i \in Invite : invites[i].to = u /\ invites[i].status # "accepted"
                                              /\ invites'[i].status = "accepted"}
    <3>1. consents' = [u \in User |-> consents[u] + Cardinality(new(u))]
      BY <2>2 DEF RememberRequests
    <3>2. ASSUME NEW u \in User PROVE consents[u] + Cardinality(new(u)) \in Nat
      <4>1. Cardinality(new(u)) \in Nat
        BY FS_Subset, FS_CardinalityType, RequestsAssumption DEF RequestsAssumption
      <4>2. consents[u] \in Nat
        BY DEF RequestsTypeOK
      <4> HIDE DEF new
      <4> QED
        BY <4>1, <4>2
    <3> HIDE DEF new
    <3> QED
      BY <3>1, <3>2
  <2> QED
    BY <2>1, <2>2
<1>2. ASSUME NEW q \in Request, req[q].op # "none"
      PROVE  <<IF req[q].op = "update" THEN invites[req[q].on].to ELSE req[q].to, req[q].role>>
                \in User \X Rank
  <2>1. req[q].to \in User /\ req[q].role \in Rank
    BY DEF RequestsTypeOK, SpacesTypeOK
  <2>2. req[q].op = "update" => req[q].on \in Invite
    BY DEF RequestsTypeOK, Well
  <2>3. \A i \in Invite : invites[i].to \in User
    BY DEF RequestsTypeOK, SpacesTypeOK
  <2> QED
    BY <2>1, <2>2, <2>3
<1>3. granted \subseteq User \X Rank
  BY DEF RequestsTypeOK
<1> QED
  BY <1>1, <1>2, <1>3 DEF RememberRequests, Underway

LEMMA TypeInit == RequestsInit => RequestsTypeOK
<1> SUFFICES ASSUME RequestsInit PROVE RequestsTypeOK
  OBVIOUS
<1>1. /\ a \in User \ {Owner} /\ b \in User \ {Owner, a} /\ Owner \in User /\ d1 \in Doc
  BY RequestsAssumption, SpacesAssumption
<1>2. ContentTypeOK
  BY <1>1 DEF RequestsInit, ContentInit, ContentTypeOK, NewDoc
<1>3. ProfileTypeOK
  BY DEF RequestsInit, ProfileInit, ProfileTypeOK, Shown, Rank
<1>4. ChannelsTypeOK
  BY DEF RequestsInit, ChannelsInit, ChannelsTypeOK
<1>5. req = [q \in Request |-> Idle] /\ req \in [Request -> Asked]
  BY IdleTypes DEF RequestsInit
<1>6. DbTypeOK /\ AccessTypeOK
  <2>1. <<>> \in Seq(Rank) /\ \A r \in Rank : <<r>> \in Seq(Rank)
    OBVIOUS
  <2>2. {"admin", "readonly", "owner", "editor"} \subseteq Rank /\ "members" \in Group /\ "readonly" \in Group
    BY DEF Rank, Group
  <2>3. CASE space = "none"
    <3>1. /\ rows = [u \in User |-> <<>>] /\ exist = {} /\ access = [u \in User |-> {}]
          /\ invites = [i \in Invite |-> NoInvite]
      BY <2>3 DEF RequestsInit
    <3>2. NoInvite \in [status: {"none", "sent", "accepted", "declined",
                                 "cancelled", "deleted"}, to: User, role: Rank]
      BY <1>1, <2>2 DEF NoInvite
    <3> QED
      BY <2>1, <2>3, <3>1, <3>2 DEF DbTypeOK, AccessTypeOK
  <2>4. CASE space = "live"
    <3>1. PICK r \in {"admin", "readonly"} :
             /\ rows = [u \in User |-> IF u = Owner THEN <<"owner">>
                                       ELSE IF u = a THEN <<r>> ELSE <<>>]
             /\ access = [u \in User |->
                             IF u = Owner THEN {"members"}
                             ELSE IF u # a THEN {}
                             ELSE IF r = "admin" THEN {"members"} ELSE {"readonly"}]
             /\ invites = [i \in Invite |->
                             IF r = "admin" /\ i = i1
                             THEN [status |-> "sent", to |-> b, role |-> "editor"]
                             ELSE NoInvite]
      BY <2>4 DEF RequestsInit
    <3>2. rows \in [User -> Seq(Rank)]
      BY <2>1, <2>2, <3>1
    <3>3. access \in [User -> SUBSET Group]
      BY <2>2, <3>1
    <3>4. invites \in [Invite -> [status: {"none", "sent", "accepted", "declined",
                                          "cancelled", "deleted"}, to: User, role: Rank]]
      BY <1>1, <2>2, <3>1 DEF NoInvite
    <3> QED
      BY <2>4, <3>2, <3>3, <3>4 DEF RequestsInit, DbTypeOK, AccessTypeOK
  <2> QED
    BY <2>3, <2>4 DEF RequestsInit
<1>7. SpacesTypeOK
  BY <1>4, <1>5, <1>6 DEF SpacesTypeOK, DbTypeOK, AccessTypeOK, Asked
<1>8. consents \in [User -> Nat]
  <2>1. \A u \in User : Len(rows[u]) \in Nat
    BY <1>6 DEF DbTypeOK
  <2> QED
    BY <2>1 DEF RequestsInit
<1>9. granted \subseteq User \X Rank
  <2>1. \A u \in User : rows[u] # <<>> => Head(rows[u]) \in Rank
    BY <1>6 DEF DbTypeOK
  <2>2. "owner" \in Rank
    BY DEF Rank
  <2> QED
    BY <1>1, <2>1, <2>2 DEF RequestsInit
<1>10. \A q \in Request : Well(req[q])
  BY <1>5, IdleWell
<1> QED
  BY <1>2, <1>3, <1>7, <1>8, <1>9, <1>10 DEF RequestsTypeOK

LEMMA TypeStep ==
    ASSUME RequestsTypeOK, [RequestsNext]_requestsVars
    PROVE  RequestsTypeOK'
<1>1. /\ SpacesTypeOK /\ ContentTypeOK /\ ProfileTypeOK /\ DbTypeOK /\ AccessTypeOK /\ ChannelsTypeOK
      /\ req \in [Request -> Asked] /\ \A q \in Request : Well(req[q])
  BY DEF RequestsTypeOK, SpacesTypeOK, DbTypeOK, AccessTypeOK, Asked
<1>2. ASSUME NEW hurt, Requesting(hurt), DbTypeOK', AccessTypeOK', ChannelsTypeOK',
             req' \in [Request -> Asked], \A q \in Request : Well(req[q])', ContentTypeOK',
             ProfileTypeOK'
      PROVE  RequestsTypeOK'
  BY <1>2, HistoryTypes DEF Requesting, RequestsTypeOK, SpacesTypeOK, DbTypeOK, AccessTypeOK, Asked
<1>3. ASSUME UNCHANGED dbVars PROVE DbTypeOK'
  BY <1>1, <1>3 DEF dbVars, DbTypeOK
<1>4. ASSUME UNCHANGED syncVars PROVE AccessTypeOK'
  BY <1>1, <1>4 DEF syncVars, AccessTypeOK
<1>5. ASSUME UNCHANGED channelVars PROVE ChannelsTypeOK'
  BY <1>1, <1>5 DEF channelVars, ChannelsTypeOK
<1>6. ASSUME UNCHANGED contentVars PROVE ContentTypeOK' /\ docs' = docs
  BY <1>1, <1>6 DEF contentVars, fileVars, ContentTypeOK
<1>7. ASSUME UNCHANGED profileVars PROVE ProfileTypeOK'
  BY <1>1, <1>7 DEF profileVars, ProfileTypeOK
<1>8. ASSUME UNCHANGED req, DOMAIN docs \subseteq DOMAIN docs'
      PROVE  req' \in [Request -> Asked] /\ \A q \in Request : Well(req[q])'
  BY <1>1, <1>8, WellKept DEF Well
<1>9. ASSUME NEW q \in Request, req[q].op # "none", Steps(q), DOMAIN docs \subseteq DOMAIN docs'
      PROVE  req' \in [Request -> Asked] /\ \A p \in Request : Well(req[p])'
  BY <1>1, <1>9, WellSteps DEF Steps, Only
<1>10. CASE UNCHANGED requestsVars
  <2>1. UNCHANGED <<dbVars, syncVars, channelVars, contentVars, profileVars, req, consents, granted>>
    BY <1>10 DEF requestsVars, spacesVars
  <2> QED
    BY <1>1, <1>3, <1>4, <1>5, <1>6, <1>7, <1>8, <2>1
       DEF RequestsTypeOK, SpacesTypeOK, DbTypeOK, AccessTypeOK, Asked
<1>11. ASSUME NEW q \in Request, req[q].op # "none", Members(q) PROVE RequestsTypeOK'
  <2>1. Steps(q) /\ DbTypeOK' /\ AccessTypeOK' /\ ChannelsTypeOK'
    BY <1>1, <1>11, MemberTypes DEF Members
  <2>2. ContentTypeOK' /\ docs' = docs
    BY <1>1, <1>11 DEF Members, SpaceContent, ContentTypeOK
  <2> QED
    BY <1>2, <1>7, <1>9, <1>11, <2>1, <2>2 DEF Members
<1>12. ASSUME NEW q \in Request, req[q].op # "none", Contents(q) PROVE RequestsTypeOK'
  <2>1. /\ Steps(q) /\ ContentTypeOK' /\ DOMAIN docs \subseteq DOMAIN docs'
        /\ UNCHANGED <<dbVars, syncVars, channelVars>>
    BY <1>1, <1>12, ContentTypes, StepsFacts DEF Contents
  <2> QED
    BY <1>2, <1>3, <1>4, <1>5, <1>7, <1>9, <1>12, <2>1 DEF Contents
<1>13. ASSUME NEW q \in Request, req[q].op # "none", Fails(q) PROVE RequestsTypeOK'
  <2>1. Steps(q)
    BY <1>1, <1>13, FailsFacts, StepsFacts
  <2> QED
    BY <1>2, <1>3, <1>4, <1>5, <1>6, <1>7, <1>9, <1>13, <2>1 DEF Fails
<1>14. ASSUME NEW q \in Request, Sends(q) PROVE RequestsTypeOK'
  <2>1. docs' = docs
    BY <1>6, <1>14 DEF Sends
  <2>2. /\ Only(q) /\ Well(req'[q]) /\ UNCHANGED <<dbVars, syncVars, channelVars>>
    BY <1>1, <1>14, SendFacts DEF Sends
  <2>3. req' \in [Request -> Asked] /\ \A p \in Request : Well(req[p])'
    BY <1>1, <2>1, <2>2 DEF Only, Well
  <2> QED
    BY <1>2, <1>3, <1>4, <1>5, <1>6, <1>7, <1>14, <2>2, <2>3 DEF Sends
<1>15. ASSUME NEW d \in DOMAIN docs, Deletes(d) PROVE RequestsTypeOK'
  <2>1. UNCHANGED <<dbVars, syncVars, channelVars, req, posts, fileVars>>
    BY <1>15 DEF Deletes, DeleteDoc, spacesVars
  <2>2. docs[d] \in DocFields
    BY <1>1 DEF ContentTypeOK, DocFields
  <2>3. [docs[d] EXCEPT !.there = FALSE] \in DocFields
    BY <2>2 DEF DocFields
  <2>4. ContentTypeOK' /\ DOMAIN docs' = DOMAIN docs
    BY <1>1, <1>15, <2>1, <2>3, SetFacts DEF Deletes, DeleteDoc, ContentTypeOK, DocFields, fileVars
  <2> QED
    BY <1>2, <1>3, <1>4, <1>5, <1>7, <1>8, <1>15, <2>1, <2>4 DEF Deletes
<1>16. ASSUME NEW u \in Page, Pages(u) PROVE RequestsTypeOK'
  BY <1>1, <1>2, <1>3, <1>4, <1>6, <1>8, <1>16, PageTypes DEF Pages
<1>17. CASE Stops
  <2>1. Crash /\ req' = [q \in Request |-> Idle]
    BY <1>17 DEF Stops, Restart, Crash
  <2>2. DbTypeOK' /\ AccessTypeOK' /\ ChannelsTypeOK'
    <3>1. <<>> \in Seq(Rank)
      OBVIOUS
    <3> QED
      BY <1>1, <2>1, <3>1 DEF Crash, DbTypeOK, AccessTypeOK, ChannelsTypeOK, syncVars
  <2>3. req' \in [Request -> Asked] /\ \A q \in Request : Well(req[q])'
    BY <2>1, IdleTypes, IdleWell
  <2>4. ProfileTypeOK'
    BY <1>1, <1>17 DEF Stops, Restart, ProfileTypeOK
  <2> QED
    BY <1>2, <1>6, <1>17, <2>2, <2>3, <2>4 DEF Stops
<1> QED
  BY <1>1, <1>10, <1>11, <1>12, <1>13, <1>14, <1>15, <1>16, <1>17, StepKinds

-----------------------------------------------------------------------------
(* Who is a member *)

\* Requests of user u that are about to make the user a member.
Joining(u) == {q \in Request : req[q].op = "accept" /\ req[q].by = u /\ req[q].pc \in {2, 3}}

Granted(u, r) == r \in {"admin", "owner"} => <<u, r>> \in granted
GrantedThen(u, r) == r \in {"admin", "owner"} => <<u, r>> \in granted'

\* What request q will write has been asked for by an owner.
Entitled(q) ==
    LET k == req[q] IN
    /\ k.op = "change" /\ k.pc > 2 => Granted(k.to, k.role)
    /\ k.op = "invite" /\ k.pc > 1 => Granted(k.to, k.role)
    /\ k.op \in {"accept", "update"} /\ k.pc > 1 => invites[k.on].status # "none"
    /\ k.op = "update" /\ k.pc > 2 =>
          invites[k.on].status = "deleted" \/ Granted(invites[k.on].to, k.role)
    /\ k.op = "accept" /\ k.pc = 2 =>
          invites[k.on].status = "deleted" \/ invites[k.on].to = k.by
    /\ k.op = "accept" /\ k.pc > 2 => Granted(k.by, k.role)

EarnedInv ==
    /\ RequestsTypeOK
    /\ \A u \in User : Len(rows[u]) + Cardinality(Joining(u)) <= consents[u]
    /\ consents[Owner] > 0 /\ Granted(Owner, "owner")
    /\ \A u \in User : \A r \in ToSet(rows[u]) : Granted(u, r)
    /\ \A i \in Invite : Granted(invites[i].to, invites[i].role)
    /\ \A q \in Request : Entitled(q)

\* Which steps a request takes, and where it is then.
LEMMA MemberKinds ==
    ASSUME NEW q \in Request, MemberStep(q)
    PROVE  \/ MakeCall(q)
           \/ req[q].op = "create" /\ req[q].pc \in {1, 2, 3} /\ CreateSpace(q)
           \/ req[q].op = "delete" /\ req[q].pc \in {1, 2, 3} /\ DeleteSpace(q)
           \/ req[q].op = "leave" /\ req[q].pc = 1 /\ LeaveSpace(q)
           \/ req[q].op \in {"change", "remove"} /\ req[q].pc \in {1, 2} /\ CheckMember(q)
           \/ req[q].op = "change" /\ req[q].pc \in {3, 4} /\ ChangeMemberRole(q)
           \/ req[q].op = "remove" /\ req[q].pc \in {3, 4} /\ RemoveMember(q)
           \/ req[q].op = "invite" /\ req[q].pc \in {1, 2, 3, 4} /\ CreateInvite(q)
           \/ req[q].op \in {"update", "cancel"} /\ req[q].pc \in {1, 2} /\ CheckInvite(q)
           \/ req[q].op \in {"update", "cancel"} /\ req[q].pc = 3 /\ WriteInvite(q)
           \/ req[q].op = "accept" /\ req[q].pc \in {1, 2, 3, 4} /\ AcceptInvite(q)
           \/ req[q].op = "decline" /\ req[q].pc = 1 /\ DeclineInvite(q)
<1>1. CreateSpace(q) => req[q].op = "create" /\ req[q].pc \in {1, 2, 3}
  BY DEF CreateSpace, At
<1>2. DeleteSpace(q) => req[q].op = "delete" /\ req[q].pc \in {1, 2, 3}
  BY DEF DeleteSpace, At
<1>3. LeaveSpace(q) => req[q].op = "leave" /\ req[q].pc = 1
  BY DEF LeaveSpace, At
<1>4. CheckMember(q) => req[q].op \in {"change", "remove"} /\ req[q].pc \in {1, 2}
  BY DEF CheckMember, At
<1>5. ChangeMemberRole(q) => req[q].op = "change" /\ req[q].pc \in {3, 4}
  BY DEF ChangeMemberRole, At
<1>6. RemoveMember(q) => req[q].op = "remove" /\ req[q].pc \in {3, 4}
  BY DEF RemoveMember, At
<1>7. CreateInvite(q) => req[q].op = "invite" /\ req[q].pc \in {1, 2, 3, 4}
  BY DEF CreateInvite, At
<1>8. CheckInvite(q) => req[q].op \in {"update", "cancel"} /\ req[q].pc \in {1, 2}
  BY DEF CheckInvite, At
<1>9. WriteInvite(q) => req[q].op \in {"update", "cancel"} /\ req[q].pc = 3
  BY DEF WriteInvite, At
<1>10. AcceptInvite(q) => req[q].op = "accept" /\ req[q].pc \in {1, 2, 3, 4}
  BY DEF AcceptInvite, At
<1>11. DeclineInvite(q) => req[q].op = "decline" /\ req[q].pc = 1
  BY DEF DeclineInvite, At
<1> QED
  BY <1>1, <1>2, <1>3, <1>4, <1>5, <1>6, <1>7, <1>8, <1>9, <1>10, <1>11 DEF MemberStep

\* What becomes of an invite: it is deleted for good, and keeps who it is to.
LEMMA InviteSteps ==
    ASSUME RequestsTypeOK, NEW q \in Request, MemberStep(q), NEW i \in Invite
    PROVE  /\ invites[i].status # "none" => invites'[i].status # "none"
           /\ invites[i].status = "deleted" => invites'[i].status = "deleted"
           /\ invites[i].status # "none" =>
                 invites'[i].status = "deleted" \/ invites'[i].to = invites[i].to
<1> DEFINE k == req[q]
<1>1. Well(k) /\ invites \in [Invite -> [status: {"none", "sent", "accepted", "declined",
                                                "cancelled", "deleted"}, to: User, role: Rank]]
  BY DEF RequestsTypeOK, SpacesTypeOK
<1> HIDE DEF k
<1>2. ASSUME NEW j \in Invite, NEW st, SetStatus(j, st), st # "none", invites[j].status # "deleted"
      PROVE  /\ invites[i].status # "none" => invites'[i].status # "none"
             /\ invites[i].status = "deleted" => invites'[i].status = "deleted"
             /\ invites'[i].to = invites[i].to
  BY <1>1, <1>2 DEF SetStatus, SetInvite
<1>3. CASE UNCHANGED invites
  BY <1>3
<1>4. CASE DeleteSpace(q)
  <2>1. CASE invites' = [j \in Invite |-> [NoInvite EXCEPT !.status =
                            IF invites[j].status = "none" THEN "none" ELSE "deleted"]]
    BY <2>1 DEF NoInvite
  <2> QED
    BY <1>3, <1>4, <2>1 DEF DeleteSpace
<1>5. CASE CreateInvite(q)
  <2>1. CASE invites' = [j \in Invite |->
                IF invites[j].to = req[q].to /\ invites[j].status = "sent"
                THEN [invites[j] EXCEPT !.status = "deleted"] ELSE invites[j]]
    BY <1>1, <2>1
  <2>2. CASE \E j \in Invite : /\ invites[j].status = "none"
                              /\ \E n : SetInvite(j, n)
    BY <1>1, <2>2 DEF SetInvite
  <2> QED
    BY <1>3, <1>5, <2>1, <2>2 DEF CreateInvite
<1>6. CASE WriteInvite(q)
  <2>1. k.on \in Invite
    BY <1>1, <1>6 DEF WriteInvite, At, Well, k
  <2>2. CASE SetInvite(k.on, [invites[k.on] EXCEPT !.role = k.role])
    BY <1>1, <2>1, <2>2 DEF SetInvite
  <2> QED
    BY <1>2, <1>3, <1>6, <2>1, <2>2 DEF WriteInvite, k
<1>7. CASE AcceptInvite(q) \/ DeclineInvite(q)
  <2>1. k.on \in Invite
    BY <1>1, <1>7 DEF AcceptInvite, DeclineInvite, At, Well, k
  <2> QED
    BY <1>2, <1>3, <1>7, <2>1 DEF AcceptInvite, DeclineInvite, Mine, k
<1> QED
  BY <1>3, <1>4, <1>5, <1>6, <1>7
     DEF MemberStep, MakeCall, CreateSpace, LeaveSpace, CheckMember, ChangeMemberRole,
         RemoveMember, CheckInvite, dbVars

LEMMA HistoryGrows ==
    ASSUME RequestsTypeOK, NEW hurt, RememberRequests(hurt)
    PROVE  /\ \A u, r : Granted(u, r) => Granted(u, r)'
           /\ \A u \in User : consents[u] <= consents'[u]
           /\ invites' = invites => consents' = consents
<1>1. ASSUME NEW u \in User, invites' # invites PROVE consents[u] <= consents'[u]
  <2> DEFINE new == {i \in Invite : invites[i].to = u /\ invites[i].status # "accepted"
                                            /\ invites'[i].status = "accepted"}
  <2>1. consents'[u] = consents[u] + Cardinality(new)
    BY <1>1 DEF RememberRequests
  <2>2. Cardinality(new) \in Nat /\ consents[u] \in Nat
    BY FS_Subset, FS_CardinalityType, RequestsAssumption DEF RequestsAssumption, RequestsTypeOK
  <2> HIDE DEF new
  <2> QED
    BY <2>1, <2>2
<1>2. ASSUME NEW u \in User, invites' = invites PROVE consents[u] <= consents'[u]
  BY <1>2 DEF RememberRequests, RequestsTypeOK
<1> QED
  BY <1>1, <1>2 DEF RememberRequests, Granted

\* How many requests are about to make a user a member.
LEMMA JoiningFinite ==
    ASSUME NEW u
    PROVE  IsFiniteSet(Joining(u)) /\ Cardinality(Joining(u)) \in Nat
BY FS_Subset, FS_CardinalityType, RequestsAssumption DEF RequestsAssumption, Joining

LEMMA JoiningLess ==
    ASSUME NEW u, Joining(u)' \subseteq Joining(u)
    PROVE  /\ Cardinality(Joining(u)') <= Cardinality(Joining(u))
           /\ \A q \in Joining(u) \ Joining(u)' :
                 Cardinality(Joining(u)') + 1 <= Cardinality(Joining(u))
<1>1. Cardinality(Joining(u)') \in Nat /\ Cardinality(Joining(u)') <= Cardinality(Joining(u))
  BY JoiningFinite, FS_Subset, FS_CardinalityType
<1>2. ASSUME NEW q \in Joining(u) \ Joining(u)'
      PROVE  Cardinality(Joining(u)') + 1 <= Cardinality(Joining(u))
  <2>1. IsFiniteSet(Joining(u) \ {q}) /\ Cardinality(Joining(u) \ {q}) = Cardinality(Joining(u)) - 1
    BY <1>2, JoiningFinite, FS_RemoveElement
  <2>2. Cardinality(Joining(u)') <= Cardinality(Joining(u) \ {q})
    BY <1>2, <2>1, FS_Subset
  <2> QED
    BY <1>1, <2>1, <2>2, JoiningFinite
<1> QED
  BY <1>1, <1>2

LEMMA JoiningMore ==
    ASSUME NEW u, NEW q, Joining(u)' \subseteq Joining(u) \cup {q}
    PROVE  Cardinality(Joining(u)') <= Cardinality(Joining(u)) + 1
<1>1. IsFiniteSet(Joining(u) \cup {q}) /\ Cardinality(Joining(u) \cup {q}) <= Cardinality(Joining(u)) + 1
  BY JoiningFinite, FS_AddElement
<1>2. Cardinality(Joining(u)') <= Cardinality(Joining(u) \cup {q})
      /\ Cardinality(Joining(u)') \in Nat /\ Cardinality(Joining(u) \cup {q}) \in Nat
  BY <1>1, FS_Subset, FS_CardinalityType
<1> QED
  BY <1>1, <1>2, JoiningFinite

\* An invite that is accepted, and becomes a row, is counted once.
LEMMA CountMember ==
    ASSUME EarnedInv, NEW q \in Request, req[q].op # "none", Members(q), NEW u \in User
    PROVE  Len(rows'[u]) + Cardinality(Joining(u)') <= consents'[u]
<1> DEFINE k == req[q]
<1>1. /\ RequestsTypeOK /\ SpacesTypeOK /\ req \in [Request -> Asked] /\ k \in Asked /\ Well(k)
      /\ rows \in [User -> Seq(Rank)] /\ k.by \in User /\ k.to \in User /\ k.pc \in Nat
      /\ Owner \in User
  BY SpacesAssumption DEF EarnedInv, RequestsTypeOK, SpacesTypeOK, Asked
<1>2. MemberStep(q) /\ RememberRequests({})
  BY DEF Members, Requesting
<1>3. /\ Steps(q) /\ consents[u] <= consents'[u] /\ consents[u] \in Nat /\ consents'[u] \in Nat
      /\ rows' \in [User -> Seq(Rank)]
  BY <1>1, <1>2, MemberTypes, HistoryGrows, HistoryTypes DEF RequestsTypeOK, DbTypeOK
<1>4. Len(rows[u]) + Cardinality(Joining(u)) <= consents[u] /\ consents[Owner] > 0
  BY DEF EarnedInv
<1>5. \A p \in Request : p # q => (p \in Joining(u)' <=> p \in Joining(u))
  BY <1>3 DEF Steps, Only, Joining
<1>6. Len(rows[u]) \in Nat /\ Len(rows'[u]) \in Nat
      /\ Cardinality(Joining(u)) \in Nat
  BY <1>1, <1>3, JoiningFinite
<1>7. Joining(u)' \subseteq Request
  BY DEF Joining
<1>8. Cardinality(Joining(u)') \in Nat
  BY <1>7, FS_Subset, FS_CardinalityType, RequestsAssumption DEF RequestsAssumption
<1>9. ASSUME q \in Joining(u)' => q \in Joining(u), Len(rows'[u]) <= Len(rows[u])
      PROVE  Len(rows'[u]) + Cardinality(Joining(u)') <= consents'[u]
  <2>1. Joining(u)' \subseteq Joining(u)
    BY <1>5, <1>7, <1>9
  <2>2. Cardinality(Joining(u)') <= Cardinality(Joining(u))
    BY <2>1, JoiningLess
  <2> QED
    BY <1>3, <1>4, <1>6, <1>8, <1>9, <2>2
<1> HIDE DEF k
<1>10. k.op # "accept" => q \notin Joining(u)'
  BY <1>3 DEF Steps, Alike, Joining, Idle, k
<1>20. CASE UNCHANGED rows /\ k.op # "accept"
  BY <1>6, <1>9, <1>10, <1>20
<1>21. CASE CreateSpace(q)
  <2>1. k.op = "create"
    BY <1>21 DEF CreateSpace, At, k
  <2>2. CASE rows' = [rows EXCEPT ![Owner] = <<"owner">>]
    <3>1. CASE u = Owner
      <4>1. Joining(u)' = {}
        <5>1. \A p \in Request : Well(req[p])
          BY <1>1 DEF RequestsTypeOK
        <5>2. Joining(u) = {}
          BY <3>1, <5>1, RequestsAssumption DEF Joining, Well, RequestsAssumption
        <5> QED
          BY <1>5, <1>7, <1>10, <2>1, <5>2
      <4>2. Cardinality(Joining(u)') = 0
        BY <4>1, FS_EmptySet
      <4>3. Len(rows'[u]) = 1
        BY <1>1, <2>2, <3>1
      <4> QED
        BY <1>3, <1>4, <3>1, <4>2, <4>3
    <3>2. CASE u # Owner
      BY <1>1, <1>6, <1>9, <1>10, <2>1, <2>2, <3>2
    <3> QED
      BY <3>1, <3>2
  <2> QED
    BY <1>20, <1>21, <2>1, <2>2 DEF CreateSpace
<1>5a. CASE DeleteSpace(q)
  <2>1. k.op = "delete"
    BY <1>5a DEF DeleteSpace, At, k
  <2>2. CASE rows' = [v \in User |-> <<>>]
    BY <1>6, <1>9, <1>10, <2>1, <2>2
  <2> QED
    BY <1>20, <1>5a, <2>1, <2>2 DEF DeleteSpace
<1>23. CASE LeaveSpace(q)
  <2>1. k.op = "leave" /\ rows' = [rows EXCEPT ![k.by] = OwnerRows(rows[k.by])]
    BY <1>23 DEF LeaveSpace, At, k
  <2>2. Len(OwnerRows(rows[k.by])) <= Len(rows[k.by])
    BY <1>1, OwnerRowsFacts
  <2>3. Len(rows'[u]) <= Len(rows[u])
    BY <1>1, <1>6, <2>1, <2>2
  <2> QED
    BY <1>9, <1>10, <2>1, <2>3
<1>24. CASE ChangeMemberRole(q)
  <2>1. k.op = "change"
    BY <1>24 DEF ChangeMemberRole, At, k
  <2>2. CASE rows' = [rows EXCEPT ![k.to] = [i \in DOMAIN rows[k.to] |-> k.role]]
    <3>1. rows[k.to] \in Seq(Rank)
      BY <1>1
    <3>2. Len([i \in DOMAIN rows[k.to] |-> k.role]) = Len(rows[k.to])
      BY <3>1
    <3>3. Len(rows'[u]) <= Len(rows[u])
      BY <1>1, <1>6, <2>2, <3>2
    <3> QED
      BY <1>9, <1>10, <2>1, <3>3
  <2> QED
    BY <1>20, <1>24, <2>1, <2>2 DEF ChangeMemberRole, k
<1>25. CASE RemoveMember(q)
  <2>1. k.op = "remove"
    BY <1>25 DEF RemoveMember, At, k
  <2>2. CASE rows' = [rows EXCEPT ![k.to] = <<>>]
    BY <1>1, <1>6, <1>9, <1>10, <2>1, <2>2
  <2> QED
    BY <1>20, <1>25, <2>1, <2>2 DEF RemoveMember, k
<1>26. CASE AcceptInvite(q)
  <2>1. k.op = "accept" /\ k.on \in Invite
    BY <1>1, <1>26 DEF AcceptInvite, At, Well, k
  <2>2. CASE At(q, "accept", 1)
    <3>1. /\ IF Mine(q) THEN SetStatus(k.on, "accepted") ELSE UNCHANGED invites
          /\ AdvanceIf(q, Mine(q)) /\ rows' = rows
      BY <1>26, <2>2 DEF AcceptInvite, At, k
    <3>2. CASE Mine(q) /\ u = k.by
      <4> DEFINE new == {i \in Invite : invites[i].to = u /\ invites[i].status # "accepted"
                                                /\ invites'[i].status = "accepted"}
      <4>1. k.on \in new /\ invites' # invites
        BY <1>1, <2>1, <3>1, <3>2 DEF Mine, SetStatus, SetInvite, k, SpacesTypeOK
      <4>2. consents'[u] = consents[u] + Cardinality(new)
        BY <1>2, <4>1 DEF RememberRequests
      <4>3. IsFiniteSet(new) /\ new # {}
        BY <4>1, FS_Subset, RequestsAssumption DEF RequestsAssumption
      <4>4. Cardinality(new) \in Nat /\ Cardinality(new) # 0
        BY <4>3, FS_EmptySet, FS_CardinalityType
      <4>5. Joining(u)' \subseteq Joining(u) \cup {q}
        BY <1>5, <1>7
      <4>6. Cardinality(Joining(u)') <= Cardinality(Joining(u)) + 1
        BY <4>5, JoiningMore
      <4> HIDE DEF new
      <4> QED
        BY <1>3, <1>4, <1>6, <1>8, <3>1, <4>2, <4>4, <4>6
    <3>3. CASE ~Mine(q) \/ u # k.by
      <4>1. q \notin Joining(u)'
        BY <1>1, <3>1, <3>3, AdvanceIfFacts DEF Joining, Goes, Alike, Ends, Idle, k
      <4> QED
        BY <1>6, <1>9, <3>1, <4>1
    <3> QED
      BY <3>2, <3>3
  <2>3. CASE At(q, "accept", 2)
    <3>1. rows' = rows
      BY <1>26, <2>3 DEF AcceptInvite, At
    <3>2. q \in Joining(u)' => q \in Joining(u)
      BY <1>3, <2>3 DEF Joining, At, Steps, Alike, Idle
    <3> QED
      BY <1>6, <1>9, <3>1, <3>2
  <2>4. CASE At(q, "accept", 3)
    <3>1. CASE Done(q) /\ UNCHANGED rows
      <4>1. q \notin Joining(u)'
        BY <1>1, <3>1, DoneFacts DEF Joining, Ends, Idle
      <4> QED
        BY <1>6, <1>9, <3>1, <4>1
    <3>2. CASE /\ rows' = [rows EXCEPT ![k.by] = Append(rows[k.by], k.role)]
               /\ Calling(q, <<Ask("add", GroupOf(k.role))>>)
      <4>1. <<Ask("add", GroupOf(k.role))>> \in Seq(Call)
        BY CallTypes
      <4>2. q \notin Joining(u)'
        <5>1. Goes(q, k.pc + 1, <<Ask("add", GroupOf(k.role))>>) /\ k.pc = 3
          BY <1>1, <2>4, <3>2, <4>1, CallingFacts DEF At, k
        <5> QED
          BY <5>1 DEF Joining, Goes
      <4>3. CASE u = k.by
        <5>1. q \in Joining(u) \ Joining(u)'
          BY <2>4, <4>2, <4>3 DEF Joining, At, k
        <5>2. Joining(u)' \subseteq Joining(u)
          BY <1>5, <1>7, <4>2
        <5>3. Cardinality(Joining(u)') + 1 <= Cardinality(Joining(u))
          BY <5>1, <5>2, JoiningLess
        <5>4. Len(rows'[u]) = Len(rows[u]) + 1
          <6>1. k.role \in Rank
            BY <1>1 DEF Asked
          <6>2. rows'[u] = Append(rows[u], k.role) /\ rows[u] \in Seq(Rank)
            BY <1>1, <3>2, <4>3
          <6> HIDE DEF k
          <6> QED
            BY <6>1, <6>2
        <5>5. PICK before : before = Len(rows[u])
          OBVIOUS
        <5>6. PICK now : now = Cardinality(Joining(u)')
          OBVIOUS
        <5>7. PICK was : was = Cardinality(Joining(u))
          OBVIOUS
        <5>8. /\ before \in Nat /\ now \in Nat /\ was \in Nat
              /\ Len(rows'[u]) = before + 1
              /\ now + 1 <= was /\ before + was <= consents[u]
          BY <1>4, <1>6, <1>8, <5>3, <5>4, <5>5, <5>6, <5>7
        <5>9. before + 1 + now <= consents'[u]
          BY <1>3, <5>8
        <5> QED
          BY <5>6, <5>8, <5>9
      <4>4. CASE u # k.by
        BY <1>1, <1>6, <1>9, <3>2, <4>2, <4>4
      <4> QED
        BY <4>3, <4>4
    <3> QED
      BY <1>26, <2>4, <3>1, <3>2 DEF AcceptInvite, At, k
  <2>5. CASE At(q, "accept", 4)
    <3>1. Done(q) /\ UNCHANGED rows
      BY <1>26, <2>5 DEF AcceptInvite, At
    <3>2. q \notin Joining(u)'
      BY <1>1, <3>1, DoneFacts DEF Joining, Ends, Idle
    <3> QED
      BY <1>6, <1>9, <3>1, <3>2
  <2> QED
    BY <1>26, <2>2, <2>3, <2>4, <2>5 DEF AcceptInvite
<1>27. CASE MakeCall(q)
  <2>1. rows' = rows
    BY <1>27 DEF MakeCall, dbVars
  <2>2. q \in Joining(u)' => q \in Joining(u)
    BY <1>1, <1>27, MakeCallFacts DEF Goes, Alike, Joining
  <2> QED
    BY <1>6, <1>9, <2>1, <2>2
<1>28. CASE CheckMember(q) \/ CreateInvite(q) \/ CheckInvite(q) \/ WriteInvite(q) \/ DeclineInvite(q)
  <2>1. k.op # "accept" /\ rows' = rows
    BY <1>28 DEF CheckMember, CreateInvite, CheckInvite, WriteInvite, DeclineInvite, At, dbVars, k
  <2> QED
    BY <1>20, <2>1
<1> QED
  BY <1>2, <1>21, <1>5a, <1>23, <1>24, <1>25, <1>26, <1>27, <1>28 DEF MemberStep

\* A high rank in a row has been asked for by an owner.
LEMMA RowsMember ==
    ASSUME EarnedInv, NEW q \in Request, req[q].op # "none", Members(q), NEW u \in User,
           NEW r \in ToSet(rows'[u])
    PROVE  Granted(u, r)'
<1> DEFINE k == req[q]
<1>1. /\ RequestsTypeOK /\ SpacesTypeOK /\ k \in Asked /\ Well(k) /\ Entitled(q)
      /\ rows \in [User -> Seq(Rank)] /\ k.by \in User /\ k.to \in User /\ k.pc \in Nat
      /\ Owner \in User
  BY SpacesAssumption DEF EarnedInv, RequestsTypeOK, SpacesTypeOK, Asked
<1>2. MemberStep(q) /\ RememberRequests({})
  BY DEF Members, Requesting
<1>3. \A v, x : Granted(v, x) => Granted(v, x)'
  BY <1>1, <1>2, HistoryGrows
<1>4. (\A x \in ToSet(rows[u]) : Granted(u, x)) /\ Granted(Owner, "owner")
  BY DEF EarnedInv
<1>5. ASSUME r \in ToSet(rows[u]) PROVE Granted(u, r)'
  BY <1>3, <1>4, <1>5
<1> HIDE DEF k
<1>6. CASE UNCHANGED rows
  BY <1>5, <1>6
<1>7. CASE rows' = [rows EXCEPT ![Owner] = <<"owner">>]
  <2>1. CASE u = Owner
    <3>1. r = "owner"
      BY <1>1, <1>7, <2>1 DEF ToSet
    <3> QED
      BY <1>3, <1>4, <2>1, <3>1
  <2> QED
    BY <1>1, <1>5, <1>7, <2>1
<1>8. CASE rows' = [v \in User |-> <<>>]
  BY <1>8 DEF ToSet
<1>9. CASE LeaveSpace(q)
  <2>1. rows' = [rows EXCEPT ![k.by] = OwnerRows(rows[k.by])]
    BY <1>9 DEF LeaveSpace, k
  <2>2. ToSet(OwnerRows(rows[k.by])) \subseteq ToSet(rows[k.by])
    BY <1>1, OwnerRowsFacts
  <2> QED
    BY <1>1, <1>5, <2>1, <2>2
<1>10. CASE At(q, "change", 4) /\ rows' = [rows EXCEPT ![k.to] = [i \in DOMAIN rows[k.to] |-> k.role]]
  <2>1. CASE u = k.to
    <3>1. r = k.role
      BY <1>1, <1>10, <2>1 DEF ToSet
    <3>2. Granted(k.to, k.role)
      BY <1>1, <1>10 DEF Entitled, At, k
    <3> QED
      BY <1>3, <2>1, <3>1, <3>2
  <2> QED
    BY <1>1, <1>5, <1>10, <2>1
<1>11. CASE rows' = [rows EXCEPT ![k.to] = <<>>]
  <2>1. CASE u = k.to
    BY <1>1, <1>11, <2>1 DEF ToSet
  <2> QED
    BY <1>1, <1>5, <1>11, <2>1
<1>12. CASE At(q, "accept", 3) /\ rows' = [rows EXCEPT ![k.by] = Append(rows[k.by], k.role)]
  <2>1. CASE u = k.by
    <3>1. r \in ToSet(rows[u]) \/ r = k.role
      <4>1. rows'[u] = Append(rows[u], k.role) /\ rows[u] \in Seq(Rank)
        BY <1>1, <1>12, <2>1
      <4>2. PICK n \in DOMAIN rows'[u] : r = rows'[u][n]
        BY DEF ToSet
      <4>3. n \in 1 .. Len(rows[u]) + 1
        BY <4>1, <4>2
      <4> QED
        BY <4>1, <4>2, <4>3 DEF ToSet
    <3>2. Granted(k.by, k.role)
      BY <1>1, <1>12 DEF Entitled, At, k
    <3> QED
      BY <1>3, <1>5, <2>1, <3>1, <3>2
  <2> QED
    BY <1>1, <1>5, <1>12, <2>1
<1>13. CASE CreateSpace(q) \/ DeleteSpace(q)
  BY <1>6, <1>7, <1>8, <1>13 DEF CreateSpace, DeleteSpace
<1>14. CASE ChangeMemberRole(q)
  BY <1>6, <1>10, <1>14 DEF ChangeMemberRole, k
<1>15. CASE RemoveMember(q)
  BY <1>6, <1>11, <1>15 DEF RemoveMember, k
<1>16. CASE AcceptInvite(q)
  BY <1>6, <1>12, <1>16 DEF AcceptInvite, k
<1>17. CASE \/ MakeCall(q) \/ CheckMember(q) \/ CreateInvite(q) \/ CheckInvite(q) \/ WriteInvite(q)
            \/ DeclineInvite(q)
  BY <1>6, <1>17 DEF MakeCall, CheckMember, CreateInvite, CheckInvite, WriteInvite, DeclineInvite,
                     dbVars
<1> QED
  BY <1>2, <1>9, <1>13, <1>14, <1>15, <1>16, <1>17 DEF MemberStep

\* A high rank that an invite offers has been asked for by an owner.
LEMMA InvitesMember ==
    ASSUME EarnedInv, NEW q \in Request, req[q].op # "none", Members(q), NEW i \in Invite
    PROVE  Granted(invites[i].to, invites[i].role)'
<1> DEFINE k == req[q]
<1>1. /\ RequestsTypeOK /\ SpacesTypeOK /\ k \in Asked /\ Well(k) /\ Entitled(q)
      /\ invites \in [Invite -> [status: {"none", "sent", "accepted", "declined",
                                                "cancelled", "deleted"}, to: User, role: Rank]]
  BY DEF EarnedInv, RequestsTypeOK, SpacesTypeOK, Asked
<1>2. MemberStep(q) /\ RememberRequests({})
  BY DEF Members, Requesting
<1>3. \A v, x : Granted(v, x) => Granted(v, x)'
  BY <1>1, <1>2, HistoryGrows
<1>4. Granted(invites[i].to, invites[i].role)
  BY DEF EarnedInv
<1>5. ASSUME invites'[i].to = invites[i].to, invites'[i].role = invites[i].role
      PROVE  Granted(invites[i].to, invites[i].role)'
  BY <1>3, <1>4, <1>5 DEF Granted
<1> HIDE DEF k
<1>6. CASE UNCHANGED invites
  BY <1>5, <1>6
<1>7. CASE \E j \in Invite : \E st : SetStatus(j, st)
  BY <1>1, <1>5, <1>7 DEF SetStatus, SetInvite
<1>8. CASE invites' = [j \in Invite |-> [NoInvite EXCEPT !.status =
                            IF invites[j].status = "none" THEN "none" ELSE "deleted"]]
  BY <1>8 DEF NoInvite, Granted
<1>9. CASE CreateInvite(q)
  <2>1. CASE invites' = [j \in Invite |->
                IF invites[j].to = req[q].to /\ invites[j].status = "sent"
                THEN [invites[j] EXCEPT !.status = "deleted"] ELSE invites[j]]
    BY <1>1, <1>5, <2>1
  <2>2. CASE At(q, "invite", 4) /\ \E j \in Invite :
                SetInvite(j, [NoInvite EXCEPT !.status = "sent", !.to = k.to, !.role = k.role])
    <3>1. Granted(k.to, k.role)
      BY <1>1, <2>2 DEF Entitled, At, k
    <3>2. PICK j \in Invite :
                SetInvite(j, [NoInvite EXCEPT !.status = "sent", !.to = k.to, !.role = k.role])
      BY <2>2
    <3>3. CASE i = j
      <4>1. invites'[i].to = k.to /\ invites'[i].role = k.role
        BY <1>1, <3>2, <3>3 DEF SetInvite, NoInvite
      <4> QED
        BY <1>3, <3>1, <4>1 DEF Granted
    <3>4. CASE i # j
      BY <1>1, <1>5, <3>2, <3>4 DEF SetInvite
    <3> QED
      BY <3>3, <3>4
  <2> QED
    BY <1>6, <1>9, <2>1, <2>2 DEF CreateInvite, k
<1>10. CASE WriteInvite(q)
  <2>1. k.on \in Invite
    BY <1>1, <1>10 DEF WriteInvite, At, Well, k
  <2>2. CASE /\ At(q, "update", 3) /\ invites[k.on].status # "deleted"
             /\ SetInvite(k.on, [invites[k.on] EXCEPT !.role = k.role])
    <3>1. Granted(invites[k.on].to, k.role)
      BY <1>1, <2>2 DEF Entitled, At, k
    <3>2. CASE i = k.on
      <4>1. invites'[i].to = invites[i].to /\ invites'[i].role = k.role
        BY <1>1, <2>2, <3>2 DEF SetInvite
      <4> QED
        BY <1>3, <3>1, <3>2, <4>1 DEF Granted
    <3>3. CASE i # k.on
      BY <1>1, <1>5, <2>1, <2>2, <3>3 DEF SetInvite
    <3> QED
      BY <3>2, <3>3
  <2> QED
    BY <1>6, <1>7, <1>10, <2>1, <2>2 DEF WriteInvite, At, k
<1>11. CASE AcceptInvite(q) \/ DeclineInvite(q)
  <2>1. k.on \in Invite
    BY <1>1, <1>11 DEF AcceptInvite, DeclineInvite, At, Well, k
  <2> QED
    BY <1>6, <1>7, <1>11, <2>1 DEF AcceptInvite, DeclineInvite, k
<1> QED
  BY <1>2, <1>6, <1>8, <1>9, <1>10, <1>11
     DEF MemberStep, MakeCall, CreateSpace, DeleteSpace, LeaveSpace, CheckMember, ChangeMemberRole,
         RemoveMember, CheckInvite, dbVars

\* So has what a request will write.
LEMMA EntitledMember ==
    ASSUME EarnedInv, NEW q \in Request, req[q].op # "none", Members(q)
    PROVE  Entitled(q)'
<1> DEFINE k == req[q]
<1>1. /\ RequestsTypeOK /\ SpacesTypeOK /\ req \in [Request -> Asked] /\ k \in Asked /\ Well(k)
      /\ k.by \in User /\ k.to \in User /\ k.pc \in Nat /\ Entitled(q)
  BY DEF EarnedInv, RequestsTypeOK, SpacesTypeOK, Asked
<1>2. MemberStep(q) /\ RememberRequests({}) /\ q \in Underway
  BY DEF Members, Requesting, Underway
<1>3. Steps(q) /\ \A v, x : Granted(v, x) => GrantedThen(v, x)
  BY <1>1, <1>2, HistoryGrows, MemberTypes DEF Granted, GrantedThen
<1>4. \A i \in Invite :
         /\ invites[i].status # "none" => invites'[i].status # "none"
         /\ invites[i].status = "deleted" => invites'[i].status = "deleted"
         /\ invites[i].status # "none" =>
               invites'[i].status = "deleted" \/ invites'[i].to = invites[i].to
  BY <1>1, <1>2, InviteSteps
<1>5. CASE req'[q] = Idle \/ k.op \notin {"change", "invite", "accept", "update"}
  BY <1>3, <1>5 DEF Entitled, Steps, Alike, Idle
<1>6. /\ k.op = "change" /\ k.pc > 2 => Granted(k.to, k.role)
      /\ k.op = "invite" /\ k.pc > 1 => Granted(k.to, k.role)
      /\ k.op \in {"accept", "update"} /\ k.pc > 1 => invites[k.on].status # "none"
      /\ k.op = "update" /\ k.pc > 2 =>
            invites[k.on].status = "deleted" \/ Granted(invites[k.on].to, k.role)
      /\ k.op = "accept" /\ k.pc = 2 =>
            invites[k.on].status = "deleted" \/ invites[k.on].to = k.by
      /\ k.op = "accept" /\ k.pc > 2 => Granted(k.by, k.role)
  BY <1>1 DEF Entitled
<1>11. ASSUME req'[q] # Idle
       PROVE  /\ ~Done(q)
              /\ \A ok : AdvanceIf(q, ok) => ok /\ Goes(q, k.pc + 1, k.calls)
  BY <1>1, <1>11, DoneFacts, AdvanceIfFacts DEF Ends
<1> HIDE DEF k
<1>7. CASE k.op \in {"change", "invite", "update"} /\ req'[q] # Idle
  <2>1. Alike(q) /\ req'[q].role = k.role
    BY <1>3, <1>7 DEF Steps, k
  <2>2. ASSUME At(q, "change", 2) \/ At(q, "invite", 1) \/ At(q, "update", 2),
               req'[q].pc = k.pc + 1, "owner" \in Roles(k.by)
        PROVE  <<IF k.op = "update" THEN invites[k.on].to ELSE k.to, k.role>> \in granted'
    BY <1>2, <2>2 DEF RememberRequests, k
  <2>3. CASE k.op = "change"
    <3>1. CASE k.pc > 2
      BY <1>3, <1>6, <2>1, <2>3, <3>1 DEF Entitled, Alike, Granted, GrantedThen, k
    <3>2. CASE k.pc <= 2
      <4>1. CASE MakeCall(q)
        BY <1>1, <2>1, <2>3, <3>2, <4>1, MakeCallFacts DEF Goes, Alike, Entitled, k
      <4>2. CASE CheckMember(q) /\ k.pc = 1
        <5>1. ASSUME NEW of \in Roles(k.to), of # "none",
                     req' = [req EXCEPT ![q].saw = of, ![q].pc = 2]
              PROVE  Goes(q, 2, req[q].calls)
          <6>1. of \in Rank
            BY <1>1, <5>1, RolesTypes
          <6> QED
            BY <1>1, <5>1, <6>1, SawFacts
        <5>2. ~At(q, req[q].op, 2)
          BY <4>2 DEF At, k
        <5>3. Goes(q, 2, req[q].calls)
          BY <1>7, <1>11, <4>2, <5>1, <5>2 DEF CheckMember, k
        <5> QED
          BY <2>1, <2>3, <5>3 DEF Entitled, Alike, Goes, k
      <4>3. CASE CheckMember(q) /\ k.pc = 2
        <5>1. PICK r \in Roles(k.by) : AdvanceIf(q, MayChange(r, k.saw, k.role))
          BY <2>3, <4>3 DEF CheckMember, At, k
        <5>2. MayChange(r, k.saw, k.role) /\ Goes(q, k.pc + 1, k.calls)
          BY <1>7, <1>11, <5>1
        <5>3. CASE r = "owner"
          BY <2>1, <2>2, <2>3, <4>3, <5>1, <5>2, <5>3
             DEF Entitled, Alike, Granted, Goes, CheckMember, At, k
        <5>4. CASE k.role \in {"editor", "readonly"}
          BY <2>1, <2>3, <5>4 DEF Entitled, Alike, Granted, k
        <5> QED
          BY <5>2, <5>3, <5>4 DEF MayChange
      <4>4. MakeCall(q) \/ (CheckMember(q) /\ k.pc \in {1, 2})
        BY <1>2, <2>3, <3>2, MemberKinds DEF k
      <4> QED
        BY <4>1, <4>2, <4>3, <4>4
    <3> QED
      BY <1>1, <3>1, <3>2
  <2>4. CASE k.op = "invite"
    <3>1. CASE k.pc > 1
      BY <1>3, <1>6, <2>1, <2>4, <3>1 DEF Entitled, Alike, Granted, GrantedThen, k
    <3>2. CASE k.pc <= 1
      <4>1. CASE MakeCall(q)
        BY <1>1, <2>1, <2>4, <3>2, <4>1, MakeCallFacts DEF Goes, Alike, Entitled, k
      <4>2. CASE CreateInvite(q) /\ k.pc = 1
        <5>1. PICK r \in Roles(k.by) : AdvanceIf(q, MayInvite(r, k.role))
          BY <2>4, <4>2 DEF CreateInvite, At, k
        <5>2. MayInvite(r, k.role) /\ Goes(q, k.pc + 1, k.calls)
          BY <1>1, <1>7, <5>1, AdvanceIfFacts DEF Ends, k
        <5>3. CASE r = "owner"
          BY <2>1, <2>2, <2>4, <4>2, <5>1, <5>2, <5>3
             DEF Entitled, Alike, Granted, Goes, CreateInvite, At, k
        <5>4. CASE k.role # "admin"
          BY <1>1, <2>1, <2>4, <5>4 DEF Entitled, Alike, Granted, Well, k
        <5> QED
          BY <5>2, <5>3, <5>4 DEF MayInvite
      <4>3. MakeCall(q) \/ (CreateInvite(q) /\ k.pc = 1)
        BY <1>2, <2>4, <3>2, MemberKinds DEF k
      <4> QED
        BY <4>1, <4>2, <4>3
    <3> QED
      BY <1>1, <3>1, <3>2
  <2>5. CASE k.op = "update"
    <3>1. k.on \in Invite
      BY <1>1, <2>5 DEF Well
    <3>2. CASE MakeCall(q)
      <4>1. req'[q].pc = k.pc /\ UNCHANGED invites
        BY <1>1, <3>2, MakeCallFacts DEF MakeCall, Goes, dbVars, k
      <4> QED
        BY <1>3, <1>6, <2>1, <2>5, <4>1 DEF Entitled, Alike, Granted, GrantedThen, k
    <3>3. CASE CheckInvite(q) /\ k.pc = 1
      <4>1. AdvanceIf(q, invites[k.on].status = "sent") /\ UNCHANGED invites
        BY <2>5, <3>3 DEF CheckInvite, At, dbVars, k
      <4>2. invites[k.on].status = "sent" /\ Goes(q, 2, k.calls)
        <5>1. invites[k.on].status = "sent" /\ Goes(q, k.pc + 1, k.calls)
          BY <1>7, <1>11, <4>1
        <5> QED
          BY <3>3, <5>1
      <4> QED
        BY <2>1, <2>5, <4>1, <4>2 DEF Entitled, Alike, Goes, k
    <3>4. CASE CheckInvite(q) /\ k.pc = 2
      <4>1. PICK r \in Roles(k.by) : AdvanceIf(q, MayInvite(r, k.role))
        BY <2>5, <3>4 DEF CheckInvite, At, k
      <4>2. MayInvite(r, k.role) /\ Goes(q, k.pc + 1, k.calls) /\ UNCHANGED invites
        BY <1>1, <1>7, <3>4, <4>1, AdvanceIfFacts DEF Ends, CheckInvite, dbVars, k
      <4>3. invites[k.on].status # "none"
        BY <1>6, <2>5, <3>4
      <4>4. GrantedThen(invites[k.on].to, k.role)
        <5>1. CASE r = "owner"
          <6>1. At(q, "update", 2) /\ req'[q].pc = k.pc + 1 /\ r \in Roles(k.by)
            BY <2>5, <3>4, <4>1, <4>2 DEF Goes, CheckInvite, At, k
          <6>2. <<invites[k.on].to, k.role>> \in granted'
            BY <2>2, <2>5, <5>1, <6>1
          <6> QED
            BY <6>2 DEF GrantedThen
        <5>2. CASE k.role # "admin"
          BY <1>1, <2>5, <5>2 DEF GrantedThen, Well, k
        <5> QED
          BY <4>2, <5>1, <5>2 DEF MayInvite
      <4> QED
        BY <2>1, <2>5, <4>2, <4>3, <4>4 DEF Entitled, Alike, Granted, GrantedThen, k
    <3>5. MakeCall(q) \/ (CheckInvite(q) /\ k.pc \in {1, 2})
      <4>1. ~WriteInvite(q)
        BY <1>1, <1>7, DoneFacts DEF WriteInvite, Ends
      <4> QED
        BY <1>2, <2>5, <4>1, MemberKinds DEF k
    <3> QED
      BY <3>2, <3>3, <3>4, <3>5
  <2> QED
    BY <1>7, <2>3, <2>4, <2>5
<1>8. CASE k.op = "accept" /\ req'[q] # Idle
  <2>1. Alike(q) /\ k.on \in Invite
    BY <1>1, <1>3, <1>8 DEF Steps, Well, k
  <2>2. CASE MakeCall(q)
    <3>1. req'[q].pc = k.pc /\ req'[q].role = k.role /\ UNCHANGED invites
      BY <1>1, <2>2, MakeCallFacts DEF MakeCall, Goes, dbVars, k
    <3> QED
      BY <1>3, <1>6, <1>8, <2>1, <3>1 DEF Entitled, Alike, Granted, GrantedThen, k
  <2>3. CASE AcceptInvite(q) /\ k.pc = 1
    <3>1. AdvanceIf(q, Mine(q)) /\ (Mine(q) => SetStatus(k.on, "accepted"))
      BY <1>8, <2>3 DEF AcceptInvite, At, k
    <3>2. Mine(q) /\ Goes(q, 2, k.calls)
      <4>1. Mine(q) /\ Goes(q, k.pc + 1, k.calls)
        BY <1>8, <1>11, <3>1
      <4> QED
        BY <2>3, <4>1
    <3>3. invites'[k.on].status # "none" /\ invites'[k.on].to = k.by
      <4>1. invites[k.on].to = k.by
        BY <3>2 DEF Mine, k
      <4>2. invites' = [invites EXCEPT ![k.on] = [invites[k.on] EXCEPT !.status = "accepted"]]
        BY <3>1, <3>2 DEF SetStatus, SetInvite
      <4>3. invites \in [Invite -> [status: {"none", "sent", "accepted", "declined",
                                            "cancelled", "deleted"}, to: User, role: Rank]]
        BY <1>1 DEF SpacesTypeOK
      <4> QED
        BY <2>1, <4>1, <4>2, <4>3
    <3> QED
      BY <1>8, <2>1, <3>2, <3>3 DEF Entitled, Alike, Goes, k
  <2>4. CASE AcceptInvite(q) /\ k.pc = 2
    <3>1. /\ UNCHANGED invites /\ invites[k.on].status # "deleted"
          /\ req' = [req EXCEPT ![q].role = invites[k.on].role, ![q].pc = 3]
      BY <1>8, <1>11, <2>4 DEF AcceptInvite, At, k
    <3>2. req'[q].pc = 3 /\ req'[q].role = invites[k.on].role
      <4>1. invites[k.on].role \in Rank
        BY <1>1, <2>1 DEF SpacesTypeOK
      <4> QED
        BY <1>1, <3>1, <4>1, RoleFacts
    <3>3. Granted(k.by, invites[k.on].role) /\ invites[k.on].status # "none"
      BY <1>6, <1>8, <2>1, <2>4, <3>1 DEF EarnedInv
    <3>4. GrantedThen(k.by, invites[k.on].role)
      BY <1>3, <3>3
    <3>5. Granted(req[q].by, req[q].role)'
      BY <2>1, <3>2, <3>4 DEF Alike, Granted, GrantedThen, k
    <3>6. req'[q].op = "accept" /\ req'[q].on = k.on /\ invites'[k.on].status # "none"
      BY <1>8, <2>1, <3>1, <3>3 DEF Alike, k
    <3> QED
      BY <3>2, <3>5, <3>6 DEF Entitled
  <2>5. CASE AcceptInvite(q) /\ k.pc > 2
    <3>1. req'[q].role = k.role /\ req'[q].pc > 2
      <4>1. <<Ask("add", GroupOf(k.role))>> \in Seq(Call)
        BY CallTypes
      <4> QED
        <5>1. k.pc = 3 /\ Calling(q, <<Ask("add", GroupOf(k.role))>>)
          BY <1>8, <1>11, <2>5 DEF AcceptInvite, At, k
        <5>2. Goes(q, req[q].pc + 1, <<Ask("add", GroupOf(k.role))>>)
          BY <1>1, <4>1, <5>1, CallingFacts
        <5> QED
          BY <5>1, <5>2 DEF Goes, k
    <3>2. GrantedThen(k.by, k.role) /\ invites'[k.on].status # "none"
      BY <1>1, <1>3, <1>4, <1>6, <1>8, <2>1, <2>5
    <3>3. Granted(req[q].by, req[q].role)'
      BY <2>1, <3>1, <3>2 DEF Alike, Granted, GrantedThen, k
    <3>4. req'[q].op = "accept" /\ req'[q].on = k.on /\ req'[q].pc # 2
      BY <1>8, <2>1, <3>1 DEF Alike, k
    <3> QED
      BY <3>2, <3>3, <3>4 DEF Entitled
  <2>6. MakeCall(q) \/ (AcceptInvite(q) /\ (k.pc = 1 \/ k.pc = 2 \/ k.pc > 2))
    BY <1>2, <1>8, MemberKinds DEF k
  <2> QED
    BY <2>2, <2>3, <2>4, <2>5, <2>6
<1> QED
  BY <1>5, <1>7, <1>8

\* A request that does not go on will write what it would have.
LEMMA EntitledStays ==
    ASSUME NEW p \in Request, Entitled(p), Well(req[p]), req[p].pc \in Nat,
           \/ req'[p] = Idle
           \/ req'[p].pc = 1
           \/ /\ Alike(p) /\ req'[p].role = req[p].role
              /\ req'[p].pc = req[p].pc \/ req[p].op \notin {"change", "invite", "accept", "update"},
           \A v, x : Granted(v, x) => GrantedThen(v, x),
           \A i \in Invite :
              /\ invites[i].status # "none" => invites'[i].status # "none"
              /\ invites[i].status = "deleted" => invites'[i].status = "deleted"
              /\ invites[i].status # "none" =>
                    invites'[i].status = "deleted" \/ invites'[i].to = invites[i].to
    PROVE  Entitled(p)'
<1>1. CASE req'[p] = Idle \/ req'[p].pc = 1
  BY <1>1 DEF Entitled, Idle
<1>2. CASE Alike(p) /\ req[p].op \notin {"change", "invite", "accept", "update"}
  BY <1>2 DEF Entitled, Alike
<1>3. CASE /\ Alike(p) /\ req'[p].role = req[p].role /\ req'[p].pc = req[p].pc
           /\ req[p].op \in {"change", "invite"}
  BY <1>3 DEF Entitled, Alike, Granted, GrantedThen
<1>4. CASE /\ Alike(p) /\ req'[p].role = req[p].role /\ req'[p].pc = req[p].pc
           /\ req[p].op \in {"accept", "update"}
  <2> DEFINE k == req[p]
  <2>1. k.on \in Invite /\ k.pc \in Nat
    BY <1>4 DEF Well
  <2>2. /\ k.pc > 1 => invites[k.on].status # "none"
        /\ k.op = "update" /\ k.pc > 2 =>
              invites[k.on].status = "deleted" \/ Granted(invites[k.on].to, k.role)
        /\ k.op = "accept" /\ k.pc = 2 =>
              invites[k.on].status = "deleted" \/ invites[k.on].to = k.by
        /\ k.op = "accept" /\ k.pc > 2 => Granted(k.by, k.role)
    BY <1>4 DEF Entitled
  <2>3. k.pc > 1 => /\ invites'[k.on].status # "none"
                    /\ invites[k.on].status = "deleted" => invites'[k.on].status = "deleted"
                    /\ invites'[k.on].status = "deleted" \/ invites'[k.on].to = invites[k.on].to
    BY <2>1, <2>2
  <2> HIDE DEF k
  <2>4. CASE k.op = "accept"
    <3>1. k.pc > 2 => GrantedThen(k.by, k.role)
      BY <1>4, <2>2, <2>4
    <3>2. k.pc = 2 => invites'[k.on].status = "deleted" \/ invites'[k.on].to = k.by
      BY <2>2, <2>3, <2>4
    <3> QED
      BY <1>4, <2>3, <2>4, <3>1, <3>2 DEF Entitled, Alike, Granted, GrantedThen, k
  <2>5. CASE k.op = "update"
    <3>1. k.pc > 2 => \/ invites[k.on].status = "deleted"
                      \/ GrantedThen(invites[k.on].to, k.role)
      BY <2>2, <2>5
    <3>2. k.pc > 2 => \/ invites'[k.on].status = "deleted"
                      \/ GrantedThen(invites'[k.on].to, k.role)
      <4>1. ASSUME k.pc > 2 PROVE k.pc > 1
        BY <2>1, <4>1
      <4> QED
        BY <2>3, <3>1, <4>1
    <3> QED
      BY <1>4, <2>3, <2>5, <3>2 DEF Entitled, Alike, Granted, GrantedThen, k
  <2> QED
    BY <1>4, <2>4, <2>5 DEF k
<1> QED
  BY <1>1, <1>2, <1>3, <1>4 DEF Alike

\* What a step leaves alone, of all this.
LEMMA EarnedQuiet ==
    ASSUME EarnedInv, UNCHANGED invites, UNCHANGED rows \/ rows' = [u \in User |-> <<>>],
           NEW hurt, RememberRequests(hurt), RequestsTypeOK',
           \A p \in Request :
              \/ req'[p] = Idle
              \/ req'[p].pc = 1
              \/ /\ Alike(p) /\ req'[p].role = req[p].role
                 /\ req'[p].pc = req[p].pc \/ req[p].op \notin {"change", "invite", "accept", "update"}
    PROVE  EarnedInv'
<1>1. RequestsTypeOK /\ req \in [Request -> Asked] /\ rows \in [User -> Seq(Rank)]
  BY DEF EarnedInv, RequestsTypeOK, SpacesTypeOK, Asked
<1>2. /\ \A u, r : Granted(u, r) => GrantedThen(u, r)
      /\ consents' = consents
  BY <1>1, HistoryGrows DEF Granted, GrantedThen
<1>3. ASSUME NEW u \in User
      PROVE  (Len(rows[u]) + Cardinality(Joining(u)) <= consents[u])'
  <2>1. Joining(u)' \subseteq Joining(u)
    BY <1>1 DEF Joining, Idle, Alike
  <2>2. Cardinality(Joining(u)') <= Cardinality(Joining(u))
    BY <2>1, JoiningLess
  <2>3. Len(rows'[u]) <= Len(rows[u]) /\ Len(rows'[u]) \in Nat /\ Len(rows[u]) \in Nat
    BY <1>1
  <2>4. Cardinality(Joining(u)) \in Nat /\ Cardinality(Joining(u)') \in Nat
    <3>1. Cardinality(Joining(u)') \in Nat
      BY FS_Subset, FS_CardinalityType, RequestsAssumption DEF RequestsAssumption, Joining
    <3> QED
      BY <3>1, JoiningFinite
  <2>5. Len(rows[u]) + Cardinality(Joining(u)) <= consents[u] /\ consents[u] \in Nat
    BY <1>1 DEF EarnedInv, RequestsTypeOK
  <2> QED
    BY <1>2, <2>2, <2>3, <2>4, <2>5
<1>4. ASSUME NEW u \in User, NEW r \in ToSet(rows'[u]) PROVE GrantedThen(u, r)
  <2>1. r \in ToSet(rows[u])
    BY <1>1 DEF ToSet
  <2> QED
    BY <1>2, <2>1 DEF EarnedInv
<1>5. ASSUME NEW i \in Invite PROVE GrantedThen(invites'[i].to, invites'[i].role)
  BY <1>2 DEF EarnedInv
<1>6. ASSUME NEW p \in Request PROVE Entitled(p)'
  <2>1. Entitled(p) /\ Well(req[p]) /\ req[p].pc \in Nat
    BY <1>1 DEF EarnedInv, RequestsTypeOK, Asked
  <2> QED
    BY <1>2, <2>1, EntitledStays
<1>7. consents'[Owner] > 0 /\ GrantedThen(Owner, "owner")
  BY <1>2 DEF EarnedInv
<1> QED
  BY <1>3, <1>4, <1>5, <1>6, <1>7 DEF EarnedInv, Granted, GrantedThen

LEMMA EarnedStep ==
    ASSUME EarnedInv, [RequestsNext]_requestsVars
    PROVE  EarnedInv'
<1>1. /\ RequestsTypeOK /\ SpacesTypeOK /\ ContentTypeOK /\ ProfileTypeOK /\ RequestsTypeOK'
      /\ req \in [Request -> Asked] /\ \A q \in Request : Well(req[q]) /\ req[q] \in Asked
  BY TypeStep DEF EarnedInv, RequestsTypeOK, SpacesTypeOK, Asked
<1>2. CASE UNCHANGED requestsVars
  <2>1. UNCHANGED <<rows, invites, req, consents, granted>>
    BY <1>2 DEF requestsVars, spacesVars, dbVars
  <2> QED
    BY <1>1, <2>1 DEF EarnedInv, Joining, Granted, Entitled
<1>3. ASSUME NEW q \in Request, req[q].op # "none", Members(q) PROVE EarnedInv'
  <2>1. Steps(q)
    BY <1>1, <1>3, MemberTypes DEF Members
  <2>2. ASSUME NEW p \in Request, p # q PROVE Entitled(p)'
    <3>1. req'[p] = req[p] /\ Entitled(p) /\ Well(req[p]) /\ req[p].pc \in Nat
      BY <1>1, <2>1, <2>2 DEF EarnedInv, Steps, Only, Asked
    <3>2. \A v, x : Granted(v, x) => GrantedThen(v, x)
      BY <1>1, <1>3, HistoryGrows DEF Members, Requesting, Granted, GrantedThen
    <3>3. \A i \in Invite :
             /\ invites[i].status # "none" => invites'[i].status # "none"
             /\ invites[i].status = "deleted" => invites'[i].status = "deleted"
             /\ invites[i].status # "none" =>
                   invites'[i].status = "deleted" \/ invites'[i].to = invites[i].to
      BY <1>1, <1>3, InviteSteps DEF Members
    <3> QED
      BY <3>1, <3>2, <3>3, EntitledStays DEF Alike
  <2>3. consents'[Owner] > 0 /\ GrantedThen(Owner, "owner")
    <3>1. consents[Owner] <= consents'[Owner] /\ consents[Owner] \in Nat /\ consents'[Owner] \in Nat
      BY <1>1, <1>3, HistoryGrows, SpacesAssumption DEF Members, Requesting, RequestsTypeOK
    <3>2. Granted(Owner, "owner") => GrantedThen(Owner, "owner")
      BY <1>1, <1>3, HistoryGrows DEF Members, Requesting, Granted, GrantedThen
    <3> QED
      BY <3>1, <3>2 DEF EarnedInv
  <2>4. ASSUME NEW u \in User
        PROVE  /\ Len(rows'[u]) + Cardinality(Joining(u)') <= consents'[u]
               /\ \A r \in ToSet(rows'[u]) : GrantedThen(u, r)
    BY <1>3, CountMember, RowsMember DEF Granted, GrantedThen
  <2>5. ASSUME NEW i \in Invite PROVE GrantedThen(invites'[i].to, invites'[i].role)
    BY <1>3, InvitesMember DEF Granted, GrantedThen
  <2>6. Entitled(q)'
    BY <1>3, EntitledMember
  <2> QED
    BY <1>1, <2>2, <2>3, <2>4, <2>5, <2>6 DEF EarnedInv, Granted, GrantedThen
<1>4. ASSUME NEW q \in Request, req[q].op # "none", Contents(q) PROVE EarnedInv'
  <2>1. /\ Ends(q) \/ Goes(q, req[q].pc + 1, req[q].calls)
        /\ req[q].op \in ContentOps /\ UNCHANGED <<rows, invites>>
    BY <1>1, <1>4, ContentTypes DEF Contents, dbVars
  <2> QED
    BY <1>1, <1>4, <2>1, EarnedQuiet
       DEF Contents, Requesting, Ends, Goes, Only, Alike, ContentOps
<1>5. ASSUME NEW q \in Request, req[q].op # "none", Fails(q) PROVE EarnedInv'
  <2>1. \/ Goes(q, req[q].pc, Tail(req[q].calls))
        \/ Ends(q)
    BY <1>1, <1>5, FailsFacts
  <2>2. UNCHANGED <<rows, invites>>
    BY <1>5 DEF Fails, dbVars
  <2> QED
    BY <1>1, <1>5, <2>1, <2>2, EarnedQuiet DEF Fails, Requesting, Ends, Goes, Only, Alike
<1>6. ASSUME NEW q \in Request, Sends(q) PROVE EarnedInv'
  <2>1. Only(q) /\ req'[q].pc = 1 /\ UNCHANGED <<rows, invites>>
    BY <1>1, <1>6, SendFacts DEF Sends, dbVars
  <2> QED
    BY <1>1, <1>6, <2>1, EarnedQuiet DEF Sends, Requesting, Only, Alike
<1>7. ASSUME NEW d \in DOMAIN docs, Deletes(d) PROVE EarnedInv'
  <2>1. UNCHANGED <<rows, invites, req>> /\ RememberRequests({})
    BY <1>7 DEF Deletes, DeleteDoc, spacesVars, dbVars, Requesting
  <2> QED
    BY <1>1, <2>1, EarnedQuiet DEF Alike
<1>8. ASSUME NEW u \in Page, Pages(u) PROVE EarnedInv'
  <2>1. UNCHANGED <<rows, invites, req>> /\ RememberRequests({})
    BY <1>8 DEF Pages, dbVars, Requesting
  <2> QED
    BY <1>1, <2>1, EarnedQuiet DEF Alike
<1>9. CASE Stops
  <2>1. /\ UNCHANGED invites /\ (UNCHANGED rows \/ rows' = [u \in User |-> <<>>])
        /\ RememberRequests(Underway) /\ \A p \in Request : req'[p] = Idle
    BY <1>9 DEF Stops, Restart, Crash, Requesting
  <2> QED
    BY <1>1, <2>1, EarnedQuiet
<1> QED
  BY <1>1, <1>2, <1>3, <1>4, <1>5, <1>6, <1>7, <1>8, <1>9, StepKinds

LEMMA EarnedInit == RequestsInit => EarnedInv
<1> SUFFICES ASSUME RequestsInit PROVE EarnedInv
  OBVIOUS
<1>1. RequestsTypeOK /\ rows \in [User -> Seq(Rank)] /\ Owner \in User /\ a # Owner
  BY TypeInit, SpacesAssumption, RequestsAssumption DEF RequestsTypeOK, SpacesTypeOK
<1>2. /\ \A q \in Request : req[q] = Idle
      /\ consents = [u \in User |-> IF u = Owner THEN 1 ELSE Len(rows[u])]
      /\ granted = {<<Owner, "owner">>} \cup
           {<<u, Head(rows[u])>> : u \in {v \in User : rows[v] # <<>>}}
  BY DEF RequestsInit
<1>3. ASSUME NEW u \in User PROVE rows[u] = <<>> \/ \E r \in Rank : rows[u] = <<r>>
  BY DEF RequestsInit, Rank
<1>4. ASSUME NEW u \in User PROVE Len(rows[u]) + Cardinality(Joining(u)) <= consents[u]
  <2>1. Joining(u) = {}
    BY <1>2 DEF Joining, Idle
  <2>2. Cardinality(Joining(u)) = 0
    BY <2>1, FS_EmptySet
  <2>3. consents[u] = IF u = Owner THEN 1 ELSE Len(rows[u])
    BY <1>2
  <2>4. Len(rows[u]) \in {0, 1}
    <3>1. CASE rows[u] = <<>>
      BY <3>1
    <3>2. ASSUME NEW r, rows[u] = <<r>> PROVE Len(rows[u]) = 1
      BY <3>2
    <3> QED
      BY <1>3, <3>1, <3>2
  <2> DEFINE l == Len(rows[u])
  <2>5. l + 0 <= consents[u]
    <3>1. l \in {0, 1} /\ consents[u] = IF u = Owner THEN 1 ELSE l
      BY <2>3, <2>4
    <3> HIDE DEF l
    <3> QED
      BY <3>1
  <2> QED
    BY <2>2, <2>5
<1>5. ASSUME NEW u \in User, NEW r \in ToSet(rows[u]) PROVE Granted(u, r)
  <2>1. rows[u] = <<r>>
    BY <1>3, <1>5 DEF ToSet
  <2>2. rows[u] # <<>> /\ Head(rows[u]) = r
    BY <2>1
  <2>3. <<u, r>> \in {<<v, Head(rows[v])>> : v \in {w \in User : rows[w] # <<>>}}
    BY <2>2
  <2> QED
    BY <1>2, <2>3 DEF Granted
<1>6. ASSUME NEW i \in Invite PROVE Granted(invites[i].to, invites[i].role)
  BY DEF RequestsInit, NoInvite, Granted
<1>7. ASSUME NEW q \in Request PROVE Entitled(q)
  BY <1>2 DEF Entitled, Idle
<1> QED
  BY <1>1, <1>2, <1>4, <1>5, <1>6, <1>7 DEF EarnedInv, Granted

\* The parts of the application that requests about a space are made of keep the
\* types of their variables.
THEOREM RequestsTypeCorrect == RequestsSpec => [](SpacesTypeOK /\ ContentTypeOK /\ ProfileTypeOK)
<1>1. RequestsTypeOK => SpacesTypeOK /\ ContentTypeOK /\ ProfileTypeOK
  BY DEF RequestsTypeOK
<1> QED
  BY TypeInit, TypeStep, <1>1, PTL DEF RequestsSpec

\* Nobody is a member more often than they agreed to be, and who is an admin or an
\* owner is so by an owner's wish: whatever requests there are at once, and whatever
\* an invite becomes while it is being accepted.
THEOREM RowsAlwaysEarned == RequestsSpec => []RowsEarned
<1>1. EarnedInv => RowsEarned
  <2> SUFFICES ASSUME EarnedInv, NEW u \in User
               PROVE  /\ Len(rows[u]) <= consents[u]
                      /\ \A r \in ToSet(rows[u]) \cap {"admin", "owner"} : <<u, r>> \in granted
    BY DEF RowsEarned
  <2>1. Len(rows[u]) + Cardinality(Joining(u)) <= consents[u]
    BY DEF EarnedInv
  <2>2. Cardinality(Joining(u)) \in Nat /\ Len(rows[u]) \in Nat /\ consents[u] \in Nat
    BY JoiningFinite DEF EarnedInv, RequestsTypeOK, SpacesTypeOK
  <2> QED
    BY <2>1, <2>2 DEF EarnedInv, Granted
<1> QED
  BY EarnedInit, EarnedStep, <1>1, PTL DEF RequestsSpec

-----------------------------------------------------------------------------
(* Who has access *)

\* The calls that a request may have queued, and is yet to make.
RoleMoves(r) ==
    IF r = "readonly" THEN {<<Ask("add", "readonly"), Ask("remove", "members")>>,
                               <<Ask("remove", "members")>>, <<>>}
    ELSE {<<Ask("remove", "readonly"), Ask("add", "members")>>, <<Ask("add", "members")>>, <<>>}

Queued(k) ==
    \/ k.calls = <<>>
    \/ k.op = "create" /\ k.pc = 2
       /\ k.calls \in {<<Ask("create", "readonly"), Ask("create", "members"),
                         Ask("other", "members"), Ask("other", "members")>>,
                       <<Ask("create", "members"), Ask("other", "members"),
                         Ask("other", "members")>>,
                       <<Ask("other", "members"), Ask("other", "members")>>,
                       <<Ask("other", "members")>>}
    \/ k.op = "create" /\ k.pc = 3 /\ k.calls = <<Ask("add", "members")>>
    \/ k.op = "delete" /\ k.pc = 3
       /\ k.calls \in {<<Ask("other", "members"), Ask("delete", "readonly"),
                         Ask("delete", "members")>>,
                       <<Ask("delete", "readonly"), Ask("delete", "members")>>,
                       <<Ask("delete", "members")>>}
    \/ k.op = "change" /\ k.pc = 4 /\ k.calls \in RoleMoves(k.role)
    \/ k.op = "remove" /\ k.pc = 4
       /\ k.calls \in {<<Ask("remove", "members"), Ask("remove", "readonly")>>,
                       <<Ask("remove", "readonly")>>}
    \/ k.op = "accept" /\ k.pc = 4 /\ k.calls = <<Ask("add", GroupOf(k.role))>>

\* Request k has not yet had anything to do with who has access.
Early(k) ==
    \/ k.op \in {"leave", "invite"} \/ k.pc < 2
    \/ k.op = "delete" /\ k.pc < 3
    \/ k.op \in {"change", "remove", "accept"} /\ k.pc < 4

\* What user u, whom request k concerns, has after each of its calls.
Halfway(k, u) ==
    /\ k.op = "create" /\ k.pc = 2 =>
          /\ rows[u] = <<>> /\ access[u] = {}
          /\ Len(k.calls) < 4 => "readonly" \in exist
          /\ Len(k.calls) < 3 => "members" \in exist
    /\ k.op = "create" /\ k.pc > 2 =>
          /\ exist = Group
          /\ rows[u] = IF u = Owner THEN <<"owner">> ELSE <<>>
          /\ access[u] = IF u = Owner /\ k.calls = <<>> THEN {"members"} ELSE {}
    /\ k.op = "delete" /\ k.pc > 2 =>
          /\ Len(k.calls) < 2 => access[u] \subseteq {"members"}
          /\ k.calls = <<>> => access[u] = {}
    /\ k.op = "change" /\ k.pc > 3 =>
          /\ rows[u] # <<>> /\ exist = Group
          /\ Len(k.calls) = 1 => IF k.role = "readonly" THEN "readonly" \in access[u]
                                 ELSE access[u] \subseteq {"members"}
          /\ k.calls = <<>> => access[u] = {GroupOf(k.role)}
    /\ k.op = "remove" /\ k.pc > 3 =>
          /\ rows[u] = <<>>
          /\ Len(k.calls) < 2 => access[u] \subseteq {"readonly"}
          /\ k.calls = <<>> => access[u] = {}
    /\ k.op = "accept" /\ k.pc > 3 =>
          /\ rows[u] = <<k.role>>
          /\ access[u] = IF k.calls = <<>> THEN {GroupOf(k.role)} ELSE {}
          /\ k.calls # <<>> => exist = Group

\* User u has been invited once, and is no member.
SentTo(u) == {i \in Invite : invites[i].status = "sent" /\ invites[i].to = u}

Guest(k, u) ==
    /\ k.op = "accept" /\ k.pc \in {2, 3} => rows[u] = <<>>
    /\ k.op = "accept" /\ k.pc > 1 => SentTo(u) = {}
    /\ k.op = "invite" /\ k.pc > 2 => rows[u] = <<>>
    /\ k.op = "invite" /\ k.pc > 3 => SentTo(u) = {}

\* Requests about user u have come one after the other.
InOrder(u) ==
    /\ \A p, q \in Request : Concerns(p, u) /\ Concerns(q, u) => p = q
    /\ (~\E q \in Request : Concerns(q, u)) => AccessIs(u)
    /\ \A q \in Request : Concerns(q, u) =>
          /\ Early(req[q]) => AccessIs(u)
          /\ Halfway(req[q], u)
          /\ Guest(req[q], u)
    /\ Len(rows[u]) <= 1
    /\ \A i, j \in SentTo(u) : i = j
    /\ rows[u] # <<>> => SentTo(u) = {}
    /\ space = "live" /\ (\A q \in Request : req[q].op = "delete" => req[q].pc < 3) =>
          exist = Group

\* The space, and the requests that there may be.
SpaceStage ==
    /\ space \in {"none", "creating"} => \A q \in Request : req[q].op \in {"none", "create"}
    /\ space = "none" => /\ exist = {}
                         /\ \A u \in User : rows[u] = <<>> /\ access[u] = {}
    /\ space = "deleted" => \A u \in User : rows[u] = <<>>
    /\ \A q \in Request : req[q].op = "create" /\ req[q].pc > 1 => space = "creating"
    /\ \A p, q \in Request : /\ req[p].op = "create" /\ req[p].pc > 1
                             /\ req[q].op = "create" /\ req[q].pc > 1
                             => p = q
    /\ space = "deleting" => \E q \in Request : req[q].op = "delete" /\ req[q].pc = 3
    /\ \A i \in Invite : invites[i].status = "sent" => invites[i].to = b
    /\ \A q \in Request : Queued(req[q])

AccessInv ==
    /\ RequestsTypeOK /\ SpaceStage
    /\ \A u \in User \ mixed : InOrder(u)

LEMMA Lists ==
    ASSUME NEW x, NEW y, NEW z, NEW w
    PROVE  /\ Tail(<<x>>) = <<>> /\ Tail(<<x, y>>) = <<y>> /\ Tail(<<x, y, z>>) = <<y, z>>
           /\ Tail(<<x, y, z, w>>) = <<y, z, w>>
           /\ Head(<<x>>) = x /\ Head(<<x, y>>) = x /\ Head(<<x, y, z>>) = x
           /\ Head(<<x, y, z, w>>) = x
           /\ Len(<<x>>) = 1 /\ Len(<<x, y>>) = 2 /\ Len(<<x, y, z>>) = 3
           /\ Len(<<x, y, z, w>>) = 4 /\ Len(<<>>) = 0
<1>1. /\ Tail(<<x>>) = <<>> /\ Tail(<<x, y>>) = <<y>> /\ Tail(<<x, y, z>>) = <<y, z>>
  OBVIOUS
<1>2. Tail(<<x, y, z, w>>) = <<y, z, w>>
  OBVIOUS
<1>3. /\ Head(<<x>>) = x /\ Head(<<x, y>>) = x /\ Head(<<x, y, z>>) = x
      /\ Head(<<x, y, z, w>>) = x
  OBVIOUS
<1>4. /\ Len(<<x>>) = 1 /\ Len(<<x, y>>) = 2 /\ Len(<<x, y, z>>) = 3
      /\ Len(<<x, y, z, w>>) = 4 /\ Len(<<>>) = 0
  OBVIOUS
<1> QED
  BY <1>1, <1>2, <1>3, <1>4

\* The next of n calls that request k is yet to make; and request m, which has made it.
NextOf(k, n, do, g) == Len(k.calls) = n /\ Head(k.calls) = Ask(do, g)

LEMMA CallKinds ==
    ASSUME NEW k, Queued(k), k.calls # <<>>
    PROVE  /\ \/ /\ k.op = "create" /\ k.pc = 2
                 /\ \/ NextOf(k, 4, "create", "readonly") \/ NextOf(k, 3, "create", "members")
                    \/ NextOf(k, 2, "other", "members") \/ NextOf(k, 1, "other", "members")
              \/ k.op = "create" /\ k.pc = 3 /\ NextOf(k, 1, "add", "members")
              \/ /\ k.op = "delete" /\ k.pc = 3
                 /\ \/ NextOf(k, 3, "other", "members") \/ NextOf(k, 2, "delete", "readonly")
                    \/ NextOf(k, 1, "delete", "members")
              \/ /\ k.op = "change" /\ k.pc = 4
                 /\ IF k.role = "readonly"
                    THEN NextOf(k, 2, "add", "readonly") \/ NextOf(k, 1, "remove", "members")
                    ELSE NextOf(k, 2, "remove", "readonly") \/ NextOf(k, 1, "add", "members")
              \/ /\ k.op = "remove" /\ k.pc = 4
                 /\ NextOf(k, 2, "remove", "members") \/ NextOf(k, 1, "remove", "readonly")
              \/ k.op = "accept" /\ k.pc = 4 /\ NextOf(k, 1, "add", GroupOf(k.role))
           /\ Len(Tail(k.calls)) = Len(k.calls) - 1
           /\ Tail(k.calls) = <<>> <=> Len(k.calls) = 1
           /\ \A m : /\ m.op = k.op /\ m.pc = k.pc /\ m.role = k.role
                     /\ m.calls = Tail(k.calls)
                     => Queued(m)
<1>1. ASSUME NEW x, k.calls = <<x>>
      PROVE  Tail(k.calls) = <<>> /\ Head(k.calls) = x /\ Len(k.calls) = 1 /\ Len(Tail(k.calls)) = 0
  BY <1>1, Lists
<1>2. ASSUME NEW x, NEW y, k.calls = <<x, y>>
      PROVE  Tail(k.calls) = <<y>> /\ Head(k.calls) = x /\ Len(k.calls) = 2 /\ Len(Tail(k.calls)) = 1
  BY <1>2, Lists
<1>3. ASSUME NEW x, NEW y, NEW z, k.calls = <<x, y, z>>
      PROVE  Tail(k.calls) = <<y, z>> /\ Head(k.calls) = x /\ Len(k.calls) = 3 /\ Len(Tail(k.calls)) = 2
  BY <1>3, Lists
<1>4. ASSUME NEW x, NEW y, NEW z, NEW w, k.calls = <<x, y, z, w>>
      PROVE  Tail(k.calls) = <<y, z, w>> /\ Head(k.calls) = x /\ Len(k.calls) = 4 /\ Len(Tail(k.calls)) = 3
  BY <1>4, Lists
<1>5. <<>> # k.calls /\ \A x, y, z : <<x>> # <<>> /\ <<x, y>> # <<>> /\ <<x, y, z>> # <<>>
  OBVIOUS
<1>6. CASE k.op = "create"
  <2>1. CASE k.pc = 2 /\ k.calls = <<Ask("create", "readonly"), Ask("create", "members"), Ask("other", "members"), Ask("other", "members")>>
    BY <1>6, <1>4, <1>5, <2>1 DEF NextOf, Queued
  <2>2. CASE k.pc = 2 /\ k.calls = <<Ask("create", "members"), Ask("other", "members"), Ask("other", "members")>>
    BY <1>6, <1>3, <1>5, <2>2 DEF NextOf, Queued
  <2>3. CASE k.pc = 2 /\ k.calls = <<Ask("other", "members"), Ask("other", "members")>>
    BY <1>6, <1>2, <1>5, <2>3 DEF NextOf, Queued
  <2>4. CASE k.pc = 2 /\ k.calls = <<Ask("other", "members")>>
    BY <1>6, <1>1, <1>5, <2>4 DEF NextOf, Queued
  <2>5. CASE k.pc = 3 /\ k.calls = <<Ask("add", "members")>>
    BY <1>6, <1>1, <1>5, <2>5 DEF NextOf, Queued
  <2> QED
    BY <1>6, <2>1, <2>2, <2>3, <2>4, <2>5 DEF Queued
<1>7. CASE k.op = "delete"
  <2>1. CASE k.pc = 3 /\ k.calls = <<Ask("other", "members"), Ask("delete", "readonly"), Ask("delete", "members")>>
    BY <1>7, <1>3, <1>5, <2>1 DEF NextOf, Queued
  <2>2. CASE k.pc = 3 /\ k.calls = <<Ask("delete", "readonly"), Ask("delete", "members")>>
    BY <1>7, <1>2, <1>5, <2>2 DEF NextOf, Queued
  <2>3. CASE k.pc = 3 /\ k.calls = <<Ask("delete", "members")>>
    BY <1>7, <1>1, <1>5, <2>3 DEF NextOf, Queued
  <2> QED
    BY <1>7, <2>1, <2>2, <2>3 DEF Queued
<1>8. CASE k.op = "change"
  <2>1. CASE k.pc = 4 /\ k.role = "readonly" /\ k.calls = <<Ask("add", "readonly"), Ask("remove", "members")>>
    BY <1>8, <1>2, <1>5, <2>1 DEF NextOf, Queued, RoleMoves
  <2>2. CASE k.pc = 4 /\ k.role = "readonly" /\ k.calls = <<Ask("remove", "members")>>
    BY <1>8, <1>1, <1>5, <2>2 DEF NextOf, Queued, RoleMoves
  <2>3. CASE k.pc = 4 /\ k.role # "readonly" /\ k.calls = <<Ask("remove", "readonly"), Ask("add", "members")>>
    BY <1>8, <1>2, <1>5, <2>3 DEF NextOf, Queued, RoleMoves
  <2>4. CASE k.pc = 4 /\ k.role # "readonly" /\ k.calls = <<Ask("add", "members")>>
    BY <1>8, <1>1, <1>5, <2>4 DEF NextOf, Queued, RoleMoves
  <2> QED
    BY <1>8, <2>1, <2>2, <2>3, <2>4 DEF Queued, RoleMoves
<1>9. CASE k.op = "remove"
  <2>1. CASE k.pc = 4 /\ k.calls = <<Ask("remove", "members"), Ask("remove", "readonly")>>
    BY <1>9, <1>2, <1>5, <2>1 DEF NextOf, Queued
  <2>2. CASE k.pc = 4 /\ k.calls = <<Ask("remove", "readonly")>>
    BY <1>9, <1>1, <1>5, <2>2 DEF NextOf, Queued
  <2> QED
    BY <1>9, <2>1, <2>2 DEF Queued
<1>10. CASE k.op = "accept"
  <2>1. CASE k.pc = 4 /\ k.calls = <<Ask("add", GroupOf(k.role))>>
    BY <1>10, <1>1, <1>5, <2>1 DEF NextOf, Queued
  <2> QED
    BY <1>10, <2>1 DEF Queued
<1> QED
  BY <1>6, <1>7, <1>8, <1>9, <1>10 DEF Queued

\* What a call does, that is made for v.
CallDone(v, do, g) ==
    /\ do = "create" => exist' = exist \cup {g} /\ access' = access
    /\ do = "other" => exist' = exist /\ access' = access
    /\ do = "add" => /\ exist' = exist
                     /\ access'[v] = IF g \in exist THEN access[v] \cup {g} ELSE access[v]
                     /\ \A u \in User : u # v => access'[u] = access[u]
    /\ do = "remove" => /\ exist' = exist
                        /\ access'[v] = access[v] \ {g}
                        /\ \A u \in User : u # v => access'[u] = access[u]
    /\ do = "delete" => /\ exist' = exist \ {g}
                        /\ \A u \in User : access'[u] = access[u] \ {g}

Makes(k, n, do, g) == CallDone(k.to, do, g) /\ Len(k.calls) = n

LEMMA CallSteps ==
    ASSUME SpacesTypeOK, NEW q \in Request, MakeCall(q), NEW n, NEW do, NEW g,
           NextOf(req[q], n, do, g)
    PROVE  CallDone(req[q].to, do, g)
<1>1. access \in [User -> SUBSET Group] /\ req[q].to \in User
  BY DEF SpacesTypeOK
<1>2. DoCall(req[q].to, Ask(do, g))
  BY DEF MakeCall, NextOf
<1>3. Ask(do, g).do = do /\ Ask(do, g).group = g
  BY DEF Ask
<1> HIDE DEF Ask
<1> QED
  BY <1>1, <1>2, <1>3 DEF DoCall, CallDone

\* A step about members is a call, the last step of a request, or its next.
Onward(q) ==
    /\ Only(q) /\ Alike(q) /\ req'[q].pc = req[q].pc + 1 /\ Queued(req'[q])

LEMMA MemberMoves ==
    ASSUME SpacesTypeOK, NEW q \in Request, Well(req[q]), MemberStep(q)
    PROVE  \/ MakeCall(q)
           \/ req[q].calls = <<>> /\ (Ends(q) \/ Onward(q))
<1>1. req \in [Request -> Asked] /\ req[q] \in Asked /\ req[q].to \in User /\ req[q].by \in User
      /\ req[q].role \in Rank
  BY DEF SpacesTypeOK, Asked
<1>2. ASSUME Goes(q, req[q].pc + 1, <<>>) PROVE Onward(q)
  BY <1>2 DEF Goes, Onward, Queued
<1>3. ASSUME Done(q) PROVE Ends(q)
  BY <1>1, <1>3, DoneFacts
<1>4. ASSUME NEW ok, AdvanceIf(q, ok), req[q].calls = <<>> PROVE Ends(q) \/ Onward(q)
  BY <1>1, <1>2, <1>4, AdvanceIfFacts
<1>5. CASE CreateSpace(q)
  <2>1. /\ <<Ask("create", "readonly"), Ask("create", "members"),
             Ask("other", "members"), Ask("other", "members")>> \in Seq(Call)
        /\ <<Ask("add", "members")>> \in Seq(Call)
    BY CallTypes
  <2>2. CASE At(q, "create", 1) /\ Calling(q, <<Ask("create", "readonly"), Ask("create", "members"),
                          Ask("other", "members"), Ask("other", "members")>>)
    <3>1. Goes(q, req[q].pc + 1, <<Ask("create", "readonly"), Ask("create", "members"),
                          Ask("other", "members"), Ask("other", "members")>>)
      BY <1>1, <2>1, <2>2, CallingFacts
    <3> QED
      BY <2>2, <3>1 DEF Goes, Onward, Alike, Queued, At
  <2>3. CASE At(q, "create", 2) /\ Calling(q, <<Ask("add", "members")>>)
    <3>1. Goes(q, req[q].pc + 1, <<Ask("add", "members")>>)
      BY <1>1, <2>1, <2>3, CallingFacts
    <3> QED
      BY <2>3, <3>1 DEF Goes, Onward, Alike, Queued, At
  <2> QED
    BY <1>3, <1>5, <2>2, <2>3 DEF CreateSpace, At
<1>6. CASE DeleteSpace(q)
  <2>1. <<Ask("other", "members"), Ask("delete", "readonly"), Ask("delete", "members")>> \in Seq(Call)
    BY CallTypes
  <2>2. CASE At(q, "delete", 2) /\ Calling(q, <<Ask("other", "members"), Ask("delete", "readonly"),
                                                 Ask("delete", "members")>>)
    <3>1. Goes(q, req[q].pc + 1, <<Ask("other", "members"), Ask("delete", "readonly"),
                                                 Ask("delete", "members")>>)
      BY <1>1, <2>1, <2>2, CallingFacts
    <3> QED
      BY <2>2, <3>1 DEF Goes, Onward, Alike, Queued, At
  <2> QED
    BY <1>3, <1>4, <1>6, <2>2 DEF DeleteSpace, At
<1>7. CASE LeaveSpace(q)
  BY <1>3, <1>7 DEF LeaveSpace, At
<1>8. CASE CheckMember(q)
  <2>1. ASSUME NEW of \in Roles(req[q].to), of # "none",
               req' = [req EXCEPT ![q].saw = of, ![q].pc = 2]
        PROVE  Goes(q, 2, req[q].calls)
    <3>1. of \in Rank
      BY <1>1, <2>1, RolesTypes
    <3> QED
      BY <1>1, <2>1, <3>1, SawFacts
  <2>2. req[q].calls = <<>>
    BY <1>8 DEF CheckMember, At
  <2>3. CASE req[q].pc = 1
    <3>1. ~At(q, req[q].op, 2)
      BY <2>3 DEF At
    <3>2. Done(q) \/ Goes(q, 2, req[q].calls)
      BY <1>8, <2>1, <3>1 DEF CheckMember
    <3> QED
      BY <1>2, <1>3, <2>2, <2>3, <3>2
  <2>4. CASE req[q].pc = 2
    BY <1>4, <1>8, <2>2, <2>4 DEF CheckMember, At
  <2> QED
    BY <1>8, <2>3, <2>4, MemberKinds DEF CheckMember, At
<1>9. CASE ChangeMemberRole(q)
  <2>1. ASSUME NEW old, Calling(q, Moves(old, req[q].role)), At(q, "change", 3) PROVE Onward(q)
    <3>1. Goes(q, req[q].pc + 1, Moves(old, req[q].role))
      BY <1>1, <2>1, CallTypes, CallingFacts
    <3>2. Moves(old, req[q].role) \in RoleMoves(req[q].role)
      BY DEF Moves, RoleMoves
    <3> QED
      BY <2>1, <3>1, <3>2 DEF Goes, Onward, Alike, Queued, At
  <2> QED
    BY <1>3, <1>9, <2>1 DEF ChangeMemberRole, At
<1>10. CASE RemoveMember(q)
  <2>1. <<Ask("remove", "members"), Ask("remove", "readonly")>> \in Seq(Call)
    BY CallTypes
  <2>2. CASE At(q, "remove", 3) /\ Calling(q, <<Ask("remove", "members"), Ask("remove", "readonly")>>)
    <3>1. Goes(q, req[q].pc + 1, <<Ask("remove", "members"), Ask("remove", "readonly")>>)
      BY <1>1, <2>1, <2>2, CallingFacts
    <3> QED
      BY <2>2, <3>1 DEF Goes, Onward, Alike, Queued, At
  <2> QED
    BY <1>3, <1>10, <2>2 DEF RemoveMember, At
<1>11. CASE CreateInvite(q)
  <2>1. ASSUME Advance(q) PROVE Goes(q, req[q].pc + 1, req[q].calls)
    BY <1>1, <2>1, AdvanceFacts
  <2> QED
    BY <1>2, <1>3, <1>4, <1>11, <2>1 DEF CreateInvite, At
<1>12. CASE CheckInvite(q)
  BY <1>4, <1>12 DEF CheckInvite, At
<1>13. CASE WriteInvite(q) \/ DeclineInvite(q)
  BY <1>3, <1>13 DEF WriteInvite, DeclineInvite, At
<1>14. CASE AcceptInvite(q)
  <2>1. req[q].on \in Invite /\ invites[req[q].on].role \in Rank
    BY <1>14 DEF AcceptInvite, At, Well, SpacesTypeOK
  <2>2. CASE At(q, "accept", 1)
    BY <1>4, <1>14, <2>2 DEF AcceptInvite, At
  <2>3. CASE At(q, "accept", 2) /\ req' = [req EXCEPT ![q].role = invites[req[q].on].role, ![q].pc = 3]
    <3>1. Only(q) /\ Alike(q) /\ req'[q].pc = 3 /\ req'[q].calls = req[q].calls
      BY <1>1, <2>1, <2>3, RoleFacts
    <3>2. req[q].pc = 2 /\ req[q].calls = <<>>
      BY <2>3 DEF At
    <3> QED
      BY <3>1, <3>2 DEF Onward, Queued
  <2>4. CASE At(q, "accept", 3) /\ Calling(q, <<Ask("add", GroupOf(req[q].role))>>)
    <3>1. <<Ask("add", GroupOf(req[q].role))>> \in Seq(Call)
      BY CallTypes
    <3>2. Goes(q, req[q].pc + 1, <<Ask("add", GroupOf(req[q].role))>>)
      BY <1>1, <2>4, <3>1, CallingFacts
    <3> QED
      BY <2>4, <3>2 DEF Goes, Onward, Alike, Queued, At
  <2> QED
    BY <1>3, <1>14, <2>2, <2>3, <2>4 DEF AcceptInvite, At
<1> QED
  BY <1>5, <1>6, <1>7, <1>8, <1>9, <1>10, <1>11, <1>12, <1>13, <1>14 DEF MemberStep

\* What becomes of the space.
LEMMA SpaceMoves ==
    ASSUME SpacesTypeOK, NEW q \in Request, MemberStep(q)
    PROVE  \/ UNCHANGED space
           \/ /\ req[q].op = "create" /\ req[q].pc = 1 /\ space = "none" /\ space' = "creating"
              /\ UNCHANGED <<rows, invites, exist, access>>
           \/ /\ req[q].op = "create" /\ req[q].pc = 3 /\ space' = "live" /\ Ends(q)
           \/ /\ req[q].op = "delete" /\ req[q].pc = 2 /\ space = "live" /\ space' = "deleting"
              /\ req'[q].op = "delete" /\ req'[q].pc = 3
           \/ /\ req[q].op = "delete" /\ req[q].pc = 3 /\ space' = "deleted"
              /\ rows' = [u \in User |-> <<>>]
<1>1. req \in [Request -> Asked]
  BY DEF SpacesTypeOK, Asked
<1>2. CASE CreateSpace(q)
  BY <1>1, <1>2, DoneFacts DEF CreateSpace, At, syncVars
<1>3. CASE DeleteSpace(q)
  <2>1. <<Ask("other", "members"), Ask("delete", "readonly"), Ask("delete", "members")>> \in Seq(Call)
    BY CallTypes
  <2>2. CASE At(q, "delete", 2)
    <3>1. Calling(q, <<Ask("other", "members"), Ask("delete", "readonly"), Ask("delete", "members")>>)
      BY <1>3, <2>2 DEF DeleteSpace, At
    <3>2. req'[q].op = "delete" /\ req'[q].pc = 3
      <4>1. Goes(q, req[q].pc + 1, <<Ask("other", "members"), Ask("delete", "readonly"),
                                     Ask("delete", "members")>>)
        BY <1>1, <2>1, <3>1, CallingFacts
      <4> QED
        BY <2>2, <4>1 DEF Goes, Alike, At
    <3> QED
      BY <1>3, <2>2, <3>2 DEF DeleteSpace, At
  <2> QED
    BY <1>3, <2>2 DEF DeleteSpace, At
<1> QED
  BY <1>2, <1>3 DEF MemberStep, MakeCall, LeaveSpace, CheckMember, ChangeMemberRole, RemoveMember,
       CreateInvite, CheckInvite, WriteInvite, AcceptInvite, DeclineInvite, dbVars

\* There are no rows of a space that has been deleted.
LEMMA NoRowsMember ==
    ASSUME SpacesTypeOK, NEW q \in Request, MemberStep(q), space = "deleted", NEW u \in User,
           rows[u] = <<>>, req[q].op = "create" => req[q].pc < 2
    PROVE  rows'[u] = <<>>
<1>1. rows \in [User -> Seq(Rank)] /\ req[q].by \in User /\ req[q].to \in User
  BY DEF SpacesTypeOK
<1>2. CASE CreateSpace(q)
  BY <1>2 DEF CreateSpace, At
<1>3. CASE LeaveSpace(q)
  <2>1. rows' = [rows EXCEPT ![req[q].by] = OwnerRows(rows[req[q].by])]
    BY <1>3 DEF LeaveSpace
  <2>2. u = req[q].by => rows'[u] = OwnerRows(rows[u])
    BY <1>1, <2>1
  <2>3. OwnerRows(rows[u]) \in Seq(Rank) /\ Len(OwnerRows(rows[u])) <= Len(rows[u])
    BY <1>1, OwnerRowsFacts
  <2>4. Len(rows[u]) = 0
    OBVIOUS
  <2>5. OwnerRows(rows[u]) = <<>>
    BY <2>3, <2>4
  <2>6. u # req[q].by => rows'[u] = rows[u]
    BY <1>1, <2>1
  <2> QED
    BY <2>2, <2>5, <2>6
<1>4. CASE ChangeMemberRole(q)
  <2>1. CASE rows' = [rows EXCEPT ![req[q].to] = [i \in DOMAIN rows[req[q].to] |-> req[q].role]]
    <3>1. CASE u = req[q].to
      <4>1. rows'[u] = [i \in DOMAIN rows[u] |-> req[q].role] /\ DOMAIN rows[u] = {}
        BY <1>1, <2>1, <3>1
      <4> QED
        BY <4>1
    <3> QED
      BY <1>1, <2>1, <3>1
  <2> QED
    BY <1>4, <2>1 DEF ChangeMemberRole
<1>5. CASE RemoveMember(q)
  BY <1>1, <1>5 DEF RemoveMember
<1>6. CASE AcceptInvite(q)
  BY <1>6 DEF AcceptInvite
<1>7. CASE DeleteSpace(q)
  BY <1>7 DEF DeleteSpace
<1> QED
  BY <1>2, <1>3, <1>4, <1>5, <1>6, <1>7
     DEF MemberStep, MakeCall, CheckMember, CreateInvite, CheckInvite, WriteInvite, DeclineInvite,
         dbVars

\* An invite that is sent is to b.
LEMMA SentMember ==
    ASSUME SpacesTypeOK, NEW q \in Request, Well(req[q]), MemberStep(q), NEW i \in Invite,
           invites[i].status = "sent" => invites[i].to = b, invites'[i].status = "sent"
    PROVE  invites'[i].to = b
<1>1. invites \in [Invite -> [status: {"none", "sent", "accepted", "declined",
                                      "cancelled", "deleted"}, to: User, role: Rank]]
  BY DEF SpacesTypeOK
<1>2. CASE UNCHANGED invites
  BY <1>2
<1>3. ASSUME NEW j \in Invite, NEW st, SetStatus(j, st), st # "sent" PROVE invites'[i].to = b
  BY <1>1, <1>3 DEF SetStatus, SetInvite
<1>4. CASE DeleteSpace(q)
  BY <1>1, <1>4 DEF DeleteSpace, NoInvite
<1>5. CASE CreateInvite(q)
  <2>1. req[q].to = b
    BY <1>5 DEF CreateInvite, At, Well
  <2>2. CASE invites' = [j \in Invite |->
                IF invites[j].to = req[q].to /\ invites[j].status = "sent"
                THEN [invites[j] EXCEPT !.status = "deleted"] ELSE invites[j]]
    BY <1>1, <2>2
  <2>3. ASSUME NEW j \in Invite, SetInvite(j, [NoInvite EXCEPT !.status = "sent", !.to = req[q].to,
                                                             !.role = req[q].role])
        PROVE  invites'[i].to = b
    <3>1. CASE i = j
      <4> DEFINE n == [NoInvite EXCEPT !.status = "sent", !.to = req[q].to, !.role = req[q].role]
      <4>1. n.to = req[q].to
        BY DEF NoInvite
      <4>2. invites'[i] = n
        BY <1>1, <2>3, <3>1 DEF SetInvite
      <4> HIDE DEF n
      <4> QED
        BY <2>1, <4>1, <4>2
    <3>2. CASE i # j
      BY <1>1, <2>3, <3>2 DEF SetInvite
    <3> QED
      BY <3>1, <3>2
  <2>4. {j \in Invite : invites[j].status = "none"} # {} =>
           (CHOOSE j \in {j \in Invite : invites[j].status = "none"} : TRUE) \in Invite
    OBVIOUS
  <2> QED
    BY <1>2, <1>5, <2>2, <2>3, <2>4 DEF CreateInvite
<1>6. CASE WriteInvite(q)
  <2>1. req[q].on \in Invite
    BY <1>6 DEF WriteInvite, At, Well
  <2>2. CASE SetInvite(req[q].on, [invites[req[q].on] EXCEPT !.role = req[q].role])
    BY <1>1, <2>1, <2>2 DEF SetInvite
  <2> QED
    BY <1>2, <1>3, <1>6, <2>1, <2>2 DEF WriteInvite
<1>7. CASE AcceptInvite(q) \/ DeclineInvite(q)
  <2>1. req[q].on \in Invite
    BY <1>7 DEF AcceptInvite, DeclineInvite, At, Well
  <2> QED
    BY <1>2, <1>3, <1>7, <2>1 DEF AcceptInvite, DeclineInvite
<1> QED
  BY <1>2, <1>4, <1>5, <1>6, <1>7
     DEF MemberStep, MakeCall, CreateSpace, LeaveSpace, CheckMember, ChangeMemberRole,
         RemoveMember, CheckInvite, dbVars

LEMMA StageMember ==
    ASSUME RequestsTypeOK, SpaceStage, NEW q \in Request, req[q].op # "none", Members(q)
    PROVE  SpaceStage'
<1>1. /\ SpacesTypeOK /\ MemberStep(q) /\ Well(req[q]) /\ Steps(q) /\ Queued(req[q])
      /\ req[q].pc \in Nat /\ req \in [Request -> Asked]
  BY MemberTypes DEF RequestsTypeOK, Members, SpacesTypeOK, SpaceStage, Asked
<1>2. \A p \in Request : p # q => req'[p] = req[p]
  BY <1>1 DEF Steps, Only
<1>3. \/ MakeCall(q) /\ req[q].calls # <<>> /\ Goes(q, req[q].pc, Tail(req[q].calls))
      \/ Ends(q)
      \/ Onward(q) /\ req[q].calls = <<>>
  BY <1>1, MemberMoves, MakeCallFacts DEF MakeCall
<1>4. req'[q] = Idle \/ Alike(q)
  BY <1>1 DEF Steps
<1>5. space \in {"none", "creating"} => req[q].op = "create"
  BY DEF SpaceStage
<1>6. req[q].op = "create" /\ req[q].pc > 1 => space = "creating"
  BY DEF SpaceStage
<1>7. MakeCall(q) => req[q].pc > 1
  <2>1. MakeCall(q) => req[q].calls # <<>>
    BY DEF MakeCall
  <2> QED
    BY <1>1, <2>1, CallKinds
<1>8. space' # "none"
  <2>1. CASE space # "none"
    BY <1>1, <2>1, SpaceMoves
  <2>2. CASE space = "none"
    <3>1. ~MakeCall(q) /\ req[q].pc <= 1
      BY <1>1, <1>5, <1>6, <1>7, <2>2
    <3>2. CreateSpace(q)
      BY <1>1, <1>5, <2>2, <3>1, MemberKinds
    <3> QED
      BY <2>2, <3>1, <3>2 DEF CreateSpace, At
  <2> QED
    BY <2>1, <2>2
<1>9. space' = "creating" => \A p \in Request : req'[p].op \in {"none", "create"}
  <2>1. space' = "creating" => space \in {"none", "creating"}
    BY <1>1, SpaceMoves
  <2>2. space \in {"none", "creating"} => \A p \in Request : req[p].op \in {"none", "create"}
    BY DEF SpaceStage
  <2>3. \A p \in Request : req'[p].op = req[p].op \/ req'[p].op = "none"
    BY <1>2, <1>4 DEF Idle, Alike
  <2> QED
    BY <2>1, <2>2, <2>3
<1>10. ASSUME space' = "deleted", NEW u \in User PROVE rows'[u] = <<>>
  <2>1. CASE space = "deleted"
    <3>1. rows[u] = <<>> /\ (req[q].op = "create" => req[q].pc < 2)
      BY <1>1, <2>1 DEF SpaceStage
    <3> QED
      BY <1>1, <2>1, <3>1, NoRowsMember
  <2> QED
    BY <1>1, <1>10, <2>1, SpaceMoves
<1>11. ASSUME NEW p \in Request, req'[p].op = "create", req'[p].pc > 1
       PROVE  /\ space' = "creating"
              /\ p = q => req[q].op = "create" /\ (req[q].pc > 1 \/ space = "none")
              /\ p # q => req[p].op = "create" /\ req[p].pc > 1 /\ space = "creating"
  <2>1. CASE p = q
    <3>1. req[q].op = "create" /\ ~Ends(q)
      BY <1>4, <1>11, <2>1 DEF Ends, Idle, Alike
    <3>2. CASE req[q].pc > 1
      <4>1. space = "creating"
        BY <1>6, <3>1, <3>2
      <4> QED
        BY <1>1, <2>1, <3>1, <3>2, <4>1, SpaceMoves
    <3>3. CASE req[q].pc <= 1
      <4>1. CreateSpace(q) /\ req[q].pc = 1
        BY <1>1, <1>7, <3>1, <3>3, MemberKinds
      <4> QED
        BY <2>1, <3>1, <4>1 DEF CreateSpace, At
    <3> QED
      BY <1>1, <3>2, <3>3
  <2>2. CASE p # q
    <3>1. req[p].op = "create" /\ req[p].pc > 1 /\ space = "creating"
      BY <1>2, <1>11, <2>2 DEF SpaceStage
    <3>2. req[q].op = "create"
      BY <1>5, <3>1
    <3>3. ~(req[q].pc > 1)
      BY <2>2, <3>1, <3>2 DEF SpaceStage
    <3>4. space' = space
      BY <1>1, <3>1, <3>2, <3>3, SpaceMoves
    <3> QED
      BY <2>2, <3>1, <3>4
  <2> QED
    BY <2>1, <2>2
<1>12. ASSUME NEW p1 \in Request, req'[p1].op = "create", req'[p1].pc > 1,
              NEW p2 \in Request, req'[p2].op = "create", req'[p2].pc > 1
       PROVE  p1 = p2
  <2>1. /\ p1 = q => req[q].op = "create" /\ (req[q].pc > 1 \/ space = "none")
        /\ p1 # q => req[p1].op = "create" /\ req[p1].pc > 1 /\ space = "creating"
    BY <1>11, <1>12
  <2>2. /\ p2 = q => req[q].op = "create" /\ (req[q].pc > 1 \/ space = "none")
        /\ p2 # q => req[p2].op = "create" /\ req[p2].pc > 1 /\ space = "creating"
    BY <1>11, <1>12
  <2>3. CASE p1 # q \/ p2 # q
    <3>1. space = "creating"
      BY <2>1, <2>2, <2>3
    <3>2. req[p1].op = "create" /\ req[p1].pc > 1 /\ req[p2].op = "create" /\ req[p2].pc > 1
      BY <2>1, <2>2, <3>1
    <3>3. \A p, r \in Request : /\ req[p].op = "create" /\ req[p].pc > 1
                                /\ req[r].op = "create" /\ req[r].pc > 1
                                => p = r
      BY DEF SpaceStage
    <3> QED
      BY <1>12, <3>2, <3>3
  <2> QED
    BY <2>3
<1>13. space' = "deleting" => \E p \in Request : req'[p].op = "delete" /\ req'[p].pc = 3
  <2>1. CASE space = "deleting" /\ space' = "deleting"
    <3>1. PICK p \in Request : req[p].op = "delete" /\ req[p].pc = 3
      BY <2>1 DEF SpaceStage
    <3>2. CASE p = q
      <4>1. ~DeleteSpace(q)
        BY <2>1, <3>1, <3>2 DEF DeleteSpace, At
      <4>2. MakeCall(q)
        BY <1>1, <3>1, <3>2, <4>1, MemberKinds
      <4> QED
        BY <1>1, <3>1, <3>2, <4>2, MakeCallFacts DEF Goes, Alike
    <3> QED
      BY <1>2, <3>1, <3>2
  <2> QED
    BY <1>1, <2>1, SpaceMoves
<1>14. ASSUME NEW i \in Invite, invites'[i].status = "sent" PROVE invites'[i].to = b
  BY <1>1, <1>14, SentMember DEF SpaceStage
<1>15. ASSUME NEW p \in Request PROVE Queued(req'[p])
  <2>1. CASE p # q
    BY <1>2, <2>1 DEF SpaceStage
  <2>2. CASE p = q
    <3>1. CASE req[q].calls # <<>> /\ Goes(q, req[q].pc, Tail(req[q].calls))
      BY <1>1, <2>2, <3>1, CallKinds DEF Goes, Alike
    <3> QED
      BY <1>3, <2>2, <3>1 DEF Ends, Idle, Onward, Queued
  <2> QED
    BY <2>1, <2>2
<1> QED
  BY <1>8, <1>9, <1>10, <1>11, <1>12, <1>13, <1>14, <1>15 DEF SpaceStage, Queued

\* Steps that leave the space, its members and their access as they are.
Quiet == UNCHANGED <<space, rows, invites, exist, access>>

\* What becomes of request p in such a step: it ends, without having deleted; it makes no
\* progress with the space; or it begins.
Idles(p) ==
    \/ req'[p] = Idle /\ ~(req[p].op = "delete" /\ req[p].pc = 3)
    \/ Alike(p) /\ req'[p].role = req[p].role /\ (req'[p].pc = req[p].pc \/ req[p].op \in ContentOps)

Begins(p) ==
    /\ req[p].op = "none" /\ req'[p].pc = 1 /\ space # "creating"
    /\ space = "none" => req'[p].op = "create"

LEMMA StageQuiet ==
    ASSUME SpaceStage, Quiet,
           \A p \in Request : Idles(p) \/ Begins(p),
           \A p \in Request : Queued(req'[p])
    PROVE  SpaceStage'
<1>1. ASSUME NEW p \in Request, space' \in {"none", "creating"} PROVE req'[p].op \in {"none", "create"}
  BY <1>1 DEF SpaceStage, Idles, Begins, Idle, Alike, Quiet
<1>2. ASSUME NEW p \in Request, req'[p].op = "create", req'[p].pc > 1
      PROVE  req[p].op = "create" /\ req[p].pc > 1
  BY <1>2 DEF Idles, Begins, Idle, Alike, ContentOps
<1>3. space' = "deleting" => \E p \in Request : req'[p].op = "delete" /\ req'[p].pc = 3
  <2>1. ASSUME space = "deleting" PROVE \E p \in Request : req'[p].op = "delete" /\ req'[p].pc = 3
    <3>1. PICK p \in Request : req[p].op = "delete" /\ req[p].pc = 3
      BY <2>1 DEF SpaceStage
    <3> QED
      BY <3>1 DEF Idles, Begins, Alike, ContentOps
  <2> QED
    BY <2>1 DEF Quiet
<1> QED
  BY <1>1, <1>2, <1>3 DEF SpaceStage, Quiet, Queued

LEMMA QuietSteps ==
    ASSUME RequestsTypeOK, SpaceStage,
           \/ UNCHANGED requestsVars
           \/ \E q \in Request : req[q].op # "none" /\ (Contents(q) \/ Fails(q))
           \/ \E q \in Request : Sends(q)
           \/ \E d \in DOMAIN docs : Deletes(d)
           \/ \E u \in Page : Pages(u)
    PROVE  /\ Quiet
           /\ \A p \in Request : Idles(p) \/ Begins(p)
           /\ \A p \in Request : Queued(req'[p])
<1>1. /\ SpacesTypeOK /\ ContentTypeOK /\ \A q \in Request : Well(req[q]) /\ Queued(req[q])
  BY DEF RequestsTypeOK, SpaceStage
<1>2. ASSUME UNCHANGED req
      PROVE  \A p \in Request : (Idles(p) \/ Begins(p)) /\ Queued(req'[p])
  BY <1>1, <1>2 DEF Idles, Alike
<1>3. CASE UNCHANGED requestsVars
  BY <1>2, <1>3 DEF requestsVars, spacesVars, dbVars, syncVars, Quiet
<1>4. ASSUME NEW q \in Request, Contents(q)
      PROVE  Quiet /\ \A p \in Request : (Idles(p) \/ Begins(p)) /\ Queued(req'[p])
  <2>1. /\ Ends(q) \/ Goes(q, req[q].pc + 1, req[q].calls)
        /\ req[q].op \in ContentOps /\ UNCHANGED <<dbVars, syncVars>>
    BY <1>1, <1>4, ContentTypes DEF Contents
  <2>2. req[q].calls = <<>>
    BY <1>1, <2>1 DEF ContentOps, Queued
  <2>3. \A p \in Request : p # q => req'[p] = req[p]
    BY <2>1 DEF Ends, Goes, Only
  <2>4. Idles(q) /\ Queued(req'[q])
    BY <2>1, <2>2 DEF Idles, Queued, Ends, Goes, Idle, ContentOps
  <2>5. \A p \in Request : p # q => Idles(p) /\ Queued(req'[p])
    BY <1>1, <2>3 DEF Idles, Alike
  <2> QED
    BY <2>1, <2>4, <2>5 DEF Quiet, dbVars, syncVars
<1>5. ASSUME NEW q \in Request, Fails(q)
      PROVE  Quiet /\ \A p \in Request : (Idles(p) \/ Begins(p)) /\ Queued(req'[p])
  <2>1. \/ req[q].calls # <<>> /\ Goes(q, req[q].pc, Tail(req[q].calls))
        \/ StepFails(q) /\ Ends(q)
    BY <1>1, <1>5, FailsFacts
  <2>2. StepFails(q) => req[q].op \in ContentOps
    BY DEF StepFails, At, ContentOps
  <2>3. \A p \in Request : p # q => req'[p] = req[p]
    BY <2>1 DEF Ends, Goes, Only
  <2>4. Idles(q) /\ Queued(req'[q])
    <3>1. CASE req[q].calls # <<>> /\ Goes(q, req[q].pc, Tail(req[q].calls))
      BY <1>1, <3>1, CallKinds DEF Goes, Alike, Idles
    <3>2. CASE StepFails(q) /\ Ends(q)
      BY <2>2, <3>2 DEF Ends, Idles, Idle, Queued, ContentOps
    <3> QED
      BY <2>1, <3>1, <3>2
  <2>5. \A p \in Request : p # q => Idles(p) /\ Queued(req'[p])
    BY <1>1, <2>3 DEF Idles, Alike
  <2> QED
    BY <1>5, <2>4, <2>5 DEF Fails, Quiet, dbVars, syncVars
<1>6. ASSUME NEW q \in Request, Sends(q)
      PROVE  Quiet /\ \A p \in Request : (Idles(p) \/ Begins(p)) /\ Queued(req'[p])
  <2>1. /\ Only(q) /\ Begins(q) /\ req'[q].calls = <<>> /\ UNCHANGED <<dbVars, syncVars>>
    BY <1>1, <1>6, SendFacts DEF Sends, Begins
  <2>2. \A p \in Request : p # q => Idles(p) /\ Queued(req'[p])
    BY <1>1, <2>1 DEF Only, Idles, Alike
  <2> QED
    BY <2>1, <2>2 DEF Quiet, dbVars, syncVars, Queued
<1>7. ASSUME NEW d \in DOMAIN docs, Deletes(d) PROVE Quiet /\ UNCHANGED req
  BY <1>7 DEF Deletes, DeleteDoc, spacesVars, dbVars, syncVars, Quiet
<1>8. ASSUME NEW u \in Page, Pages(u) PROVE Quiet /\ UNCHANGED req
  BY <1>8 DEF Pages, dbVars, syncVars, Quiet
<1> QED
  BY <1>2, <1>3, <1>4, <1>5, <1>6, <1>7, <1>8

LEMMA StageStops ==
    ASSUME SpaceStage, Crash
    PROVE  SpaceStage'
<1>1. \A p \in Request : req'[p] = Idle
  BY DEF Crash
<1>2. space' # "deleting" /\ space' # "creating" /\ UNCHANGED invites
  BY DEF Crash
<1>3. /\ space' = "none" => /\ exist' = {}
                           /\ \A u \in User : rows'[u] = <<>> /\ access'[u] = {}
      /\ space' = "deleted" => \A u \in User : rows'[u] = <<>>
  BY DEF Crash, SpaceStage, syncVars
<1> QED
  BY <1>1, <1>2, <1>3 DEF SpaceStage, Idle, Queued

LEMMA StageStep ==
    ASSUME RequestsTypeOK, SpaceStage, [RequestsNext]_requestsVars
    PROVE  SpaceStage'
<1>1. \/ UNCHANGED requestsVars
      \/ \E q \in Request : /\ req[q].op # "none"
                            /\ Members(q) \/ Contents(q) \/ Fails(q)
      \/ \E q \in Request : Sends(q)
      \/ \E d \in DOMAIN docs : Deletes(d)
      \/ \E u \in Page : Pages(u)
      \/ Stops
  BY StepKinds DEF RequestsTypeOK
<1>2. CASE Stops
  BY <1>2, StageStops DEF Stops, Restart
<1>3. ASSUME NEW q \in Request, req[q].op # "none", Members(q) PROVE SpaceStage'
  BY <1>3, StageMember
<1> QED
  BY <1>1, <1>2, <1>3, QuietSteps, StageQuiet

\* Whom a request concerns stays as it is, until it ends.
LEMMA ConcernsLike ==
    ASSUME NEW p, NEW u
    PROVE  /\ Alike(p) => (Concerns(p, u)' <=> Concerns(p, u))
           /\ req'[p] = req[p] => (Concerns(p, u)' <=> Concerns(p, u))
           /\ req'[p] = Idle => ~Concerns(p, u)'
<1>1. Alike(p) => (Concerns(p, u)' <=> Concerns(p, u))
  BY DEF Concerns, Alike
<1>2. req'[p] = req[p] => Alike(p)
  BY DEF Alike
<1>3. req'[p] = Idle => ~Concerns(p, u)'
  BY DEF Concerns, Idle
<1> QED
  BY <1>1, <1>2, <1>3

\* Requests about u stay in order when nothing that concerns u happens.
LEMMA OrderQuiet ==
    ASSUME NEW u \in User, InOrder(u),
           rows'[u] = rows[u], access'[u] = access[u], UNCHANGED <<space, exist>>,
           SentTo(u)' \subseteq SentTo(u),
           \A p \in Request : Concerns(p, u) => req'[p] = req[p],
           \A p \in Request : Concerns(p, u)' => Concerns(p, u)
    PROVE  InOrder(u)'
<1>1. AccessIs(u)' <=> AccessIs(u)
  BY DEF AccessIs
<1>2. ASSUME NEW q \in Request, Concerns(q, u)'
      PROVE  (/\ Early(req[q]) => AccessIs(u)
              /\ Halfway(req[q], u)
              /\ Guest(req[q], u))'
  <2>1. /\ req'[q] = req[q]
        /\ Halfway(req[q], u) /\ Guest(req[q], u)
        /\ Early(req[q]) => AccessIs(u)
    BY <1>2 DEF InOrder
  <2>2. Halfway(req[q], u)'
    BY <2>1 DEF Halfway
  <2>3. Guest(req[q], u)'
    BY <2>1 DEF Guest
  <2>4. Early(req[q])' => Early(req[q])
    BY <2>1 DEF Early
  <2> QED
    BY <1>1, <2>1, <2>2, <2>3, <2>4
<1>3. (~\E q \in Request : Concerns(q, u))' => AccessIs(u)'
  BY <1>1, ConcernsLike DEF InOrder
<1>4. /\ Len(rows'[u]) <= 1
      /\ \A i, j \in SentTo(u)' : i = j
      /\ rows'[u] # <<>> => SentTo(u)' = {}
  BY DEF InOrder
<1>5. (space = "live" /\ (\A q \in Request : req[q].op = "delete" => req[q].pc < 3) =>
          exist = Group)'
  <2> SUFFICES ASSUME space' = "live", \A q \in Request : req'[q].op = "delete" => req'[q].pc < 3
               PROVE  exist' = Group
    OBVIOUS
  <2>1. \A q \in Request : req[q].op = "delete" => req[q].pc < 3
    <3>1. ASSUME NEW q \in Request, req[q].op = "delete" PROVE req'[q] = req[q]
      BY <3>1 DEF Concerns
    <3> QED
      BY <3>1
  <2> QED
    BY <2>1 DEF InOrder
<1>6. \A p, q \in Request : Concerns(p, u)' /\ Concerns(q, u)' => p = q
  BY DEF InOrder
<1> HIDE DEF Early, Halfway, Guest, AccessIs, SentTo, Concerns
<1> QED
  BY <1>2, <1>3, <1>4, <1>5, <1>6 DEF InOrder

\* Requests about u stay in order when q, the one that concerns u, takes a step that does
\* what it should.
LEMMA OrderOne ==
    ASSUME NEW u \in User, NEW q \in Request, InOrder(u), Concerns(q, u),
           NEW m, req'[q] = m, \A p \in Request : p # q => req'[p] = req[p],
           \/ m = Idle /\ AccessIs(u)'
           \/ /\ Alike(q) /\ Halfway(m, u)' /\ Guest(m, u)'
              /\ Early(m) => AccessIs(u)',
           Len(rows'[u]) <= 1,
           \A i, j \in SentTo(u)' : i = j,
           rows'[u] # <<>> => SentTo(u)' = {},
           /\ space' = "live"
           /\ \A p \in Request : req'[p].op = "delete" => req'[p].pc < 3
           => exist' = Group
    PROVE  InOrder(u)'
<1>1. \A p \in Request : Concerns(p, u)' => p = q
  BY ConcernsLike DEF InOrder
<1>2. ASSUME NEW p \in Request, Concerns(p, u)'
      PROVE  (/\ Early(req[p]) => AccessIs(u)
              /\ Halfway(req[p], u)
              /\ Guest(req[p], u))'
  <2>1. p = q /\ m # Idle /\ req'[p] = m
    BY <1>1, <1>2, ConcernsLike
  <2>2. Halfway(m, u)' /\ Guest(m, u)' /\ (Early(m) => AccessIs(u)')
    BY <2>1
  <2>3. Halfway(req[p], u)'
    BY <2>1, <2>2 DEF Halfway
  <2>4. Guest(req[p], u)'
    BY <2>1, <2>2 DEF Guest
  <2>5. Early(req[p])' => Early(m)
    BY <2>1 DEF Early
  <2> QED
    BY <2>2, <2>3, <2>4, <2>5
<1>3. (~\E p \in Request : Concerns(p, u))' => AccessIs(u)'
  <2>1. Alike(q) => Concerns(q, u)'
    BY ConcernsLike
  <2> QED
    BY <2>1
<1>4. (space = "live" /\ (\A p \in Request : req[p].op = "delete" => req[p].pc < 3) =>
          exist = Group)'
  OBVIOUS
<1>5. \A p, r \in Request : Concerns(p, u)' /\ Concerns(r, u)' => p = r
  BY <1>1
<1> HIDE DEF Early, Halfway, Guest, AccessIs, SentTo, Concerns
<1> QED
  BY <1>2, <1>3, <1>4, <1>5 DEF InOrder

\* A call of the request that concerns u.
LEMMA OrderCalls ==
    ASSUME RequestsTypeOK, SpaceStage, NEW u \in User, NEW q \in Request, InOrder(u),
           Concerns(q, u), MakeCall(q)
    PROVE  InOrder(u)'
<1>1. /\ SpacesTypeOK /\ Well(req[q]) /\ Goes(q, req[q].pc, Tail(req[q].calls))
      /\ Queued(req[q]) /\ req[q].calls # <<>> /\ UNCHANGED <<space, rows, invites>>
  BY MakeCallFacts DEF RequestsTypeOK, SpaceStage, MakeCall, dbVars
<1>2. PICK k : k = req[q]
  OBVIOUS
<1>3. PICK m : m = req'[q]
  OBVIOUS
<1>4. /\ k.calls \in Seq(Call) /\ k.to \in User /\ k.pc \in Nat
      /\ access \in [User -> SUBSET Group]
  BY <1>1, <1>2 DEF SpacesTypeOK
<1>5. /\ m.op = k.op /\ m.pc = k.pc /\ m.role = k.role /\ m.to = k.to /\ m.by = k.by
      /\ m.calls = Tail(k.calls) /\ Len(m.calls) = Len(k.calls) - 1
      /\ m.calls = <<>> <=> Len(k.calls) = 1
      /\ k.calls # <<>> /\ Len(k.calls) \in Nat
  <2>1. Queued(k) /\ k.calls # <<>>
    BY <1>1, <1>2
  <2>2. Len(Tail(k.calls)) = Len(k.calls) - 1 /\ (Tail(k.calls) = <<>> <=> Len(k.calls) = 1)
    BY <2>1, CallKinds
  <2>3. /\ m.op = k.op /\ m.pc = k.pc /\ m.role = k.role /\ m.to = k.to /\ m.by = k.by
        /\ m.calls = Tail(k.calls)
    BY <1>1, <1>2, <1>3 DEF Goes, Alike
  <2> QED
    BY <1>4, <2>1, <2>2, <2>3
<1>5a. Len(k.calls) \in Nat /\ Len(m.calls) = Len(k.calls) - 1 /\ (m.calls = <<>> <=> Len(k.calls) = 1)
  BY <1>5
<1>6. SentTo(u)' = SentTo(u)
  BY <1>1 DEF SentTo
<1>7. Halfway(k, u) /\ Guest(k, u)
  BY <1>2 DEF InOrder
<1>8. Guest(m, u)'
  BY <1>1, <1>5, <1>6, <1>7 DEF Guest
<1>9. ~Early(m)
  BY <1>1, <1>2, <1>5, CallKinds DEF Early
<1>10. /\ k.op = "create" => k.to = Owner
       /\ k.op \in {"change", "remove", "accept"} => k.to = u
  BY <1>1, <1>2 DEF Concerns, Well
<1>11. ASSUME NEW n, NEW do, NEW g, NextOf(k, n, do, g) PROVE Makes(k, n, do, g)
  <2>1. NextOf(req[q], n, do, g)
    BY <1>2, <1>11
  <2> QED
    BY <1>1, <1>2, <1>11, <2>1, CallSteps DEF NextOf, Makes
<1>12. k.op \in {"create", "delete", "change", "remove", "accept"} /\ Queued(k)
  BY <1>1, <1>2, CallKinds
<1>13. ASSUME k.op = "create" PROVE Halfway(m, u)'
  <2>1. ASSUME k.pc = 2 PROVE Halfway(m, u)'
    <3>1. \/ Makes(k, 4, "create", "readonly") \/ Makes(k, 3, "create", "members")
          \/ Makes(k, 2, "other", "members") \/ Makes(k, 1, "other", "members")
      BY <1>5, <1>11, <1>12, <1>13, <2>1, CallKinds
    <3>2. /\ rows[u] = <<>> /\ access[u] = {}
          /\ Len(k.calls) < 4 => "readonly" \in exist
          /\ Len(k.calls) < 3 => "members" \in exist
      BY <1>7, <1>13, <2>1 DEF Halfway
    <3>3. /\ access'[u] = {}
          /\ Len(m.calls) < 4 => "readonly" \in exist'
          /\ Len(m.calls) < 3 => "members" \in exist'
      <4>1. CASE Makes(k, 4, "create", "readonly")
        <5>1. exist' = exist \cup {"readonly"} /\ access' = access /\ Len(k.calls) = 4
          BY <4>1 DEF Makes, CallDone
        <5>2. ~(Len(m.calls) < 3)
          BY <1>5a, <5>1
        <5> QED
          BY <3>2, <5>1, <5>2
      <4>2. CASE Makes(k, 3, "create", "members")
        BY <1>5, <3>2, <4>2 DEF Makes, CallDone
      <4>3. CASE Makes(k, 2, "other", "members")
        BY <1>5, <3>2, <4>3 DEF Makes, CallDone
      <4>4. CASE Makes(k, 1, "other", "members")
        BY <1>5, <3>2, <4>4 DEF Makes, CallDone
      <4> QED
        BY <3>1, <4>1, <4>2, <4>3, <4>4
    <3> QED
      BY <1>1, <1>5, <1>13, <2>1, <3>2, <3>3 DEF Halfway
  <2>2. ASSUME k.pc = 3 PROVE Halfway(m, u)'
    <3>1. Makes(k, 1, "add", "members")
      BY <1>5, <1>11, <1>12, <1>13, <2>2, CallKinds
    <3>2. exist = Group /\ access[u] = {} /\ rows[u] = IF u = Owner THEN <<"owner">> ELSE <<>>
      BY <1>5, <1>7, <1>13, <2>2 DEF Halfway
    <3>3. exist' = Group /\ access'[u] = (IF u = Owner THEN {"members"} ELSE {}) /\ m.calls = <<>>
      BY <1>5, <1>10, <1>13, <3>1, <3>2 DEF Makes, CallDone, Group
    <3> QED
      <4>1. m.op = "create" /\ m.pc = 3
        BY <1>5, <1>13, <2>2
      <4>2. rows'[u] = IF u = Owner THEN <<"owner">> ELSE <<>>
        BY <1>1, <3>2
      <4> QED
        BY <3>3, <4>1, <4>2 DEF Halfway
  <2> QED
    BY <1>5, <1>12, <1>13, <2>1, <2>2, CallKinds
<1>14. ASSUME k.op = "delete" PROVE Halfway(m, u)'
  <2>1. k.pc = 3 /\ \/ Makes(k, 3, "other", "members") \/ Makes(k, 2, "delete", "readonly")
                    \/ Makes(k, 1, "delete", "members")
    BY <1>5, <1>11, <1>12, <1>14, CallKinds
  <2>2. access[u] \subseteq {"members", "readonly"}
    BY <1>4 DEF Group
  <2>3. /\ Len(k.calls) < 2 => access[u] \subseteq {"members"}
        /\ k.calls = <<>> => access[u] = {}
    BY <1>7, <1>14, <2>1 DEF Halfway
  <2>4. /\ Len(m.calls) < 2 => access'[u] \subseteq {"members"}
        /\ m.calls = <<>> => access'[u] = {}
    <3>1. CASE Makes(k, 3, "other", "members")
      <4>1. Len(k.calls) = 3
        BY <3>1 DEF Makes
      <4>2. ~(Len(m.calls) < 2) /\ m.calls # <<>>
        BY <1>5a, <4>1
      <4> QED
        BY <4>2
    <3>2. CASE Makes(k, 2, "delete", "readonly")
      BY <1>5, <2>2, <2>3, <3>2 DEF Makes, CallDone
    <3>3. CASE Makes(k, 1, "delete", "members")
      BY <1>5, <2>2, <2>3, <3>3 DEF Makes, CallDone
    <3> QED
      BY <2>1, <3>1, <3>2, <3>3
  <2> QED
    BY <1>5, <1>14, <2>1, <2>4 DEF Halfway
<1>15. ASSUME k.op = "change" PROVE Halfway(m, u)'
  <2>1. /\ k.pc = 4
        /\ IF k.role = "readonly"
           THEN Makes(k, 2, "add", "readonly") \/ Makes(k, 1, "remove", "members")
           ELSE Makes(k, 2, "remove", "readonly") \/ Makes(k, 1, "add", "members")
    BY <1>5, <1>11, <1>12, <1>15, CallKinds
  <2>2. access[u] \subseteq {"members", "readonly"} /\ k.to = u
    BY <1>4, <1>10, <1>15 DEF Group
  <2>3. /\ rows[u] # <<>> /\ exist = Group
        /\ Len(k.calls) = 1 => IF k.role = "readonly" THEN "readonly" \in access[u]
                               ELSE access[u] \subseteq {"members"}
    BY <1>7, <1>15, <2>1 DEF Halfway
  <2>4. exist' = exist
    BY <2>1 DEF Makes, CallDone
  <2>5. /\ Len(m.calls) = 1 => IF k.role = "readonly" THEN "readonly" \in access'[u]
                               ELSE access'[u] \subseteq {"members"}
        /\ m.calls = <<>> => access'[u] = IF k.role = "readonly" THEN {"readonly"} ELSE {"members"}
    <3>1. CASE k.role = "readonly" /\ Makes(k, 2, "add", "readonly")
      BY <1>5, <2>2, <2>3, <3>1 DEF Makes, CallDone, Group
    <3>2. CASE k.role = "readonly" /\ Makes(k, 1, "remove", "members")
      BY <1>5, <2>2, <2>3, <3>2 DEF Makes, CallDone, Group
    <3>3. CASE k.role # "readonly" /\ Makes(k, 2, "remove", "readonly")
      BY <1>5, <2>2, <2>3, <3>3 DEF Makes, CallDone, Group
    <3>4. CASE k.role # "readonly" /\ Makes(k, 1, "add", "members")
      BY <1>5, <2>2, <2>3, <3>4 DEF Makes, CallDone, Group
    <3> QED
      BY <2>1, <3>1, <3>2, <3>3, <3>4
  <2> QED
    BY <1>1, <1>5, <1>15, <2>3, <2>4, <2>5 DEF Halfway, GroupOf
<1>16. ASSUME k.op = "remove" PROVE Halfway(m, u)'
  <2>1. k.pc = 4 /\ (Makes(k, 2, "remove", "members") \/ Makes(k, 1, "remove", "readonly"))
    BY <1>5, <1>11, <1>12, <1>16, CallKinds
  <2>2. access[u] \subseteq {"members", "readonly"} /\ k.to = u
    BY <1>4, <1>10, <1>16 DEF Group
  <2>3. rows[u] = <<>> /\ (Len(k.calls) < 2 => access[u] \subseteq {"readonly"})
    BY <1>7, <1>16, <2>1 DEF Halfway
  <2>4. /\ Len(m.calls) < 2 => access'[u] \subseteq {"readonly"}
        /\ m.calls = <<>> => access'[u] = {}
    <3>1. CASE Makes(k, 2, "remove", "members")
      BY <1>5, <2>2, <2>3, <3>1 DEF Makes, CallDone
    <3>2. CASE Makes(k, 1, "remove", "readonly")
      BY <1>5, <2>2, <2>3, <3>2 DEF Makes, CallDone
    <3> QED
      BY <2>1, <3>1, <3>2
  <2> QED
    BY <1>1, <1>5, <1>16, <2>3, <2>4 DEF Halfway
<1>17. ASSUME k.op = "accept" PROVE Halfway(m, u)'
  <2>1. k.pc = 4 /\ Makes(k, 1, "add", GroupOf(k.role)) /\ k.to = u
    BY <1>5, <1>10, <1>11, <1>12, <1>17, CallKinds
  <2>2. exist = Group /\ access[u] = {} /\ rows[u] = <<k.role>> /\ GroupOf(k.role) \in Group
    BY <1>5, <1>7, <1>17, <2>1, CallTypes DEF Halfway
  <2>3. access'[u] = {GroupOf(k.role)} /\ m.calls = <<>>
    BY <1>5, <2>1, <2>2 DEF Makes, CallDone
  <2> QED
    BY <1>1, <1>5, <1>17, <2>1, <2>2, <2>3 DEF Halfway
<1>18. Halfway(m, u)'
  BY <1>12, <1>13, <1>14, <1>15, <1>16, <1>17
<1>19. ASSUME space' = "live", \A p \in Request : req'[p].op = "delete" => req'[p].pc < 3
       PROVE  exist' = Group
  <2>1. k.op # "create"
    BY <1>1, <1>2, <1>19, CallKinds DEF SpaceStage
  <2>2. k.op # "delete"
    BY <1>1, <1>2, <1>3, <1>5, <1>19, CallKinds
  <2>3. exist' = exist
    <3>1. \/ Makes(k, 2, "add", "readonly") \/ Makes(k, 1, "remove", "members")
          \/ Makes(k, 2, "remove", "readonly") \/ Makes(k, 1, "add", "members")
          \/ Makes(k, 2, "remove", "members") \/ Makes(k, 1, "remove", "readonly")
          \/ Makes(k, 1, "add", GroupOf(k.role))
      BY <1>5, <1>11, <1>12, <2>1, <2>2, CallKinds
    <3> QED
      BY <3>1 DEF Makes, CallDone
  <2>4. \A p \in Request : req[p].op = "delete" => req[p].pc < 3
    BY <1>1, <1>2, <1>19, <2>2 DEF Goes, Only
  <2> QED
    BY <1>1, <1>19, <2>3, <2>4 DEF InOrder
<1>20. /\ Len(rows'[u]) <= 1
       /\ \A i, j \in SentTo(u)' : i = j
       /\ rows'[u] # <<>> => SentTo(u)' = {}
  BY <1>1, <1>6 DEF InOrder
<1>21. Alike(q) /\ \A p \in Request : p # q => req'[p] = req[p]
  BY <1>1 DEF Goes, Only
<1> HIDE DEF Early, Halfway, Guest, AccessIs, SentTo, Concerns, InOrder
<1> QED
  BY <1>3, <1>8, <1>9, <1>18, <1>19, <1>20, <1>21, OrderOne

\* What is known of u, and of the request that concerns u, when it takes a step.
LEMMA OneStep ==
    ASSUME RequestsTypeOK, SpaceStage, NEW u \in User, NEW q \in Request, InOrder(u),
           Concerns(q, u), MemberStep(q), ~MakeCall(q)
    PROVE  /\ SpacesTypeOK /\ req[q] \in Asked /\ Well(req[q])
           /\ req[q].calls = <<>> /\ (Ends(q) \/ Onward(q))
           /\ \A p \in Request : p # q => req'[p] = req[p]
           /\ Halfway(req[q], u) /\ Guest(req[q], u) /\ (Early(req[q]) => AccessIs(u))
           /\ rows[u] \in Seq(Rank) /\ Len(rows[u]) <= 1
           /\ access[u] \subseteq Group
           /\ \A i, j \in SentTo(u) : i = j
           /\ rows[u] # <<>> => SentTo(u) = {}
           /\ \A p \in Request : Concerns(p, u) => p = q
<1>1. SpacesTypeOK /\ req[q] \in Asked /\ Well(req[q])
  BY DEF RequestsTypeOK, SpacesTypeOK, Asked
<1>2. req[q].calls = <<>> /\ (Ends(q) \/ Onward(q))
  BY <1>1, MemberMoves
<1>3. \A p \in Request : p # q => req'[p] = req[p]
  BY <1>2 DEF Ends, Onward, Only
<1>4. rows[u] \in Seq(Rank) /\ access[u] \subseteq Group
  BY <1>1 DEF SpacesTypeOK
<1> HIDE DEF Early, Halfway, Guest, AccessIs, SentTo, Concerns
<1> QED
  BY <1>1, <1>2, <1>3, <1>4 DEF InOrder

\* There is a space, with its groups, while a member's request is the only one about it.
LEMMA LiveSpace ==
    ASSUME RequestsTypeOK, SpaceStage, NEW u \in User, NEW q \in Request, InOrder(u),
           Concerns(q, u), req[q].op \in {"change", "remove", "accept", "invite"},
           rows[u] # <<>> \/ space = "live"
    PROVE  exist = Group
<1>1. \A p \in Request : req[p].op # "delete"
  BY DEF InOrder, Concerns
<1>2. space \in {"none", "creating", "live", "deleting", "deleted"}
  BY DEF RequestsTypeOK, SpacesTypeOK
<1>3. space = "live"
  BY <1>1, <1>2 DEF SpaceStage
<1> QED
  BY <1>1, <1>3 DEF InOrder

LEMMA LiveKept ==
    ASSUME NEW u \in User, InOrder(u), NEW q \in Request, UNCHANGED <<space, exist>>,
           \A p \in Request : p # q => req'[p] = req[p],
           req[q].op = "delete" => req[q].pc < 3
    PROVE  /\ space' = "live"
           /\ \A p \in Request : req'[p].op = "delete" => req'[p].pc < 3
           => exist' = Group
<1> SUFFICES ASSUME space' = "live",
                    \A p \in Request : req'[p].op = "delete" => req'[p].pc < 3
             PROVE  exist' = Group
  OBVIOUS
<1>1. \A p \in Request : req[p].op = "delete" => req[p].pc < 3
  OBVIOUS
<1> QED
  BY <1>1 DEF InOrder

\* A step that only looks, before anything is done.
LEMMA OrderStill ==
    ASSUME RequestsTypeOK, SpaceStage, NEW u \in User, NEW q \in Request, InOrder(u),
           Concerns(q, u), MemberStep(q), ~MakeCall(q), Early(req[q]),
           UNCHANGED <<space, exist>>, rows'[u] = rows[u], access'[u] = access[u],
           \/ SentTo(u)' = SentTo(u) \/ SentTo(u)' = {},
           \/ Ends(q)
           \/ Onward(q) /\ Early(req[q])' /\ Guest(req[q], u)'
    PROVE  InOrder(u)'
<1>1. PICK m : m = req'[q]
  OBVIOUS
<1>2. /\ req[q] \in Asked
      /\ \A p \in Request : p # q => req'[p] = req[p]
      /\ Len(rows[u]) <= 1
      /\ \A i, j \in SentTo(u) : i = j
      /\ rows[u] # <<>> => SentTo(u) = {}
  BY OneStep
<1>3. AccessIs(u)'
  <2>1. AccessIs(u)
    BY OneStep
  <2> QED
    BY <2>1 DEF AccessIs
<1>4. /\ Len(rows'[u]) <= 1
      /\ \A i, j \in SentTo(u)' : i = j
      /\ rows'[u] # <<>> => SentTo(u)' = {}
  <2> HIDE DEF SentTo
  <2> QED
    BY <1>2
<1>5. req[q].op = "delete" => req[q].pc < 3
  BY <1>2 DEF Early, Asked
<1>6. ASSUME Onward(q), Early(req[q])', Guest(req[q], u)'
      PROVE  Alike(q) /\ Halfway(m, u)' /\ Guest(m, u)'
  <2>1. Alike(q) /\ m \in Asked /\ Early(m)
    BY <1>1, <1>6 DEF Onward, Only, Early
  <2>2. Halfway(m, u)'
    BY <2>1 DEF Halfway, Early, Asked
  <2>3. Guest(m, u)'
    BY <1>1, <1>6 DEF Guest
  <2> QED
    BY <2>1, <2>2, <2>3
<1>7. /\ space' = "live"
      /\ \A p \in Request : req'[p].op = "delete" => req'[p].pc < 3
      => exist' = Group
  BY <1>2, <1>5, LiveKept
<1>8. m = Idle \/ (Alike(q) /\ Halfway(m, u)' /\ Guest(m, u)')
  BY <1>1, <1>6 DEF Ends
<1> HIDE DEF Early, Halfway, Guest, AccessIs, SentTo, Concerns, InOrder
<1> QED
  BY <1>1, <1>2, <1>3, <1>4, <1>7, <1>8, OrderOne

LEMMA OrderCreate ==
    ASSUME RequestsTypeOK, SpaceStage, NEW u \in User, NEW q \in Request, InOrder(u),
           Concerns(q, u), CreateSpace(q)
    PROVE  InOrder(u)'
<1>1. MemberStep(q) /\ ~MakeCall(q)
  BY DEF MemberStep, MakeCall, CreateSpace, At
<1>2. PICK m : m = req'[q]
  OBVIOUS
<1>3. PICK k : k = req[q]
  OBVIOUS
<1>4. /\ k \in Asked /\ Well(k) /\ k.op = "create" /\ k.calls = <<>>
      /\ \A p \in Request : p # q => req'[p] = req[p]
      /\ Halfway(k, u)
      /\ exist \subseteq Group /\ rows \in [User -> Seq(Rank)] /\ req \in [Request -> Asked]
      /\ Len(rows[u]) <= 1
      /\ \A i, j \in SentTo(u) : i = j
      /\ rows[u] # <<>> => SentTo(u) = {}
  BY <1>1, <1>3, OneStep DEF CreateSpace, At, SpacesTypeOK, Asked
<1>5. UNCHANGED <<exist, access, invites>>
  BY DEF CreateSpace, syncVars
<1>6. SentTo(u)' = SentTo(u)
  BY <1>5 DEF SentTo
<1>7. CASE At(q, "create", 1) /\ space = "none" /\ space' = "creating" /\ UNCHANGED rows
           /\ Calling(q, <<Ask("create", "readonly"), Ask("create", "members"),
                           Ask("other", "members"), Ask("other", "members")>>)
  <2>1. <<Ask("create", "readonly"), Ask("create", "members"), Ask("other", "members"),
          Ask("other", "members")>> \in Seq(Call)
    BY CallTypes
  <2>2. Goes(q, req[q].pc + 1, <<Ask("create", "readonly"), Ask("create", "members"),
                                 Ask("other", "members"), Ask("other", "members")>>)
    BY <1>4, <1>7, <2>1, CallingFacts
  <2>3. m.op = "create" /\ m.pc = 2 /\ Alike(q)
    BY <1>2, <1>3, <1>4, <1>7, <2>2 DEF Goes, Alike, At
  <2>4. m.calls # <<>> /\ ~(Len(m.calls) < 4) /\ ~(Len(m.calls) < 3)
    BY <1>2, <2>2, Lists DEF Goes
  <2>5. rows'[u] = <<>> /\ access'[u] = {}
    BY <1>5, <1>7 DEF SpaceStage
  <2>6. Halfway(m, u)'
    BY <2>3, <2>4, <2>5 DEF Halfway
  <2>7. Guest(m, u)' /\ ~Early(m)
    BY <2>3 DEF Guest, Early
  <2>8. Len(rows'[u]) <= 1
    BY <1>4, <1>7
  <2> HIDE DEF Early, Halfway, Guest, AccessIs, SentTo, Concerns, InOrder
  <2> QED
    BY <1>2, <1>4, <1>6, <1>7, <2>3, <2>5, <2>6, <2>7, <2>8, OrderOne
<1>8. CASE At(q, "create", 2) /\ rows' = [rows EXCEPT ![Owner] = <<"owner">>]
           /\ UNCHANGED space /\ Calling(q, <<Ask("add", "members")>>)
  <2>1. <<Ask("add", "members")>> \in Seq(Call)
    BY CallTypes
  <2>2. Goes(q, req[q].pc + 1, <<Ask("add", "members")>>)
    BY <1>4, <1>8, <2>1, CallingFacts
  <2>3. m.op = "create" /\ m.pc = 3 /\ Alike(q)
    BY <1>2, <1>3, <1>4, <1>8, <2>2 DEF Goes, Alike, At
  <2>4. m.calls # <<>>
    BY <1>2, <2>2, Lists DEF Goes
  <2>5. /\ rows[u] = <<>> /\ access[u] = {}
        /\ Len(k.calls) < 4 => "readonly" \in exist
        /\ Len(k.calls) < 3 => "members" \in exist
    BY <1>3, <1>4, <1>8 DEF Halfway, At
  <2>6. Len(k.calls) = 0
    BY <1>4
  <2>7. exist' = Group
    BY <1>4, <1>5, <2>5, <2>6 DEF Group
  <2>8. rows'[u] = IF u = Owner THEN <<"owner">> ELSE <<>>
    BY <1>4, <1>8, <2>5
  <2>9. access'[u] = {}
    BY <1>5, <2>5
  <2>10. Halfway(m, u)'
    BY <2>3, <2>4, <2>7, <2>8, <2>9 DEF Halfway
  <2>11. Guest(m, u)' /\ ~Early(m)
    BY <2>3 DEF Guest, Early
  <2>12. Len(rows'[u]) <= 1
    BY <2>8
  <2>13. rows'[u] # <<>> => SentTo(u) = {}
    <3>1. u = Owner => u # b
      BY RequestsAssumption
    <3> QED
      BY <2>8, <3>1 DEF SentTo, SpaceStage
  <2> HIDE DEF Early, Halfway, Guest, AccessIs, SentTo, Concerns, InOrder
  <2> QED
    BY <1>2, <1>4, <1>6, <2>3, <2>7, <2>10, <2>11, <2>12, <2>13, OrderOne
<1>9. CASE At(q, "create", 3) /\ Done(q) /\ UNCHANGED rows
  <2>1. m = Idle
    BY <1>2, <1>4, <1>9, DoneFacts DEF Ends
  <2>2. /\ exist = Group
        /\ rows[u] = IF u = Owner THEN <<"owner">> ELSE <<>>
        /\ access[u] = IF u = Owner THEN {"members"} ELSE {}
    BY <1>3, <1>4, <1>9 DEF Halfway, At
  <2>3. ToSet(rows[u]) = IF u = Owner THEN {"owner"} ELSE {}
    BY <2>2 DEF ToSet
  <2>4. AccessIs(u)'
    BY <1>5, <1>9, <2>2, <2>3 DEF AccessIs, GroupOf
  <2>5. exist' = Group
    BY <1>5, <2>2
  <2>6. /\ Len(rows'[u]) <= 1
        /\ \A i, j \in SentTo(u)' : i = j
        /\ rows'[u] # <<>> => SentTo(u)' = {}
        /\ \A p \in Request : p # q => req'[p] = req[p]
        /\ req'[q] = Idle
    BY <1>2, <1>4, <1>6, <1>9, <2>1
  <2> HIDE DEF Early, Halfway, Guest, AccessIs, SentTo, Concerns, InOrder, Idle
  <2> QED
    BY <2>4, <2>5, <2>6, OrderOne
<1> QED
  BY <1>7, <1>8, <1>9 DEF CreateSpace

LEMMA OrderDelete ==
    ASSUME RequestsTypeOK, SpaceStage, NEW u \in User, NEW q \in Request, InOrder(u),
           Concerns(q, u), DeleteSpace(q)
    PROVE  InOrder(u)'
<1>1. MemberStep(q) /\ ~MakeCall(q)
  BY DEF MemberStep, MakeCall, DeleteSpace, At
<1>2. PICK m : m = req'[q]
  OBVIOUS
<1>3. PICK k : k = req[q]
  OBVIOUS
<1>4. /\ k \in Asked /\ k.op = "delete" /\ k.calls = <<>> /\ (Ends(q) \/ Onward(q))
      /\ \A p \in Request : p # q => req'[p] = req[p]
      /\ Halfway(k, u)
      /\ req \in [Request -> Asked] /\ invites \in [Invite -> [status: {"none", "sent",
           "accepted", "declined", "cancelled", "deleted"}, to: User, role: Rank]]
      /\ Len(rows[u]) <= 1
      /\ \A i, j \in SentTo(u) : i = j
      /\ rows[u] # <<>> => SentTo(u) = {}
  BY <1>1, <1>3, OneStep DEF DeleteSpace, At, SpacesTypeOK, Asked
<1>5. UNCHANGED <<exist, access>>
  BY DEF DeleteSpace, syncVars
<1>6. CASE At(q, "delete", 1) /\ UNCHANGED <<space, rows, invites>>
  <2>1. Early(req[q])
    BY <1>6 DEF Early, At
  <2>2. Onward(q) => Early(req[q])' /\ Guest(req[q], u)'
    BY <1>6 DEF Onward, Alike, Early, Guest, At
  <2>3. SentTo(u)' = SentTo(u)
    BY <1>6 DEF SentTo
  <2> HIDE DEF Early, Halfway, Guest, AccessIs, SentTo, Concerns, InOrder
  <2> QED
    BY <1>1, <1>4, <1>5, <1>6, <2>1, <2>2, <2>3, OrderStill
<1>7. CASE At(q, "delete", 2) /\ UNCHANGED <<rows, invites>>
           /\ Calling(q, <<Ask("other", "members"), Ask("delete", "readonly"),
                           Ask("delete", "members")>>)
  <2>1. <<Ask("other", "members"), Ask("delete", "readonly"), Ask("delete", "members")>> \in Seq(Call)
    BY CallTypes
  <2>2. Goes(q, req[q].pc + 1, <<Ask("other", "members"), Ask("delete", "readonly"),
                                 Ask("delete", "members")>>)
    BY <1>4, <1>7, <2>1, CallingFacts
  <2>3. m.op = "delete" /\ m.pc = 3 /\ Alike(q)
    BY <1>2, <1>3, <1>4, <1>7, <2>2 DEF Goes, Alike, At
  <2>4. m.calls # <<>> /\ ~(Len(m.calls) < 2)
    BY <1>2, <2>2, Lists DEF Goes
  <2>5. Halfway(m, u)' /\ Guest(m, u)' /\ ~Early(m)
    BY <2>3, <2>4 DEF Halfway, Guest, Early
  <2>6. SentTo(u)' = SentTo(u) /\ rows'[u] = rows[u]
    BY <1>7 DEF SentTo
  <2>7. ~(req'[q].op = "delete" => req'[q].pc < 3)
    BY <1>2, <2>3
  <2> HIDE DEF Early, Halfway, Guest, AccessIs, SentTo, Concerns, InOrder
  <2> QED
    BY <1>2, <1>4, <2>3, <2>5, <2>6, <2>7, OrderOne
<1>8. CASE /\ At(q, "delete", 3) /\ space' = "deleted" /\ rows' = [v \in User |-> <<>>] /\ Done(q)
           /\ invites' = [i \in Invite |-> [NoInvite EXCEPT !.status =
                             IF invites[i].status = "none" THEN "none" ELSE "deleted"]]
  <2>1. m = Idle
    BY <1>2, <1>4, <1>8, DoneFacts DEF Ends
  <2>2. access[u] = {}
    BY <1>3, <1>4, <1>8 DEF Halfway, At
  <2>3. rows'[u] = <<>> /\ ToSet(<<>>) = {}
    BY <1>8 DEF ToSet
  <2>4. AccessIs(u)'
    BY <1>5, <2>2, <2>3 DEF AccessIs
  <2>5. SentTo(u)' = {}
    BY <1>8 DEF SentTo, NoInvite
  <2>6. Len(rows'[u]) <= 1 /\ space' # "live"
    BY <1>8, <2>3
  <2> HIDE DEF Early, Halfway, Guest, AccessIs, SentTo, Concerns, InOrder
  <2> QED
    BY <1>2, <1>4, <2>1, <2>3, <2>4, <2>5, <2>6, OrderOne
<1> QED
  BY <1>6, <1>7, <1>8 DEF DeleteSpace

LEMMA OrderCheck ==
    ASSUME RequestsTypeOK, SpaceStage, NEW u \in User, NEW q \in Request, InOrder(u),
           Concerns(q, u), CheckMember(q)
    PROVE  InOrder(u)'
<1>1. MemberStep(q) /\ ~MakeCall(q)
  BY DEF MemberStep, MakeCall, CheckMember, At
<1>2. req[q].op \in {"change", "remove"} /\ req[q].pc \in {1, 2} /\ (Ends(q) \/ Onward(q))
  BY <1>1, OneStep DEF CheckMember, At
<1>3. UNCHANGED <<space, exist, rows, access, invites>>
  BY DEF CheckMember, dbVars, syncVars
<1>4. Early(req[q])
  BY <1>2 DEF Early
<1>5. Onward(q) => Early(req[q])' /\ Guest(req[q], u)'
  BY <1>2 DEF Onward, Alike, Early, Guest
<1>6. SentTo(u)' = SentTo(u)
  BY <1>3 DEF SentTo
<1> HIDE DEF Early, Halfway, Guest, AccessIs, SentTo, Concerns, InOrder
<1> QED
  BY <1>1, <1>2, <1>3, <1>4, <1>5, <1>6, OrderStill

LEMMA OrderChange ==
    ASSUME RequestsTypeOK, SpaceStage, NEW u \in User, NEW q \in Request, InOrder(u),
           Concerns(q, u), ChangeMemberRole(q)
    PROVE  InOrder(u)'
<1>1. MemberStep(q) /\ ~MakeCall(q)
  BY DEF MemberStep, MakeCall, ChangeMemberRole, At
<1>2. PICK m : m = req'[q]
  OBVIOUS
<1>3. PICK k : k = req[q]
  OBVIOUS
<1>4. /\ k \in Asked /\ k.op = "change" /\ k.calls = <<>> /\ k.to = u
      /\ \A p \in Request : p # q => req'[p] = req[p]
      /\ Halfway(k, u) /\ (Early(k) => AccessIs(u))
      /\ req \in [Request -> Asked] /\ rows \in [User -> Seq(Rank)]
      /\ Len(rows[u]) <= 1
      /\ \A i, j \in SentTo(u) : i = j
      /\ rows[u] # <<>> => SentTo(u) = {}
  <2> HIDE DEF Early, Halfway, AccessIs, SentTo
  <2>1. k.op = "change"
    BY <1>3 DEF ChangeMemberRole, At
  <2> QED
    BY <1>1, <1>3, <2>1, OneStep DEF SpacesTypeOK, Asked, Concerns
<1>5. UNCHANGED <<space, invites, exist, access>>
  BY DEF ChangeMemberRole, syncVars
<1>6. SentTo(u)' = SentTo(u)
  BY <1>5 DEF SentTo
<1>7. ASSUME rows[u] # <<>> PROVE rows[u] = <<rows[u][1]>>
  BY <1>4, <1>7
<1>8. rows[u] # <<>> => exist' = Group
  BY <1>3, <1>4, <1>5, LiveSpace
<1>9. ASSUME At(q, "change", 3), UNCHANGED rows, NEW old \in Roles(u), old \notin {"none", k.role},
             Calling(q, Moves(old, k.role))
      PROVE  InOrder(u)'
  <2>1. Goes(q, req[q].pc + 1, Moves(old, k.role))
    BY <1>4, <1>9, CallTypes, CallingFacts
  <2>2. m.op = "change" /\ m.pc = 4 /\ Alike(q) /\ m.role = k.role /\ m.calls = Moves(old, k.role)
    BY <1>2, <1>3, <1>4, <1>9, <2>1 DEF Goes, Alike, At
  <2>3. rows[u] # <<>> /\ old = rows[u][1]
    <3>1. rows[u] # <<>> /\ old \in ToSet(rows[u])
      BY <1>9 DEF Roles
    <3> QED
      BY <1>7, <3>1 DEF ToSet
  <2>4. access[u] = {GroupOf(old)}
    <3>1. ToSet(rows[u]) = {old}
      BY <1>7, <2>3 DEF ToSet
    <3>2. AccessIs(u)
      BY <1>3, <1>4, <1>9 DEF Early, At
    <3> QED
      BY <3>1, <3>2 DEF AccessIs
  <2>5. m.calls = <<>> => GroupOf(old) = GroupOf(k.role)
    BY <2>2, Lists DEF Moves
  <2>6. Len(m.calls) # 1
    BY <2>2, Lists DEF Moves
  <2>7. Halfway(m, u)'
    <3>1. rows'[u] # <<>> /\ exist' = Group
      BY <1>8, <1>9, <2>3
    <3>2. m.calls = <<>> => access'[u] = {GroupOf(m.role)}
      BY <1>5, <2>2, <2>4, <2>5
    <3> QED
      BY <2>2, <2>6, <3>1, <3>2 DEF Halfway
  <2>8. Guest(m, u)' /\ ~Early(m)
    BY <2>2 DEF Guest, Early
  <2>9. exist' = Group /\ rows'[u] = rows[u]
    BY <1>8, <1>9, <2>3
  <2> HIDE DEF Early, Halfway, Guest, AccessIs, SentTo, Concerns, InOrder
  <2> QED
    BY <1>2, <1>4, <1>6, <2>2, <2>7, <2>8, <2>9, OrderOne
<1>10. CASE At(q, "change", 3) /\ UNCHANGED rows /\ Done(q)
  <2>1. Early(req[q])
    BY <1>10 DEF Early, At
  <2>2. Ends(q)
    BY <1>4, <1>10, DoneFacts
  <2> HIDE DEF Early, Halfway, Guest, AccessIs, SentTo, Concerns, InOrder
  <2> QED
    BY <1>1, <1>5, <1>6, <1>10, <2>1, <2>2, OrderStill
<1>11. CASE /\ At(q, "change", 4) /\ Done(q)
            /\ rows' = [rows EXCEPT ![u] = [i \in DOMAIN rows[u] |-> k.role]]
  <2>1. m = Idle
    BY <1>2, <1>4, <1>11, DoneFacts DEF Ends
  <2>2. rows[u] # <<>> /\ exist = Group /\ access[u] = {GroupOf(k.role)}
    BY <1>3, <1>4, <1>11 DEF Halfway, At
  <2>3. DOMAIN rows[u] = {1}
    BY <1>4, <1>7, <2>2
  <2>4. rows'[u] = <<k.role>>
    <3>1. rows'[u] = [i \in {1} |-> k.role]
      BY <1>4, <1>11, <2>3
    <3> QED
      BY <3>1
  <2>5. ToSet(rows'[u]) = {k.role}
    BY <2>4 DEF ToSet
  <2>6. AccessIs(u)'
    BY <1>5, <2>2, <2>5 DEF AccessIs
  <2>7. /\ Len(rows'[u]) <= 1
        /\ \A i, j \in SentTo(u)' : i = j
        /\ rows'[u] # <<>> => SentTo(u)' = {}
        /\ \A p \in Request : p # q => req'[p] = req[p]
        /\ req'[q] = Idle /\ exist' = Group
    <3> HIDE DEF SentTo
    <3> QED
      BY <1>2, <1>4, <1>5, <1>6, <2>1, <2>2, <2>4
  <2> HIDE DEF Early, Halfway, Guest, AccessIs, SentTo, Concerns, InOrder, Idle
  <2> QED
    BY <2>6, <2>7, OrderOne
<1> QED
  BY <1>3, <1>4, <1>9, <1>10, <1>11 DEF ChangeMemberRole

LEMMA OrderRemove ==
    ASSUME RequestsTypeOK, SpaceStage, NEW u \in User, NEW q \in Request, InOrder(u),
           Concerns(q, u), RemoveMember(q)
    PROVE  InOrder(u)'
<1>1. MemberStep(q) /\ ~MakeCall(q)
  BY DEF MemberStep, MakeCall, RemoveMember, At
<1>2. PICK m : m = req'[q]
  OBVIOUS
<1>3. PICK k : k = req[q]
  OBVIOUS
<1>4. /\ k \in Asked /\ k.op = "remove" /\ k.calls = <<>> /\ k.to = u
      /\ \A p \in Request : p # q => req'[p] = req[p]
      /\ Halfway(k, u) /\ (Early(k) => AccessIs(u))
      /\ req \in [Request -> Asked] /\ rows \in [User -> Seq(Rank)]
      /\ Len(rows[u]) <= 1
      /\ \A i, j \in SentTo(u) : i = j
      /\ rows[u] # <<>> => SentTo(u) = {}
  <2> HIDE DEF Early, Halfway, AccessIs, SentTo
  <2>1. k.op = "remove"
    BY <1>3 DEF RemoveMember, At
  <2> QED
    BY <1>1, <1>3, <2>1, OneStep DEF SpacesTypeOK, Asked, Concerns
<1>5. UNCHANGED <<space, invites, exist, access>>
  BY DEF RemoveMember, syncVars
<1>6. SentTo(u)' = SentTo(u)
  BY <1>5 DEF SentTo
<1>7. /\ space' = "live"
      /\ \A p \in Request : req'[p].op = "delete" => req'[p].pc < 3
      => exist' = Group
  BY <1>3, <1>4, <1>5, LiveKept
<1>8. CASE /\ At(q, "remove", 3) /\ rows' = [rows EXCEPT ![u] = <<>>]
           /\ Calling(q, <<Ask("remove", "members"), Ask("remove", "readonly")>>)
  <2>1. <<Ask("remove", "members"), Ask("remove", "readonly")>> \in Seq(Call)
    BY CallTypes
  <2>2. Goes(q, req[q].pc + 1, <<Ask("remove", "members"), Ask("remove", "readonly")>>)
    BY <1>4, <1>8, <2>1, CallingFacts
  <2>3. m.op = "remove" /\ m.pc = 4 /\ Alike(q)
    BY <1>2, <1>3, <1>4, <1>8, <2>2 DEF Goes, Alike, At
  <2>4. m.calls # <<>> /\ ~(Len(m.calls) < 2)
    BY <1>2, <2>2, Lists DEF Goes
  <2>5. rows'[u] = <<>>
    BY <1>4, <1>8
  <2>6. Halfway(m, u)' /\ Guest(m, u)' /\ ~Early(m)
    BY <2>3, <2>4, <2>5 DEF Halfway, Guest, Early
  <2>7. Len(rows'[u]) <= 1
    BY <2>5
  <2> HIDE DEF Early, Halfway, Guest, AccessIs, SentTo, Concerns, InOrder
  <2> QED
    BY <1>2, <1>4, <1>6, <1>7, <2>3, <2>5, <2>6, <2>7, OrderOne
<1>9. CASE At(q, "remove", 3) /\ rows' = [rows EXCEPT ![u] = <<>>] /\ rows[u] = <<>> /\ Done(q)
  <2>1. Early(req[q])
    BY <1>9 DEF Early, At
  <2>2. Ends(q) /\ rows'[u] = rows[u]
    BY <1>4, <1>9, DoneFacts
  <2> HIDE DEF Early, Halfway, Guest, AccessIs, SentTo, Concerns, InOrder
  <2> QED
    BY <1>1, <1>5, <1>6, <2>1, <2>2, OrderStill
<1>10. CASE At(q, "remove", 4) /\ Done(q) /\ UNCHANGED rows
  <2>1. m = Idle
    BY <1>2, <1>4, <1>10, DoneFacts DEF Ends
  <2>2. rows'[u] = <<>> /\ access'[u] = {} /\ ToSet(<<>>) = {}
    BY <1>3, <1>4, <1>5, <1>10 DEF Halfway, At, ToSet
  <2>3. AccessIs(u)'
    BY <2>2 DEF AccessIs
  <2>4. /\ Len(rows'[u]) <= 1
        /\ \A i, j \in SentTo(u)' : i = j
        /\ rows'[u] # <<>> => SentTo(u)' = {}
        /\ \A p \in Request : p # q => req'[p] = req[p]
        /\ req'[q] = Idle
    <3> HIDE DEF SentTo
    <3> QED
      BY <1>2, <1>4, <1>6, <2>1, <2>2
  <2> HIDE DEF Early, Halfway, Guest, AccessIs, SentTo, Concerns, InOrder, Idle
  <2> QED
    BY <1>7, <2>3, <2>4, OrderOne
<1> QED
  BY <1>3, <1>4, <1>8, <1>9, <1>10 DEF RemoveMember

LEMMA OrderInvite ==
    ASSUME RequestsTypeOK, SpaceStage, NEW u \in User, NEW q \in Request, InOrder(u),
           Concerns(q, u), CreateInvite(q)
    PROVE  InOrder(u)'
<1>1. MemberStep(q) /\ ~MakeCall(q)
  BY DEF MemberStep, MakeCall, CreateInvite, At
<1>2. PICK k : k = req[q]
  OBVIOUS
<1>3. /\ k \in Asked /\ k.op = "invite" /\ k.calls = <<>> /\ k.to = u
      /\ (Ends(q) \/ Onward(q))
      /\ \A p \in Request : p # q => req'[p] = req[p]
      /\ Guest(k, u) /\ AccessIs(u)
      /\ req \in [Request -> Asked] /\ rows \in [User -> Seq(Rank)]
      /\ invites \in [Invite -> [status: {"none", "sent", "accepted", "declined",
                                          "cancelled", "deleted"}, to: User, role: Rank]]
      /\ Len(rows[u]) <= 1
  <2>1. k.op = "invite" /\ Early(k)
    BY <1>2 DEF CreateInvite, At, Early
  <2> HIDE DEF Early, Halfway, Guest, AccessIs, SentTo
  <2> QED
    BY <1>1, <1>2, <2>1, OneStep DEF SpacesTypeOK, Asked, Concerns
<1>4. UNCHANGED <<space, rows, exist, access>>
  BY DEF CreateInvite, syncVars
<1>5. Early(req[q])
  BY <1>2, <1>3 DEF Early
<1>6. Onward(q) => Early(req[q])'
  BY <1>2, <1>3 DEF Onward, Alike, Early
<1>7. ASSUME \/ UNCHANGED invites \/ SentTo(u)' = {},
             Onward(q) => Guest(req[q], u)'
      PROVE  InOrder(u)'
  <2>1. SentTo(u)' = SentTo(u) \/ SentTo(u)' = {}
    BY <1>7 DEF SentTo
  <2> HIDE DEF Early, Halfway, Guest, AccessIs, SentTo, Concerns, InOrder
  <2> QED
    BY <1>1, <1>3, <1>4, <1>5, <1>6, <1>7, <2>1, OrderStill
<1>8. CASE At(q, "invite", 1) /\ UNCHANGED invites
  <2>1. Onward(q) => Guest(req[q], u)'
    BY <1>8 DEF Onward, Alike, Guest, At
  <2> QED
    BY <1>7, <1>8, <2>1
<1>9. CASE At(q, "invite", 2) /\ AdvanceIf(q, rows[u] = <<>>) /\ UNCHANGED invites
  <2>1. rows[u] = <<>> \/ Ends(q)
    BY <1>3, <1>9, AdvanceIfFacts
  <2>2. Onward(q) => ~Ends(q)
    BY <1>2, <1>3 DEF Onward, Ends, Alike, Idle
  <2>3. Onward(q) => Guest(req[q], u)'
    BY <1>4, <1>9, <2>1, <2>2 DEF Onward, Alike, Guest, At
  <2> QED
    BY <1>7, <1>9, <2>3
<1>10. CASE /\ At(q, "invite", 3)
            /\ invites' = [i \in Invite |->
                  IF invites[i].to = u /\ invites[i].status = "sent"
                  THEN [invites[i] EXCEPT !.status = "deleted"] ELSE invites[i]]
  <2>1. SentTo(u)' = {}
    BY <1>3, <1>10 DEF SentTo
  <2>2. rows'[u] = <<>>
    BY <1>2, <1>3, <1>4, <1>10 DEF Guest, At
  <2>3. Onward(q) => Guest(req[q], u)'
    BY <1>10, <2>1, <2>2 DEF Onward, Alike, Guest, At
  <2> QED
    BY <1>7, <2>1, <2>3
<1>11. CASE At(q, "invite", 4) /\ Done(q) /\ UNCHANGED invites
  <2>1. ~Onward(q)
    BY <1>2, <1>3, <1>11, DoneFacts DEF Onward, Ends, Alike, Idle
  <2> QED
    BY <1>7, <1>11, <2>1
<1>12. ASSUME At(q, "invite", 4), Done(q), NEW j \in Invite, NEW n, SetInvite(j, n)
       PROVE  InOrder(u)'
  <2>1. rows[u] = <<>> /\ SentTo(u) = {}
    BY <1>2, <1>3, <1>12 DEF Guest, At
  <2>2. SentTo(u)' \subseteq {j}
    BY <1>3, <1>12, <2>1 DEF SentTo, SetInvite
  <2>3. req'[q] = Idle
    BY <1>3, <1>12, DoneFacts DEF Ends
  <2>4. AccessIs(u)'
    BY <1>3, <1>4 DEF AccessIs
  <2>5. /\ Len(rows'[u]) <= 1
        /\ \A i, l \in SentTo(u)' : i = l
        /\ rows'[u] # <<>> => SentTo(u)' = {}
    <3> HIDE DEF SentTo
    <3> QED
      BY <1>3, <1>4, <2>1, <2>2
  <2>6. /\ space' = "live"
        /\ \A p \in Request : req'[p].op = "delete" => req'[p].pc < 3
        => exist' = Group
    BY <1>2, <1>3, <1>4, LiveKept
  <2> HIDE DEF Early, Halfway, Guest, AccessIs, SentTo, Concerns, InOrder, Idle
  <2> QED
    BY <1>3, <2>3, <2>4, <2>5, <2>6, OrderOne
<1>13. ASSUME {i \in Invite : invites[i].status = "none"} # {}
       PROVE  (CHOOSE i \in {i \in Invite : invites[i].status = "none"} : TRUE) \in Invite
  BY <1>13
<1> QED
  BY <1>2, <1>3, <1>8, <1>9, <1>10, <1>11, <1>12, <1>13 DEF CreateInvite

LEMMA OrderAccept ==
    ASSUME RequestsTypeOK, SpaceStage, NEW u \in User, NEW q \in Request, InOrder(u),
           Concerns(q, u), AcceptInvite(q)
    PROVE  InOrder(u)'
<1>1. MemberStep(q) /\ ~MakeCall(q)
  BY DEF MemberStep, MakeCall, AcceptInvite, At
<1>2. PICK m : m = req'[q]
  OBVIOUS
<1>3. PICK k : k = req[q]
  OBVIOUS
<1>4. /\ k \in Asked /\ k.op = "accept" /\ k.calls = <<>> /\ k.by = u /\ k.on \in Invite
      /\ (Ends(q) \/ Onward(q))
      /\ \A p \in Request : p # q => req'[p] = req[p]
      /\ Halfway(k, u) /\ Guest(k, u) /\ (Early(k) => AccessIs(u))
      /\ req \in [Request -> Asked] /\ rows \in [User -> Seq(Rank)]
      /\ invites \in [Invite -> [status: {"none", "sent", "accepted", "declined",
                                          "cancelled", "deleted"}, to: User, role: Rank]]
      /\ Len(rows[u]) <= 1
      /\ \A i, j \in SentTo(u) : i = j
      /\ rows[u] # <<>> => SentTo(u) = {}
  <2>1. k.op = "accept"
    BY <1>3 DEF AcceptInvite, At
  <2> HIDE DEF Early, Halfway, Guest, AccessIs, SentTo
  <2> QED
    BY <1>1, <1>3, <2>1, OneStep DEF SpacesTypeOK, Asked, Concerns, Well
<1>5. UNCHANGED <<space, exist, access>>
  BY DEF AcceptInvite, syncVars
<1>6. k.pc < 4 => Early(req[q])
  BY <1>3, <1>4 DEF Early
<1>7. k.pc < 3 /\ Onward(q) => Early(req[q])'
  BY <1>3, <1>4 DEF Onward, Alike, Early, Asked
<1>8. CASE At(q, "accept", 1) /\ Mine(q) /\ SetStatus(k.on, "accepted") /\ UNCHANGED rows
  <2>1. k.on \in SentTo(u)
    BY <1>3, <1>4, <1>8 DEF Mine, SentTo
  <2>2. SentTo(u)' = {}
    BY <1>4, <1>8, <2>1 DEF SentTo, SetStatus, SetInvite
  <2>3. rows'[u] = <<>> /\ rows[u] = <<>>
    BY <1>4, <1>8, <2>1
  <2>4. Onward(q) => Guest(req[q], u)'
    BY <2>2, <2>3 DEF Guest, Onward
  <2>5. k.pc = 1
    BY <1>3, <1>8 DEF At
  <2> HIDE DEF Early, Halfway, Guest, AccessIs, SentTo, Concerns, InOrder
  <2> QED
    BY <1>1, <1>4, <1>5, <1>6, <1>7, <2>2, <2>3, <2>4, <2>5, OrderStill
<1>9. CASE At(q, "accept", 1) /\ ~Mine(q) /\ AdvanceIf(q, Mine(q)) /\ UNCHANGED <<rows, invites>>
  <2>1. Ends(q) /\ k.pc = 1
    BY <1>3, <1>4, <1>9, AdvanceIfFacts DEF At
  <2>2. SentTo(u)' = SentTo(u) /\ rows'[u] = rows[u]
    BY <1>9 DEF SentTo
  <2> HIDE DEF Early, Halfway, Guest, AccessIs, SentTo, Concerns, InOrder
  <2> QED
    BY <1>1, <1>5, <1>6, <2>1, <2>2, OrderStill
<1>10. CASE At(q, "accept", 2) /\ UNCHANGED <<rows, invites>>
  <2>1. k.pc = 2
    BY <1>3, <1>10 DEF At
  <2>2. SentTo(u)' = SentTo(u) /\ rows'[u] = rows[u]
    BY <1>10 DEF SentTo
  <2>3. rows[u] = <<>> /\ SentTo(u) = {}
    BY <1>4, <2>1 DEF Guest
  <2>4. Onward(q) => Guest(req[q], u)'
    <3> HIDE DEF SentTo
    <3> QED
      BY <2>2, <2>3 DEF Guest, Onward
  <2> HIDE DEF Early, Halfway, Guest, AccessIs, SentTo, Concerns, InOrder
  <2> QED
    BY <1>1, <1>4, <1>5, <1>6, <1>7, <2>1, <2>2, <2>4, OrderStill
<1>11. CASE At(q, "accept", 3) /\ Done(q) /\ UNCHANGED <<rows, invites>>
  <2>1. k.pc = 3 /\ Ends(q)
    BY <1>3, <1>4, <1>11, DoneFacts DEF At
  <2>2. SentTo(u)' = SentTo(u) /\ rows'[u] = rows[u]
    BY <1>11 DEF SentTo
  <2> HIDE DEF Early, Halfway, Guest, AccessIs, SentTo, Concerns, InOrder
  <2> QED
    BY <1>1, <1>5, <1>6, <2>1, <2>2, OrderStill
<1>12. CASE /\ At(q, "accept", 3) /\ space = "live" /\ UNCHANGED invites
            /\ rows' = [rows EXCEPT ![u] = Append(rows[u], k.role)]
            /\ Calling(q, <<Ask("add", GroupOf(k.role))>>)
  <2>1. <<Ask("add", GroupOf(k.role))>> \in Seq(Call)
    BY CallTypes
  <2>2. Goes(q, req[q].pc + 1, <<Ask("add", GroupOf(k.role))>>)
    BY <1>4, <1>12, <2>1, CallingFacts
  <2>3. m.op = "accept" /\ m.pc = 4 /\ Alike(q) /\ m.role = k.role /\ m.calls # <<>>
    BY <1>2, <1>3, <1>4, <1>12, <2>2 DEF Goes, Alike, At
  <2>4. k.pc = 3 /\ rows[u] = <<>> /\ SentTo(u) = {}
    BY <1>3, <1>4, <1>12 DEF Guest, At
  <2>5. rows'[u] = <<k.role>>
    BY <1>4, <1>12, <2>4
  <2>6. access'[u] = {}
    <3>1. AccessIs(u) /\ ToSet(<<>>) = {}
      BY <1>3, <1>4, <1>6, <2>4 DEF ToSet
    <3> QED
      BY <1>5, <2>4, <3>1 DEF AccessIs
  <2>7. exist' = Group
    BY <1>3, <1>4, <1>5, <1>12, LiveSpace
  <2>8. Halfway(m, u)'
    BY <2>3, <2>5, <2>6, <2>7 DEF Halfway
  <2>9. SentTo(u)' = {}
    BY <1>12, <2>4 DEF SentTo
  <2>10. Guest(m, u)' /\ ~Early(m)
    <3> HIDE DEF SentTo
    <3> QED
      BY <2>3, <2>9 DEF Guest, Early
  <2>11. /\ Len(rows'[u]) <= 1
         /\ \A i, j \in SentTo(u)' : i = j
    <3> HIDE DEF SentTo
    <3> QED
      BY <2>5, <2>9
  <2> HIDE DEF Early, Halfway, Guest, AccessIs, SentTo, Concerns, InOrder
  <2> QED
    BY <1>2, <1>4, <2>3, <2>7, <2>8, <2>9, <2>10, <2>11, OrderOne
<1>13. CASE At(q, "accept", 4) /\ Done(q) /\ UNCHANGED <<rows, invites>>
  <2>1. req'[q] = Idle
    BY <1>4, <1>13, DoneFacts DEF Ends
  <2>2. rows[u] = <<k.role>> /\ access[u] = {GroupOf(k.role)}
    BY <1>3, <1>4, <1>13 DEF Halfway, At
  <2>3. ToSet(rows[u]) = {k.role}
    BY <2>2 DEF ToSet
  <2>4. AccessIs(u)'
    BY <1>5, <1>13, <2>2, <2>3 DEF AccessIs
  <2>5. SentTo(u)' = SentTo(u)
    BY <1>13 DEF SentTo
  <2>6. /\ Len(rows'[u]) <= 1
        /\ \A i, j \in SentTo(u)' : i = j
        /\ rows'[u] # <<>> => SentTo(u)' = {}
    <3> HIDE DEF SentTo
    <3> QED
      BY <1>4, <1>13, <2>5
  <2>7. /\ space' = "live"
        /\ \A p \in Request : req'[p].op = "delete" => req'[p].pc < 3
        => exist' = Group
    BY <1>3, <1>4, <1>5, LiveKept
  <2> HIDE DEF Early, Halfway, Guest, AccessIs, SentTo, Concerns, InOrder, Idle
  <2> QED
    BY <1>4, <2>1, <2>4, <2>6, <2>7, OrderOne
<1> QED
  BY <1>3, <1>4, <1>8, <1>9, <1>10, <1>11, <1>12, <1>13 DEF AcceptInvite

\* What a step leaves alone of a user whom its request does not concern.
LEMMA Elsewhere ==
    ASSUME RequestsTypeOK, SpaceStage, NEW u \in User, NEW q \in Request, MemberStep(q),
           ~Concerns(q, u)
    PROVE  /\ UNCHANGED <<space, exist>>
           /\ rows'[u] = rows[u] /\ access'[u] = access[u]
           /\ SentTo(u)' \subseteq SentTo(u)
<1>1. PICK k : k = req[q]
  OBVIOUS
<1>2. /\ SpacesTypeOK /\ Well(k) /\ Queued(k) /\ rows \in [User -> Seq(Rank)]
      /\ invites \in [Invite -> [status: {"none", "sent", "accepted", "declined",
                                          "cancelled", "deleted"}, to: User, role: Rank]]
  BY <1>1 DEF RequestsTypeOK, SpacesTypeOK, SpaceStage
<1>3. /\ k.op \notin {"create", "delete"}
      /\ k.op \in {"accept", "leave"} => k.by # u
      /\ k.op \in {"change", "remove", "invite"} => k.to # u
  BY <1>1 DEF Concerns
<1>4. UNCHANGED invites => SentTo(u)' \subseteq SentTo(u)
  BY DEF SentTo
<1>5. ASSUME NEW i \in Invite, NEW st, SetStatus(i, st), st # "sent"
      PROVE  SentTo(u)' \subseteq SentTo(u)
  BY <1>2, <1>5 DEF SentTo, SetStatus, SetInvite
<1>6. CASE MakeCall(q)
  <2>1. UNCHANGED <<space, rows, invites>>
    BY <1>6 DEF MakeCall, dbVars
  <2>2. k.calls # <<>> /\ k.to # u
    BY <1>1, <1>2, <1>3, <1>6, CallKinds DEF MakeCall, Well
  <2>3. \E n, g : NextOf(k, n, "add", g) \/ NextOf(k, n, "remove", g)
    BY <1>2, <1>3, <2>2, CallKinds
  <2>4. PICK n, g : NextOf(req[q], n, "add", g) \/ NextOf(req[q], n, "remove", g)
    BY <1>1, <2>3
  <2>5. CallDone(k.to, "add", g) \/ CallDone(k.to, "remove", g)
    BY <1>1, <1>2, <1>6, <2>4, CallSteps
  <2>6. exist' = exist /\ access'[u] = access[u]
    BY <2>2, <2>5 DEF CallDone
  <2> QED
    BY <1>4, <2>1, <2>6
<1>7. CASE LeaveSpace(q)
  BY <1>1, <1>2, <1>3, <1>4, <1>7 DEF LeaveSpace, At, syncVars
<1>8. CASE CheckMember(q) \/ CheckInvite(q)
  BY <1>4, <1>8 DEF CheckMember, CheckInvite, dbVars, syncVars
<1>9. CASE ChangeMemberRole(q)
  BY <1>1, <1>2, <1>3, <1>4, <1>9 DEF ChangeMemberRole, At, syncVars
<1>10. CASE RemoveMember(q)
  BY <1>1, <1>2, <1>3, <1>4, <1>10 DEF RemoveMember, At, syncVars
<1>11. CASE CreateInvite(q)
  <2>1. UNCHANGED <<space, rows, exist, access>>
    BY <1>11 DEF CreateInvite, syncVars
  <2>2. k.to # u
    BY <1>1, <1>3, <1>11 DEF CreateInvite, At
  <2>3. CASE invites' = [i \in Invite |->
                IF invites[i].to = k.to /\ invites[i].status = "sent"
                THEN [invites[i] EXCEPT !.status = "deleted"] ELSE invites[i]]
    <3>1. SentTo(u)' \subseteq SentTo(u)
      BY <1>2, <2>2, <2>3 DEF SentTo
    <3> QED
      BY <2>1, <3>1
  <2>4. ASSUME NEW j \in Invite,
               SetInvite(j, [NoInvite EXCEPT !.status = "sent", !.to = k.to, !.role = k.role])
        PROVE  SentTo(u)' \subseteq SentTo(u)
    <3> DEFINE n == [NoInvite EXCEPT !.status = "sent", !.to = k.to, !.role = k.role]
    <3>1. n.to # u
      BY <2>2 DEF NoInvite
    <3>2. invites' = [invites EXCEPT ![j] = n]
      BY <2>4 DEF SetInvite
    <3> HIDE DEF n
    <3> QED
      BY <1>2, <3>1, <3>2 DEF SentTo
  <2>5. {i \in Invite : invites[i].status = "none"} # {} =>
           (CHOOSE i \in {i \in Invite : invites[i].status = "none"} : TRUE) \in Invite
    OBVIOUS
  <2> QED
    BY <1>1, <1>4, <1>11, <2>1, <2>3, <2>4, <2>5 DEF CreateInvite
<1>12. CASE WriteInvite(q)
  <2>1. k.on \in Invite /\ UNCHANGED <<space, rows, exist, access>>
    BY <1>1, <1>2, <1>12 DEF WriteInvite, At, Well, syncVars
  <2>2. ASSUME SetInvite(k.on, [invites[k.on] EXCEPT !.role = k.role])
        PROVE  SentTo(u)' \subseteq SentTo(u)
    BY <1>2, <2>1, <2>2 DEF SentTo, SetInvite
  <2>3. SentTo(u)' \subseteq SentTo(u)
    BY <1>1, <1>4, <1>5, <1>12, <2>1, <2>2 DEF WriteInvite
  <2> QED
    BY <2>1, <2>3
<1>13. CASE AcceptInvite(q)
  <2>1. k.on \in Invite /\ k.by # u /\ UNCHANGED <<space, exist, access>>
    BY <1>1, <1>2, <1>3, <1>13 DEF AcceptInvite, At, Well, syncVars
  <2>2. rows'[u] = rows[u]
    BY <1>1, <1>2, <1>13, <2>1 DEF AcceptInvite
  <2>3. SentTo(u)' \subseteq SentTo(u)
    BY <1>1, <1>4, <1>5, <1>13, <2>1 DEF AcceptInvite
  <2> QED
    BY <2>1, <2>2, <2>3
<1>14. CASE DeclineInvite(q)
  <2>1. k.on \in Invite /\ UNCHANGED <<space, rows, exist, access>>
    BY <1>1, <1>2, <1>14 DEF DeclineInvite, At, Well, syncVars
  <2>2. SentTo(u)' \subseteq SentTo(u)
    BY <1>1, <1>4, <1>5, <1>14, <2>1 DEF DeclineInvite
  <2> QED
    BY <2>1, <2>2
<1>15. ~CreateSpace(q) /\ ~DeleteSpace(q)
  BY <1>1, <1>3 DEF CreateSpace, DeleteSpace, At
<1> QED
  BY <1>6, <1>7, <1>8, <1>9, <1>10, <1>11, <1>12, <1>13, <1>14, <1>15 DEF MemberStep

\* A step about members keeps the requests about u in order.
LEMMA OrderMember ==
    ASSUME RequestsTypeOK, SpaceStage, NEW u \in User, InOrder(u), u \notin mixed',
           NEW q \in Request, req[q].op # "none", Members(q)
    PROVE  InOrder(u)'
<1>1. MemberStep(q) /\ RememberRequests({}) /\ Steps(q)
  BY MemberTypes DEF Members, Requesting, RequestsTypeOK
<1>2. CASE ~Concerns(q, u)
  <2>1. /\ UNCHANGED <<space, exist>>
        /\ rows'[u] = rows[u] /\ access'[u] = access[u]
        /\ SentTo(u)' \subseteq SentTo(u)
    BY <1>1, <1>2, Elsewhere
  <2>2. \A p \in Request : p # q => req'[p] = req[p]
    BY <1>1 DEF Steps, Only
  <2>3. req'[q] = Idle \/ Alike(q)
    BY <1>1 DEF Steps
  <2>4. ASSUME NEW p \in Request, Concerns(p, u)' PROVE Concerns(p, u)
    BY <1>2, <2>2, <2>3, <2>4, ConcernsLike
  <2>5. \A p \in Request : Concerns(p, u) => req'[p] = req[p]
    BY <1>2, <2>2
  <2> HIDE DEF Concerns, SentTo, InOrder
  <2> QED
    BY <2>1, <2>4, <2>5, OrderQuiet
<1>3. CASE Concerns(q, u)
  <2>1. ~LeaveSpace(q)
    <3>1. ASSUME LeaveSpace(q) PROVE u \in mixed'
      <4>1. req[q].by = u /\ At(q, "leave", 1)
        BY <1>3, <3>1 DEF LeaveSpace, Concerns, At
      <4> QED
        BY <1>1, <4>1 DEF RememberRequests, Underway
    <3> QED
      BY <3>1
  <2>2. ~CheckInvite(q) /\ ~WriteInvite(q) /\ ~DeclineInvite(q)
    BY <1>3 DEF Concerns, CheckInvite, WriteInvite, DeclineInvite, At
  <2> QED
    BY <1>1, <1>3, <2>1, <2>2, OrderCalls, OrderCreate, OrderDelete, OrderCheck, OrderChange,
       OrderRemove, OrderInvite, OrderAccept DEF MemberStep
<1> QED
  BY <1>2, <1>3

\* Two of a finite set.
LEMMA TwoOf ==
    ASSUME NEW S, IsFiniteSet(S), NEW x \in S, NEW y \in S, x # y
    PROVE  Cardinality(S) > 1
<1>1. IsFiniteSet({x}) /\ Cardinality({x}) = 1
  BY FS_Singleton
<1>2. IsFiniteSet({x} \cup {y}) /\ Cardinality({x} \cup {y}) = 2
  <2> DEFINE s == {x}
  <2>1. IsFiniteSet(s) /\ Cardinality(s) = 1 /\ y \notin s
    BY <1>1
  <2> HIDE DEF s
  <2>2. IsFiniteSet(s \cup {y}) /\ Cardinality(s \cup {y}) = Cardinality(s) + 1
    BY <2>1, FS_AddElement
  <2> QED
    BY <2>1, <2>2 DEF s
<1>3. {x} \cup {y} \subseteq S
  OBVIOUS
<1>4. Cardinality({x} \cup {y}) <= Cardinality(S) /\ Cardinality(S) \in Nat
  BY <1>3, FS_Subset, FS_CardinalityType
<1> QED
  BY <1>2, <1>4

LEMMA OrderSend ==
    ASSUME RequestsTypeOK, NEW u \in User, InOrder(u), u \notin mixed, u \notin mixed',
           NEW q \in Request, Sends(q)
    PROVE  InOrder(u)'
<1>1. /\ req[q].op = "none" /\ Only(q) /\ req'[q].pc = 1 /\ req'[q].op # "none"
      /\ UNCHANGED <<space, rows, invites, exist, access>>
      /\ RememberRequests({})
  BY SendFacts DEF Sends, Requesting, RequestsTypeOK, dbVars, syncVars
<1>2. \A p \in Request : p # q => req'[p] = req[p]
  BY <1>1 DEF Only
<1>3. ~Concerns(q, u)
  BY <1>1 DEF Concerns
<1>4. ASSUME NEW p \in Request, p # q PROVE Concerns(p, u)' <=> Concerns(p, u)
  BY <1>2, <1>4, ConcernsLike
<1>5. SentTo(u)' = SentTo(u)
  BY <1>1 DEF SentTo
<1>6. CASE ~Concerns(q, u)'
  <2>1. \A p \in Request : Concerns(p, u) => req'[p] = req[p]
    BY <1>2, <1>3
  <2>2. \A p \in Request : Concerns(p, u)' => Concerns(p, u)
    BY <1>4, <1>6
  <2> HIDE DEF Concerns, SentTo, InOrder
  <2> QED
    BY <1>1, <1>5, <2>1, <2>2, OrderQuiet
<1>7. CASE Concerns(q, u)'
  <2>1. q \in Underway' \ Underway
    BY <1>1 DEF Underway
  <2>2. ~(Cardinality(Concerned(u)') > 1)
    BY <1>1, <2>1 DEF RememberRequests
  <2>3. IsFiniteSet(Concerned(u)')
    BY FS_Subset, RequestsAssumption DEF Concerned
  <2>4. \A p \in Request : Concerns(p, u)' => p = q
    <3>1. \A p \in Request : Concerns(p, u)' => p \in Concerned(u)'
      BY DEF Concerned
    <3> QED
      BY <1>7, <2>2, <2>3, <3>1, TwoOf
  <2>5. \A p \in Request : ~Concerns(p, u)
    BY <1>3, <1>4, <2>4
  <2>6. AccessIs(u)
    BY <2>5 DEF InOrder
  <2>7. AccessIs(u)'
    BY <1>1, <2>6 DEF AccessIs
  <2>8. Halfway(req[q], u)' /\ Guest(req[q], u)'
    BY <1>1 DEF Halfway, Guest
  <2>9. ASSUME NEW p \in Request, Concerns(p, u)'
        PROVE  (/\ Early(req[p]) => AccessIs(u)
                /\ Halfway(req[p], u)
                /\ Guest(req[p], u))'
    BY <2>4, <2>7, <2>8, <2>9
  <2>10. (space = "live" /\ (\A p \in Request : req[p].op = "delete" => req[p].pc < 3) =>
            exist = Group)'
    <3> SUFFICES ASSUME space' = "live", \A p \in Request : req'[p].op = "delete" => req'[p].pc < 3
                 PROVE  exist' = Group
      OBVIOUS
    <3>1. \A p \in Request : req[p].op = "delete" => req[p].pc < 3
      BY <1>1, <1>2
    <3> QED
      BY <1>1, <3>1 DEF InOrder
  <2>11. /\ Len(rows'[u]) <= 1
         /\ \A i, j \in SentTo(u)' : i = j
         /\ rows'[u] # <<>> => SentTo(u)' = {}
    <3> HIDE DEF SentTo
    <3> QED
      BY <1>1, <1>5 DEF InOrder
  <2>12. \A p, r \in Request : Concerns(p, u)' /\ Concerns(r, u)' => p = r
    BY <2>4
  <2> HIDE DEF Early, Halfway, Guest, AccessIs, SentTo, Concerns
  <2> QED
    BY <1>7, <2>9, <2>10, <2>11, <2>12 DEF InOrder
<1> QED
  BY <1>6, <1>7

LEMMA OrderOther ==
    ASSUME RequestsTypeOK, NEW u \in User, InOrder(u), u \notin mixed, u \notin mixed',
           \/ UNCHANGED <<space, rows, invites, exist, access, req>>
           \/ \E q \in Request : Contents(q) \/ Fails(q)
    PROVE  InOrder(u)'
<1>1. ASSUME NEW q \in Request, Only(q), Alike(q) \/ Ends(q), ~Concerns(q, u),
             UNCHANGED <<space, rows, invites, exist, access>>
      PROVE  InOrder(u)'
  <2>1. \A p \in Request : p # q => req'[p] = req[p]
    BY <1>1 DEF Only
  <2>2. ASSUME NEW p \in Request, Concerns(p, u)' PROVE Concerns(p, u)
    BY <1>1, <2>1, <2>2, ConcernsLike DEF Ends
  <2>3. \A p \in Request : Concerns(p, u) => req'[p] = req[p]
    BY <1>1, <2>1
  <2>4. SentTo(u)' = SentTo(u)
    BY <1>1 DEF SentTo
  <2> HIDE DEF Concerns, SentTo, InOrder
  <2> QED
    BY <1>1, <2>2, <2>3, <2>4, OrderQuiet
<1>2. CASE UNCHANGED <<space, rows, invites, exist, access, req>>
  <2>1. \A p \in Request : Concerns(p, u)' => Concerns(p, u)
    BY <1>2, ConcernsLike
  <2>2. SentTo(u)' = SentTo(u)
    BY <1>2 DEF SentTo
  <2> HIDE DEF Concerns, SentTo, InOrder
  <2> QED
    BY <1>2, <2>1, <2>2, OrderQuiet
<1>3. ASSUME NEW q \in Request, Contents(q) PROVE InOrder(u)'
  <2>1. /\ Ends(q) \/ Goes(q, req[q].pc + 1, req[q].calls)
        /\ req[q].op \in ContentOps /\ UNCHANGED <<dbVars, syncVars>>
    BY <1>3, ContentTypes DEF Contents, RequestsTypeOK
  <2>2. ~Concerns(q, u)
    BY <2>1 DEF ContentOps, Concerns
  <2> QED
    BY <1>1, <2>1, <2>2 DEF Ends, Goes, dbVars, syncVars
<1>4. ASSUME NEW q \in Request, Fails(q) PROVE InOrder(u)'
  <2>1. \/ Goes(q, req[q].pc, Tail(req[q].calls))
        \/ Ends(q)
    BY <1>4, FailsFacts DEF RequestsTypeOK
  <2>2. ~Concerns(q, u)
    BY <1>4 DEF Fails, Requesting, RememberRequests
  <2> QED
    BY <1>1, <1>4, <2>1, <2>2 DEF Fails, Ends, Goes, dbVars, syncVars
<1> QED
  BY <1>2, <1>3, <1>4

\* And a restart, which nobody is concerned about who had no request under way.
LEMMA OrderStops ==
    ASSUME RequestsTypeOK, SpaceStage, NEW u \in User, InOrder(u), u \notin mixed,
           u \notin mixed', Stops
    PROVE  InOrder(u)'
<1>1. Crash /\ RememberRequests(Underway)
  BY DEF Stops, Restart, Requesting
<1>2. \A q \in Request : ~Concerns(q, u)
  <2>1. \A q \in Underway : ~Concerns(q, u)
    BY <1>1 DEF RememberRequests
  <2>2. \A q \in Request : q \notin Underway => ~Concerns(q, u)
    BY DEF Underway, Concerns
  <2> QED
    BY <2>1, <2>2
<1>3. \A q \in Request : ~Concerns(q, u)'
  BY <1>1, ConcernsLike DEF Crash
<1>4. AccessIs(u)
  BY <1>2 DEF InOrder
<1>5. \A q \in Request : req[q].op # "delete"
  BY <1>2 DEF Concerns
<1>6. space # "deleting"
  BY <1>5 DEF SpaceStage
<1>7. SentTo(u)' = SentTo(u)
  BY <1>1 DEF Crash, SentTo
<1>8. \/ rows'[u] = <<>> /\ access'[u] = {}
      \/ rows'[u] = rows[u] /\ access'[u] = access[u]
  BY <1>1 DEF Crash, syncVars
<1>9. AccessIs(u)'
  <2>1. ToSet(<<>>) = {}
    BY DEF ToSet
  <2> QED
    BY <1>4, <1>8, <2>1 DEF AccessIs
<1>10. space' = "live" => exist' = Group
  BY <1>1, <1>5, <1>6 DEF Crash, syncVars, InOrder
<1>11. /\ Len(rows'[u]) <= 1
       /\ \A i, j \in SentTo(u)' : i = j
       /\ rows'[u] # <<>> => SentTo(u)' = {}
  <2> HIDE DEF SentTo
  <2> QED
    BY <1>7, <1>8 DEF InOrder
<1> HIDE DEF Early, Halfway, Guest, AccessIs, SentTo, Concerns
<1> QED
  BY <1>3, <1>9, <1>10, <1>11 DEF InOrder

LEMMA AccessInit == RequestsInit => AccessInv
<1> SUFFICES ASSUME RequestsInit PROVE AccessInv
  OBVIOUS
<1>1. RequestsTypeOK /\ mixed = {} /\ req = [q \in Request |-> Idle]
  BY TypeInit DEF RequestsInit
<1>2. \A q \in Request : req[q] = Idle
  BY <1>1
<1>3. ASSUME NEW u \in User PROVE \A q \in Request : ~Concerns(q, u)
  BY <1>2 DEF Concerns, Idle
<1>4. ToSet(<<>>) = {} /\ \A r : ToSet(<<r>>) = {r}
  BY DEF ToSet
<1>5. ASSUME NEW u \in User, AccessIs(u), Len(rows[u]) <= 1, \A i, j \in SentTo(u) : i = j,
             rows[u] # <<>> => SentTo(u) = {}, space = "live" => exist = Group
      PROVE  InOrder(u)
  <2> HIDE DEF Early, Halfway, Guest, AccessIs, SentTo, Concerns
  <2> QED
    BY <1>3, <1>5 DEF InOrder
<1>6. CASE /\ space = "none" /\ rows = [u \in User |-> <<>>] /\ exist = {}
           /\ access = [u \in User |-> {}] /\ invites = [i \in Invite |-> NoInvite]
  <2>1. SpaceStage
    BY <1>2, <1>6 DEF SpaceStage, Idle, NoInvite, Queued
  <2>2. ASSUME NEW u \in User PROVE InOrder(u)
    <3>1. SentTo(u) = {}
      BY <1>6 DEF SentTo, NoInvite
    <3>2. AccessIs(u)
      BY <1>4, <1>6 DEF AccessIs
    <3>3. rows[u] = <<>> /\ Len(<<>>) <= 1 /\ space # "live"
      BY <1>6
    <3> QED
      BY <1>5, <3>1, <3>2, <3>3
  <2> QED
    BY <1>1, <2>1, <2>2 DEF AccessInv
<1>7. ASSUME NEW r \in {"admin", "readonly"}, space = "live", exist = Group,
             rows = [u \in User |-> IF u = Owner THEN <<"owner">>
                                    ELSE IF u = a THEN <<r>> ELSE <<>>],
             access = [u \in User |-> IF u = Owner THEN {"members"}
                                      ELSE IF u # a THEN {}
                                      ELSE IF r = "admin" THEN {"members"} ELSE {"readonly"}],
             invites = [i \in Invite |-> IF r = "admin" /\ i = i1
                                         THEN [status |-> "sent", to |-> b, role |-> "editor"]
                                         ELSE NoInvite]
      PROVE  AccessInv
  <2>1. \A i \in Invite : invites[i].status = "sent" => i = i1 /\ invites[i].to = b
    BY <1>7 DEF NoInvite
  <2>2. SpaceStage
    BY <1>2, <1>7, <2>1 DEF SpaceStage, Idle, Queued
  <2>3. b # Owner /\ b # a
    BY RequestsAssumption
  <2>4. ASSUME NEW u \in User PROVE InOrder(u)
    <3>1. \A i, j \in SentTo(u) : i = j
      BY <2>1 DEF SentTo
    <3>2. rows[u] # <<>> => SentTo(u) = {}
      BY <1>7, <2>1, <2>3 DEF SentTo
    <3>3. CASE u = Owner
      <4>1. rows[u] = <<"owner">> /\ access[u] = {"members"}
        BY <1>7, <3>3
      <4>2. AccessIs(u)
        BY <1>4, <4>1 DEF AccessIs, GroupOf
      <4> QED
        BY <1>5, <1>7, <3>1, <3>2, <4>1, <4>2
    <3>4. CASE u # Owner /\ u = a
      <4>1. rows[u] = <<r>> /\ access[u] = IF r = "admin" THEN {"members"} ELSE {"readonly"}
        BY <1>7, <3>4
      <4>2. AccessIs(u)
        BY <1>4, <1>7, <4>1 DEF AccessIs, GroupOf
      <4> QED
        BY <1>5, <1>7, <3>1, <3>2, <4>1, <4>2
    <3>5. CASE u # Owner /\ u # a
      <4>1. rows[u] = <<>> /\ access[u] = {}
        BY <1>7, <3>5
      <4>2. AccessIs(u)
        BY <1>4, <4>1 DEF AccessIs
      <4> QED
        BY <1>5, <1>7, <3>1, <3>2, <4>1, <4>2
    <3> QED
      BY <3>3, <3>4, <3>5
  <2> QED
    BY <1>1, <2>2, <2>4 DEF AccessInv
<1> QED
  BY <1>6, <1>7 DEF RequestsInit

LEMMA AccessStep ==
    ASSUME AccessInv, [RequestsNext]_requestsVars
    PROVE  AccessInv'
<1>1. RequestsTypeOK /\ SpaceStage
  BY DEF AccessInv
<1>2. RequestsTypeOK'
  BY <1>1, TypeStep
<1>3. \/ UNCHANGED requestsVars
      \/ \E q \in Request : /\ req[q].op # "none"
                            /\ Members(q) \/ Contents(q) \/ Fails(q)
      \/ \E q \in Request : Sends(q)
      \/ \E d \in DOMAIN docs : Deletes(d)
      \/ \E u \in Page : Pages(u)
      \/ Stops
  BY <1>1, StepKinds DEF RequestsTypeOK
<1>4. mixed \subseteq mixed'
  <2>1. \/ UNCHANGED requestsVars
        \/ \E hurt : RememberRequests(hurt)
    BY <1>3 DEF Members, Contents, Fails, Sends, Deletes, Pages, Stops, Requesting
  <2> QED
    BY <2>1 DEF RememberRequests, requestsVars
<1>5. SpaceStage'
  BY <1>1, StageStep
<1>6. ASSUME NEW u \in User, u \notin mixed' PROVE InOrder(u)'
  <2>1. u \notin mixed /\ InOrder(u)
    BY <1>4, <1>6 DEF AccessInv
  <2>2. ASSUME NEW q \in Request, req[q].op # "none", Members(q) PROVE InOrder(u)'
    BY <1>1, <1>6, <2>1, <2>2, OrderMember
  <2>3. ASSUME NEW q \in Request, Sends(q) PROVE InOrder(u)'
    BY <1>1, <1>6, <2>1, <2>3, OrderSend
  <2>4. ASSUME NEW q \in Request, Contents(q) \/ Fails(q) PROVE InOrder(u)'
    BY <1>1, <1>6, <2>1, <2>4, OrderOther
  <2>5. ASSUME UNCHANGED <<space, rows, invites, exist, access, req>> PROVE InOrder(u)'
    BY <1>1, <1>6, <2>1, <2>5, OrderOther
  <2>6. CASE UNCHANGED requestsVars
    BY <2>5, <2>6 DEF requestsVars, spacesVars, dbVars, syncVars
  <2>7. ASSUME NEW d \in DOMAIN docs, Deletes(d) PROVE InOrder(u)'
    BY <2>5, <2>7 DEF Deletes, DeleteDoc, spacesVars, dbVars, syncVars
  <2>8. ASSUME NEW v \in Page, Pages(v) PROVE InOrder(u)'
    BY <2>5, <2>8 DEF Pages, dbVars, syncVars
  <2>9. CASE Stops
    BY <1>1, <1>6, <2>1, <2>9, OrderStops
  <2> QED
    BY <1>3, <2>2, <2>3, <2>4, <2>6, <2>7, <2>8, <2>9
<1> QED
  BY <1>2, <1>5, <1>6 DEF AccessInv

\* A member has the access that the role gives, and who is none has none, when no request
\* about the user's membership is under way and none was ever cut short, nor two at once:
\* however the calls to the sync server and the rows are interleaved with other requests.
THEOREM AccessAlwaysFollowsRole == RequestsSpec => []AccessFollowsRole
<1>1. AccessInv => AccessFollowsRole
  BY DEF AccessInv, InOrder, AccessFollowsRole, Concerned
<1>2. AccessInv /\ [RequestsNext]_requestsVars => AccessInv'
  BY AccessStep
<1> QED
  BY <1>1, <1>2, AccessInit, PTL DEF RequestsSpec

-----------------------------------------------------------------------------
(* What is recorded twice *)

Editing == {"lock", "unlock", "publish", "unpublish"}

Edits(d) == {q \in Request : req[q].op \in Editing /\ req[q].on = d}

LockAgrees(d) == docs[d].there => docs[d].locked = ~docs[d].open
PostAgrees(d) == docs[d].there => docs[d].published = (d \in posts)

\* What request k, about document d, has made of it.
Marked(k, d) ==
    /\ k.op \in {"lock", "unlock"} =>
          /\ PostAgrees(d)
          /\ k.pc < 4 => LockAgrees(d)
          /\ k.pc > 3 => docs[d].open = (k.op = "unlock")
    /\ k.op \in {"publish", "unpublish"} =>
          /\ LockAgrees(d)
          /\ k.pc < 4 => PostAgrees(d)
          /\ k.pc > 3 => (d \in posts) = (k.op = "publish")

\* Requests about document d have come one after the other.
DocInOrder(d) ==
    /\ \A p, q \in Edits(d) : p = q
    /\ space # "deleted" => /\ Edits(d) = {} => FlagsAgree(d)
                            /\ \A q \in Edits(d) : Marked(req[q], d)

\* What an upload under way has done.
Uploaded(k) ==
    /\ k.pc < 5 => StorageAgrees
    /\ k.pc > 2 => usedStorage < StorageLimit
    /\ k.pc > 3 => k.on \in stored
    /\ k.pc > 4 => files \subseteq stored /\ usedStorage + 1 = Cardinality(files)

\* So have those about files.
FilesInOrder ==
    /\ \A p, q \in Uploads : p = q
    /\ space \in {"none", "creating", "live"} =>
          /\ Uploads = {} => StorageAgrees
          /\ \A q \in Uploads : Uploaded(req[q])

ContentInv ==
    /\ RequestsTypeOK /\ SpaceStage
    /\ IsFiniteSet(files) /\ posts \subseteq DOMAIN docs
    /\ \A d \in DOMAIN docs \ muddled : DocInOrder(d)
    /\ ~spoilt => FilesInOrder

\* A document that nothing happens to, but that it may be deleted.
LEMMA DocKept ==
    ASSUME NEW d, DocInOrder(d),
           docs'[d].there => docs[d].there,
           docs'[d].open = docs[d].open, docs'[d].locked = docs[d].locked,
           docs'[d].published = docs[d].published,
           space = "deleted" => space' = "deleted",
           space' # "deleted" => (d \in posts' <=> d \in posts),
           Edits(d)' \subseteq Edits(d), \A p \in Edits(d) : req'[p] = req[p]
    PROVE  DocInOrder(d)'
<1>1. Edits(d)' = Edits(d)
  BY DEF Edits
<1>2. /\ FlagsAgree(d) /\ space' # "deleted" => FlagsAgree(d)'
      /\ LockAgrees(d) => LockAgrees(d)'
      /\ PostAgrees(d) /\ space' # "deleted" => PostAgrees(d)'
  BY DEF FlagsAgree, LockAgrees, PostAgrees
<1>3. ASSUME space' # "deleted", NEW q \in Edits(d), Marked(req[q], d) PROVE Marked(req[q], d)'
  <2>1. PICK k : k = req[q]
    OBVIOUS
  <2>2. req'[q] = k
    BY <1>3, <2>1
  <2>3. Marked(k, d)'
    BY <1>2, <1>3, <2>1 DEF Marked
  <2> QED
    BY <2>2, <2>3
<1> HIDE DEF Edits, Marked, FlagsAgree
<1> QED
  BY <1>1, <1>2, <1>3 DEF DocInOrder

\* A request that is about something else, and stays so until it ends.
LEMMA EditsSame ==
    ASSUME NEW d, NEW q \in Request, Only(q), q \notin Edits(d), req'[q] = Idle \/ Alike(q)
    PROVE  Edits(d)' \subseteq Edits(d) /\ \A p \in Edits(d) : req'[p] = req[p]
<1>1. ASSUME NEW p \in Edits(d)' PROVE p \in Edits(d)
  <2>1. p \in Request /\ req'[p].op \in Editing /\ req'[p].on = d
    BY <1>1 DEF Edits
  <2>2. CASE p = q
    BY <2>1, <2>2 DEF Edits, Alike, Idle, Editing
  <2>3. CASE p # q
    BY <2>1, <2>3 DEF Edits, Only
  <2> QED
    BY <2>2, <2>3
<1>2. \A p \in Edits(d) : p \in Request /\ p # q
  BY DEF Edits
<1> QED
  BY <1>1, <1>2 DEF Only

\* A step of the one request about a document.
LEMMA DocOne ==
    ASSUME NEW d, NEW q \in Edits(d), DocInOrder(d), Only(q), NEW m, req'[q] = m,
           \/ m = Idle /\ (space' # "deleted" => FlagsAgree(d)')
           \/ Alike(q) /\ (space' # "deleted" => Marked(m, d)')
    PROVE  DocInOrder(d)'
<1>1. \A p \in Edits(d) : p = q
  BY DEF DocInOrder
<1>2. ASSUME NEW p \in Edits(d)' PROVE p = q
  <2>1. p \in Request /\ req'[p].op \in Editing /\ req'[p].on = d
    BY <1>2 DEF Edits
  <2>2. ASSUME p # q PROVE p \in Edits(d)
    BY <2>1, <2>2 DEF Edits, Only
  <2> QED
    BY <1>1, <2>2
<1>3. CASE m = Idle
  <2>1. q \notin Edits(d)'
    BY <1>3 DEF Edits, Idle, Editing
  <2>2. Edits(d)' = {}
    BY <1>2, <2>1
  <2>3. space' # "deleted" => FlagsAgree(d)'
    BY <1>3, <2>1 DEF Alike, Edits
  <2> HIDE DEF Edits, Marked, FlagsAgree
  <2> QED
    BY <2>2, <2>3 DEF DocInOrder
<1>4. CASE Alike(q) /\ (space' # "deleted" => Marked(m, d)')
  <2>1. q \in Edits(d)'
    BY <1>4 DEF Edits, Alike
  <2> HIDE DEF Edits, Marked, FlagsAgree
  <2> QED
    BY <1>2, <1>4, <2>1 DEF DocInOrder
<1> QED
  BY <1>3, <1>4

\* A field of a document is written.
LEMMA WriteFacts ==
    ASSUME ContentTypeOK, NEW d \in DOMAIN docs, NEW x \in BOOLEAN
    PROVE  /\ Set(d, [docs[d] EXCEPT !.open = x]) =>
                 /\ docs'[d].open = x /\ docs'[d].there = docs[d].there
                 /\ docs'[d].locked = docs[d].locked /\ docs'[d].published = docs[d].published
           /\ Set(d, [docs[d] EXCEPT !.locked = x]) =>
                 /\ docs'[d].locked = x /\ docs'[d].there = docs[d].there
                 /\ docs'[d].open = docs[d].open /\ docs'[d].published = docs[d].published
           /\ Set(d, [docs[d] EXCEPT !.published = x]) =>
                 /\ docs'[d].published = x /\ docs'[d].there = docs[d].there
                 /\ docs'[d].open = docs[d].open /\ docs'[d].locked = docs[d].locked
           /\ Set(d, [docs[d] EXCEPT !.there = x]) =>
                 /\ docs'[d].there = x /\ docs'[d].open = docs[d].open
                 /\ docs'[d].locked = docs[d].locked /\ docs'[d].published = docs[d].published
           /\ \A n : Set(d, n) => DOMAIN docs' = DOMAIN docs
                                  /\ \A e \in DOMAIN docs : e # d => docs'[e] = docs[e]
<1>1. docs[d] \in DocFields
  BY DEF ContentTypeOK, DocFields
<1>2. \A n : Set(d, n) => /\ docs'[d] = n /\ DOMAIN docs' = DOMAIN docs
                         /\ \A e \in DOMAIN docs : e # d => docs'[e] = docs[e]
  BY DEF Set, ContentTypeOK
<1> QED
  BY <1>1, <1>2 DEF DocFields

LEMMA OneEdit ==
    ASSUME RequestsTypeOK, NEW d \in DOMAIN docs, NEW q \in Edits(d), DocInOrder(d), Contents(q)
    PROVE  /\ SpacesTypeOK /\ ContentTypeOK /\ ContentStep(q) /\ space' = space
           /\ q \in Request /\ req[q].on = d /\ req[q].op \in Editing /\ req[q].pc \in Nat
           /\ docs[d] \in DocFields
           /\ Ends(q) \/ Goes(q, req[q].pc + 1, req[q].calls)
           /\ space # "deleted" => Marked(req[q], d)
<1>1. SpacesTypeOK /\ ContentTypeOK /\ ContentStep(q) /\ q \in Request /\ Well(req[q])
      /\ req[q].on = d /\ req[q].op \in Editing
  BY DEF RequestsTypeOK, Edits, Contents
<1>2. docs[d] \in DocFields /\ req[q].pc \in Nat
  BY <1>1 DEF ContentTypeOK, SpacesTypeOK, DocFields
<1>3. UNCHANGED dbVars /\ (Ends(q) \/ Goes(q, req[q].pc + 1, req[q].calls))
  BY <1>1, ContentTypes
<1> QED
  BY <1>1, <1>2, <1>3 DEF DocInOrder, dbVars

LEMMA LockStep ==
    ASSUME RequestsTypeOK, NEW d \in DOMAIN docs, NEW q \in Edits(d), DocInOrder(d), Contents(q),
           LockDocument(q)
    PROVE  DocInOrder(d)'
<1>1. /\ SpacesTypeOK /\ ContentTypeOK /\ space' = space
      /\ q \in Request /\ req[q].on = d /\ req[q].op \in {"lock", "unlock"} /\ req[q].pc \in Nat
      /\ docs[d] \in DocFields
      /\ space # "deleted" => Marked(req[q], d)
      /\ posts' = posts /\ req \in [Request -> Asked]
  BY OneEdit DEF LockDocument, SpacesTypeOK, Asked
<1>2. PICK k : k = req[q]
  OBVIOUS
<1>3. PICK m : m = req'[q]
  OBVIOUS
<1>4. (k.op = "lock") \in BOOLEAN /\ (~(k.op = "lock")) \in BOOLEAN
  OBVIOUS
<1>5. CASE Advance(q) /\ UNCHANGED docs /\ k.pc # 3
  <2>1. Goes(q, k.pc + 1, k.calls)
    BY <1>1, <1>2, <1>5, AdvanceFacts
  <2>2. Alike(q) /\ Only(q) /\ m.pc = k.pc + 1 /\ m.op = k.op
    BY <1>2, <1>3, <2>1 DEF Goes, Alike
  <2>3. space' # "deleted" => Marked(m, d)'
    BY <1>1, <1>2, <1>5, <2>2 DEF Marked, LockAgrees, PostAgrees
  <2> QED
    BY <1>3, <2>2, <2>3, DocOne
<1>6. CASE At(q, k.op, 3) /\ Set(d, [docs[d] EXCEPT !.open = ~(k.op = "lock")]) /\ Advance(q)
  <2>1. Goes(q, k.pc + 1, k.calls)
    BY <1>1, <1>2, <1>6, AdvanceFacts
  <2>2. Alike(q) /\ Only(q) /\ m.pc = 4 /\ m.op = k.op
    BY <1>2, <1>3, <1>6, <2>1 DEF Goes, Alike, At
  <2>3. /\ docs'[d].open = ~(k.op = "lock") /\ docs'[d].there = docs[d].there
        /\ docs'[d].locked = docs[d].locked /\ docs'[d].published = docs[d].published
    BY <1>1, <1>4, <1>6, WriteFacts
  <2>4. space' # "deleted" => Marked(m, d)'
    BY <1>1, <1>2, <2>2, <2>3 DEF Marked, LockAgrees, PostAgrees
  <2> QED
    BY <1>3, <2>2, <2>4, DocOne
<1>7. CASE Done(q) /\ UNCHANGED docs /\ ~docs[d].there
  <2>1. Only(q) /\ m = Idle
    BY <1>1, <1>3, <1>7, DoneFacts DEF Ends
  <2>2. FlagsAgree(d)'
    BY <1>7 DEF FlagsAgree
  <2> QED
    BY <1>3, <2>1, <2>2, DocOne
<1>8. CASE At(q, k.op, 5) /\ Set(d, [docs[d] EXCEPT !.locked = (k.op = "lock")]) /\ Done(q)
  <2>1. Only(q) /\ m = Idle
    BY <1>1, <1>3, <1>8, DoneFacts DEF Ends
  <2>2. /\ docs'[d].locked = (k.op = "lock") /\ docs'[d].there = docs[d].there
        /\ docs'[d].open = docs[d].open /\ docs'[d].published = docs[d].published
    BY <1>1, <1>4, <1>8, WriteFacts
  <2>3. space' # "deleted" => FlagsAgree(d)'
    <3>1. docs[d].open \in BOOLEAN
      BY <1>1 DEF DocFields
    <3>2. space' # "deleted" => docs[d].locked' = ~docs[d].open'
      <4>1. space' # "deleted" => docs[d].open = (k.op = "unlock")
        BY <1>1, <1>2, <1>8 DEF Marked, At
      <4>2. CASE k.op = "lock"
        BY <2>2, <3>1, <4>1, <4>2
      <4>3. CASE k.op = "unlock"
        BY <2>2, <3>1, <4>1, <4>3
      <4> QED
        BY <1>1, <1>2, <4>2, <4>3
    <3>3. space' # "deleted" /\ docs[d].there => docs[d].published = (d \in posts)
      BY <1>1, <1>2, <1>8 DEF Marked, PostAgrees, At
    <3> QED
      BY <1>1, <2>2, <3>2, <3>3 DEF FlagsAgree
  <2> QED
    BY <1>3, <2>1, <2>3, DocOne
<1> QED
  BY <1>1, <1>2, <1>5, <1>6, <1>7, <1>8 DEF LockDocument, AdvanceIf, At

LEMMA PostStep ==
    ASSUME RequestsTypeOK, NEW d \in DOMAIN docs, NEW q \in Edits(d), DocInOrder(d), Contents(q),
           PublishPost(q) \/ UnpublishPost(q)
    PROVE  DocInOrder(d)'
<1>1. /\ SpacesTypeOK /\ ContentTypeOK /\ space' = space
      /\ q \in Request /\ req[q].on = d /\ req[q].op \in {"publish", "unpublish"}
      /\ req[q].pc \in Nat /\ docs[d] \in DocFields
      /\ space # "deleted" => Marked(req[q], d)
      /\ req \in [Request -> Asked]
  BY OneEdit DEF PublishPost, UnpublishPost, At, SpacesTypeOK, Asked
<1>2. PICK k : k = req[q]
  OBVIOUS
<1>3. PICK m : m = req'[q]
  OBVIOUS
<1>4. ASSUME UNCHANGED docs, k.pc # 3, d \in posts' <=> d \in posts,
             Advance(q) \/ (Done(q) /\ (k.pc > 3 => ~docs[d].there))
      PROVE  DocInOrder(d)'
  <2>1. CASE Advance(q)
    <3>1. Goes(q, k.pc + 1, k.calls)
      BY <1>1, <1>2, <2>1, AdvanceFacts
    <3>2. Alike(q) /\ Only(q) /\ m.pc = k.pc + 1 /\ m.op = k.op
      BY <1>2, <1>3, <3>1 DEF Goes, Alike
    <3>3. space' # "deleted" => Marked(m, d)'
      BY <1>1, <1>2, <1>4, <3>2 DEF Marked, LockAgrees, PostAgrees
    <3> QED
      BY <1>3, <3>2, <3>3, DocOne
  <2>2. CASE Done(q) /\ (k.pc > 3 => ~docs[d].there)
    <3>1. Only(q) /\ m = Idle
      BY <1>1, <1>3, <2>2, DoneFacts DEF Ends
    <3>2. space' # "deleted" => FlagsAgree(d)'
      BY <1>1, <1>2, <1>4, <2>2 DEF Marked, LockAgrees, PostAgrees, FlagsAgree
    <3> QED
      BY <1>3, <3>1, <3>2, DocOne
  <2> QED
    BY <1>4, <2>1, <2>2
<1>5. ASSUME UNCHANGED docs, k.pc = 3,
             \/ Advance(q) /\ (d \in posts') = (k.op = "publish")
             \/ Done(q) /\ (d \in posts' <=> d \in posts)
      PROVE  DocInOrder(d)'
  <2>1. CASE Advance(q) /\ (d \in posts') = (k.op = "publish")
    <3>1. Goes(q, k.pc + 1, k.calls)
      BY <1>1, <1>2, <2>1, AdvanceFacts
    <3>2. Alike(q) /\ Only(q) /\ m.pc = 4 /\ m.op = k.op
      BY <1>2, <1>3, <1>5, <3>1 DEF Goes, Alike
    <3>3. space' # "deleted" => Marked(m, d)'
      BY <1>1, <1>2, <1>5, <2>1, <3>2 DEF Marked, LockAgrees, PostAgrees
    <3> QED
      BY <1>3, <3>2, <3>3, DocOne
  <2>2. CASE Done(q) /\ (d \in posts' <=> d \in posts)
    <3>1. Only(q) /\ m = Idle
      BY <1>1, <1>3, <2>2, DoneFacts DEF Ends
    <3>2. space' # "deleted" => FlagsAgree(d)'
      BY <1>1, <1>2, <1>5, <2>2 DEF Marked, LockAgrees, PostAgrees, FlagsAgree
    <3> QED
      BY <1>3, <3>1, <3>2, DocOne
  <2> QED
    BY <1>5, <2>1, <2>2
<1>6. ASSUME NEW on \in BOOLEAN, k.pc = 5, on = (k.op = "publish"), Done(q), UNCHANGED posts,
             IF docs[d].there THEN Set(d, [docs[d] EXCEPT !.published = on])
                              ELSE UNCHANGED docs
      PROVE  DocInOrder(d)'
  <2>1. Only(q) /\ m = Idle
    BY <1>1, <1>3, <1>6, DoneFacts DEF Ends
  <2>2. CASE ~docs[d].there
    <3>1. FlagsAgree(d)'
      BY <1>1, <1>6, <2>2 DEF FlagsAgree
    <3> QED
      BY <1>3, <2>1, <3>1, DocOne
  <2>3. CASE docs[d].there
    <3>1. /\ docs'[d].published = on /\ docs'[d].there = docs[d].there
          /\ docs'[d].open = docs[d].open /\ docs'[d].locked = docs[d].locked
      BY <1>1, <1>6, <2>3, WriteFacts
    <3>2. space' # "deleted" => FlagsAgree(d)'
      BY <1>1, <1>2, <1>6, <3>1 DEF Marked, LockAgrees, FlagsAgree
    <3> QED
      BY <1>3, <2>1, <3>2, DocOne
  <2> QED
    BY <2>2, <2>3
<1>7. CASE PublishPost(q)
  <2>1. k.op = "publish" /\ (k.pc = 2 \/ k.pc = 3 \/ k.pc = 4 \/ k.pc = 5)
    BY <1>2, <1>7 DEF PublishPost, At
  <2>2. CASE k.pc \in {2, 4}
    <3>1. /\ UNCHANGED docs /\ posts' = posts
          /\ Advance(q) \/ (Done(q) /\ ~docs[d].there)
      BY <1>1, <1>2, <1>7, <2>2 DEF PublishPost, At, AdvanceIf, SetPublished
    <3> QED
      BY <1>4, <2>2, <3>1
  <2>3. CASE k.pc = 3
    <3>1. /\ UNCHANGED docs
          /\ \/ Advance(q) /\ posts' = posts \cup {d}
             \/ Done(q) /\ (d \in posts' <=> d \in posts)
      BY <1>1, <1>2, <1>7, <2>3 DEF PublishPost, At, AdvanceIf, SetPublished
    <3> QED
      BY <1>5, <2>1, <2>3, <3>1
  <2>4. CASE k.pc = 5
    <3>1. /\ Done(q) /\ UNCHANGED posts
          /\ IF docs[d].there THEN Set(d, [docs[d] EXCEPT !.published = TRUE])
                              ELSE UNCHANGED docs
      BY <1>1, <1>2, <1>7, <2>4 DEF PublishPost, At, SetPublished
    <3> QED
      BY <1>6, <2>1, <2>4, <3>1
  <2> QED
    BY <2>1, <2>2, <2>3, <2>4
<1>8. CASE UnpublishPost(q)
  <2>1. k.op = "unpublish" /\ (k.pc = 1 \/ k.pc = 3 \/ k.pc = 4 \/ k.pc = 5)
    BY <1>2, <1>8 DEF UnpublishPost, At
  <2>2. CASE k.pc \in {1, 4}
    <3>1. /\ UNCHANGED docs /\ posts' = posts
          /\ Advance(q) \/ (Done(q) /\ (k.pc > 3 => ~docs[d].there))
      BY <1>1, <1>2, <1>8, <2>2 DEF UnpublishPost, At, AdvanceIf, SetPublished
    <3> QED
      BY <1>4, <2>2, <3>1
  <2>3. CASE k.pc = 3
    <3>1. /\ UNCHANGED docs /\ posts' = posts \ {d}
          /\ Advance(q) \/ (Done(q) /\ d \notin posts)
      BY <1>1, <1>2, <1>8, <2>3 DEF UnpublishPost, At, AdvanceIf, SetPublished
    <3> QED
      BY <1>5, <2>1, <2>3, <3>1
  <2>4. CASE k.pc = 5
    <3>1. /\ Done(q) /\ UNCHANGED posts
          /\ IF docs[d].there THEN Set(d, [docs[d] EXCEPT !.published = FALSE])
                              ELSE UNCHANGED docs
      BY <1>1, <1>2, <1>8, <2>4 DEF UnpublishPost, At, SetPublished
    <3> QED
      BY <1>6, <2>1, <2>4, <3>1
  <2> QED
    BY <2>1, <2>2, <2>3, <2>4
<1> QED
  BY <1>7, <1>8

\* A step of a request about content leaves other documents alone.
LEMMA Apart ==
    ASSUME RequestsTypeOK, NEW d \in DOMAIN docs, NEW q \in Request, Contents(q), q \notin Edits(d)
    PROVE  docs'[d] = docs[d] /\ (d \in posts' <=> d \in posts)
<1>1. ContentStep(q) /\ ContentTypeOK /\ Well(req[q])
  BY DEF RequestsTypeOK, Contents
<1>2. ASSUME req[q].op \in Editing
      PROVE  /\ req[q].on # d /\ req[q].on \in DOMAIN docs
             /\ \A n : Set(req[q].on, n) => docs'[d] = docs[d]
  <2>1. req[q].on # d /\ req[q].on \in DOMAIN docs
    BY <1>1, <1>2 DEF Edits, Well, Editing
  <2> QED
    BY <1>1, <2>1, WriteFacts
<1>3. CASE CheckRole(q) \/ CopyRoles(q)
  BY <1>3 DEF CheckRole, CopyRoles, contentVars
<1>4. CASE LockDocument(q)
  <2>1. req[q].op \in Editing
    BY <1>4 DEF LockDocument, Editing
  <2>2. UNCHANGED docs \/ \E n : Set(req[q].on, n)
    BY <1>4 DEF LockDocument
  <2>3. docs'[d] = docs[d]
    BY <1>2, <2>1, <2>2
  <2> QED
    BY <1>4, <2>3 DEF LockDocument
<1>5. CASE PublishPost(q) \/ UnpublishPost(q)
  <2>1. req[q].op \in Editing
    BY <1>5 DEF PublishPost, UnpublishPost, At, Editing
  <2>2. UNCHANGED docs \/ \E n : Set(req[q].on, n)
    BY <1>5 DEF PublishPost, UnpublishPost, SetPublished
  <2>3. docs'[d] = docs[d]
    BY <1>2, <2>1, <2>2
  <2>4. posts' = posts \/ posts' = posts \cup {req[q].on} \/ posts' = posts \ {req[q].on}
    BY <1>5 DEF PublishPost, UnpublishPost
  <2> QED
    BY <1>2, <2>1, <2>3, <2>4
<1>6. CASE UploadFile(q)
  BY <1>6 DEF UploadFile
<1>7. CASE CopyDocument(q)
  <2>1. ASSUME Doc # DOMAIN docs
        PROVE  (CHOOSE e \in Doc : e \notin DOMAIN docs) \in Doc \ DOMAIN docs
    BY <1>1, <2>1 DEF ContentTypeOK
  <2>2. \/ UNCHANGED docs
        \/ \E new \in Doc \ DOMAIN docs :
              docs' = [e \in DOMAIN docs \cup {new} |-> IF e = new THEN NewDoc ELSE docs[e]]
    BY <1>7, <2>1 DEF CopyDocument
  <2>3. docs'[d] = docs[d]
    BY <1>1, <2>2, CopyFacts
  <2> QED
    BY <1>7, <2>3 DEF CopyDocument
<1> QED
  BY <1>1, <1>3, <1>4, <1>5, <1>6, <1>7 DEF ContentStep

LEMMA DocContents ==
    ASSUME RequestsTypeOK, NEW d \in DOMAIN docs, DocInOrder(d), NEW q \in Request, Contents(q)
    PROVE  DocInOrder(d)'
<1>1. /\ SpacesTypeOK /\ ContentTypeOK /\ Well(req[q]) /\ ContentStep(q)
      /\ req \in [Request -> Asked] /\ Steps(q) /\ space' = space
  <2>1. SpacesTypeOK /\ ContentTypeOK /\ Well(req[q]) /\ ContentStep(q)
    BY DEF RequestsTypeOK, Contents
  <2> QED
    BY <2>1, ContentTypes, StepsFacts DEF dbVars, SpacesTypeOK, Asked
<1>2. Only(q) /\ (req'[q] = Idle \/ Alike(q))
  BY <1>1 DEF Steps
<1>3. CASE q \notin Edits(d)
  <2>1. docs'[d] = docs[d] /\ (d \in posts' <=> d \in posts)
    BY <1>3, Apart
  <2>2. Edits(d)' \subseteq Edits(d) /\ \A p \in Edits(d) : req'[p] = req[p]
    BY <1>2, <1>3, EditsSame
  <2> QED
    BY <1>1, <2>1, <2>2, DocKept
<1>4. CASE q \in Edits(d)
  <2>1. req[q].on = d /\ req[q].op \in Editing /\ req[q].pc \in Nat
    BY <1>1, <1>4 DEF Edits, SpacesTypeOK
  <2>2. CASE CheckRole(q)
    <3>1. PICK k : k = req[q]
      OBVIOUS
    <3>2. PICK m : m = req'[q]
      OBVIOUS
    <3>3. UNCHANGED <<docs, posts>> /\ k.pc \in {1, 2} /\ k.op \in Editing
      BY <2>1, <2>2, <3>1 DEF CheckRole, At, contentVars
    <3>4. space # "deleted" => Marked(k, d)
      BY <1>4, <3>1 DEF DocInOrder
    <3>5. Goes(q, k.pc + 1, k.calls) \/ Ends(q)
      BY <1>1, <2>2, <3>1, AdvanceIfFacts DEF CheckRole
    <3>6. CASE Goes(q, k.pc + 1, k.calls)
      <4>1. Alike(q) /\ m.pc = k.pc + 1 /\ m.op = k.op
        BY <3>1, <3>2, <3>6 DEF Goes, Alike
      <4>2. space' # "deleted" => Marked(m, d)'
        BY <1>1, <3>3, <3>4, <4>1 DEF Marked, LockAgrees, PostAgrees
      <4> QED
        BY <1>2, <1>4, <3>2, <4>1, <4>2, DocOne
    <3>7. CASE Ends(q)
      <4>1. space' # "deleted" => FlagsAgree(d)'
        BY <1>1, <3>3, <3>4 DEF Marked, LockAgrees, PostAgrees, FlagsAgree, Editing
      <4> QED
        BY <1>2, <1>4, <3>2, <3>7, <4>1, DocOne DEF Ends
    <3> QED
      BY <3>5, <3>6, <3>7
  <2>3. ~CopyRoles(q) /\ ~CopyDocument(q) /\ ~UploadFile(q)
    BY <2>1 DEF CopyRoles, CopyDocument, UploadFile, At, Editing
  <2> QED
    BY <1>1, <1>4, <2>2, <2>3, LockStep, PostStep DEF ContentStep
<1> QED
  BY <1>3, <1>4

\* A copy starts with nothing to disagree about.
LEMMA DocCopied ==
    ASSUME RequestsTypeOK, posts \subseteq DOMAIN docs, NEW q \in Request, Contents(q),
           NEW d \in DOMAIN docs' \ DOMAIN docs
    PROVE  DocInOrder(d)'
<1>1. /\ SpacesTypeOK /\ ContentTypeOK /\ ContentStep(q)
      /\ req \in [Request -> Asked] /\ \A p \in Request : Well(req[p])
  BY DEF RequestsTypeOK, Contents, SpacesTypeOK, Asked
<1>2. At(q, "copy", 4) /\ CopyDocument(q)
  <2>1. ~CheckRole(q) /\ ~CopyRoles(q) /\ ~UploadFile(q)
    BY DEF CheckRole, CopyRoles, UploadFile, contentVars
  <2>2. UNCHANGED docs => FALSE
    OBVIOUS
  <2>3. ASSUME LockDocument(q) \/ PublishPost(q) \/ UnpublishPost(q) PROVE FALSE
    <3>1. req[q].on \in DOMAIN docs
      BY <1>1, <2>3 DEF LockDocument, PublishPost, UnpublishPost, At, Well
    <3>2. \E n : Set(req[q].on, n)
      BY <2>2, <2>3 DEF LockDocument, PublishPost, UnpublishPost, SetPublished
    <3> QED
      BY <1>1, <3>1, <3>2, WriteFacts
  <2> QED
    BY <1>1, <2>1, <2>2, <2>3 DEF ContentStep, CopyDocument
<1>3. docs'[d] = NewDoc /\ posts' = posts
  BY <1>2 DEF CopyDocument, At
<1>4. Only(q) /\ req'[q] = Idle
  BY <1>1, <1>2, DoneFacts DEF CopyDocument, At, Ends
<1>5. Edits(d)' = {}
  <2>1. ASSUME NEW p \in Edits(d)' PROVE FALSE
    <3>1. p \in Request /\ req'[p].op \in Editing /\ req'[p].on = d
      BY <2>1 DEF Edits
    <3>2. p # q
      BY <1>4, <3>1 DEF Idle, Editing
    <3>3. req[p].op \in Editing /\ req[p].on = d
      BY <1>4, <3>1, <3>2 DEF Only
    <3> QED
      BY <1>1, <3>1, <3>3 DEF Well, Editing
  <2> QED
    BY <2>1
<1>6. FlagsAgree(d)'
  <2>1. d \notin posts'
    BY <1>3
  <2>2. docs'[d].open = TRUE /\ docs'[d].locked = FALSE /\ docs'[d].published = FALSE
    BY <1>3 DEF NewDoc
  <2>3. (d \in posts') = FALSE
    BY <2>1
  <2>4. (~docs'[d].open) = FALSE
    BY <2>2
  <2> QED
    BY <2>2, <2>3, <2>4 DEF FlagsAgree
<1> HIDE DEF Edits, FlagsAgree
<1> QED
  BY <1>5, <1>6 DEF DocInOrder

\* A step about the space or its members: of which requests, and what it does to
\* the content.
LEMMA MemberContent ==
    ASSUME RequestsTypeOK, SpaceStage, NEW q \in Request, Members(q)
    PROVE  /\ req[q].op \notin Editing \cup {"upload"}
           /\ Only(q) /\ (req'[q] = Idle \/ Alike(q))
           /\ space = "deleted" => space' = "deleted"
           /\ UNCHANGED <<docs, usedStorage>>
           /\ posts' = IF space' = "deleted" THEN {} ELSE posts
           /\ files' = IF space' = "deleted" THEN {} ELSE files
           /\ space' \in {"none", "creating", "live"} =>
                 space \in {"none", "creating", "live"} /\ stored' = stored
<1>1. MemberStep(q) /\ SpaceContent(q) /\ SpacesTypeOK /\ Well(req[q])
  BY DEF Members, RequestsTypeOK
<1>2. Only(q) /\ (req'[q] = Idle \/ Alike(q))
  BY <1>1, MemberTypes DEF Steps
<1>3. req[q].op \notin Editing \cup {"upload"}
  <2>1. CASE MakeCall(q)
    <3>1. PICK k : k = req[q]
      OBVIOUS
    <3>2. Queued(k) /\ k.calls # <<>>
      BY <2>1, <3>1 DEF MakeCall, SpaceStage
    <3>3. k.op \in {"create", "delete", "change", "remove", "accept"}
      BY <3>2 DEF Queued
    <3> QED
      BY <3>1, <3>3 DEF Editing
  <2> QED
    BY <1>1, <2>1, MemberKinds DEF Editing
<1>4. /\ req[q].op = "create" => space \in {"none", "creating"} \/ req[q].pc < 2
      /\ req[q].op = "create" /\ req[q].pc = 3 => space = "creating"
      /\ req[q].op = "delete" => space \notin {"none", "creating"}
  <2>1. req[q].pc \in Nat
    BY <1>1 DEF SpacesTypeOK
  <2> QED
    BY <2>1 DEF SpaceStage
<1>5. space = "deleted" => space' = "deleted"
  BY <1>1, <1>4, SpaceMoves
<1>6. space' \in {"none", "creating", "live"} => space \in {"none", "creating", "live"}
  BY <1>1, <1>4, SpaceMoves
<1>7. At(q, "delete", 2) => space' \notin {"none", "creating", "live"}
  <2> SUFFICES ASSUME At(q, "delete", 2) PROVE space' \notin {"none", "creating", "live"}
    OBVIOUS
  <2>1. DeleteSpace(q)
    BY <1>1, MemberKinds DEF At, MakeCall
  <2>2. Writable /\ space' = IF space = "live" THEN "deleting" ELSE space
    BY <2>1 DEF DeleteSpace, At
  <2> QED
    BY <1>4, <2>2 DEF At
<1>8. /\ UNCHANGED <<docs, usedStorage>>
      /\ posts' = IF space' = "deleted" THEN {} ELSE posts
      /\ files' = IF space' = "deleted" THEN {} ELSE files
      /\ ~At(q, "delete", 2) => stored' = stored
  BY <1>1 DEF SpaceContent
<1> QED
  BY <1>2, <1>3, <1>5, <1>6, <1>7, <1>8

LEMMA DocMember ==
    ASSUME RequestsTypeOK, SpaceStage, NEW d, DocInOrder(d), NEW q \in Request, Members(q)
    PROVE  DocInOrder(d)'
<1>1. q \notin Edits(d)
  BY MemberContent DEF Edits
<1>2. Edits(d)' \subseteq Edits(d) /\ \A p \in Edits(d) : req'[p] = req[p]
  BY <1>1, MemberContent, EditsSame
<1>3. UNCHANGED docs
  BY MemberContent
<1>4. space' # "deleted" => posts' = posts
  BY MemberContent
<1> QED
  BY <1>2, <1>3, <1>4, MemberContent, DocKept

\* A request that begins is the only one about its document, unless the document is
\* muddled.
LEMMA DocSend ==
    ASSUME RequestsTypeOK, NEW d \in DOMAIN docs, DocInOrder(d), d \notin muddled,
           d \notin muddled', NEW q \in Request, Sends(q)
    PROVE  DocInOrder(d)'
<1>1. /\ req[q].op = "none" /\ Only(q) /\ req'[q].pc = 1 /\ req'[q].op # "none"
      /\ space' = space
  BY SendFacts DEF Sends, RequestsTypeOK, dbVars
<1>2. UNCHANGED <<docs, posts>> /\ RememberRequests({})
  BY DEF Sends, Requesting, contentVars
<1>3. q \notin Edits(d)
  BY <1>1 DEF Edits, Editing
<1>4. CASE q \notin Edits(d)'
  <2>1. Edits(d)' \subseteq Edits(d)
    BY <1>1, <1>4 DEF Edits, Only
  <2>2. \A p \in Edits(d) : req'[p] = req[p]
    BY <1>1, <1>3 DEF Edits, Only
  <2> QED
    BY <1>1, <1>2, <2>1, <2>2, DocKept
<1>5. CASE q \in Edits(d)'
  <2>1. ~(Cardinality(About(d)') > 1)
    <3>1. q \in Underway' \ Underway
      BY <1>1 DEF Underway
    <3> QED
      BY <1>2, <3>1 DEF RememberRequests
  <2>2. \A p \in Edits(d)' : p = q
    <3>1. IsFiniteSet(About(d)')
      BY FS_Subset, RequestsAssumption DEF About
    <3>2. Edits(d)' \subseteq About(d)'
      BY DEF Edits, About
    <3> QED
      BY <1>5, <2>1, <3>1, <3>2, TwoOf
  <2>3. Edits(d) = {}
    <3>1. ASSUME NEW p \in Edits(d) PROVE FALSE
      <4>1. p # q
        BY <1>3, <3>1
      <4>2. p \in Edits(d)'
        BY <1>1, <4>1 DEF Edits, Only
      <4> QED
        BY <2>2, <4>1, <4>2
    <3> QED
      BY <3>1
  <2>4. space # "deleted" => FlagsAgree(d)
    BY <2>3 DEF DocInOrder
  <2>5. PICK m : m = req'[q]
    OBVIOUS
  <2>6. space' # "deleted" => Marked(m, d)'
    BY <1>1, <1>2, <2>4, <2>5 DEF Marked, FlagsAgree, LockAgrees, PostAgrees
  <2>7. ASSUME NEW p \in Edits(d)', space' # "deleted" PROVE Marked(req[p], d)'
    BY <2>2, <2>5, <2>6, <2>7
  <2> HIDE DEF Edits, Marked, FlagsAgree
  <2> QED
    BY <1>5, <2>2, <2>7 DEF DocInOrder
<1> QED
  BY <1>4, <1>5

\* A request that is cut short, or has a call fail, leaves its document muddled.
LEMMA DocOther ==
    ASSUME RequestsTypeOK, NEW d \in DOMAIN docs, DocInOrder(d), d \notin muddled,
           d \notin muddled',
           \/ \E q \in Request : Fails(q)
           \/ \E e \in DOMAIN docs : Deletes(e)
           \/ Stops
    PROVE  DocInOrder(d)'
<1>1. ASSUME NEW q \in Request, Fails(q) PROVE DocInOrder(d)'
  <2>1. RememberRequests({q}) /\ UNCHANGED <<docs, posts>> /\ space' = space
    BY <1>1 DEF Fails, Requesting, contentVars, dbVars
  <2>2. q \notin Edits(d)
    BY <2>1 DEF RememberRequests, Edits
  <2>3. Only(q) /\ (req'[q] = Idle \/ Alike(q))
    BY <1>1, FailsFacts DEF Ends, Goes, RequestsTypeOK
  <2>4. Edits(d)' \subseteq Edits(d) /\ \A p \in Edits(d) : req'[p] = req[p]
    BY <2>2, <2>3, EditsSame
  <2> QED
    BY <2>1, <2>4, DocKept
<1>2. ASSUME NEW e \in DOMAIN docs, Deletes(e) PROVE DocInOrder(d)'
  <2>1. /\ Set(e, [docs[e] EXCEPT !.there = FALSE]) /\ docs[e].there
        /\ UNCHANGED <<posts, req>> /\ space' = space
    BY <1>2 DEF Deletes, DeleteDoc, spacesVars, dbVars
  <2>2. ContentTypeOK
    BY DEF RequestsTypeOK
  <2>3. /\ docs'[d].there => docs[d].there
        /\ docs'[d].open = docs[d].open /\ docs'[d].locked = docs[d].locked
        /\ docs'[d].published = docs[d].published
    <3>1. CASE e = d
      BY <2>1, <2>2, <3>1, WriteFacts
    <3>2. CASE e # d
      BY <2>1, <2>2, <3>2, WriteFacts
    <3> QED
      BY <3>1, <3>2
  <2>4. Edits(d)' \subseteq Edits(d) /\ \A p \in Edits(d) : req'[p] = req[p]
    BY <2>1 DEF Edits
  <2> QED
    BY <2>1, <2>3, <2>4, DocKept
<1>3. CASE Stops
  <2>1. Crash /\ RememberRequests(Underway) /\ UNCHANGED <<docs, posts>>
    BY <1>3 DEF Stops, Restart, Requesting, contentVars
  <2>2. Edits(d) = {}
    BY <2>1 DEF RememberRequests, Edits, Underway, Editing
  <2>3. Edits(d)' = {}
    BY <2>1 DEF Crash, Idle, Edits, Editing
  <2>4. space = "deleted" => space' = "deleted"
    BY <2>1 DEF Crash
  <2> QED
    BY <2>1, <2>2, <2>3, <2>4, DocKept
<1> QED
  BY <1>1, <1>2, <1>3

\* Files that nothing happens to.
LEMMA FilesKept ==
    ASSUME FilesInOrder,
           space' \in {"none", "creating", "live"} =>
              space \in {"none", "creating", "live"} /\ UNCHANGED fileVars,
           Uploads' \subseteq Uploads, \A p \in Uploads : req'[p] = req[p]
    PROVE  FilesInOrder'
<1>1. Uploads' = Uploads
  BY DEF Uploads
<1>2. UNCHANGED fileVars /\ StorageAgrees => StorageAgrees'
  BY DEF fileVars, StorageAgrees
<1>3. ASSUME UNCHANGED fileVars, NEW q \in Uploads, Uploaded(req[q]) PROVE Uploaded(req[q])'
  <2>1. PICK k : k = req[q]
    OBVIOUS
  <2>2. req'[q] = k
    BY <1>3, <2>1
  <2>3. Uploaded(k)'
    BY <1>2, <1>3, <2>1 DEF Uploaded, fileVars
  <2> QED
    BY <2>2, <2>3
<1> HIDE DEF Uploads, Uploaded, StorageAgrees
<1> QED
  BY <1>1, <1>2, <1>3 DEF FilesInOrder

LEMMA UploadsSame ==
    ASSUME NEW q \in Request, Only(q), q \notin Uploads, req'[q] = Idle \/ Alike(q)
    PROVE  Uploads' \subseteq Uploads /\ \A p \in Uploads : req'[p] = req[p]
<1>1. ASSUME NEW p \in Uploads' PROVE p \in Uploads
  <2>1. p \in Request /\ req'[p].op = "upload"
    BY <1>1 DEF Uploads
  <2>2. CASE p = q
    BY <2>1, <2>2 DEF Uploads, Alike, Idle
  <2>3. CASE p # q
    BY <2>1, <2>3 DEF Uploads, Only
  <2> QED
    BY <2>2, <2>3
<1>2. \A p \in Uploads : p \in Request /\ p # q
  BY DEF Uploads
<1> QED
  BY <1>1, <1>2 DEF Only

\* A step of the one upload.
LEMMA FilesOne ==
    ASSUME FilesInOrder, NEW q \in Uploads, Only(q), NEW m, req'[q] = m, space' = space,
           \/ m = Idle /\ (space \in {"none", "creating", "live"} => StorageAgrees')
           \/ Alike(q) /\ (space \in {"none", "creating", "live"} => Uploaded(m)')
    PROVE  FilesInOrder'
<1>1. \A p \in Uploads : p = q
  BY DEF FilesInOrder
<1>2. ASSUME NEW p \in Uploads' PROVE p = q
  <2>1. p \in Request /\ req'[p].op = "upload"
    BY <1>2 DEF Uploads
  <2>2. ASSUME p # q PROVE p \in Uploads
    BY <2>1, <2>2 DEF Uploads, Only
  <2> QED
    BY <1>1, <2>2
<1>3. CASE m = Idle
  <2>1. q \notin Uploads'
    BY <1>3 DEF Uploads, Idle
  <2>2. Uploads' = {}
    BY <1>2, <2>1
  <2>3. space \in {"none", "creating", "live"} => StorageAgrees'
    BY <1>3, <2>1 DEF Alike, Uploads
  <2> HIDE DEF Uploads, Uploaded, StorageAgrees
  <2> QED
    BY <2>2, <2>3 DEF FilesInOrder
<1>4. CASE Alike(q) /\ (space \in {"none", "creating", "live"} => Uploaded(m)')
  <2>1. q \in Uploads'
    BY <1>4 DEF Uploads, Alike
  <2> HIDE DEF Uploads, Uploaded, StorageAgrees
  <2> QED
    BY <1>2, <1>4, <2>1 DEF FilesInOrder
<1> QED
  BY <1>3, <1>4

\* Each step of an upload.
LEMMA FilesUpload ==
    ASSUME RequestsTypeOK, SpaceStage, FilesInOrder, IsFiniteSet(files), NEW q \in Uploads,
           Contents(q)
    PROVE  FilesInOrder'
<1>1. /\ SpacesTypeOK /\ ContentTypeOK /\ q \in Request /\ req[q].op = "upload"
      /\ ContentStep(q) /\ Well(req[q]) /\ req \in [Request -> Asked] /\ req[q].pc \in Nat
      /\ StorageLimit \in Nat
  BY ContentAssumption DEF RequestsTypeOK, Contents, Uploads, SpacesTypeOK, Asked
<1>2. space' = space
  BY <1>1, ContentTypes DEF dbVars
<1>3. PICK k : k = req[q]
  OBVIOUS
<1>4. PICK m : m = req'[q]
  OBVIOUS
<1>5. space \in {"none", "creating", "live"} => Uploaded(k)
  BY <1>3 DEF FilesInOrder
<1>6. usedStorage \in Nat /\ Cardinality(files) \in Nat
  BY <1>1, FS_CardinalityType DEF ContentTypeOK
<1>7. ASSUME Goes(q, k.pc + 1, k.calls)
      PROVE  Alike(q) /\ Only(q) /\ m.pc = k.pc + 1 /\ m.on = k.on
  BY <1>3, <1>4, <1>7 DEF Goes, Alike
<1>8. ASSUME Ends(q) PROVE Only(q) /\ m = Idle
  BY <1>4, <1>8 DEF Ends
<1>9. CASE CheckRole(q) \/ (UploadFile(q) /\ k.pc = 2)
  <2>1. UNCHANGED fileVars /\ k.pc \in {1, 2}
    BY <1>1, <1>3, <1>9 DEF CheckRole, UploadFile, At, contentVars
  <2>2. Ends(q) \/ Goes(q, k.pc + 1, k.calls)
    BY <1>1, <1>3, ContentTypes
  <2>3. CASE Ends(q)
    <3>1. space \in {"none", "creating", "live"} => StorageAgrees'
      BY <1>3, <1>5, <2>1 DEF Uploaded, StorageAgrees, fileVars
    <3> QED
      BY <1>2, <1>4, <1>8, <2>3, <3>1, FilesOne
  <2>4. CASE Goes(q, k.pc + 1, k.calls)
    <3>1. k.pc = 2 => usedStorage < StorageLimit
      <4>1. ASSUME k.pc = 2, ~(usedStorage < StorageLimit) PROVE FALSE
        <5>1. Done(q)
          BY <1>1, <1>3, <1>9, <4>1 DEF CheckRole, UploadFile, At, AdvanceIf
        <5>2. m = Idle
          BY <1>1, <1>8, <5>1, DoneFacts
        <5> QED
          BY <1>1, <1>3, <1>7, <2>4, <4>1, <5>2 DEF Idle
      <4> QED
        BY <4>1
    <3>2. space \in {"none", "creating", "live"} => Uploaded(m)'
      BY <1>3, <1>5, <1>7, <2>1, <2>4, <3>1 DEF Uploaded, StorageAgrees, fileVars
    <3> QED
      BY <1>2, <1>4, <1>7, <2>4, <3>2, FilesOne
  <2> QED
    BY <2>2, <2>3, <2>4
<1>10. CASE UploadFile(q) /\ k.pc = 3
  <2>1. /\ stored' = stored \cup {k.on} /\ Advance(q) /\ UNCHANGED <<files, usedStorage>>
    BY <1>3, <1>10 DEF UploadFile, At
  <2>2. Goes(q, k.pc + 1, k.calls)
    BY <1>1, <1>3, <2>1, AdvanceFacts
  <2>3. space \in {"none", "creating", "live"} => Uploaded(m)'
    BY <1>5, <1>7, <1>10, <2>1, <2>2 DEF Uploaded, StorageAgrees
  <2> QED
    BY <1>2, <1>4, <1>7, <2>2, <2>3, FilesOne
<1>11. CASE UploadFile(q) /\ k.pc = 4
  <2>1. UNCHANGED <<stored, usedStorage>>
    BY <1>3, <1>11 DEF UploadFile, At
  <2>2. \/ Advance(q) /\ space = "live" /\ k.on \notin files /\ files' = files \cup {k.on}
        \/ Done(q) /\ files' = files
    <3>1. k.on \in files => files \cup {k.on} = files
      OBVIOUS
    <3>2. /\ files' = IF space = "live" THEN files \cup {k.on} ELSE files
          /\ IF space = "live" /\ k.on \notin files THEN Advance(q) ELSE Done(q)
      BY <1>3, <1>11 DEF UploadFile, At, AdvanceIf
    <3> QED
      BY <3>1, <3>2
  <2>3. CASE Advance(q) /\ space = "live" /\ k.on \notin files /\ files' = files \cup {k.on}
    <3>1. Goes(q, k.pc + 1, k.calls)
      BY <1>1, <1>3, <2>3, AdvanceFacts
    <3>2. Cardinality(files') = Cardinality(files) + 1
      BY <2>3, FS_AddElement
    <3>3. space \in {"none", "creating", "live"} => Uploaded(m)'
      BY <1>5, <1>6, <1>7, <1>11, <2>1, <2>3, <3>1, <3>2 DEF Uploaded, StorageAgrees
    <3> QED
      BY <1>2, <1>4, <1>7, <3>1, <3>3, FilesOne
  <2>4. CASE Done(q) /\ files' = files
    <3>1. Ends(q)
      BY <1>1, <2>4, DoneFacts
    <3>2. space \in {"none", "creating", "live"} => StorageAgrees'
      BY <1>5, <1>11, <2>1, <2>4 DEF Uploaded, StorageAgrees
    <3> QED
      BY <1>2, <1>4, <1>8, <3>1, <3>2, FilesOne
  <2> QED
    BY <2>2, <2>3, <2>4
<1>12. CASE UploadFile(q) /\ k.pc = 5
  <2>1. /\ UNCHANGED <<stored, files>> /\ Done(q)
        /\ usedStorage' = IF space = "live" THEN usedStorage + 1 ELSE usedStorage
    BY <1>3, <1>12 DEF UploadFile, At
  <2>2. Ends(q)
    BY <1>1, <2>1, DoneFacts
  <2>3. space \notin {"none", "creating"}
    BY <1>1 DEF SpaceStage
  <2>4. space \in {"none", "creating", "live"} => StorageAgrees'
    BY <1>1, <1>5, <1>6, <1>12, <2>1, <2>3 DEF Uploaded, StorageAgrees
  <2> QED
    BY <1>2, <1>4, <1>8, <2>2, <2>4, FilesOne
<1>13. UploadFile(q) => k.pc \in {2, 3, 4, 5}
  BY <1>3 DEF UploadFile, At
<1>14. ~CopyRoles(q) /\ ~CopyDocument(q) /\ ~LockDocument(q) /\ ~PublishPost(q) /\ ~UnpublishPost(q)
  BY <1>1 DEF CopyRoles, CopyDocument, LockDocument, PublishPost, UnpublishPost, At
<1> QED
  BY <1>1, <1>9, <1>10, <1>11, <1>12, <1>13, <1>14 DEF ContentStep

\* A step of any other kind, but for those that spoil the files.
LEMMA FilesStep ==
    ASSUME RequestsTypeOK, SpaceStage, FilesInOrder, IsFiniteSet(files), ~spoilt', ~spoilt,
           [RequestsNext]_requestsVars
    PROVE  FilesInOrder'
<1>1. SpacesTypeOK /\ ContentTypeOK /\ ProfileTypeOK /\ \A p \in Request : Well(req[p])
  BY DEF RequestsTypeOK
<1>2. \/ UNCHANGED requestsVars
      \/ \E q \in Request : /\ req[q].op # "none"
                            /\ Members(q) \/ Contents(q) \/ Fails(q)
      \/ \E q \in Request : Sends(q)
      \/ \E d \in DOMAIN docs : Deletes(d)
      \/ \E u \in Page : Pages(u)
      \/ Stops
  BY <1>1, StepKinds
<1>3. ASSUME UNCHANGED <<space, fileVars, req>> PROVE FilesInOrder'
  <2>1. Uploads' = Uploads
    BY <1>3 DEF Uploads
  <2>2. \A p \in Uploads : req'[p] = req[p]
    BY <1>3
  <2> QED
    BY <1>3, <2>1, <2>2, FilesKept
<1>4. ASSUME NEW q \in Request, Members(q) PROVE FilesInOrder'
  <2>1. q \notin Uploads
    BY <1>4, MemberContent DEF Uploads
  <2>2. Uploads' \subseteq Uploads /\ \A p \in Uploads : req'[p] = req[p]
    BY <1>4, <2>1, MemberContent, UploadsSame
  <2>3. space' \in {"none", "creating", "live"} =>
           space \in {"none", "creating", "live"} /\ UNCHANGED fileVars
    BY <1>4, MemberContent DEF fileVars
  <2> QED
    BY <2>2, <2>3, FilesKept
<1>5. ASSUME NEW q \in Request, Contents(q) PROVE FilesInOrder'
  <2>1. CASE q \in Uploads
    BY <1>5, <2>1, FilesUpload
  <2>2. CASE q \notin Uploads
    <3>1. ContentStep(q)
      BY <1>5 DEF Contents
    <3>2. /\ space' = space /\ Only(q) /\ (req'[q] = Idle \/ Alike(q))
      BY <1>1, <3>1, ContentTypes, StepsFacts DEF dbVars, Steps
    <3>3. ~UploadFile(q)
      BY <2>2 DEF UploadFile, At, Uploads
    <3>4. UNCHANGED fileVars
      BY <3>1, <3>3 DEF ContentStep, CheckRole, LockDocument, PublishPost, UnpublishPost,
                        CopyRoles, CopyDocument, contentVars
    <3>5. Uploads' \subseteq Uploads /\ \A p \in Uploads : req'[p] = req[p]
      BY <2>2, <3>2, UploadsSame
    <3> QED
      BY <3>2, <3>4, <3>5, FilesKept
  <2> QED
    BY <2>1, <2>2
<1>6. ASSUME NEW q \in Request, Fails(q) PROVE FilesInOrder'
  <2>1. RememberRequests({q}) /\ UNCHANGED fileVars /\ space' = space
    BY <1>6 DEF Fails, Requesting, contentVars, dbVars
  <2>2. q \notin Uploads
    BY <2>1 DEF RememberRequests, Uploads
  <2>3. Only(q) /\ (req'[q] = Idle \/ Alike(q))
    BY <1>1, <1>6, FailsFacts DEF Ends, Goes
  <2>4. Uploads' \subseteq Uploads /\ \A p \in Uploads : req'[p] = req[p]
    BY <2>2, <2>3, UploadsSame
  <2> QED
    BY <2>1, <2>4, FilesKept
<1>7. ASSUME NEW q \in Request, Sends(q) PROVE FilesInOrder'
  <2>1. /\ req[q].op = "none" /\ Only(q) /\ req'[q].pc = 1 /\ req'[q].op # "none"
        /\ space' = space /\ UNCHANGED fileVars /\ RememberRequests({})
    BY <1>1, <1>7, SendFacts DEF Sends, Requesting, contentVars, dbVars
  <2>2. q \notin Uploads
    BY <2>1 DEF Uploads
  <2>3. CASE q \notin Uploads'
    <3>1. Uploads' \subseteq Uploads
      BY <2>1, <2>3 DEF Uploads, Only
    <3>2. \A p \in Uploads : req'[p] = req[p]
      BY <2>1, <2>2 DEF Uploads, Only
    <3> QED
      BY <2>1, <3>1, <3>2, FilesKept
  <2>4. CASE q \in Uploads'
    <3>1. ~(Cardinality(Uploads') > 1)
      <4>1. q \in Underway' \ Underway
        BY <2>1 DEF Underway
      <4> QED
        BY <2>1, <4>1 DEF RememberRequests
    <3>2. \A p \in Uploads' : p = q
      <4>1. IsFiniteSet(Uploads')
        BY FS_Subset, RequestsAssumption DEF Uploads
      <4> QED
        BY <2>4, <3>1, <4>1, TwoOf
    <3>3. Uploads = {}
      <4>1. ASSUME NEW p \in Uploads PROVE FALSE
        <5>1. p # q
          BY <2>2, <4>1
        <5>2. p \in Uploads'
          BY <2>1, <4>1, <5>1 DEF Uploads, Only
        <5> QED
          BY <3>2, <5>1, <5>2
      <4> QED
        BY <4>1
    <3>4. space \in {"none", "creating", "live"} => StorageAgrees
      BY <3>3 DEF FilesInOrder
    <3>5. PICK m : m = req'[q]
      OBVIOUS
    <3>6. space \in {"none", "creating", "live"} => Uploaded(m)'
      BY <2>1, <3>4, <3>5 DEF Uploaded, StorageAgrees, fileVars
    <3>7. ASSUME NEW p \in Uploads', space' \in {"none", "creating", "live"}
          PROVE  Uploaded(req[p])'
      BY <2>1, <3>2, <3>5, <3>6, <3>7
    <3> HIDE DEF Uploads, Uploaded, StorageAgrees
    <3> QED
      BY <2>4, <3>2, <3>7 DEF FilesInOrder
  <2> QED
    BY <2>3, <2>4
<1>8. CASE Stops
  <2>1. Crash /\ RememberRequests(Underway) /\ UNCHANGED fileVars
    BY <1>8 DEF Stops, Restart, Requesting, contentVars
  <2>2. \A q \in Request : req[q].op \notin {"upload", "delete"}
    BY <2>1 DEF RememberRequests, Underway
  <2>3. Uploads = {} /\ Uploads' = {}
    BY <2>1, <2>2 DEF Uploads, Crash, Idle
  <2>4. space # "deleting"
    BY <2>2 DEF SpaceStage
  <2>5. space' \in {"none", "creating", "live"} => space \in {"none", "creating", "live"}
    BY <2>1, <2>4 DEF Crash
  <2> QED
    BY <2>1, <2>3, <2>5, FilesKept
<1>9. CASE UNCHANGED requestsVars
  BY <1>3, <1>9 DEF requestsVars, spacesVars, dbVars, contentVars
<1>10. ASSUME NEW d \in DOMAIN docs, Deletes(d) PROVE FilesInOrder'
  BY <1>3, <1>10 DEF Deletes, DeleteDoc, spacesVars, dbVars
<1>11. ASSUME NEW u \in Page, Pages(u) PROVE FilesInOrder'
  BY <1>3, <1>11 DEF Pages, dbVars, contentVars
<1> QED
  BY <1>2, <1>4, <1>5, <1>6, <1>7, <1>8, <1>9, <1>10, <1>11

LEMMA ContentFirst == RequestsInit => ContentInv
<1> SUFFICES ASSUME RequestsInit PROVE ContentInv
  OBVIOUS
<1>1. RequestsTypeOK /\ SpaceStage
  BY TypeInit, AccessInit DEF AccessInv
<1>2. /\ docs = [d \in {d1} |-> NewDoc] /\ posts = {} /\ stored = {} /\ files = {}
      /\ usedStorage = 0 /\ \A q \in Request : req[q] = Idle
  BY DEF RequestsInit, ContentInit
<1>3. IsFiniteSet(files) /\ Cardinality(files) = 0
  BY <1>2, FS_EmptySet
<1>4. ASSUME NEW d \in DOMAIN docs PROVE DocInOrder(d)
  <2>1. Edits(d) = {}
    BY <1>2 DEF Edits, Idle, Editing
  <2>2. docs[d] = NewDoc
    BY <1>2
  <2>3. docs[d].open = TRUE /\ docs[d].locked = FALSE /\ docs[d].published = FALSE
    BY <2>2 DEF NewDoc
  <2>4. (d \in posts) = FALSE
    BY <1>2
  <2>5. (~docs[d].open) = FALSE
    BY <2>3
  <2>6. FlagsAgree(d)
    BY <2>3, <2>4, <2>5 DEF FlagsAgree
  <2> QED
    BY <2>1, <2>6 DEF DocInOrder
<1>5. FilesInOrder
  <2>1. Uploads = {}
    BY <1>2 DEF Uploads, Idle
  <2>2. StorageAgrees
    BY <1>2, <1>3, ContentAssumption DEF StorageAgrees
  <2> QED
    BY <2>1, <2>2 DEF FilesInOrder
<1> QED
  BY <1>1, <1>2, <1>3, <1>4, <1>5 DEF ContentInv

LEMMA ContentNext ==
    ASSUME ContentInv, [RequestsNext]_requestsVars
    PROVE  ContentInv'
<1>1. RequestsTypeOK /\ SpaceStage /\ RequestsTypeOK' /\ SpaceStage'
  BY TypeStep, StageStep DEF ContentInv
<1>2. \/ UNCHANGED requestsVars
      \/ \E q \in Request : /\ req[q].op # "none"
                            /\ Members(q) \/ Contents(q) \/ Fails(q)
      \/ \E q \in Request : Sends(q)
      \/ \E d \in DOMAIN docs : Deletes(d)
      \/ \E u \in Page : Pages(u)
      \/ Stops
  BY <1>1, StepKinds DEF RequestsTypeOK
<1>3. /\ muddled \subseteq muddled' /\ (spoilt => spoilt')
  <2>1. \/ UNCHANGED requestsVars
        \/ \E hurt : RememberRequests(hurt)
    BY <1>2 DEF Members, Contents, Fails, Sends, Deletes, Pages, Stops, Requesting
  <2>2. ASSUME NEW hurt, RememberRequests(hurt) PROVE muddled \subseteq muddled' /\ (spoilt => spoilt')
    <3>1. muddled \subseteq muddled'
      BY <2>2 DEF RememberRequests
    <3>2. spoilt' = \/ spoilt
                    \/ Underway' \ Underway # {} /\ Cardinality(Uploads') > 1
                    \/ \E q \in hurt : req[q].op \in {"upload", "delete"}
      BY <2>2 DEF RememberRequests
    <3>3. spoilt => spoilt'
      BY <3>2
    <3> QED
      BY <3>1, <3>3
  <2> QED
    BY <2>1, <2>2 DEF requestsVars
<1>4. IsFiniteSet(files') /\ posts' \subseteq DOMAIN docs'
  <2>1. CASE UNCHANGED <<docs, posts, files>>
    BY <2>1 DEF ContentInv
  <2>2. ASSUME NEW q \in Request, Members(q) PROVE IsFiniteSet(files') /\ posts' \subseteq DOMAIN docs'
    <3>1. files' = {} \/ files' = files
      BY <1>1, <2>2, MemberContent
    <3>2. docs' = docs /\ (posts' = {} \/ posts' = posts)
      BY <1>1, <2>2, MemberContent
    <3> QED
      BY <3>1, <3>2, FS_EmptySet DEF ContentInv
  <2>3. ASSUME NEW q \in Request, Contents(q) PROVE IsFiniteSet(files') /\ posts' \subseteq DOMAIN docs'
    <3>1. ContentStep(q) /\ Well(req[q]) /\ DOMAIN docs \subseteq DOMAIN docs'
      BY <1>1, <2>3, ContentTypes DEF Contents, RequestsTypeOK
    <3>2. files' = files \/ files' = files \cup {req[q].on}
      BY <3>1 DEF ContentStep, CheckRole, LockDocument, PublishPost, UnpublishPost, UploadFile,
                  CopyRoles, CopyDocument, contentVars, fileVars
    <3>3. posts' \subseteq posts \/ (PublishPost(q) /\ posts' = posts \cup {req[q].on})
      BY <3>1 DEF ContentStep, CheckRole, LockDocument, PublishPost, UnpublishPost, UploadFile,
                  CopyRoles, CopyDocument, contentVars, fileVars
    <3>4. PublishPost(q) => req[q].on \in DOMAIN docs
      BY <3>1 DEF PublishPost, At, Well
    <3> QED
      BY <3>1, <3>2, <3>3, <3>4, FS_AddElement DEF ContentInv
  <2>4. ASSUME NEW d \in DOMAIN docs, Deletes(d)
        PROVE  IsFiniteSet(files') /\ posts' \subseteq DOMAIN docs'
    <3>1. \E n : Set(d, n) /\ UNCHANGED <<posts, files>>
      BY <2>4 DEF Deletes, DeleteDoc, fileVars
    <3> QED
      BY <1>1, <3>1, WriteFacts DEF ContentInv, RequestsTypeOK
  <2>5. ASSUME \/ UNCHANGED requestsVars
               \/ \E q \in Request : Fails(q) \/ Sends(q)
               \/ \E u \in Page : Pages(u)
               \/ Stops
        PROVE  UNCHANGED <<docs, posts, files>>
    BY <2>5 DEF Fails, Sends, Pages, Stops, contentVars, fileVars, requestsVars
  <2> QED
    BY <1>2, <2>1, <2>2, <2>3, <2>4, <2>5
<1>5. ASSUME NEW d \in DOMAIN docs', d \notin muddled' PROVE DocInOrder(d)'
  <2>1. CASE d \notin DOMAIN docs
    <3>1. ASSUME NEW q \in Request, Members(q) \/ Fails(q) \/ Sends(q) PROVE FALSE
      BY <1>1, <1>5, <2>1, <3>1, MemberContent DEF Fails, Sends, contentVars
    <3>2. ASSUME NEW e \in DOMAIN docs, Deletes(e) PROVE FALSE
      <4>1. \E n : Set(e, n)
        BY <3>2 DEF Deletes, DeleteDoc
      <4> QED
        BY <1>1, <1>5, <2>1, <4>1, WriteFacts DEF RequestsTypeOK
    <3>3. ~UNCHANGED requestsVars /\ ~Stops /\ \A u \in Page : ~Pages(u)
      BY <1>5, <2>1 DEF requestsVars, contentVars, Stops, Pages
    <3> QED
      BY <1>1, <1>2, <1>5, <2>1, <3>1, <3>2, <3>3, DocCopied DEF ContentInv
  <2>2. CASE d \in DOMAIN docs
    <3>1. d \notin muddled /\ DocInOrder(d)
      BY <1>3, <1>5, <2>2 DEF ContentInv
    <3>2. ASSUME UNCHANGED <<space, docs, posts, req>> PROVE DocInOrder(d)'
      BY <3>1, <3>2 DEF DocInOrder, Edits, Marked, FlagsAgree, LockAgrees, PostAgrees
    <3>3. CASE UNCHANGED requestsVars
      BY <3>2, <3>3 DEF requestsVars, spacesVars, dbVars, contentVars
    <3>4. ASSUME NEW u \in Page, Pages(u) PROVE DocInOrder(d)'
      BY <3>2, <3>4 DEF Pages, dbVars, contentVars
    <3> QED
      BY <1>1, <1>2, <1>5, <2>2, <3>1, <3>3, <3>4, DocMember, DocContents, DocSend, DocOther
  <2> QED
    BY <2>1, <2>2
<1>6. ASSUME ~spoilt' PROVE FilesInOrder'
  BY <1>1, <1>3, <1>6, FilesStep DEF ContentInv
<1> QED
  BY <1>1, <1>4, <1>5, <1>6 DEF ContentInv

\* The lock and the publication of a document are what its fields say, and the storage in
\* use is that of the files, when no request about them is under way and none was ever cut
\* short, nor two at once: a request writes in several steps, between which documents and
\* the space may be deleted.
THEOREM ContentAlwaysAgrees == RequestsSpec => []ContentAgrees
<1>1. ContentInv => ContentAgrees
  <2> SUFFICES ASSUME ContentInv, space = "live" PROVE ContentAgrees
    BY DEF ContentAgrees
  <2>1. ASSUME NEW d \in DOMAIN docs \ muddled, About(d) = {} PROVE FlagsAgree(d)
    <3>1. Edits(d) = {}
      BY <2>1 DEF About, Edits
    <3> QED
      BY <3>1 DEF ContentInv, DocInOrder
  <2> QED
    BY <2>1 DEF ContentInv, FilesInOrder, ContentAgrees
<1>2. ContentInv /\ [RequestsNext]_requestsVars => ContentInv'
  BY ContentNext
<1> QED
  BY <1>1, <1>2, ContentFirst, PTL DEF RequestsSpec

-----------------------------------------------------------------------------
(* What pages show *)

\* Page u has something to come, or shows the user's role.
Informed(u) ==
    /\ Len(fetches[u]) <= 1
    /\ \/ u \notin open \/ mail[u] > 0 \/ u \in retry
       \/ fetches[u] = <<"asked">>
       \/ fetches[u] # <<>> /\ fetches[u][1] \in Roles(u)
       \/ fetches[u] = <<>> /\ Fresh(u)
       \/ \E q \in Request : req[q].op = "remove" /\ req[q].pc = 4 /\ req[q].to = u

PageInv ==
    /\ RequestsTypeOK /\ SpaceStage
    /\ \A u \in User : mail[u] > 0 => u \in chan
    /\ \A u \in Page \ missed : Informed(u)

\* What a page that has not missed anything in this step has seen of it.
LEMMA MissedFacts ==
    ASSUME RequestsTypeOK, RequestsTypeOK', RememberPages, NEW u \in Page, u \notin missed'
    PROVE  /\ \/ u \notin missed
              \/ Len(fetches[u]) = 1 /\ Len(fetches'[u]) = 1 /\ fetches[u] # fetches'[u]
           /\ Len(fetches'[u]) <= 1
           /\ mail[u] > 0 /\ u \in chan => u \in chan'
           /\ rows[u] # rows'[u] =>
                 \E q \in Request : /\ At(q, "change", 4) \/ At(q, "remove", 3)
                                    /\ req[q].to = u /\ req'[q] # req[q]
           /\ \A q \in Request : /\ req[q].op \in {"change", "remove"} /\ req[q].pc = 4
                                 /\ req[q].to = u /\ req'[q].op = "none"
                                 => mail'[u] > 0
<1>1. /\ mail[u] \in Nat /\ mail'[u] \in Nat /\ Len(fetches[u]) \in Nat /\ Len(fetches'[u]) \in Nat
  BY ProfileAssumption DEF RequestsTypeOK, SpacesTypeOK, ChannelsTypeOK, ProfileTypeOK
<1>2. /\ \/ u \notin missed
         \/ Len(fetches[u]) = 1 /\ Len(fetches'[u]) = 1 /\ fetches[u] # fetches'[u]
      /\ ~(Len(fetches'[u]) > 1)
      /\ ~(mail[u] > 0 /\ u \in chan /\ u \notin chan')
  BY DEF RememberPages
<1>3. rows[u] # rows'[u] =>
         \E q \in Request : /\ At(q, "change", 4) \/ At(q, "remove", 3)
                            /\ req[q].to = u /\ req'[q] # req[q]
  BY DEF RememberPages
<1>4. ASSUME NEW q \in Request, req[q].op \in {"change", "remove"}, req[q].pc = 4,
             req[q].to = u, req'[q].op = "none"
      PROVE  ~(mail'[u] <= mail[u])
  BY <1>4 DEF RememberPages
<1> QED
  BY <1>1, <1>2, <1>3, <1>4

\* Nobody is told but with a channel.
LEMMA MailTold ==
    ASSUME RequestsTypeOK, NEW q \in Request, MemberStep(q), NEW u \in User
    PROVE  /\ chan' = chan
           /\ mail'[u] = mail[u] \/ (u \in chan /\ mail'[u] = mail[u] + 1)
<1>1. mail \in [User -> Nat] /\ req[q].to \in User
  BY DEF RequestsTypeOK, SpacesTypeOK, ChannelsTypeOK
<1>2. ASSUME Tell(req[q].to)
      PROVE  /\ chan' = chan
             /\ mail'[u] = mail[u] \/ (u \in chan /\ mail'[u] = mail[u] + 1)
  BY <1>1, <1>2 DEF Tell
<1>3. UNCHANGED channelVars \/ Tell(req[q].to)
  BY DEF MemberStep, MakeCall, CreateSpace, DeleteSpace, LeaveSpace, CheckMember, ChangeMemberRole,
         RemoveMember, CreateInvite, CheckInvite, WriteInvite, AcceptInvite, DeclineInvite,
         channelVars
<1> QED
  BY <1>2, <1>3 DEF channelVars

\* A page that nothing happens to, but that there may be more to come.
LEMMA InformedKept ==
    ASSUME NEW u \in Page, Informed(u),
           UNCHANGED <<fetches, role, open, retry>>, mail'[u] > 0 \/ mail'[u] = mail[u],
           rows'[u] = rows[u],
           \A p \in Request : /\ req[p].op = "remove" /\ req[p].pc = 4 /\ req[p].to = u
                              => \/ mail'[u] > 0
                                 \/ /\ req'[p].op = "remove" /\ req'[p].pc = 4
                                    /\ req'[p].to = u
    PROVE  Informed(u)'
<1>1. Roles(u)' = Roles(u)
  BY DEF Roles
<1> HIDE DEF Roles
<1> QED
  BY <1>1 DEF Informed, Fresh

LEMMA InformedMember ==
    ASSUME RequestsTypeOK, RequestsTypeOK', SpaceStage, NEW u \in Page, u \notin missed',
           u \notin missed => Informed(u), NEW q \in Request, req[q].op # "none", Members(q)
    PROVE  Informed(u)'
<1>1. /\ MemberStep(q) /\ UNCHANGED <<fetches, role, open, retry>> /\ RememberPages
      /\ SpacesTypeOK /\ Well(req[q]) /\ u \in User
  BY ProfileAssumption DEF Members, Requesting, profileVars, RequestsTypeOK
<1>2. Only(q) /\ (req'[q] = Idle \/ Alike(q))
  BY <1>1, MemberTypes DEF Steps
<1>3. Informed(u)
  BY <1>1, MissedFacts
<1>4. mail'[u] > 0 \/ mail'[u] = mail[u]
  <2>1. mail[u] \in Nat
    BY <1>1 DEF SpacesTypeOK, ChannelsTypeOK
  <2> QED
    BY <1>1, <2>1, MailTold
<1>5. ASSUME NEW p \in Request, req[p].op = "remove", req[p].pc = 4, req[p].to = u
      PROVE  \/ mail'[u] > 0
             \/ req'[p].op = "remove" /\ req'[p].pc = 4 /\ req'[p].to = u
  <2>1. CASE p # q
    BY <1>2, <1>5, <2>1 DEF Only
  <2>2. CASE p = q /\ MakeCall(q)
    <3>1. Goes(q, 4, Tail(req[q].calls))
      BY <1>1, <1>5, <2>2, MakeCallFacts
    <3> QED
      BY <1>5, <2>2, <3>1 DEF Goes, Alike
  <2>3. CASE p = q /\ ~MakeCall(q)
    <3>1. RemoveMember(q)
      BY <1>1, <1>5, <2>3, MemberKinds
    <3>2. Done(q)
      BY <1>5, <2>3, <3>1 DEF RemoveMember, At
    <3>3. req'[q].op = "none"
      BY <1>1, <3>2, DoneFacts DEF Ends, Idle, SpacesTypeOK, Asked
    <3> QED
      BY <1>1, <1>5, <2>3, <3>3, MissedFacts
  <2> QED
    BY <2>1, <2>2, <2>3
<1>6. CASE rows'[u] = rows[u]
  BY <1>1, <1>3, <1>4, <1>5, <1>6, InformedKept
<1>7. CASE rows'[u] # rows[u]
  <2>1. PICK p \in Request : /\ At(p, "change", 4) \/ At(p, "remove", 3)
                             /\ req[p].to = u /\ req'[p] # req[p]
    BY <1>1, <1>7, MissedFacts
  <2>2. p = q /\ req[q].to = u /\ (At(q, "change", 4) \/ At(q, "remove", 3)) /\ req[q].calls = <<>>
    BY <1>2, <2>1 DEF Only, At
  <2>3. Len(fetches'[u]) <= 1
    BY <1>1, MissedFacts
  <2>4. CASE At(q, "change", 4)
    <3>1. ChangeMemberRole(q)
      BY <1>1, <2>2, <2>4, MemberKinds DEF At, MakeCall
    <3>2. Done(q)
      BY <2>4, <3>1 DEF ChangeMemberRole, At
    <3>3. req'[q].op = "none"
      BY <1>1, <3>2, DoneFacts DEF Ends, Idle, SpacesTypeOK, Asked
    <3>4. mail'[u] > 0
      BY <1>1, <2>2, <2>4, <3>3, MissedFacts DEF At
    <3> QED
      BY <2>3, <3>4 DEF Informed
  <2>5. CASE At(q, "remove", 3)
    <3>1. RemoveMember(q)
      BY <1>1, <2>2, <2>5, MemberKinds DEF At, MakeCall
    <3>2. rows[u] # <<>>
      BY <1>1, <1>7, <2>2, <2>5, <3>1 DEF RemoveMember, At, SpacesTypeOK
    <3>3. <<Ask("remove", "members"), Ask("remove", "readonly")>> \in Seq(Call)
      BY CallTypes
    <3>6. Calling(q, <<Ask("remove", "members"), Ask("remove", "readonly")>>)
      BY <2>2, <2>5, <3>1, <3>2 DEF RemoveMember, At
    <3>7. req \in [Request -> Asked] /\ req[q].pc = 3
      BY <1>1, <2>5 DEF SpacesTypeOK, At, Asked
    <3>8. Goes(q, req[q].pc + 1, <<Ask("remove", "members"), Ask("remove", "readonly")>>)
      BY <3>3, <3>6, <3>7, CallingFacts
    <3>4. Goes(q, 4, <<Ask("remove", "members"), Ask("remove", "readonly")>>)
      BY <3>7, <3>8
    <3>5. req'[q].op = "remove" /\ req'[q].pc = 4 /\ req'[q].to = u
      BY <2>2, <2>5, <3>4 DEF Goes, Alike, At
    <3> QED
      BY <2>3, <3>5 DEF Informed
  <2> QED
    BY <2>2, <2>4, <2>5
<1> QED
  BY <1>6, <1>7

\* Steps that are not about pages, nor about members.
LEMMA InformedOther ==
    ASSUME RequestsTypeOK, RequestsTypeOK', NEW u \in Page, u \notin missed',
           u \notin missed => Informed(u),
           \/ \E q \in Request : req[q].op # "none" /\ (Contents(q) \/ Fails(q))
           \/ \E q \in Request : Sends(q)
           \/ \E d \in DOMAIN docs : Deletes(d)
    PROVE  Informed(u)' /\ UNCHANGED <<chan, mail>>
<1>1. /\ UNCHANGED <<fetches, role, open, retry, chan, mail, rows>> /\ RememberPages
      /\ \A p \in Request : req[p].op = "remove" /\ req[p].pc = 4 =>
            req'[p].op = "remove" /\ req'[p].pc = 4 /\ req'[p].to = req[p].to
  <2>1. SpacesTypeOK /\ ContentTypeOK /\ \A p \in Request : Well(req[p])
    BY DEF RequestsTypeOK
  <2>2. ASSUME NEW q \in Request, Contents(q)
        PROVE  /\ UNCHANGED <<fetches, role, open, retry, chan, mail, rows>> /\ RememberPages
               /\ Only(q) /\ req[q].op # "remove"
    <3>1. ContentStep(q) /\ UNCHANGED profileVars /\ RememberPages
      BY <2>2 DEF Contents, Requesting
    <3>2. UNCHANGED <<dbVars, channelVars>> /\ Only(q) /\ req[q].op # "remove"
      BY <2>1, <3>1, ContentTypes DEF Ends, Goes, ContentOps
    <3> QED
      BY <3>1, <3>2 DEF profileVars, dbVars, channelVars
  <2>3. ASSUME NEW q \in Request, Sends(q)
        PROVE  /\ UNCHANGED <<fetches, role, open, retry, chan, mail, rows>> /\ RememberPages
               /\ Only(q) /\ req[q].op # "remove"
    BY <2>1, <2>3, SendFacts DEF Sends, Requesting, profileVars, dbVars, channelVars
  <2>4. ASSUME NEW q \in Request, Fails(q)
        PROVE  /\ UNCHANGED <<fetches, role, open, retry, chan, mail, rows>> /\ RememberPages
               /\ Only(q)
               /\ \/ req[q].op # "remove"
                  \/ req'[q].op = req[q].op /\ req'[q].pc = req[q].pc /\ req'[q].to = req[q].to
    <3>1. /\ UNCHANGED <<dbVars, channelVars, profileVars>> /\ RememberPages
      BY <2>4 DEF Fails, Requesting
    <3>2. StepFails(q) => req[q].op # "remove"
      BY DEF StepFails, At
    <3>3. /\ Only(q)
          /\ \/ req[q].op # "remove"
             \/ req'[q].op = req[q].op /\ req'[q].pc = req[q].pc /\ req'[q].to = req[q].to
      BY <2>1, <2>4, <3>2, FailsFacts DEF Ends, Goes, Alike
    <3> QED
      BY <3>1, <3>3 DEF profileVars, dbVars, channelVars
  <2>5. ASSUME NEW d \in DOMAIN docs, Deletes(d)
        PROVE  UNCHANGED <<fetches, role, open, retry, chan, mail, rows, req>> /\ RememberPages
    BY <2>5 DEF Deletes, DeleteDoc, Requesting, profileVars, spacesVars, dbVars, channelVars
  <2> QED
    BY <2>2, <2>3, <2>4, <2>5 DEF Only
<1>2. Informed(u)
  BY <1>1, MissedFacts
<1> QED
  BY <1>1, <1>2, InformedKept

LEMMA RemoveAtLen ==
    ASSUME NEW S, NEW s \in Seq(S), NEW i \in DOMAIN s
    PROVE  Len(RemoveAt(s, i)) = Len(s) - 1
<1>1. i \in 1 .. Len(s) /\ Len(s) \in Nat
  OBVIOUS
<1> DEFINE front == SubSeq(s, 1, i - 1)
           back  == SubSeq(s, i + 1, Len(s))
<1>2. front \in Seq(S) /\ Len(front) = i - 1
  <2>1. \A j \in 1 .. i - 1 : s[j] \in S
    BY <1>1
  <2> QED
    BY <1>1, <2>1, SubSeqProperties
<1>3. back \in Seq(S) /\ Len(back) = Len(s) - i
  <2>1. \A j \in i + 1 .. Len(s) : s[j] \in S
    BY <1>1
  <2> QED
    BY <1>1, <2>1, SubSeqProperties
<1>4. RemoveAt(s, i) = front \o back
  BY DEF RemoveAt
<1> HIDE DEF front, back
<1>5. Len(front \o back) = Len(front) + Len(back)
  BY <1>2, <1>3, ConcatProperties
<1> QED
  BY <1>1, <1>2, <1>3, <1>4, <1>5

\* Taking one of at most one.
LEMMA OneLess ==
    ASSUME NEW n \in Nat, NEW m, m = n - 1, NEW i \in 1 .. n
    PROVE  ~(n = 1 /\ m = 1) /\ (n <= 1 => n = 1 /\ i = 1 /\ m = 0)
OBVIOUS

\* Steps of a page.
LEMMA InformedPages ==
    ASSUME RequestsTypeOK, RequestsTypeOK', NEW u \in Page, u \notin missed',
           u \notin missed => Informed(u), NEW v \in Page, Pages(v)
    PROVE  Informed(u)'
<1>1. /\ PageStep(v) /\ UNCHANGED <<rows, req>> /\ RememberPages
      /\ v \in User /\ u \in User
      /\ fetches \in [Page -> Seq(Shown \cup {"asked"})] /\ role \in [Page -> Shown]
      /\ mail \in [User -> Nat] /\ Roles(u)' = Roles(u)
      /\ mail[u] \in Nat
  BY ProfileAssumption
     DEF Pages, Requesting, dbVars, RequestsTypeOK, ProfileTypeOK, SpacesTypeOK, ChannelsTypeOK, Roles
<1>2. /\ u \notin missed \/ (Len(fetches[u]) = 1 /\ Len(fetches'[u]) = 1 /\ fetches[u] # fetches'[u])
      /\ Len(fetches'[u]) <= 1
      /\ mail[u] > 0 /\ u \in chan => u \in chan'
  BY <1>1, MissedFacts
<1>3. fetches[u] \in Seq(Shown \cup {"asked"}) /\ Len(fetches[u]) \in Nat
  BY <1>1
<1> HIDE DEF Roles
<1>4. CASE u # v
  <2>1. /\ fetches'[u] = fetches[u] /\ role'[u] = role[u] /\ mail'[u] = mail[u]
        /\ (u \in open' <=> u \in open) /\ (u \in retry' <=> u \in retry)
    BY <1>1, <1>4 DEF PageStep, ProfileStep, ConnectChannel, OnProfile, Retry, ReadProfile,
                      UpdateUser, OpenPage, LoseChannel, FetchFails, Fetch, ChannelUp,
                      ChannelDown, profileVars, spacesVars, channelVars
  <2>2. Informed(u)
    BY <1>2, <2>1
  <2> QED
    BY <1>1, <2>1, <2>2 DEF Informed, Fresh
<1>5. ASSUME u = v, Fetch(u) PROVE Informed(u)'
  <2>1. fetches'[u] = Append(fetches[u], "asked")
    BY <1>1, <1>5 DEF Fetch
  <2>2. Len(fetches'[u]) = Len(fetches[u]) + 1
    BY <1>3, <2>1
  <2>3. fetches[u] = <<>>
    BY <1>2, <1>3, <2>2
  <2>4. fetches'[u] = <<"asked">>
    BY <2>1, <2>3
  <2> QED
    BY <1>2, <2>4 DEF Informed
<1>6. CASE u = v /\ (ConnectChannel(v) \/ LoseChannel(v))
  <2>1. UNCHANGED <<open, role, fetches, retry>>
    BY <1>6 DEF ConnectChannel, LoseChannel, profileVars
  <2>2. Informed(u)
    BY <1>2, <2>1
  <2>3. mail'[u] = mail[u]
    <3>1. CASE ConnectChannel(v)
      BY <3>1 DEF ConnectChannel, ChannelUp
    <3>2. CASE LoseChannel(v)
      <4>1. u \in chan /\ u \notin chan' /\ mail'[u] = 0
        BY <1>1, <1>6, <3>2 DEF LoseChannel, ChannelDown
      <4> QED
        BY <1>1, <1>2, <4>1
    <3> QED
      BY <1>6, <3>1, <3>2
  <2> QED
    BY <1>1, <2>1, <2>2, <2>3, InformedKept
<1>7. CASE u = v /\ \E i \in DOMAIN fetches[v] : ReadProfile(v, i)
  <2>1. PICK i \in DOMAIN fetches[u] : ReadProfile(u, i)
    BY <1>7
  <2>2. PICK r \in Roles(u) : fetches' = [fetches EXCEPT ![u][i] = r]
    BY <2>1 DEF ReadProfile
  <2>3. fetches'[u] = [fetches[u] EXCEPT ![i] = r]
    BY <1>1, <2>2
  <2>4. Len(fetches'[u]) = Len(fetches[u]) /\ i \in 1 .. Len(fetches[u]) /\ DOMAIN fetches[u] = 1 .. Len(fetches[u])
    BY <1>3, <2>3
  <2>5. i = 1
    BY <1>2, <1>3, <2>4
  <2>6. fetches'[u][1] = r
    BY <2>3, <2>5
  <2>7. fetches'[u] # <<>>
    <3>1. Len(fetches'[u]) # 0
      BY <1>3, <2>4
    <3> QED
      BY <3>1
  <2> QED
    BY <1>1, <1>2, <2>2, <2>6, <2>7 DEF Informed
<1>8. CASE u = v /\ \E i \in DOMAIN fetches[v] : UpdateUser(v, i)
  <2>1. PICK i \in DOMAIN fetches[u] : UpdateUser(u, i)
    BY <1>8
  <2>2. /\ fetches'[u] = RemoveAt(fetches[u], i) /\ role'[u] = fetches[u][i]
        /\ fetches[u][i] # "asked" /\ UNCHANGED <<open, retry, mail>>
    BY <1>1, <2>1 DEF UpdateUser, spacesVars, channelVars
  <2>3. Len(fetches'[u]) = Len(fetches[u]) - 1 /\ i \in 1 .. Len(fetches[u])
    BY <1>3, <2>2, RemoveAtLen
  <2>8. ~(Len(fetches[u]) = 1 /\ Len(fetches'[u]) = 1)
    BY <1>3, <2>3, OneLess
  <2>4. Informed(u)
    BY <1>2, <2>8
  <2>9. Len(fetches[u]) <= 1
    BY <2>4 DEF Informed
  <2>10. i = 1 /\ Len(fetches[u]) = 1
    BY <1>3, <2>3, <2>9, OneLess
  <2>5. i = 1 /\ Len(fetches'[u]) = 0 /\ fetches[u] # <<>>
    <3>1. Len(fetches'[u]) = 0
      BY <2>3, <2>10
    <3>2. fetches[u] # <<>>
      BY <2>10
    <3> QED
      BY <2>10, <3>1, <3>2
  <2>6. fetches'[u] = <<>>
    <3>1. fetches'[u] \in Seq(Shown \cup {"asked"})
      BY DEF RequestsTypeOK, ProfileTypeOK
    <3> QED
      BY <2>5, <3>1
  <2>7. fetches[u] # <<"asked">>
    BY <2>2, <2>5
  <2> QED
    BY <1>1, <2>2, <2>4, <2>5, <2>6, <2>7 DEF Informed, Fresh
<1>9. CASE u = v /\ \E i \in DOMAIN fetches[v] : FetchFails(v, i)
  <2>1. u \in retry'
    BY <1>9 DEF FetchFails
  <2> QED
    BY <1>2, <2>1 DEF Informed
<1> QED
  BY <1>1, <1>4, <1>5, <1>6, <1>7, <1>8, <1>9 DEF PageStep, ProfileStep, OnProfile, Retry, OpenPage

LEMMA InformedStops ==
    ASSUME RequestsTypeOK, RequestsTypeOK', SpaceStage, NEW u \in Page, u \notin missed',
           u \notin missed => Informed(u), mail[u] > 0 => u \in chan, Stops
    PROVE  Informed(u)'
<1>1. /\ Crash /\ RememberPages /\ u \in User
      /\ fetches'[u] = <<>> /\ (fetches[u] # <<>> => u \in retry') /\ retry \subseteq retry'
      /\ UNCHANGED <<open, role>>
  BY ProfileAssumption DEF Stops, Restart, Requesting
<1>2. Len(fetches'[u]) = 0
  BY <1>1
<1>3. mail'[u] = 0 /\ u \notin chan' /\ \A p \in Request : req'[p].op = "none"
  BY <1>1 DEF Crash, Idle
<1>4. Informed(u)
  BY <1>1, <1>2, MissedFacts
<1>5. mail[u] \in Nat
  BY <1>1 DEF RequestsTypeOK, SpacesTypeOK, ChannelsTypeOK
<1>6. ~(mail[u] > 0)
  BY <1>1, <1>3, <1>5, MissedFacts
<1>7. \A p \in Request : ~(/\ req[p].op \in {"change", "remove"} /\ req[p].pc = 4
                           /\ req[p].to = u)
  BY <1>1, <1>3, MissedFacts
<1>8. rows'[u] = rows[u]
  <2>1. ASSUME rows'[u] # rows[u] PROVE FALSE
    <3>1. space = "creating"
      BY <1>1, <2>1 DEF Crash
    <3>2. \E p \in Request : req[p].op \in {"change", "remove"}
      BY <1>1, <2>1, MissedFacts DEF At
    <3> QED
      BY <3>1, <3>2 DEF SpaceStage
  <2> QED
    BY <2>1
<1>9. Roles(u)' = Roles(u)
  BY <1>8 DEF Roles
<1> HIDE DEF Roles
<1> QED
  BY <1>1, <1>2, <1>4, <1>6, <1>7, <1>9 DEF Informed, Fresh

LEMMA PageFirst == RequestsInit => PageInv
<1> SUFFICES ASSUME RequestsInit PROVE PageInv
  OBVIOUS
<1>1. RequestsTypeOK /\ SpaceStage
  BY TypeInit, AccessInit DEF AccessInv
<1>2. /\ open = {} /\ fetches = [u \in Page |-> <<>>] /\ mail = [u \in User |-> 0]
  BY DEF RequestsInit, ProfileInit, ChannelsInit
<1>3. ASSUME NEW u \in Page PROVE Informed(u)
  <2>1. fetches[u] = <<>> /\ u \notin open
    BY <1>2
  <2>2. Len(fetches[u]) <= 1
    <3>1. Len(fetches[u]) = 0
      BY <2>1
    <3> QED
      BY <3>1
  <2> HIDE DEF Fresh, Roles
  <2> QED
    BY <2>1, <2>2 DEF Informed
<1> QED
  BY <1>1, <1>2, <1>3 DEF PageInv

LEMMA PageNext ==
    ASSUME PageInv, [RequestsNext]_requestsVars
    PROVE  PageInv'
<1>1. RequestsTypeOK /\ SpaceStage /\ RequestsTypeOK' /\ SpaceStage'
  BY TypeStep, StageStep DEF PageInv
<1>2. \/ UNCHANGED requestsVars
      \/ \E q \in Request : /\ req[q].op # "none"
                            /\ Members(q) \/ Contents(q) \/ Fails(q)
      \/ \E q \in Request : Sends(q)
      \/ \E d \in DOMAIN docs : Deletes(d)
      \/ \E u \in Page : Pages(u)
      \/ Stops
  BY <1>1, StepKinds DEF RequestsTypeOK
<1>3. ASSUME NEW u \in User PROVE mail'[u] > 0 => u \in chan'
  <2>1. mail[u] > 0 => u \in chan
    BY <1>3 DEF PageInv
  <2>2. UNCHANGED <<chan, mail>> => (mail'[u] > 0 => u \in chan')
    BY <2>1
  <2>3. ASSUME NEW q \in Request, Members(q) PROVE mail'[u] > 0 => u \in chan'
    <3>1. MemberStep(q)
      BY <2>3 DEF Members
    <3> QED
      BY <1>1, <2>1, <3>1, MailTold
  <2>4. ASSUME NEW q \in Request, Contents(q) \/ Fails(q) \/ Sends(q) PROVE UNCHANGED <<chan, mail>>
    <3>1. Fails(q) \/ Sends(q) => UNCHANGED channelVars
      BY <1>1, SendFacts DEF Fails, Sends, RequestsTypeOK
    <3>2. Contents(q) => UNCHANGED channelVars
      BY <1>1, ContentTypes DEF Contents, RequestsTypeOK
    <3> QED
      BY <2>4, <3>1, <3>2 DEF channelVars
  <2>5. ASSUME NEW d \in DOMAIN docs, Deletes(d) PROVE UNCHANGED <<chan, mail>>
    BY <2>5 DEF Deletes, DeleteDoc, spacesVars, channelVars
  <2>6. ASSUME NEW v \in Page, Pages(v) PROVE mail'[u] > 0 => u \in chan'
    <3>1. mail \in [User -> Nat] /\ v \in User
      BY <1>1, ProfileAssumption DEF RequestsTypeOK, SpacesTypeOK, ChannelsTypeOK
    <3>2. PageStep(v)
      BY <2>6 DEF Pages
    <3>3. \/ UNCHANGED mail /\ chan \subseteq chan'
          \/ mail' = [mail EXCEPT ![v] = @ - 1] /\ mail[v] > 0 /\ chan' = chan
          \/ mail' = [mail EXCEPT ![v] = 0] /\ chan' = chan \ {v}
      BY <3>2 DEF PageStep, ProfileStep, ConnectChannel, OnProfile, Retry, ReadProfile,
                  UpdateUser, OpenPage, LoseChannel, FetchFails, ChannelUp, ChannelDown,
                  spacesVars, channelVars
    <3> QED
      BY <2>1, <3>1, <3>3
  <2>7. CASE Stops
    BY <2>7 DEF Stops, Restart, Crash
  <2>8. CASE UNCHANGED requestsVars
    BY <2>2, <2>8 DEF requestsVars, spacesVars, channelVars
  <2> QED
    BY <1>2, <2>2, <2>3, <2>4, <2>5, <2>6, <2>7, <2>8
<1>4. ASSUME NEW u \in Page, u \notin missed' PROVE Informed(u)'
  <2>1. u \notin missed => Informed(u)
    BY DEF PageInv
  <2>2. mail[u] > 0 => u \in chan
    BY ProfileAssumption DEF PageInv
  <2>3. CASE UNCHANGED requestsVars
    <3>1. /\ UNCHANGED <<fetches, role, open, retry, mail, rows, req>> /\ u \notin missed
      BY <1>4, <2>3 DEF requestsVars, profileVars, spacesVars, dbVars, channelVars
    <3> QED
      BY <2>1, <3>1, InformedKept
  <2>4. CASE Stops
    BY <1>1, <1>4, <2>1, <2>2, <2>4, InformedStops
  <2>5. ASSUME NEW v \in Page, Pages(v) PROVE Informed(u)'
    BY <1>1, <1>4, <2>1, <2>5, InformedPages
  <2>6. ASSUME NEW q \in Request, req[q].op # "none", Members(q) PROVE Informed(u)'
    BY <1>1, <1>4, <2>1, <2>6, InformedMember
  <2> QED
    BY <1>1, <1>2, <1>4, <2>1, <2>3, <2>4, <2>5, <2>6, InformedOther
<1> QED
  BY <1>1, <1>3, <1>4 DEF PageInv

\* A page to which nothing is on its way, and that has missed nothing, shows the user's
\* role: whatever changes it, and whenever the profile is read, told of and shown.
THEOREM ProfileFresh == RequestsSpec => []ProfileFreshIfTold
<1>1. PageInv => ProfileFreshIfTold
  <2> SUFFICES ASSUME PageInv, NEW u \in Page \ missed, Settled(u),
                      ~\E q \in Request : req[q].op \in {"change", "remove"} /\ req[q].to = u
               PROVE  Fresh(u)
    BY DEF ProfileFreshIfTold
  <2>1. Informed(u)
    BY DEF PageInv
  <2>2. u \in open /\ mail[u] = 0 /\ fetches[u] = <<>> /\ u \notin retry
    BY DEF Settled
  <2>3. <<>> # <<"asked">>
    OBVIOUS
  <2> QED
    BY <2>1, <2>2, <2>3 DEF Informed
<1>2. PageInv /\ [RequestsNext]_requestsVars => PageInv'
  BY PageNext
<1> QED
  BY <1>1, <1>2, PageFirst, PTL DEF RequestsSpec

-----------------------------------------------------------------------------
(* Categories: registers and their stamps *)

\* A set of numbers below a bound has a greatest.
LEMMA MaxOfBounded ==
    ASSUME NEW S, S \subseteq Nat, S # {}, NEW k \in Nat, \A n \in S : n <= k
    PROVE  Max(S) \in S /\ \A n \in S : n <= Max(S)
<1> DEFINE Gaps == {k - n : n \in S}
<1>1. Gaps \subseteq Nat /\ Gaps # {}
  <2>1. \A n \in S : n \in Nat /\ n <= k
    OBVIOUS
  <2>2. \A n \in S : k - n \in Nat
    BY <2>1
  <2> QED
    BY <2>2
<1>2. PICK g \in Gaps : \A h \in Gaps : <<h, g>> \notin OpToRel(<, Nat)
  <2> HIDE DEF Gaps
  <2> QED
    BY <1>1, WFMin, NatLessThanWellFounded
<1>3. \A h \in Gaps : g <= h
  <2>1. SUFFICES ASSUME NEW h \in Gaps, h < g PROVE FALSE
    BY <1>1
  <2>2. <<h, g>> \in OpToRel(<, Nat)
    BY <1>1, <2>1 DEF OpToRel
  <2> QED
    BY <1>2, <2>2
<1>4. PICK m \in S : g = k - m
  OBVIOUS
<1>5. ASSUME NEW n \in S PROVE m >= n
  <2>1. k - n \in Gaps /\ n \in Nat /\ m \in Nat
    OBVIOUS
  <2>2. k - m <= k - n
    BY <1>3, <1>4, <2>1
  <2> QED
    BY <2>1, <2>2
<1> QED
  BY <1>5 DEF Max

Slot == [at: Stamp, value: Category \cup {Top, None}]
Slip == [at: Stamp, value: SUBSET Category]

LEMMA StampTypes ==
    ASSUME NEW t \in Stamp
    PROVE  /\ t[1] \in Nat /\ t[2] \in Nat /\ t[2] \in Browser \cup {0}
           /\ t = <<t[1], t[2]>>
<1>1. PICK n \in Nat, w \in Browser \cup {0} : t = <<n, w>>
  BY DEF Stamp
<1>2. w \in Nat
  BY CategoriesAssumption
<1> QED
  BY <1>1, <1>2

\* Of any registers one is the later, or they have one stamp.
LEMMA StampOrder ==
    ASSUME NEW x, x.at \in Stamp, NEW y, y.at \in Stamp
    PROVE  /\ Later(x, y) => ~Later(y, x)
           /\ ~Later(x, y) /\ ~Later(y, x) => x.at = y.at
           /\ x.at = y.at => ~Later(x, y)
           /\ x.at[1] > y.at[1] => Later(x, y)
           /\ Later(x, y) => x.at[1] >= y.at[1]
           /\ x.at[2] = y.at[2] => (Later(x, y) <=> x.at[1] > y.at[1])
BY StampTypes DEF Later

LEMMA StampChain ==
    ASSUME NEW x, x.at \in Stamp, NEW y, y.at \in Stamp, NEW z, z.at \in Stamp
    PROVE  /\ Later(x, y) /\ Later(y, z) => Later(x, z)
           /\ Later(x, z) => Later(x, y) \/ Later(y, z)
BY StampTypes DEF Later

\* One register is another, or a later write to it.
AheadOf(x, y) == x = y \/ Later(x, y)

EditingTypeOK ==
    /\ meta \in [Browser -> [Category -> Slot]]
    /\ filed \in [Browser -> [Paper -> Slip]]
    /\ view \in [Browser -> Category \cup {Top}]
    /\ edits \in Nat /\ crossed \in BOOLEAN
    /\ since \in [Browser -> SUBSET {"delete", "move", "grow"}]

\* Stamps are not ahead of the edits, and tell what was written.
Stamped ==
    /\ \A x \in Browser, c \in Category :
        /\ meta[x][c].at[1] <= edits
        /\ meta[x][c].at = Never => meta[x][c].value = None
    /\ \A x, y \in Browser, c \in Category :
        /\ meta[x][c].at = meta[y][c].at => meta[x][c] = meta[y][c]
        \* No page has of another what that has not itself.
        /\ meta[x][c].at[2] = y => ~Later(meta[x][c], meta[y][c])

\* Pages get what another has written in its order: who lacks one of its writes, and
\* has no later one there, has none that came after it.
Causal ==
    \A x, y, w \in Browser, c, d \in Category :
        /\ meta[x][c].at[2] = w /\ Later(meta[x][c], meta[y][c])
        /\ meta[y][d].at[2] = w
        => meta[y][d].at[1] < meta[x][c].at[1]

Viewed == \A x \in Browser : view[x] \in Known(x) \cup {Top}

-----------------------------------------------------------------------------
(* Categories: steps *)

\* Page x writes v to category c, with a clock beyond all it has.
Writes(x, c, v) ==
    /\ meta' \in [Browser -> [Category -> Slot]]
    /\ meta'[x][c].value = v /\ meta'[x][c].at[2] = x
    /\ meta'[x][c].at[1] <= edits + 1
    /\ \A d \in Category : meta[x][d].at[1] < meta'[x][c].at[1]
    /\ \A d \in Category \ {c} : meta'[x][d] = meta[x][d]
    /\ \A y \in Browser \ {x} : meta'[y] = meta[y]

LEMMA WrittenFacts ==
    ASSUME EditingTypeOK, Stamped, NEW x \in Browser, NEW c \in Category,
           NEW v \in Category \cup {Top, None},
           meta' = [meta EXCEPT ![x] = Written(meta[x], c, x, v)]
    PROVE  Writes(x, c, v)
<1> DEFINE clocks == {meta[x][d].at[1] : d \in DOMAIN meta[x]}
           k == Clock(meta[x])
           new == [at |-> <<k + 1, x>>, value |-> v]
<1>1. meta[x] \in [Category -> Slot] /\ edits \in Nat
  BY DEF EditingTypeOK
<1>2. \A d \in Category : meta[x][d].at \in Stamp /\ meta[x][d].at[1] \in Nat
  BY <1>1, StampTypes DEF Slot
<1>3. clocks \subseteq Nat /\ clocks # {} /\ \A n \in clocks : n <= edits
  <2>1. DOMAIN meta[x] = Category
    BY <1>1
  <2>2. \A d \in Category : meta[x][d].at[1] <= edits
    BY DEF Stamped
  <2>3. meta[x][c].at[1] \in clocks
    BY <2>1
  <2>4. \A n \in clocks : n \in Nat /\ n <= edits
    BY <1>2, <2>1, <2>2
  <2> QED
    BY <2>3, <2>4
<1>4. k = Max(clocks)
  BY DEF Clock
<1>5. k \in clocks /\ \A n \in clocks : n <= k
  <2> HIDE DEF clocks, k
  <2> QED
    BY <1>1, <1>3, <1>4, MaxOfBounded
<1>6. k \in Nat /\ k <= edits /\ \A d \in Category : meta[x][d].at[1] <= k
  <2>1. \A d \in Category : meta[x][d].at[1] \in clocks
    BY <1>1
  <2> HIDE DEF clocks, k
  <2> QED
    BY <1>3, <1>5, <2>1
<1> HIDE DEF clocks, k
<1>7. <<k + 1, x>> \in Stamp
  BY <1>6 DEF Stamp
<1>8. new \in Slot
  BY <1>7 DEF Slot
<1>9. Written(meta[x], c, x, v) = [meta[x] EXCEPT ![c] = new]
  BY DEF Written, k
<1>10. /\ [meta[x] EXCEPT ![c] = new] \in [Category -> Slot]
       /\ [meta[x] EXCEPT ![c] = new][c] = new
       /\ \A d \in Category \ {c} : [meta[x] EXCEPT ![c] = new][d] = meta[x][d]
  BY <1>1, <1>8
<1>11. meta \in [Browser -> [Category -> Slot]]
  BY DEF EditingTypeOK
<1>12. /\ meta' \in [Browser -> [Category -> Slot]]
       /\ meta'[x] = [meta[x] EXCEPT ![c] = new]
       /\ \A y \in Browser \ {x} : meta'[y] = meta[y]
  BY <1>9, <1>10, <1>11
<1>13. /\ meta'[x][c] = new
       /\ \A d \in Category \ {c} : meta'[x][d] = meta[x][d]
  BY <1>10, <1>12
<1>14. new.value = v /\ new.at[2] = x /\ new.at[1] = k + 1
  OBVIOUS
<1>15. \A d \in Category : meta[x][d].at[1] < k + 1
  BY <1>2, <1>6
<1> QED
  BY <1>1, <1>6, <1>12, <1>13, <1>14, <1>15 DEF Writes

\* Page x gets what page y has of the map: of each register the later.
Joins(x, y) ==
    /\ meta' \in [Browser -> [Category -> Slot]]
    /\ \A c \in Category :
        \/ meta'[x][c] = meta[y][c] /\ Later(meta[y][c], meta[x][c])
        \/ meta'[x][c] = meta[x][c] /\ ~Later(meta[y][c], meta[x][c])
    /\ \A z \in Browser \ {x} : meta'[z] = meta[z]

LEMMA MergedFacts ==
    ASSUME EditingTypeOK, NEW x \in Browser, NEW y \in Browser, MergeMeta(x, y)
    PROVE  Joins(x, y)
<1> DEFINE new == Merged(meta[y], meta[x])
<1>1. meta \in [Browser -> [Category -> Slot]] /\ meta[x] \in [Category -> Slot]
      /\ meta[y] \in [Category -> Slot]
  BY DEF EditingTypeOK
<1>2. DOMAIN meta[y] = Category
  BY <1>1
<1>3. new = [c \in Category |-> IF Later(meta[y][c], meta[x][c]) THEN meta[y][c]
                                ELSE meta[x][c]]
  BY <1>2 DEF Merged
<1>4. new \in [Category -> Slot]
  BY <1>1, <1>3
<1>5. meta' = [meta EXCEPT ![x] = new]
  BY DEF MergeMeta
<1> HIDE DEF new
<1>6. /\ meta' \in [Browser -> [Category -> Slot]] /\ meta'[x] = new
      /\ \A z \in Browser \ {x} : meta'[z] = meta[z]
  BY <1>1, <1>4, <1>5
<1> QED
  BY <1>3, <1>6 DEF Joins

-----------------------------------------------------------------------------
(* Categories: what lasts *)

LEMMA SlotTypes ==
    ASSUME NEW f, f \in [Browser -> [Category -> Slot]]
    PROVE  \A y \in Browser, c \in Category :
               /\ f[y][c].at \in Stamp /\ f[y][c].at[1] \in Nat
               /\ f[y][c].value \in Category \cup {Top, None}
BY StampTypes DEF Slot

\* What others have of page x it wrote before.
LEMMA WritesLast ==
    ASSUME EditingTypeOK, Stamped, NEW x \in Browser, NEW c \in Category, NEW v,
           Writes(x, c, v), NEW y \in Browser, NEW d \in Category, meta[y][d].at[2] = x
    PROVE  meta[y][d].at[1] < meta'[x][c].at[1]
<1>1. /\ meta[y][d].at \in Stamp /\ meta[y][d].at[1] \in Nat
      /\ meta[x][d].at \in Stamp /\ meta[x][d].at[1] \in Nat
      /\ meta'[x][c].at[1] \in Nat
  BY SlotTypes DEF EditingTypeOK, Writes
<1>2. ~Later(meta[y][d], meta[x][d])
  BY DEF Stamped
<1>3. meta[y][d].at[1] <= meta[x][d].at[1]
  BY <1>1, <1>2, StampOrder
<1>4. meta[x][d].at[1] < meta'[x][c].at[1]
  BY DEF Writes
<1> QED
  BY <1>1, <1>3, <1>4

LEMMA StampedWrites ==
    ASSUME EditingTypeOK, Stamped, NEW x \in Browser, NEW c \in Category, NEW v,
           Writes(x, c, v), edits' = edits + 1
    PROVE  Stamped'
<1> DEFINE new == meta'[x][c]
<1>1. \A y \in Browser, d \in Category :
          /\ meta[y][d].at \in Stamp /\ meta[y][d].at[1] \in Nat
          /\ meta'[y][d].at \in Stamp /\ meta'[y][d].at[1] \in Nat
          /\ x # y \/ c # d => meta'[y][d] = meta[y][d]
  BY SlotTypes DEF EditingTypeOK, Writes
<1>2. new.at[2] = x /\ new.at[1] <= edits + 1 /\ meta[x][c].at[1] < new.at[1]
  BY DEF Writes
<1>3. \A y \in Browser, d \in Category :
          meta[y][d].at[2] = x => meta[y][d].at[1] < new.at[1]
  BY WritesLast
<1>4. edits \in Nat
  BY DEF EditingTypeOK
<1> HIDE DEF new
<1>5. ASSUME NEW y \in Browser, NEW d \in Category
      PROVE  /\ meta'[y][d].at[1] <= edits'
             /\ meta'[y][d].at = Never => meta'[y][d].value = None
  <2>1. CASE y = x /\ d = c
    <3>1. new.at[1] # 0
      BY <1>1, <1>2
    <3>2. new.at # Never
      BY <3>1 DEF Never
    <3> QED
      BY <1>2, <2>1, <3>2 DEF new
  <2>2. CASE y # x \/ d # c
    <3>1. /\ meta[y][d].at[1] <= edits
          /\ meta[y][d].at = Never => meta[y][d].value = None
      BY DEF Stamped
    <3> QED
      BY <1>1, <1>4, <2>2, <3>1
  <2> QED
    BY <2>1, <2>2
<1>6. ASSUME NEW y \in Browser, NEW z \in Browser, NEW d \in Category
      PROVE  /\ meta'[y][d].at = meta'[z][d].at => meta'[y][d] = meta'[z][d]
             /\ meta'[y][d].at[2] = z => ~Later(meta'[y][d], meta'[z][d])
  <2>1. /\ meta[y][d].at = meta[z][d].at => meta[y][d] = meta[z][d]
        /\ meta[y][d].at[2] = z => ~Later(meta[y][d], meta[z][d])
    BY DEF Stamped
  <2>2. CASE y = z
    BY <1>1, <2>2, StampOrder
  <2>3. CASE d # c \/ (y # x /\ z # x)
    BY <1>1, <2>1, <2>3
  <2>4. CASE d = c /\ y = x /\ z # x
    <3>1. meta'[y][d] = new /\ meta'[z][d] = meta[z][d]
      BY <1>1, <2>4 DEF new
    <3> QED
      BY <1>1, <1>2, <1>3, <2>4, <3>1
  <2>5. CASE d = c /\ y # x /\ z = x
    <3>1. meta'[z][d] = new /\ meta'[y][d] = meta[y][d]
      BY <1>1, <2>5 DEF new
    <3>2. meta[y][d].at[2] = x => meta[y][d].at[1] < new.at[1]
      BY <1>3
    <3>3. new.at \in Stamp /\ new.at[1] \in Nat
      BY <1>1 DEF new
    <3>4. meta[y][d].at[1] < new.at[1] => ~Later(meta[y][d], new)
      BY <1>1, <3>3, StampOrder
    <3>5. meta[y][d].at = new.at => meta[y][d].at[2] = x
      BY <1>2
    <3>6. meta[y][d].at # new.at
      BY <1>1, <3>2, <3>3, <3>5
    <3> QED
      BY <2>5, <3>1, <3>2, <3>4, <3>6
  <2> QED
    BY <2>2, <2>3, <2>4, <2>5
<1> QED
  BY <1>5, <1>6 DEF Stamped

LEMMA CausalWrites ==
    ASSUME EditingTypeOK, Stamped, Causal, NEW x \in Browser, NEW c \in Category, NEW v,
           Writes(x, c, v)
    PROVE  Causal'
<1> DEFINE new == meta'[x][c]
<1>1. \A y \in Browser, d \in Category :
          /\ meta[y][d].at \in Stamp /\ meta[y][d].at[1] \in Nat
          /\ meta'[y][d].at \in Stamp /\ meta'[y][d].at[1] \in Nat
          /\ x # y \/ c # d => meta'[y][d] = meta[y][d]
  BY SlotTypes DEF EditingTypeOK, Writes
<1>2. new.at[2] = x /\ meta[x][c].at[1] < new.at[1]
  BY DEF Writes
<1>3. \A y \in Browser, d \in Category :
          meta[y][d].at[2] = x => meta[y][d].at[1] < new.at[1]
  BY WritesLast
<1>4. new.at \in Stamp /\ new.at[1] \in Nat
  BY <1>1
<1> HIDE DEF new
<1>5. SUFFICES ASSUME NEW y \in Browser, NEW z \in Browser, NEW w \in Browser,
                      NEW d \in Category, NEW e \in Category,
                      meta'[y][d].at[2] = w, Later(meta'[y][d], meta'[z][d]),
                      meta'[z][e].at[2] = w
               PROVE  meta'[z][e].at[1] < meta'[y][d].at[1]
  BY DEF Causal
<1>6. y # z
  BY <1>1, <1>5, StampOrder
<1>7. /\ meta[y][d].at[2] = w /\ Later(meta[y][d], meta[z][d]) /\ meta[z][e].at[2] = w
      => meta[z][e].at[1] < meta[y][d].at[1]
  BY DEF Causal
<1>8. CASE y # x /\ z # x
  BY <1>1, <1>5, <1>7, <1>8
<1>9. CASE y = x
  <2>1. meta'[z] = meta[z]
    BY <1>6, <1>9 DEF Writes
  <2>2. CASE d = c
    BY <1>2, <1>3, <1>5, <1>9, <2>1, <2>2 DEF new
  <2>3. CASE d # c
    BY <1>1, <1>5, <1>7, <1>9, <2>1, <2>3
  <2> QED
    BY <2>2, <2>3
<1>10. CASE z = x
  <2>1. meta'[y][d] = meta[y][d]
    BY <1>1, <1>6, <1>10
  <2>2. Later(meta[y][d], meta[x][d])
    <3>1. CASE d # c
      BY <1>1, <1>5, <1>10, <2>1, <3>1
    <3>2. CASE d = c
      <4>1. Later(meta[y][c], new)
        BY <1>5, <1>10, <2>1, <3>2 DEF new
      <4>2. Later(new, meta[x][c])
        BY <1>1, <1>2, <1>4, StampOrder
      <4> QED
        BY <1>1, <1>4, <3>2, <4>1, <4>2, StampChain
    <3> QED
      BY <3>1, <3>2
  <2>3. CASE e # c
    BY <1>1, <1>5, <1>7, <1>10, <2>1, <2>2, <2>3
  <2>4. CASE e = c
    <3>1. w = x
      BY <1>2, <1>5, <1>10, <2>4 DEF new
    <3>2. ~Later(meta[y][d], meta[x][d])
      BY <1>5, <2>1, <3>1 DEF Stamped
    <3> QED
      BY <2>2, <3>2
  <2> QED
    BY <2>3, <2>4
<1> QED
  BY <1>8, <1>9, <1>10

LEMMA StampedJoins ==
    ASSUME EditingTypeOK, Stamped, NEW x \in Browser, NEW w \in Browser,
           Joins(x, w), UNCHANGED edits
    PROVE  Stamped'
<1>1. \A y \in Browser, d \in Category :
          /\ meta[y][d].at \in Stamp /\ meta'[y][d].at \in Stamp
          /\ x # y => meta'[y][d] = meta[y][d]
  BY SlotTypes DEF EditingTypeOK, Joins
<1>2. ASSUME NEW d \in Category
      PROVE  \/ meta'[x][d] = meta[w][d] /\ Later(meta[w][d], meta[x][d])
             \/ meta'[x][d] = meta[x][d]
  BY DEF Joins
<1>3. ASSUME NEW y \in Browser, NEW d \in Category
      PROVE  /\ meta'[y][d].at[1] <= edits'
             /\ meta'[y][d].at = Never => meta'[y][d].value = None
  <2>1. \E z \in Browser : meta'[y][d] = meta[z][d]
    BY <1>1, <1>2
  <2> QED
    BY <2>1 DEF Stamped
<1>4. ASSUME NEW y \in Browser, NEW z \in Browser, NEW d \in Category
      PROVE  meta'[y][d].at = meta'[z][d].at => meta'[y][d] = meta'[z][d]
  <2>1. \E u \in Browser : meta'[y][d] = meta[u][d]
    BY <1>1, <1>2
  <2>2. \E v \in Browser : meta'[z][d] = meta[v][d]
    BY <1>1, <1>2
  <2> QED
    BY <2>1, <2>2 DEF Stamped
<1>5. ASSUME NEW y \in Browser, NEW z \in Browser, NEW d \in Category,
             meta'[y][d].at[2] = z
      PROVE  ~Later(meta'[y][d], meta'[z][d])
  <2>1. PICK u \in Browser : meta'[y][d] = meta[u][d]
    BY <1>1, <1>2
  <2>2. ~Later(meta[u][d], meta[z][d])
    BY <1>5, <2>1 DEF Stamped
  <2>3. meta'[z][d] = meta[z][d] \/ Later(meta'[z][d], meta[z][d])
    BY <1>1, <1>2
  <2> QED
    BY <1>1, <2>1, <2>2, <2>3, StampChain
<1> QED
  BY <1>3, <1>4, <1>5 DEF Stamped

LEMMA CausalJoins ==
    ASSUME EditingTypeOK, Causal, NEW x \in Browser, NEW u \in Browser, Joins(x, u)
    PROVE  Causal'
<1>1. \A y \in Browser, d \in Category :
          /\ meta[y][d].at \in Stamp /\ meta'[y][d].at \in Stamp
          /\ x # y => meta'[y][d] = meta[y][d]
  BY SlotTypes DEF EditingTypeOK, Joins
<1>2. ASSUME NEW d \in Category
      PROVE  \/ meta'[x][d] = meta[u][d] /\ Later(meta[u][d], meta[x][d])
             \/ meta'[x][d] = meta[x][d] /\ ~Later(meta[u][d], meta[x][d])
  BY DEF Joins
<1>3. SUFFICES ASSUME NEW y \in Browser, NEW z \in Browser, NEW w \in Browser,
                      NEW d \in Category, NEW e \in Category,
                      meta'[y][d].at[2] = w, Later(meta'[y][d], meta'[z][d]),
                      meta'[z][e].at[2] = w
               PROVE  meta'[z][e].at[1] < meta'[y][d].at[1]
  BY DEF Causal
<1>4. PICK s \in Browser : meta'[y][d] = meta[s][d]
  BY <1>1, <1>2
<1>5. PICK t \in Browser : meta'[z][e] = meta[t][e] /\ (t = z \/ (t = u /\ z = x))
  BY <1>1, <1>2
<1>6. Later(meta[s][d], meta[t][d])
  <2>1. CASE z # x
    BY <1>1, <1>3, <1>4, <1>5, <2>1
  <2>2. CASE z = x
    <3>1. Later(meta[s][d], meta'[x][d])
      BY <1>3, <1>4, <2>2
    <3>2. Later(meta[s][d], meta[x][d]) /\ Later(meta[s][d], meta[u][d])
      <4>1. CASE meta'[x][d] = meta[u][d] /\ Later(meta[u][d], meta[x][d])
        BY <1>1, <3>1, <4>1, StampChain
      <4>2. CASE meta'[x][d] = meta[x][d] /\ ~Later(meta[u][d], meta[x][d])
        BY <1>1, <3>1, <4>2, StampChain
      <4> QED
        BY <1>2, <4>1, <4>2
    <3> QED
      BY <1>5, <2>2, <3>2
  <2> QED
    BY <2>1, <2>2
<1> QED
  BY <1>3, <1>4, <1>5, <1>6 DEF Causal

-----------------------------------------------------------------------------
(* Categories: what an edit does *)

\* Page x changes no category; it may file documents under those it has.
Files(x) ==
    /\ UNCHANGED meta
    /\ \A p \in Paper : filed'[x][p].value \subseteq filed[x][p].value \cup Known(x)

\* A new category, below one it has or on top.
Creates(x) ==
    \E c \in Category, v \in Known(x) \cup {Top} :
        /\ \A y \in Browser : meta[y][c].at = Never
        /\ Writes(x, c, v)
        /\ UNCHANGED filed

Reparents(x) ==
    \E c \in Known(x), v \in Known(x) \cup {Top} :
        Writes(x, c, v) /\ UNCHANGED filed

\* A category is deleted, and no document is filed under it.
Drops(x) ==
    \E c \in Known(x) :
        /\ Writes(x, c, None)
        /\ \A p \in Paper : filed'[x][p].value = filed[x][p].value \ {c}

\* Page x edits: what others have is as it was.
Edited(x) ==
    /\ filed' \in [Browser -> [Paper -> Slip]]
    /\ view' \in [Browser -> Category \cup {Top}]
    /\ \A p \in Paper : AheadOf(filed'[x][p], filed[x][p])
    /\ view'[x] \in Known(x)' \cup {Top}
    /\ \A y \in Browser \ {x} : filed'[y] = filed[y] /\ view'[y] = view[y]
    /\ Files(x) \/ Creates(x) \/ Reparents(x) \/ Drops(x)

LEMMA LookFacts ==
    ASSUME EditingTypeOK, NEW x \in Browser, Look(x)
    PROVE  /\ view' \in [Browser -> Category \cup {Top}]
           /\ view'[x] \in Known(x)' \cup {Top}
           /\ \A y \in Browser \ {x} : view'[y] = view[y]
<1>1. view \in [Browser -> Category \cup {Top}]
  BY DEF EditingTypeOK
<1>2. view' = [view EXCEPT ![x] = IF view[x] \in Known(x)' THEN view[x] ELSE Top]
  BY DEF Look
<1>3. view'[x] = IF view[x] \in Known(x)' THEN view[x] ELSE Top
  BY <1>1, <1>2
<1> QED
  BY <1>1, <1>2, <1>3

LEMMA KnownFacts ==
    ASSUME NEW x \in Browser
    PROVE  /\ Known(x) \subseteq Category /\ InTree(x) \subseteq Known(x)
           /\ Top \notin Known(x) /\ None \notin Known(x) /\ None # Top
BY CategoriesAssumption DEF Known, InTree

LEMMA RefiledFacts ==
    ASSUME NEW reg \in Slip, NEW x \in Browser, NEW cs \in SUBSET Category
    PROVE  /\ Refiled(reg, x, cs) \in Slip /\ Refiled(reg, x, cs).value = cs
           /\ Later(Refiled(reg, x, cs), reg)
<1>1. reg.at \in Stamp /\ reg.at[1] \in Nat
  BY StampTypes DEF Slip
<1>2. <<reg.at[1] + 1, x>> \in Stamp
  BY <1>1 DEF Stamp
<1>3. /\ Refiled(reg, x, cs).at = <<reg.at[1] + 1, x>>
      /\ Refiled(reg, x, cs).value = cs
  BY DEF Refiled
<1>4. Refiled(reg, x, cs) \in Slip
  BY <1>2 DEF Slip, Refiled
<1>5. Refiled(reg, x, cs).at[1] > reg.at[1]
  BY <1>1, <1>3
<1> QED
  BY <1>1, <1>2, <1>3, <1>4, <1>5, StampOrder

LEMMA FileUnderFacts ==
    ASSUME EditingTypeOK, Viewed, NEW x \in Browser, NEW p \in Paper,
           NEW cs \in SUBSET Category, cs \subseteq filed[x][p].value \cup Known(x),
           FileUnder(x, p, cs)
    PROVE  Edited(x)
<1> DEFINE new == Refiled(filed[x][p], x, cs)
<1>1. filed \in [Browser -> [Paper -> Slip]] /\ filed[x] \in [Paper -> Slip]
      /\ filed[x][p] \in Slip
  BY DEF EditingTypeOK
<1>2. new \in Slip /\ new.value = cs /\ Later(new, filed[x][p])
  BY <1>1, RefiledFacts
<1>3. filed' = [filed EXCEPT ![x][p] = new] /\ UNCHANGED <<meta, view>>
  BY DEF FileUnder
<1> HIDE DEF new
<1>4. /\ filed' \in [Browser -> [Paper -> Slip]]
      /\ filed'[x] = [filed[x] EXCEPT ![p] = new]
      /\ \A y \in Browser \ {x} : filed'[y] = filed[y]
  BY <1>1, <1>2, <1>3
<1>5. /\ filed'[x][p] = new
      /\ \A q \in Paper \ {p} : filed'[x][q] = filed[x][q]
  BY <1>1, <1>4
<1>6. \A q \in Paper : AheadOf(filed'[x][q], filed[x][q])
  BY <1>2, <1>5 DEF AheadOf
<1>7. Files(x)
  BY <1>2, <1>3, <1>5 DEF Files
<1>8. view'[x] \in Known(x)' \cup {Top} /\ view' \in [Browser -> Category \cup {Top}]
      /\ \A y \in Browser \ {x} : view'[y] = view[y]
  BY <1>3 DEF Viewed, Known, EditingTypeOK
<1> QED
  BY <1>4, <1>6, <1>7, <1>8 DEF Edited

LEMMA MapEditFacts ==
    ASSUME EditingTypeOK, Stamped, NEW x \in Browser, NEW c \in Category,
           NEW v \in Category \cup {Top, None},
           meta' = [meta EXCEPT ![x] = Written(@, c, x, v)], Look(x)
    PROVE  /\ Writes(x, c, v)
           /\ view' \in [Browser -> Category \cup {Top}]
           /\ view'[x] \in Known(x)' \cup {Top}
           /\ \A y \in Browser \ {x} : view'[y] = view[y]
<1>1. meta' = [meta EXCEPT ![x] = Written(meta[x], c, x, v)]
  OBVIOUS
<1>2. Writes(x, c, v)
  BY <1>1, WrittenFacts
<1> QED
  BY <1>2, LookFacts

LEMMA UpdateFacts ==
    ASSUME EditingTypeOK, Stamped, NEW x \in Browser, NEW c \in Category,
           NEW v \in Category \cup {Top}, UpdateCategory(x, c, v),
           \/ c \in Known(x) /\ v \in Known(x) \cup {Top}
           \/ (\A y \in Browser : meta[y][c].at = Never) /\ v \in Known(x) \cup {Top}
    PROVE  Edited(x)
<1>1. UNCHANGED filed /\ meta' = [meta EXCEPT ![x] = Written(@, c, x, v)] /\ Look(x)
  BY DEF UpdateCategory
<1>2. /\ Writes(x, c, v)
      /\ view' \in [Browser -> Category \cup {Top}]
      /\ view'[x] \in Known(x)' \cup {Top}
      /\ \A y \in Browser \ {x} : view'[y] = view[y]
  BY <1>1, MapEditFacts
<1>3. Creates(x) \/ Reparents(x)
  BY <1>1, <1>2 DEF Creates, Reparents
<1>4. /\ filed' \in [Browser -> [Paper -> Slip]]
      /\ \A p \in Paper : AheadOf(filed'[x][p], filed[x][p])
      /\ \A y \in Browser \ {x} : filed'[y] = filed[y]
  BY <1>1 DEF EditingTypeOK, AheadOf
<1> QED
  BY <1>2, <1>3, <1>4 DEF Edited

LEMMA DeleteFacts ==
    ASSUME EditingTypeOK, Stamped, NEW x \in Browser, NEW c \in Category,
           DeleteCategory(x, c)
    PROVE  Edited(x)
<1> DEFINE new == [p \in Paper |->
                      IF c \in filed[x][p].value
                      THEN Refiled(filed[x][p], x, filed[x][p].value \ {c})
                      ELSE filed[x][p]]
<1>1. filed \in [Browser -> [Paper -> Slip]] /\ filed[x] \in [Paper -> Slip]
  BY DEF EditingTypeOK
<1>2. ASSUME NEW p \in Paper
      PROVE  /\ new[p] \in Slip /\ new[p].value = filed[x][p].value \ {c}
             /\ AheadOf(new[p], filed[x][p])
  <2>1. filed[x][p] \in Slip /\ filed[x][p].value \ {c} \in SUBSET Category
    BY <1>1 DEF Slip
  <2>2. CASE c \in filed[x][p].value
    BY <2>1, <2>2, RefiledFacts DEF AheadOf
  <2>3. CASE c \notin filed[x][p].value
    BY <2>1, <2>3 DEF AheadOf
  <2> QED
    BY <2>2, <2>3
<1>3. new \in [Paper -> Slip]
  BY <1>2
<1>4. filed' = [filed EXCEPT ![x] = new]
  BY DEF DeleteCategory
<1> HIDE DEF new
<1>5. /\ filed' \in [Browser -> [Paper -> Slip]] /\ filed'[x] = new
      /\ \A y \in Browser \ {x} : filed'[y] = filed[y]
  BY <1>1, <1>3, <1>4
<1>6. /\ Writes(x, c, None)
      /\ view' \in [Browser -> Category \cup {Top}]
      /\ view'[x] \in Known(x)' \cup {Top}
      /\ \A y \in Browser \ {x} : view'[y] = view[y]
  BY MapEditFacts DEF DeleteCategory
<1>7. c \in Known(x)
  BY KnownFacts DEF DeleteCategory
<1>8. Drops(x)
  BY <1>2, <1>5, <1>6, <1>7 DEF Drops
<1> QED
  BY <1>2, <1>5, <1>6, <1>8 DEF Edited

LEMMA ViewFacts ==
    ASSUME EditingTypeOK, NEW x \in Browser, NEW v \in Known(x) \cup {Top},
           view' = [view EXCEPT ![x] = v], UNCHANGED <<meta, filed>>
    PROVE  Edited(x)
<1>1. view \in [Browser -> Category \cup {Top}] /\ v \in Category \cup {Top}
  BY KnownFacts DEF EditingTypeOK
<1>2. /\ view' \in [Browser -> Category \cup {Top}] /\ view'[x] = v
      /\ \A y \in Browser \ {x} : view'[y] = view[y]
  BY <1>1
<1>3. v \in Known(x)' \cup {Top}
  BY DEF Known
<1>4. /\ filed' \in [Browser -> [Paper -> Slip]]
      /\ \A p \in Paper : AheadOf(filed'[x][p], filed[x][p])
      /\ \A y \in Browser \ {x} : filed'[y] = filed[y]
      /\ Files(x)
  BY DEF EditingTypeOK, AheadOf, Files
<1> QED
  BY <1>2, <1>3, <1>4 DEF Edited

LEMMA EditFacts ==
    ASSUME EditingTypeOK, Stamped, Viewed, NEW x \in Browser, Edit(x)
    PROVE  Edited(x)
<1>1. /\ Known(x) \subseteq Category /\ InTree(x) \subseteq Known(x)
  BY KnownFacts
<1>2. \A p \in Paper : filed[x][p].value \in SUBSET Category
  BY DEF EditingTypeOK, Slip
<1>3. ASSUME NEW p \in Paper, CreatePaper(x, p) PROVE Edited(x)
  <2>1. FileUnder(x, p, {view[x]} \ {Top})
    BY <1>3 DEF CreatePaper
  <2>2. {view[x]} \ {Top} \subseteq Known(x)
    BY DEF Viewed
  <2> QED
    BY <1>1, <2>1, <2>2, FileUnderFacts
<1>4. ASSUME NEW c \in Category, DeleteCategory(x, c) PROVE Edited(x)
  BY <1>4, DeleteFacts
<1>5. ASSUME NEW c \in Category, NEW p \in Paper, SelectCategory(x, p, c) PROVE Edited(x)
  <2> DEFINE cs == filed[x][p].value
  <2>1. \/ FileUnder(x, p, cs \ {c})
        \/ c \in InTree(x) /\ FileUnder(x, p, cs \cup {c})
    BY <1>5 DEF SelectCategory
  <2>2. cs \ {c} \in SUBSET Category /\ cs \cup {c} \in SUBSET Category
    BY <1>2
  <2>3. c \in InTree(x) => cs \cup {c} \subseteq cs \cup Known(x)
    BY <1>1
  <2> QED
    BY <2>1, <2>2, <2>3, FileUnderFacts
<1>6. ASSUME NEW c \in Category, NEW p \in Paper, Unfile(x, p, c) PROVE Edited(x)
  <2>1. FileUnder(x, p, filed[x][p].value \ {c})
    BY <1>6 DEF Unfile
  <2> QED
    BY <1>2, <2>1, FileUnderFacts
<1>7. ASSUME NEW c \in Category, NEW v \in Category \cup {Top}, CreateCategory(x, c, v)
      PROVE  Edited(x)
  BY <1>1, <1>7, UpdateFacts DEF CreateCategory
<1>8. ASSUME NEW c \in Category, NEW v \in Category \cup {Top}, EditCategory(x, c, v)
      PROVE  Edited(x)
  BY <1>1, <1>8, UpdateFacts DEF EditCategory
<1>9. ASSUME NEW c \in Category \cup {Top}, SetView(x, c) PROVE Edited(x)
  BY <1>1, <1>9, ViewFacts DEF SetView
<1>10. ASSUME GoUp(x) PROVE Edited(x)
  <2>1. view[x] \in Known(x)
    BY <1>10 DEF GoUp, Viewed
  <2>2. Parent(x, view[x]) \in Known(x) \cup {Top}
    BY <1>10, <2>1 DEF GoUp, Builds
  <2>3. view' = [view EXCEPT ![x] = Parent(x, view[x])] /\ UNCHANGED <<meta, filed>>
    BY <1>10 DEF GoUp
  <2> QED
    BY <2>2, <2>3, ViewFacts
<1> QED
  BY <1>3, <1>4, <1>5, <1>6, <1>7, <1>8, <1>9, <1>10 DEF Edit

\* Which kind of edit each is.
LEMMA KindFacts ==
    ASSUME EditingTypeOK, Stamped, NEW x \in Browser
    PROVE  /\ Files(x) \/ Creates(x) => Kind(x) = "grow"
           /\ Reparents(x) => Kind(x) = "move"
           /\ Drops(x) => Kind(x) = "delete"
<1>1. ASSUME NEW c \in Category, NEW v, Writes(x, c, v)
      PROVE  /\ v # None => Known(x)' = Known(x) \cup {c}
             /\ v = None => c \notin Known(x)'
             /\ meta'[x][c] # meta[x][c]
             /\ \A d \in Category \ {c} : meta'[x][d] = meta[x][d]
  <2>1. /\ meta'[x][c].value = v /\ meta[x][c].at[1] < meta'[x][c].at[1]
        /\ \A d \in Category \ {c} : meta'[x][d] = meta[x][d]
    BY <1>1 DEF Writes
  <2>2. meta[x][c].at[1] \in Nat
    BY SlotTypes DEF EditingTypeOK
  <2> QED
    BY <2>1, <2>2 DEF Known
<1>2. ASSUME Files(x) PROVE Kind(x) = "grow"
  <2>1. Known(x)' = Known(x) /\ meta' = meta
    BY <1>2 DEF Files, Known
  <2> QED
    BY <2>1 DEF Kind
<1>3. ASSUME Creates(x) PROVE Kind(x) = "grow"
  <2>1. PICK c \in Category, v \in Known(x) \cup {Top} :
            Writes(x, c, v) /\ meta[x][c].at = Never
    BY <1>3 DEF Creates
  <2>2. Known(x)' = Known(x) \cup {c}
        /\ \A d \in Category \ {c} : meta'[x][d] = meta[x][d]
    BY <1>1, <2>1, KnownFacts
  <2>3. c \notin Known(x) /\ Known(x) \subseteq Category
    BY <2>1 DEF Stamped, Known
  <2> QED
    BY <2>2, <2>3 DEF Kind
<1>4. ASSUME Reparents(x) PROVE Kind(x) = "move"
  <2>1. PICK c \in Known(x), v \in Known(x) \cup {Top} : Writes(x, c, v)
    BY <1>4 DEF Reparents
  <2>2. Known(x)' = Known(x) /\ meta'[x][c] # meta[x][c]
    BY <1>1, <2>1, KnownFacts
  <2> QED
    BY <2>2 DEF Kind
<1>5. ASSUME Drops(x) PROVE Kind(x) = "delete"
  <2>1. PICK c \in Known(x) : Writes(x, c, None)
    BY <1>5 DEF Drops
  <2>2. c \notin Known(x)'
    BY <1>1, <2>1, KnownFacts
  <2> QED
    BY <2>2 DEF Kind
<1> QED
  BY <1>2, <1>3, <1>4, <1>5

-----------------------------------------------------------------------------
(* Categories: trees *)

\* The categories that a map has, and whether all of them hang from the top.
Among(f) == {c \in Category : f[c].value # None}
HasTree(f) ==
    /\ \A c \in Among(f) : f[c].value \in Among(f) \cup {Top}
    /\ \A ring \in SUBSET Among(f) : ring # {} => \E c \in ring : f[c].value \notin ring

\* A new category below others, or on top, closes no ring.
LEMMA TreeGrows ==
    ASSUME NEW f, NEW g, HasTree(f), NEW c \in Category, c \notin Among(f),
           g[c].value \in Among(f) \cup {Top}, \A d \in Category \ {c} : g[d] = f[d]
    PROVE  HasTree(g)
<1>1. /\ Among(f) \subseteq Category
      /\ Top \notin Category /\ None # Top /\ None \notin Category
  BY CategoriesAssumption DEF Among
<1>2. Among(g) = Among(f) \cup {c}
  BY <1>1 DEF Among
<1>3. \A d \in Among(f) : g[d] = f[d] /\ d # c
  BY <1>1
<1>4. \A d \in Among(g) : g[d].value \in Among(g) \cup {Top}
  BY <1>2, <1>3 DEF HasTree
<1>5. ASSUME NEW ring \in SUBSET Among(g), ring # {}
      PROVE  \E d \in ring : g[d].value \notin ring
  <2>1. SUFFICES ASSUME \A d \in ring : g[d].value \in ring PROVE FALSE
    OBVIOUS
  <2>2. ASSUME NEW d \in ring \ {c} PROVE f[d].value \in ring \ {c}
    <3>1. d \in Among(f)
      BY <1>2
    <3>2. f[d].value \in ring /\ f[d].value \in Among(f) \cup {Top}
      BY <1>3, <2>1, <3>1 DEF HasTree
    <3> QED
      BY <1>1, <3>2
  <2>3. ring \ {c} # {}
    <3>1. PICK d \in ring : TRUE
      BY <1>5
    <3>2. CASE d = c
      BY <1>1, <2>1, <3>1, <3>2
    <3> QED
      BY <3>1, <3>2
  <2>4. ring \ {c} \subseteq Among(f)
    BY <1>2
  <2> QED
    BY <2>2, <2>3, <2>4 DEF HasTree
<1> QED
  BY <1>4, <1>5 DEF HasTree

\* Nor does taking one away.
LEMMA TreeShrinks ==
    ASSUME NEW f, NEW g, HasTree(f), NEW c \in Category, g[c].value = None,
           \A d \in Category \ {c} : g[d] = f[d],
           \A d \in Among(g) : g[d].value \in Among(g) \cup {Top}
    PROVE  HasTree(g)
<1>1. Among(g) \subseteq Among(f) /\ c \notin Among(g) /\ Among(g) \subseteq Category
  BY DEF Among
<1>2. \A d \in Among(g) : g[d] = f[d]
  BY <1>1
<1>3. ASSUME NEW ring \in SUBSET Among(g), ring # {}
      PROVE  \E d \in ring : g[d].value \notin ring
  <2>1. PICK d \in ring : f[d].value \notin ring
    BY <1>1, <1>3 DEF HasTree
  <2> QED
    BY <1>2, <2>1
<1> QED
  BY <1>3 DEF HasTree

\* Two trees make one if one of them holds wherever they differ.
LEMMA TreeJoins ==
    ASSUME NEW f, NEW g, NEW h, HasTree(f), HasTree(g),
           \A c \in Among(f) : h[c] = f[c],
           \A c \in Category \ Among(f) : h[c] = g[c]
    PROVE  HasTree(h)
<1>1. Among(f) \subseteq Category /\ Among(g) \subseteq Category /\ Top \notin Category
  BY CategoriesAssumption DEF Among
<1>2. /\ Among(h) \subseteq Among(f) \cup Among(g)
      /\ Among(f) \subseteq Among(h)
      /\ \A c \in Among(g) : c \in Among(h)
  BY DEF Among
<1>3. \A c \in Among(h) \ Among(f) : c \in Among(g) /\ h[c] = g[c]
  BY <1>1, <1>2
<1>4. \A c \in Among(h) : h[c].value \in Among(h) \cup {Top}
  BY <1>2, <1>3 DEF HasTree
<1>5. ASSUME NEW ring \in SUBSET Among(h), ring # {}
      PROVE  \E c \in ring : h[c].value \notin ring
  <2>1. SUFFICES ASSUME \A c \in ring : h[c].value \in ring PROVE FALSE
    OBVIOUS
  <2> DEFINE low == ring \cap Among(f)
  <2>2. ASSUME NEW c \in low PROVE f[c].value \in low
    <3>1. f[c].value \in ring /\ f[c].value \in Among(f) \cup {Top}
      BY <2>1 DEF HasTree
    <3>2. Top \notin ring
      BY <1>1, <1>2
    <3> QED
      BY <3>1, <3>2
  <2>3. low = {}
    <3> HIDE DEF low
    <3> QED
      BY <2>2 DEF HasTree, low
  <2>4. ring \subseteq Among(g) /\ \A c \in ring : h[c] = g[c]
    BY <1>3, <2>3
  <2> QED
    BY <1>5, <2>1, <2>4 DEF HasTree
<1> QED
  BY <1>4, <1>5 DEF HasTree

\* The tree shows all categories if there is no ring.
LEMMA NoRings ==
    ASSUME NEW f, NEW K, K = Among(f),
           \A c \in K : f[c].value \in K \cup {Top}
    PROVE  {c \in K : ~\E ring \in SUBSET K :
                          c \in ring /\ \A y \in ring : f[y].value \in ring} = K
           <=> HasTree(f)
BY DEF HasTree

LEMMA TreeFacts ==
    ASSUME NEW x \in Browser
    PROVE  /\ Known(x) = Among(meta[x])
           /\ \A c \in Category : Parent(x, c) = meta[x][c].value
           /\ (\A c \in Known(x) : Parent(x, c) \in Known(x) \cup {Top})
              => (InTree(x) = Known(x) <=> HasTree(meta[x]))
           /\ Known(x)' = Among(meta'[x])
           /\ (\A c \in Known(x)' : meta'[x][c].value \in Known(x)' \cup {Top})
              => (InTree(x)' = Known(x)' <=> HasTree(meta'[x]))
<1>1. Known(x) = Among(meta[x]) /\ Known(x)' = Among(meta'[x])
  BY DEF Known, Among
<1>2. InTree(x) = {c \in Known(x) : ~\E ring \in SUBSET Known(x) :
                      c \in ring /\ \A y \in ring : meta[x][y].value \in ring}
  BY DEF InTree, Parent
<1>3. InTree(x)' = {c \in Known(x)' : ~\E ring \in SUBSET Known(x)' :
                       c \in ring /\ \A y \in ring : meta'[x][y].value \in ring}
  BY DEF InTree, Parent
<1>4. (\A c \in Known(x) : meta[x][c].value \in Known(x) \cup {Top})
      => (InTree(x) = Known(x) <=> HasTree(meta[x]))
  BY <1>1, <1>2, NoRings
<1>5. (\A c \in Known(x)' : meta'[x][c].value \in Known(x)' \cup {Top})
      => (InTree(x)' = Known(x)' <=> HasTree(meta'[x]))
  BY <1>1, <1>3, NoRings
<1> QED
  BY <1>1, <1>4, <1>5 DEF Parent

-----------------------------------------------------------------------------
(* Categories: what holds unless edits crossed *)

\* A page has a tree, and files documents under what is in it.
Sound(x) ==
    /\ HasTree(meta[x])
    /\ \A p \in Paper : filed[x][p].value \subseteq Known(x)

\* Page x has all that others have.
Ahead(x) ==
    \A y \in Browser : /\ \A c \in Category : AheadOf(meta[x][c], meta[y][c])
                       /\ \A p \in Paper : AheadOf(filed[x][p], filed[y][p])

\* What holds while nothing is deleted: what was deleted, all pages know of; who has a
\* later write to a category has it from a page that moves; each page has a tree, and
\* what documents are filed under some page has.
Joint(sn) ==
    /\ \A x, y \in Browser, c \in Category :
        /\ c \notin Known(x) /\ meta[x][c].at # Never => meta[y][c] = meta[x][c]
        /\ c \in Known(x) /\ Later(meta[y][c], meta[x][c])
           => \E m \in Browser : meta[y][c].at[2] = m /\ "move" \in sn[m]
    /\ \A x \in Browser :
        /\ HasTree(meta[x])
        /\ \A p \in Paper : \A c \in filed[x][p].value : \E y \in Browser : c \in Known(y)

\* One page deletes, and no other edits; or one moves, and others add.
Orderly(sn) ==
    /\ \A x, y \in Browser : x # y =>
        /\ "delete" \in sn[x] => sn[y] = {}
        /\ ~("move" \in sn[x] /\ "move" \in sn[y])
    /\ \A x \in Browser :
        (\A y \in Browser \ {x} : sn[y] = {}) => Ahead(x) /\ Sound(x)
    /\ (\A x \in Browser : "delete" \notin sn[x]) => Joint(sn)

LEMMA EditsMap ==
    ASSUME EditingTypeOK, NEW x \in Browser, Edited(x)
    PROVE  /\ meta' \in [Browser -> [Category -> Slot]]
           /\ \A y \in Browser \ {x} : meta'[y] = meta[y]
           /\ \A c \in Category : AheadOf(meta'[x][c], meta[x][c])
<1>1. CASE UNCHANGED meta
  BY <1>1 DEF EditingTypeOK, AheadOf
<1>2. ASSUME NEW c \in Category, NEW v, Writes(x, c, v)
      PROVE  /\ meta' \in [Browser -> [Category -> Slot]]
             /\ \A y \in Browser \ {x} : meta'[y] = meta[y]
             /\ \A d \in Category : AheadOf(meta'[x][d], meta[x][d])
  <2>1. /\ meta' \in [Browser -> [Category -> Slot]]
        /\ \A y \in Browser \ {x} : meta'[y] = meta[y]
        /\ \A d \in Category \ {c} : meta'[x][d] = meta[x][d]
        /\ meta[x][c].at[1] < meta'[x][c].at[1]
    BY <1>2 DEF Writes
  <2>2. /\ meta[x][c].at \in Stamp /\ meta'[x][c].at \in Stamp
        /\ meta[x][c].at[1] \in Nat /\ meta'[x][c].at[1] \in Nat
    BY <2>1, SlotTypes DEF EditingTypeOK
  <2>3. Later(meta'[x][c], meta[x][c])
    BY <2>1, <2>2, StampOrder
  <2> QED
    BY <2>1, <2>3 DEF AheadOf
<1>3. CASE Files(x)
  BY <1>1, <1>3 DEF Files
<1>4. CASE Creates(x)
  BY <1>2, <1>4 DEF Creates
<1>5. CASE Reparents(x)
  BY <1>2, <1>5, KnownFacts DEF Reparents
<1>6. CASE Drops(x)
  BY <1>2, <1>6, KnownFacts DEF Drops
<1> QED
  BY <1>3, <1>4, <1>5, <1>6 DEF Edited

LEMMA EditsTree ==
    ASSUME EditingTypeOK, Stamped, NEW x \in Browser, Edited(x), HasTree(meta[x]),
           Drops(x) => \A c \in Known(x)' : meta'[x][c].value \in Known(x)' \cup {Top},
           Reparents(x) => InTree(x)' = Known(x)'
    PROVE  HasTree(meta'[x])
<1>1. /\ Known(x) = Among(meta[x]) /\ Known(x)' = Among(meta'[x])
      /\ Known(x) \subseteq Category /\ Top \notin Known(x) /\ None \notin Known(x)
      /\ None # Top
  BY TreeFacts, KnownFacts
<1>2. CASE Files(x)
  BY <1>2 DEF Files
<1>3. CASE Creates(x)
  <2>1. PICK c \in Category, v \in Known(x) \cup {Top} :
            Writes(x, c, v) /\ meta[x][c].at = Never
    BY <1>3 DEF Creates
  <2>2. c \notin Known(x)
    BY <2>1 DEF Stamped, Known
  <2>3. meta'[x][c].value = v /\ \A d \in Category \ {c} : meta'[x][d] = meta[x][d]
    BY <2>1 DEF Writes
  <2> QED
    BY <1>1, <2>2, <2>3, TreeGrows
<1>4. CASE Reparents(x)
  <2>1. PICK c \in Known(x), v \in Known(x) \cup {Top} : Writes(x, c, v)
    BY <1>4 DEF Reparents
  <2>2. meta'[x][c].value = v /\ \A d \in Category \ {c} : meta'[x][d] = meta[x][d]
    BY <2>1 DEF Writes
  <2>3. Known(x)' = Known(x)
    BY <1>1, <2>2 DEF Known
  <2>4. \A d \in Known(x) : meta[x][d].value \in Known(x) \cup {Top}
    BY <1>1 DEF HasTree
  <2>5. \A d \in Known(x)' : meta'[x][d].value \in Known(x)' \cup {Top}
    BY <1>1, <2>2, <2>3, <2>4
  <2> QED
    BY <1>4, <2>5, TreeFacts
<1>5. CASE Drops(x)
  <2>1. PICK c \in Known(x) : Writes(x, c, None)
    BY <1>5 DEF Drops
  <2>2. meta'[x][c].value = None /\ \A d \in Category \ {c} : meta'[x][d] = meta[x][d]
    BY <2>1 DEF Writes
  <2> QED
    BY <1>1, <1>5, <2>2, TreeShrinks
<1> QED
  BY <1>2, <1>3, <1>4, <1>5 DEF Edited

\* The only page that edits keeps its tree whole, and ahead of others.
LEMMA SoundEdits ==
    ASSUME EditingTypeOK, Stamped, NEW x \in Browser, Edited(x), Sound(x),
           HasTree(meta'[x])
    PROVE  Sound(x)'
<1>1. SUFFICES ASSUME NEW p \in Paper PROVE filed'[x][p].value \subseteq Known(x)'
  BY DEF Sound
<1>2. filed[x][p].value \subseteq Known(x)
  BY DEF Sound
<1>3. Known(x) \subseteq Category /\ None \notin Known(x) /\ None # Top
  BY KnownFacts
<1>4. CASE Files(x)
  BY <1>2, <1>4 DEF Files, Known
<1>5. CASE Creates(x) \/ Reparents(x)
  <2>1. PICK c \in Category, v \in Known(x) \cup {Top} : Writes(x, c, v) /\ UNCHANGED filed
    BY <1>3, <1>5 DEF Creates, Reparents
  <2>2. meta'[x][c].value = v /\ \A d \in Category \ {c} : meta'[x][d] = meta[x][d]
    BY <2>1 DEF Writes
  <2>3. Known(x) \subseteq Known(x)'
    BY <1>3, <2>1, <2>2 DEF Known
  <2> QED
    BY <1>2, <2>1, <2>3
<1>6. CASE Drops(x)
  <2>1. PICK c \in Known(x) :
            Writes(x, c, None) /\ filed'[x][p].value = filed[x][p].value \ {c}
    BY <1>6 DEF Drops
  <2>2. \A d \in Category \ {c} : meta'[x][d] = meta[x][d]
    BY <2>1 DEF Writes
  <2>3. Known(x) \ {c} \subseteq Known(x)'
    BY <2>2 DEF Known
  <2> QED
    BY <1>2, <2>1, <2>3
<1> QED
  BY <1>4, <1>5, <1>6 DEF Edited

LEMMA SlipTypes ==
    ASSUME NEW f, f \in [Browser -> [Paper -> Slip]]
    PROVE  \A y \in Browser, p \in Paper : f[y][p].at \in Stamp
BY DEF Slip

LEMMA AheadChain ==
    ASSUME NEW x, x.at \in Stamp, NEW y, y.at \in Stamp, NEW z, z.at \in Stamp,
           AheadOf(x, y), AheadOf(y, z)
    PROVE  AheadOf(x, z)
BY StampChain DEF AheadOf

LEMMA AheadEdits ==
    ASSUME EditingTypeOK, NEW x \in Browser, Edited(x), Ahead(x)
    PROVE  Ahead(x)'
<1>1. SUFFICES ASSUME NEW y \in Browser
               PROVE  /\ \A c \in Category : AheadOf(meta'[x][c], meta'[y][c])
                      /\ \A p \in Paper : AheadOf(filed'[x][p], filed'[y][p])
  BY DEF Ahead, AheadOf
<1>2. CASE y = x
  BY <1>2 DEF AheadOf
<1>3. CASE y # x
  <2>1. /\ meta' \in [Browser -> [Category -> Slot]] /\ meta'[y] = meta[y]
        /\ \A c \in Category : AheadOf(meta'[x][c], meta[x][c])
    BY <1>3, EditsMap
  <2>2. /\ filed' \in [Browser -> [Paper -> Slip]] /\ filed'[y] = filed[y]
        /\ \A p \in Paper : AheadOf(filed'[x][p], filed[x][p])
    BY <1>3 DEF Edited
  <2>3. /\ \A c \in Category : /\ meta'[x][c].at \in Stamp /\ meta[x][c].at \in Stamp
                               /\ meta[y][c].at \in Stamp
        /\ \A p \in Paper : /\ filed'[x][p].at \in Stamp /\ filed[x][p].at \in Stamp
                            /\ filed[y][p].at \in Stamp
    BY <2>1, <2>2, SlotTypes, SlipTypes DEF EditingTypeOK
  <2>4. /\ \A c \in Category : AheadOf(meta[x][c], meta[y][c])
        /\ \A p \in Paper : AheadOf(filed[x][p], filed[y][p])
    BY DEF Ahead
  <2> QED
    BY <2>1, <2>2, <2>3, <2>4, AheadChain
<1> QED
  BY <1>2, <1>3

LEMMA JointFiles ==
    ASSUME NEW sn \in [Browser -> SUBSET {"delete", "move", "grow"}],
           NEW sm \in [Browser -> SUBSET {"delete", "move", "grow"}], Joint(sn),
           \A m \in Browser : sn[m] \subseteq sm[m],
           NEW x \in Browser, Edited(x), Files(x)
    PROVE  Joint(sm)'
<1>1. meta' = meta /\ \A y \in Browser : Known(y)' = Known(y)
  BY DEF Files, Known
<1>2. ASSUME NEW y \in Browser, NEW z \in Browser, NEW d \in Category
      PROVE  /\ d \notin Known(y)' /\ meta'[y][d].at # Never => meta'[z][d] = meta'[y][d]
             /\ d \in Known(y)' /\ Later(meta'[z][d], meta'[y][d])
                => \E m \in Browser : meta'[z][d].at[2] = m /\ "move" \in sm[m]
  <2>1. /\ d \notin Known(y) /\ meta[y][d].at # Never => meta[z][d] = meta[y][d]
        /\ d \in Known(y) /\ Later(meta[z][d], meta[y][d])
           => \E m \in Browser : meta[z][d].at[2] = m /\ "move" \in sn[m]
    BY DEF Joint
  <2> QED
    BY <1>1, <2>1
<1>3. ASSUME NEW y \in Browser, NEW p \in Paper, NEW c \in filed'[y][p].value
      PROVE  \E z \in Browser : c \in Known(z)'
  <2>1. CASE c \in filed[y][p].value
    BY <1>1, <2>1 DEF Joint
  <2>2. CASE c \notin filed[y][p].value
    <3>1. y = x
      BY <1>3, <2>2 DEF Edited
    <3>2. c \in Known(x)
      BY <1>3, <2>2, <3>1 DEF Files
    <3> QED
      BY <1>1, <3>2
  <2> QED
    BY <2>1, <2>2
<1>4. \A y \in Browser : HasTree(meta'[y])
  BY <1>1 DEF Joint
<1> QED
  BY <1>2, <1>3, <1>4 DEF Joint

LEMMA JointWrites ==
    ASSUME EditingTypeOK, Stamped,
           NEW sn \in [Browser -> SUBSET {"delete", "move", "grow"}],
           NEW sm \in [Browser -> SUBSET {"delete", "move", "grow"}], Joint(sn),
           \A m \in Browser : sn[m] \subseteq sm[m],
           NEW x \in Browser, NEW c \in Category, NEW v, v # None, Writes(x, c, v),
           UNCHANGED filed, HasTree(meta'[x]),
           \/ \A y \in Browser : meta[y][c].at = Never
           \/ c \in Known(x) /\ "move" \in sm[x]
    PROVE  Joint(sm)'
<1> DEFINE new == meta'[x][c]
<1>1. \A y \in Browser, d \in Category :
          /\ meta[y][d].at \in Stamp /\ meta[y][d].at[1] \in Nat
          /\ meta'[y][d].at \in Stamp /\ meta'[y][d].at[1] \in Nat
          /\ x # y \/ c # d => meta'[y][d] = meta[y][d]
  BY SlotTypes DEF EditingTypeOK, Writes
<1>2. new.at[2] = x /\ new.value = v /\ meta[x][c].at[1] < new.at[1]
  BY DEF Writes
<1>3. /\ \A y \in Browser : Known(y) \subseteq Known(y)'
      /\ \A y \in Browser, d \in Category :
             x # y \/ c # d => (d \in Known(y)' <=> d \in Known(y))
      /\ c \in Known(x)'
  BY <1>1, <1>2 DEF Known
<1>4. \A y \in Browser : meta[y][c].at = Never => c \notin Known(y)
  BY DEF Stamped, Known
<1>5. new.at \in Stamp /\ new.at[1] \in Nat
  BY <1>1
<1> HIDE DEF new
<1>6. ASSUME NEW y \in Browser, NEW z \in Browser, NEW d \in Category,
             d \notin Known(y)', meta'[y][d].at # Never
      PROVE  meta'[z][d] = meta'[y][d]
  <2>1. x # y \/ c # d
    BY <1>3, <1>6
  <2>2. d \notin Known(y) /\ meta'[y][d] = meta[y][d]
    BY <1>1, <1>3, <1>6, <2>1
  <2>3. meta[z][d] = meta[y][d]
    BY <1>6, <2>2 DEF Joint
  <2>4. CASE z = x /\ d = c
    <3>1. c \notin Known(x)
      BY <2>2, <2>3, <2>4 DEF Known
    <3> QED
      BY <1>6, <2>2, <2>4, <3>1
  <2>5. CASE z # x \/ d # c
    BY <1>1, <2>2, <2>3, <2>5
  <2> QED
    BY <2>4, <2>5
<1>7. ASSUME NEW y \in Browser, NEW z \in Browser, NEW d \in Category,
             d \in Known(y)', Later(meta'[z][d], meta'[y][d])
      PROVE  \E m \in Browser : meta'[z][d].at[2] = m /\ "move" \in sm[m]
  <2>1. y # z
    BY <1>1, <1>7, StampOrder
  <2>2. d \in Known(y) /\ Later(meta[z][d], meta[y][d])
        => \E m \in Browser : meta[z][d].at[2] = m /\ "move" \in sm[m]
    BY DEF Joint
  <2>3. CASE d # c \/ (y # x /\ z # x)
    BY <1>1, <1>3, <1>7, <2>2, <2>3
  <2>4. CASE d = c /\ z = x
    <3>1. c \in Known(y)
      BY <1>3, <1>7, <2>1, <2>4
    <3>2. "move" \in sm[x]
      BY <1>4, <3>1
    <3> QED
      BY <1>2, <2>4, <3>2 DEF new
  <2>5. CASE d = c /\ y = x
    <3>1. Later(meta[z][c], new) /\ meta'[z][c] = meta[z][c]
      BY <1>1, <1>7, <2>1, <2>5 DEF new
    <3>2. Later(new, meta[x][c])
      BY <1>1, <1>2, <1>5, StampOrder
    <3>3. Later(meta[z][c], meta[x][c])
      BY <1>1, <1>5, <3>1, <3>2, StampChain
    <3>4. c \in Known(x)
      <4>1. CASE \A u \in Browser : meta[u][c].at = Never
        BY <1>1, <3>3, <4>1, StampOrder
      <4> QED
        BY <4>1
    <3> QED
      BY <2>2, <2>5, <3>1, <3>3, <3>4
  <2> QED
    BY <2>3, <2>4, <2>5
<1>8. \A y \in Browser : HasTree(meta'[y])
  BY DEF Joint, Writes
<1>9. \A y \in Browser, p \in Paper :
          \A d \in filed'[y][p].value : \E z \in Browser : d \in Known(z)'
  BY <1>3 DEF Joint
<1> QED
  BY <1>6, <1>7, <1>8, <1>9 DEF Joint

\* Page x has made an edit of kind k that crossed no other.
Recalls(sn, sm, x, k) ==
    /\ sm = [sn EXCEPT ![x] = @ \cup {k}]
    /\ \A y \in Browser \ {x} : /\ "delete" \notin sn[y]
                                /\ k = "delete" => sn[y] = {}
                                /\ k = "move" => "move" \notin sn[y]
    /\ k = "delete" => \A c \in Known(x)' : meta'[x][c].value \in Known(x)' \cup {Top}
    /\ k = "move" => InTree(x)' = Known(x)'

LEMMA OrderlyEdits ==
    ASSUME EditingTypeOK, Stamped,
           NEW sn \in [Browser -> SUBSET {"delete", "move", "grow"}],
           NEW sm, Orderly(sn), NEW x \in Browser, Edited(x),
           Recalls(sn, sm, x, Kind(x))
    PROVE  Orderly(sm)'
<1>1. /\ Files(x) \/ Creates(x) => Kind(x) = "grow"
      /\ Reparents(x) => Kind(x) = "move"
      /\ Drops(x) => Kind(x) = "delete"
      /\ Files(x) \/ Creates(x) \/ Reparents(x) \/ Drops(x)
  BY KindFacts DEF Edited
<1>2. PICK k \in {"delete", "move", "grow"} : Kind(x) = k
  BY <1>1
<1>3. /\ sm \in [Browser -> SUBSET {"delete", "move", "grow"}]
      /\ sm[x] = sn[x] \cup {k} /\ \A y \in Browser \ {x} : sm[y] = sn[y]
  BY <1>2 DEF Recalls
<1>4. \A y \in Browser \ {x} : /\ "delete" \notin sn[y]
                               /\ k = "delete" => sn[y] = {}
                               /\ k = "move" => "move" \notin sn[y]
  BY <1>2 DEF Recalls
<1>5. ASSUME NEW y \in Browser, NEW z \in Browser, y # z
      PROVE  /\ "delete" \in sm[y] => sm[z] = {}
             /\ ~("move" \in sm[y] /\ "move" \in sm[z])
  <2>1. /\ "delete" \in sn[y] => sn[z] = {}
        /\ ~("move" \in sn[y] /\ "move" \in sn[z])
    BY <1>5 DEF Orderly
  <2>2. CASE y = x
    BY <1>3, <1>4, <1>5, <2>1, <2>2
  <2>3. CASE z = x
    BY <1>3, <1>4, <1>5, <2>1, <2>3
  <2>4. CASE y # x /\ z # x
    BY <1>3, <2>1, <2>4
  <2> QED
    BY <2>2, <2>3, <2>4
<1>6. HasTree(meta[x])
  <2>1. CASE \A y \in Browser \ {x} : sn[y] = {}
    BY <2>1 DEF Orderly, Sound
  <2>2. CASE \E y \in Browser \ {x} : sn[y] # {}
    <3>1. \A y \in Browser : "delete" \notin sn[y]
      BY <1>4, <2>2 DEF Orderly
    <3> QED
      BY <3>1 DEF Orderly, Joint
  <2> QED
    BY <2>1, <2>2
<1>7. /\ Drops(x) => \A c \in Known(x)' : meta'[x][c].value \in Known(x)' \cup {Top}
      /\ Reparents(x) => InTree(x)' = Known(x)'
  BY <1>1 DEF Recalls
<1>8. HasTree(meta'[x])
  BY <1>6, <1>7, EditsTree
<1>9. ASSUME NEW y \in Browser, \A z \in Browser \ {y} : sm[z] = {}
      PROVE  Ahead(y)' /\ Sound(y)'
  <2>1. y = x
    BY <1>3, <1>9
  <2>2. Ahead(x) /\ Sound(x)
    BY <1>3, <1>9, <2>1 DEF Orderly
  <2> QED
    BY <1>8, <2>1, <2>2, SoundEdits, AheadEdits
<1>10. ASSUME \A y \in Browser : "delete" \notin sm[y]
       PROVE  Joint(sm)'
  <2>1. \A y \in Browser : "delete" \notin sn[y] /\ sn[y] \subseteq sm[y]
    BY <1>3, <1>10
  <2>2. Joint(sn)
    BY <2>1 DEF Orderly
  <2>3. k # "delete" /\ (k = "move" => "move" \in sm[x])
    BY <1>3, <1>10
  <2>4. CASE Files(x)
    BY <1>3, <2>1, <2>2, <2>4, JointFiles
  <2>5. CASE Creates(x)
    <3>1. PICK c \in Category, v \in Known(x) \cup {Top} :
              /\ \A y \in Browser : meta[y][c].at = Never
              /\ Writes(x, c, v) /\ UNCHANGED filed
      BY <2>5 DEF Creates
    <3>2. v # None
      BY KnownFacts
    <3> QED
      BY <1>3, <1>8, <2>1, <2>2, <3>1, <3>2, JointWrites
  <2>6. CASE Reparents(x)
    <3>1. PICK c \in Known(x), v \in Known(x) \cup {Top} :
              Writes(x, c, v) /\ UNCHANGED filed
      BY <2>6 DEF Reparents
    <3>2. v # None /\ c \in Category
      BY KnownFacts
    <3>3. "move" \in sm[x]
      BY <1>1, <1>2, <2>3, <2>6
    <3> QED
      BY <1>3, <1>8, <2>1, <2>2, <3>1, <3>2, <3>3, JointWrites
  <2> QED
    BY <1>1, <1>2, <2>3, <2>4, <2>5, <2>6
<1> QED
  BY <1>5, <1>9, <1>10 DEF Orderly

\* Of two pages one has all that the other has written to what both have: only one
\* page moves, and others get its moves in order.
LEMMA OneAhead ==
    ASSUME EditingTypeOK, Causal, NEW sn, Joint(sn),
           \A y, z \in Browser : y # z => ~("move" \in sn[y] /\ "move" \in sn[z]),
           NEW x \in Browser, NEW y \in Browser
    PROVE  \/ \A c \in Known(x) \cap Known(y) : ~Later(meta[y][c], meta[x][c])
           \/ \A c \in Known(x) \cap Known(y) : ~Later(meta[x][c], meta[y][c])
<1>1. SUFFICES ASSUME NEW c \in Known(x) \cap Known(y), Later(meta[y][c], meta[x][c]),
                      NEW d \in Known(x) \cap Known(y), Later(meta[x][d], meta[y][d])
               PROVE  FALSE
  OBVIOUS
<1>2. c \in Category /\ d \in Category
  BY KnownFacts
<1>3. PICK m \in Browser : meta[y][c].at[2] = m /\ "move" \in sn[m]
  BY <1>1, <1>2 DEF Joint
<1>4. PICK n \in Browser : meta[x][d].at[2] = n /\ "move" \in sn[n]
  BY <1>1, <1>2 DEF Joint
<1>5. m = n
  BY <1>3, <1>4
<1>6. meta[x][d].at[1] < meta[y][c].at[1] /\ meta[y][c].at[1] < meta[x][d].at[1]
  BY <1>1, <1>2, <1>3, <1>4, <1>5 DEF Causal
<1>7. meta[x][d].at[1] \in Nat /\ meta[y][c].at[1] \in Nat
  BY <1>2, SlotTypes DEF EditingTypeOK
<1> QED
  BY <1>6, <1>7

\* Where one of two lacks a category, the other's register is the later.
LEMMA JoinsFrom ==
    ASSUME EditingTypeOK, Stamped, NEW sn, Joint(sn), NEW x \in Browser, NEW y \in Browser,
           Joins(x, y), NEW c \in Category
    PROVE  /\ c \notin Known(x) \/ ~Later(meta[x][c], meta[y][c])
              => meta'[x][c] = meta[y][c]
           /\ c \notin Known(y) \/ ~Later(meta[y][c], meta[x][c])
              => meta'[x][c] = meta[x][c]
<1>1. \/ meta'[x][c] = meta[y][c] /\ Later(meta[y][c], meta[x][c])
      \/ meta'[x][c] = meta[x][c] /\ ~Later(meta[y][c], meta[x][c])
  BY DEF Joins
<1>2. /\ meta[x][c].at \in Stamp /\ meta[y][c].at \in Stamp
      /\ meta[x][c].at = meta[y][c].at => meta[x][c] = meta[y][c]
  BY SlotTypes DEF EditingTypeOK, Stamped
<1>3. ASSUME ~Later(meta[x][c], meta[y][c]) PROVE meta'[x][c] = meta[y][c]
  BY <1>1, <1>2, <1>3, StampOrder
<1>4. \A z \in Browser : c \notin Known(z) /\ meta[z][c].at # Never
                          => meta[x][c] = meta[z][c] /\ meta[y][c] = meta[z][c]
  BY DEF Joint
<1>5. ASSUME NEW z \in Browser, NEW u \in Browser, meta[z][c].at = Never
      PROVE  ~Later(meta[z][c], meta[u][c])
  <2>1. meta[u][c].at[1] \in Nat /\ meta[u][c].at[2] \in Nat
    BY SlotTypes, StampTypes DEF EditingTypeOK
  <2> QED
    BY <1>5, <2>1 DEF Later, Never
<1>6. ASSUME c \notin Known(x) PROVE meta'[x][c] = meta[y][c]
  <2>1. CASE meta[x][c].at = Never
    BY <1>3, <1>5, <2>1
  <2>2. CASE meta[x][c].at # Never
    BY <1>1, <1>4, <1>6, <2>2
  <2> QED
    BY <2>1, <2>2
<1>7. ASSUME c \notin Known(y) PROVE meta'[x][c] = meta[x][c]
  <2>1. CASE meta[y][c].at = Never
    BY <1>1, <1>5, <2>1
  <2>2. CASE meta[y][c].at # Never
    BY <1>1, <1>4, <1>7, <2>2
  <2> QED
    BY <2>1, <2>2
<1> QED
  BY <1>1, <1>3, <1>6, <1>7

LEMMA JoinsTree ==
    ASSUME EditingTypeOK, Stamped, Causal, NEW sn, Joint(sn),
           \A y, z \in Browser : y # z => ~("move" \in sn[y] /\ "move" \in sn[z]),
           NEW x \in Browser, NEW y \in Browser, Joins(x, y)
    PROVE  HasTree(meta'[x])
<1>1. /\ Known(x) = Among(meta[x]) /\ Known(y) = Among(meta[y])
      /\ Known(x) \subseteq Category /\ Known(y) \subseteq Category
  BY TreeFacts, KnownFacts
<1>2. HasTree(meta[x]) /\ HasTree(meta[y])
  BY DEF Joint
<1>3. \A c \in Category :
          /\ c \notin Known(x) \/ ~Later(meta[x][c], meta[y][c])
             => meta'[x][c] = meta[y][c]
          /\ c \notin Known(y) \/ ~Later(meta[y][c], meta[x][c])
             => meta'[x][c] = meta[x][c]
  BY JoinsFrom
<1>4. CASE \A c \in Known(x) \cap Known(y) : ~Later(meta[y][c], meta[x][c])
  <2>1. \A c \in Known(x) : meta'[x][c] = meta[x][c]
    BY <1>1, <1>3, <1>4
  <2>2. \A c \in Category \ Known(x) : meta'[x][c] = meta[y][c]
    BY <1>3
  <2> QED
    BY <1>1, <1>2, <2>1, <2>2, TreeJoins
<1>5. CASE \A c \in Known(x) \cap Known(y) : ~Later(meta[x][c], meta[y][c])
  <2>1. \A c \in Known(y) : meta'[x][c] = meta[y][c]
    BY <1>1, <1>3, <1>5
  <2>2. \A c \in Category \ Known(y) : meta'[x][c] = meta[x][c]
    BY <1>3
  <2> QED
    BY <1>1, <1>2, <2>1, <2>2, TreeJoins
<1> QED
  BY <1>4, <1>5, OneAhead

LEMMA JointJoins ==
    ASSUME EditingTypeOK, Stamped, Causal, NEW sn, Joint(sn),
           \A y, z \in Browser : y # z => ~("move" \in sn[y] /\ "move" \in sn[z]),
           NEW x \in Browser, NEW y \in Browser, Joins(x, y), UNCHANGED filed
    PROVE  Joint(sn)'
<1>1. ASSUME NEW u \in Browser, NEW d \in Category
      PROVE  \E s \in Browser : meta'[u][d] = meta[s][d]
  BY DEF Joins
<1>2. \A u \in Browser, d \in Category : d \in Known(u) => d \in Known(u)'
  <2>1. SUFFICES ASSUME NEW u \in Browser, NEW d \in Known(u) PROVE d \in Known(u)'
    OBVIOUS
  <2>2. d \in Category
    BY KnownFacts
  <2>3. CASE u # x
    BY <2>3 DEF Joins, Known
  <2>4. CASE u = x
    <3>1. CASE d \in Known(y)
      <4>1. meta[x][d].value # None /\ meta[y][d].value # None
        BY <2>4, <3>1 DEF Known
      <4> QED
        BY <2>2, <2>4, <4>1 DEF Joins, Known
    <3>2. CASE d \notin Known(y)
      <4>1. meta'[x][d] = meta[x][d]
        BY <2>2, <3>2, JoinsFrom
      <4> QED
        BY <2>4, <4>1 DEF Known
    <3> QED
      BY <3>1, <3>2
  <2> QED
    BY <2>3, <2>4
<1>3. ASSUME NEW u \in Browser, NEW z \in Browser, NEW d \in Category
      PROVE  /\ d \notin Known(u)' /\ meta'[u][d].at # Never => meta'[z][d] = meta'[u][d]
             /\ d \in Known(u)' /\ Later(meta'[z][d], meta'[u][d])
                => \E m \in Browser : meta'[z][d].at[2] = m /\ "move" \in sn[m]
  <2>1. PICK s \in Browser : meta'[u][d] = meta[s][d]
    BY <1>1
  <2>2. PICK t \in Browser : meta'[z][d] = meta[t][d]
    BY <1>1
  <2>3. d \in Known(u)' <=> d \in Known(s)
    BY <2>1 DEF Known
  <2>4. /\ d \notin Known(s) /\ meta[s][d].at # Never => meta[t][d] = meta[s][d]
        /\ d \in Known(s) /\ Later(meta[t][d], meta[s][d])
           => \E m \in Browser : meta[t][d].at[2] = m /\ "move" \in sn[m]
    BY DEF Joint
  <2> QED
    BY <2>1, <2>2, <2>3, <2>4
<1>4. ASSUME NEW u \in Browser PROVE HasTree(meta'[u])
  <2>1. CASE u = x
    BY <2>1, JoinsTree
  <2>2. CASE u # x
    BY <2>2 DEF Joins, Joint
  <2> QED
    BY <2>1, <2>2
<1>5. ASSUME NEW u \in Browser, NEW p \in Paper, NEW c \in filed'[u][p].value
      PROVE  \E z \in Browser : c \in Known(z)'
  <2>1. PICK z \in Browser : c \in Known(z)
    BY DEF Joint
  <2> QED
    BY <1>2, <2>1, KnownFacts
<1> QED
  BY <1>3, <1>4, <1>5 DEF Joint

\* Who has all others have gets nothing from them.
LEMMA AheadJoins ==
    ASSUME EditingTypeOK, NEW x \in Browser, Ahead(x),
           NEW z \in Browser, NEW y \in Browser, Joins(z, y), UNCHANGED filed
    PROVE  Ahead(x)' /\ meta'[x] = meta[x]
<1>1. \A u \in Browser, c \in Category :
          meta[u][c].at \in Stamp /\ AheadOf(meta[x][c], meta[u][c])
  BY SlotTypes DEF EditingTypeOK, Ahead
<1>2. \A c \in Category : ~Later(meta[y][c], meta[x][c])
  BY <1>1, StampOrder DEF AheadOf
<1>3. meta'[x] = meta[x]
  <2>1. CASE z # x
    BY <2>1 DEF Joins
  <2>2. CASE z = x
    <3>1. \A c \in Category : meta'[x][c] = meta[x][c]
      BY <1>2, <2>2 DEF Joins
    <3>2. meta'[x] \in [Category -> Slot] /\ meta[x] \in [Category -> Slot]
      BY DEF Joins, EditingTypeOK
    <3> QED
      BY <3>1, <3>2
  <2> QED
    BY <2>1, <2>2
<1>4. \A u \in Browser, c \in Category : \E s \in Browser : meta'[u][c] = meta[s][c]
  BY DEF Joins
<1>5. \A u \in Browser, c \in Category : AheadOf(meta'[x][c], meta'[u][c])
  BY <1>1, <1>3, <1>4
<1>6. \A u \in Browser, p \in Paper : AheadOf(filed'[x][p], filed'[u][p])
  BY DEF Ahead
<1> QED
  BY <1>3, <1>5, <1>6 DEF Ahead, AheadOf

\* Page z gets what page y has filed document p under.
Refiles(z, y, p) ==
    /\ UNCHANGED <<meta, view>>
    /\ filed' \in [Browser -> [Paper -> Slip]]
    /\ Later(filed[y][p], filed[z][p])
    /\ filed'[z][p] = filed[y][p]
    /\ \A u \in Browser, q \in Paper : u # z \/ q # p => filed'[u][q] = filed[u][q]

LEMMA RefilesFacts ==
    ASSUME EditingTypeOK, NEW z \in Browser, NEW y \in Browser, NEW p \in Paper,
           Later(filed[y][p], filed[z][p]), MergePaper(z, y, p)
    PROVE  Refiles(z, y, p)
<1>1. filed \in [Browser -> [Paper -> Slip]] /\ filed[z] \in [Paper -> Slip]
      /\ filed[y][p] \in Slip
  BY DEF EditingTypeOK
<1>2. filed' = [filed EXCEPT ![z][p] = filed[y][p]] /\ UNCHANGED <<meta, view>>
  BY DEF MergePaper
<1>3. filed' = [filed EXCEPT ![z] = [filed[z] EXCEPT ![p] = filed[y][p]]]
  BY <1>1, <1>2
<1>4. [filed[z] EXCEPT ![p] = filed[y][p]] \in [Paper -> Slip]
  BY <1>1
<1>5. /\ filed' \in [Browser -> [Paper -> Slip]]
      /\ filed'[z] = [filed[z] EXCEPT ![p] = filed[y][p]]
      /\ \A u \in Browser \ {z} : filed'[u] = filed[u]
  BY <1>1, <1>3, <1>4
<1> QED
  BY <1>1, <1>2, <1>5 DEF Refiles

LEMMA AheadRefiles ==
    ASSUME EditingTypeOK, NEW x \in Browser, Ahead(x),
           NEW z \in Browser, NEW y \in Browser, NEW p \in Paper, Refiles(z, y, p)
    PROVE  Ahead(x)' /\ \A q \in Paper : filed'[x][q] = filed[x][q]
<1>1. \A u \in Browser, q \in Paper :
          filed[u][q].at \in Stamp /\ AheadOf(filed[x][q], filed[u][q])
  BY SlipTypes DEF EditingTypeOK, Ahead
<1>2. ~Later(filed[y][p], filed[x][p])
  BY <1>1, StampOrder DEF AheadOf
<1>3. z # x
  BY <1>2 DEF Refiles
<1>4. \A q \in Paper : filed'[x][q] = filed[x][q]
  BY <1>3 DEF Refiles
<1>5. \A u \in Browser, q \in Paper : \E s \in Browser : filed'[u][q] = filed[s][q]
  BY DEF Refiles
<1>6. \A u \in Browser, q \in Paper : AheadOf(filed'[x][q], filed'[u][q])
  BY <1>1, <1>4, <1>5
<1>7. \A u \in Browser, c \in Category : AheadOf(meta'[x][c], meta'[u][c])
  BY DEF Ahead, Refiles
<1> QED
  BY <1>4, <1>6, <1>7 DEF Ahead, AheadOf

LEMMA JointRefiles ==
    ASSUME NEW sn, Joint(sn), NEW z \in Browser, NEW y \in Browser, NEW p \in Paper,
           Refiles(z, y, p)
    PROVE  Joint(sn)'
<1>1. meta' = meta /\ \A u \in Browser : Known(u)' = Known(u)
  BY DEF Refiles, Known
<1>2. ASSUME NEW u \in Browser, NEW v \in Browser, NEW d \in Category
      PROVE  /\ d \notin Known(u)' /\ meta'[u][d].at # Never => meta'[v][d] = meta'[u][d]
             /\ d \in Known(u)' /\ Later(meta'[v][d], meta'[u][d])
                => \E m \in Browser : meta'[v][d].at[2] = m /\ "move" \in sn[m]
  <2>1. /\ d \notin Known(u) /\ meta[u][d].at # Never => meta[v][d] = meta[u][d]
        /\ d \in Known(u) /\ Later(meta[v][d], meta[u][d])
           => \E m \in Browser : meta[v][d].at[2] = m /\ "move" \in sn[m]
    BY DEF Joint
  <2> QED
    BY <1>1, <2>1
<1>3. ASSUME NEW u \in Browser, NEW q \in Paper, NEW c \in filed'[u][q].value
      PROVE  \E v \in Browser : c \in Known(v)'
  <2>1. PICK s \in Browser : filed'[u][q] = filed[s][q]
    BY DEF Refiles
  <2>2. PICK v \in Browser : c \in Known(v)
    BY <1>3, <2>1 DEF Joint
  <2> QED
    BY <1>1, <2>2
<1>4. \A u \in Browser : HasTree(meta'[u])
  BY <1>1 DEF Joint
<1> QED
  BY <1>2, <1>3, <1>4 DEF Joint

LEMMA OrderlyMerges ==
    ASSUME EditingTypeOK, Stamped, Causal,
           NEW sn \in [Browser -> SUBSET {"delete", "move", "grow"}], Orderly(sn),
           NEW z \in Browser, NEW y \in Browser,
           \/ Joins(z, y) /\ UNCHANGED filed
           \/ \E p \in Paper : Refiles(z, y, p)
    PROVE  Orderly(sn)'
<1>1. \A u, v \in Browser : u # v => /\ "delete" \in sn[u] => sn[v] = {}
                                     /\ ~("move" \in sn[u] /\ "move" \in sn[v])
  BY DEF Orderly
<1>2. ASSUME NEW x \in Browser, \A u \in Browser \ {x} : sn[u] = {}
      PROVE  Ahead(x)' /\ Sound(x)'
  <2>1. Ahead(x) /\ Sound(x)
    BY <1>2 DEF Orderly
  <2>2. CASE Joins(z, y) /\ UNCHANGED filed
    <3>1. Ahead(x)' /\ meta'[x] = meta[x]
      BY <2>1, <2>2, AheadJoins
    <3>2. Known(x)' = Known(x)
      BY <3>1 DEF Known
    <3> QED
      BY <2>1, <2>2, <3>1, <3>2 DEF Sound
  <2>3. ASSUME NEW p \in Paper, Refiles(z, y, p) PROVE Ahead(x)' /\ Sound(x)'
    <3>1. Ahead(x)' /\ \A q \in Paper : filed'[x][q] = filed[x][q]
      BY <2>1, <2>3, AheadRefiles
    <3>2. meta' = meta /\ Known(x)' = Known(x)
      BY <2>3 DEF Refiles, Known
    <3> QED
      BY <2>1, <3>1, <3>2 DEF Sound
  <2> QED
    BY <2>2, <2>3
<1>3. ASSUME \A x \in Browser : "delete" \notin sn[x] PROVE Joint(sn)'
  <2>1. Joint(sn)
    BY <1>3 DEF Orderly
  <2>2. CASE Joins(z, y) /\ UNCHANGED filed
    BY <1>1, <2>1, <2>2, JointJoins
  <2>3. ASSUME NEW p \in Paper, Refiles(z, y, p) PROVE Joint(sn)'
    BY <2>1, <2>3, JointRefiles
  <2> QED
    BY <2>2, <2>3
<1> QED
  BY <1>1, <1>2, <1>3 DEF Orderly

\* Pages that agree have the same tree, and have it whole.
LEMMA AgreedSound ==
    \A sn : Orderly(sn) /\ Agreed => \A x \in Browser : Sound(x)
<1> SUFFICES ASSUME NEW sn, Orderly(sn), Agreed, NEW x \in Browser PROVE Sound(x)
  OBVIOUS
<1>1. \A y \in Browser : Known(y) = Known(x)
  BY DEF Agreed, Known
<1>2. CASE \A y \in Browser : "delete" \notin sn[y]
  <2>1. Joint(sn)
    BY <1>2 DEF Orderly
  <2> QED
    BY <1>1, <2>1 DEF Joint, Sound
<1>3. CASE \E y \in Browser : "delete" \in sn[y]
  <2>1. PICK y \in Browser : "delete" \in sn[y]
    BY <1>3
  <2>2. Sound(y)
    BY <2>1 DEF Orderly
  <2> QED
    BY <1>1, <2>2 DEF Sound, Agreed
<1> QED
  BY <1>2, <1>3

LEMMA AgreedSoundNext ==
    (\A sn : Orderly(sn) /\ Agreed => \A x \in Browser : Sound(x))'
BY AgreedSound, PTL

\* What others have got need not be remembered.
LEMMA OrderlyAnew ==
    EditingTypeOK /\ Agreed /\ (\A x \in Browser : Sound(x))
    => Orderly([x \in Browser |-> {}])
<1> DEFINE sn == [x \in Browser |-> {}]
<1> SUFFICES ASSUME EditingTypeOK, Agreed, \A x \in Browser : Sound(x)
             PROVE  Orderly(sn)
  OBVIOUS
<1>1. \A x \in Browser : sn[x] = {}
  OBVIOUS
<1> HIDE DEF sn
<1>2. \A x \in Browser : Ahead(x)
  BY DEF Agreed, Ahead, AheadOf
<1>3. \A x, y \in Browser, c \in Category : ~Later(meta[x][c], meta[y][c])
  BY SlotTypes, StampOrder DEF Agreed, EditingTypeOK
<1>4. Joint(sn)
  BY <1>3 DEF Agreed, Joint, Sound
<1> QED
  BY <1>1, <1>2, <1>4 DEF Orderly

LEMMA OrderlyAnewNext ==
    (EditingTypeOK /\ Agreed /\ (\A x \in Browser : Sound(x))
     => Orderly([x \in Browser |-> {}]))'
BY OrderlyAnew, PTL

\* The inductive invariant.
CategoriesInv ==
    /\ EditingTypeOK /\ Stamped /\ Causal /\ Viewed
    /\ ~crossed => Orderly(since)

LEMMA CategoriesInitially == EditingInit => CategoriesInv
<1> SUFFICES ASSUME EditingInit PROVE CategoriesInv
  OBVIOUS
<1>1. /\ meta = [x \in Browser |-> [c \in Category |-> Spot(None)]]
      /\ filed = [x \in Browser |-> [p \in Paper |-> Spot({})]]
      /\ view = [x \in Browser |-> Top]
      /\ edits = 0 /\ since = [x \in Browser |-> {}] /\ crossed = FALSE
  BY DEF EditingInit, CategoriesInit
<1>2. /\ Never \in Stamp /\ Never[1] = 0
      /\ Spot(None).at = Never /\ Spot(None).value = None
      /\ Spot({}).at = Never /\ Spot({}).value = {}
  BY DEF Spot, Never, Stamp
<1>3. Spot(None) \in Slot /\ Spot({}) \in Slip
  BY <1>2 DEF Spot, Slot, Slip
<1>4. EditingTypeOK
  BY <1>1, <1>3 DEF EditingTypeOK
<1>5. \A x \in Browser : /\ \A c \in Category : meta[x][c] = Spot(None)
                         /\ \A p \in Paper : filed[x][p] = Spot({})
  BY <1>1
<1>6. ~Later(Spot(None), Spot(None))
  BY <1>2, StampOrder
<1>7. Stamped /\ Causal
  BY <1>1, <1>2, <1>5, <1>6 DEF Stamped, Causal
<1>8. Viewed
  BY <1>1 DEF Viewed
<1>9. Agreed
  BY <1>1 DEF Agreed
<1>10. ASSUME NEW x \in Browser PROVE Sound(x)
  <2>1. Among(meta[x]) = {}
    BY <1>2, <1>5 DEF Among
  <2> QED
    BY <1>2, <1>5, <2>1 DEF Sound, HasTree
<1>11. Orderly(since)
  BY <1>1, <1>4, <1>9, <1>10, OrderlyAnew
<1> QED
  BY <1>4, <1>7, <1>8, <1>11 DEF CategoriesInv

LEMMA ViewedEdits ==
    ASSUME EditingTypeOK, Viewed, NEW x \in Browser, Edited(x)
    PROVE  Viewed'
<1>1. ASSUME NEW y \in Browser PROVE view'[y] \in Known(y)' \cup {Top}
  <2>1. CASE y = x
    BY <2>1 DEF Edited
  <2>2. CASE y # x
    <3>1. meta'[y] = meta[y] /\ view'[y] = view[y]
      BY <2>2, EditsMap DEF Edited
    <3> QED
      BY <3>1 DEF Viewed, Known
  <2> QED
    BY <2>1, <2>2
<1> QED
  BY <1>1 DEF Viewed

LEMMA StampedEdits ==
    ASSUME EditingTypeOK, Stamped, Causal, NEW x \in Browser, Edited(x), edits' = edits + 1
    PROVE  Stamped' /\ Causal'
<1>1. CASE Files(x)
  <2>1. meta' = meta
    BY <1>1 DEF Files
  <2>2. \A y \in Browser, c \in Category : meta[y][c].at[1] \in Nat /\ edits \in Nat
    BY SlotTypes DEF EditingTypeOK
  <2>3. \A y \in Browser, c \in Category : meta[y][c].at[1] <= edits'
    BY <2>2 DEF Stamped
  <2> QED
    BY <2>1, <2>3 DEF Stamped, Causal
<1>2. CASE Creates(x) \/ Reparents(x) \/ Drops(x)
  <2>1. PICK c \in Category, v \in Category \cup {Top, None} : Writes(x, c, v)
    BY <1>2, KnownFacts DEF Creates, Reparents, Drops
  <2> QED
    BY <2>1, StampedWrites, CausalWrites
<1> QED
  BY <1>1, <1>2 DEF Edited

LEMMA CategoriesEdit ==
    ASSUME CategoriesInv, NEW x \in Browser, Edit(x), RememberEdit(x), edits' = edits + 1
    PROVE  CategoriesInv'
<1>1. EditingTypeOK /\ Stamped /\ Causal /\ Viewed
  BY DEF CategoriesInv
<1>2. Edited(x)
  BY <1>1, EditFacts
<1>3. Stamped' /\ Causal' /\ Viewed'
  BY <1>1, <1>2, StampedEdits, ViewedEdits
<1>4. Kind(x) \in {"delete", "move", "grow"}
  BY DEF Kind
<1>5. since' = [since EXCEPT ![x] = @ \cup {Kind(x)}] /\ crossed' \in BOOLEAN
  BY DEF RememberEdit
<1>6. since' \in [Browser -> SUBSET {"delete", "move", "grow"}]
  BY <1>1, <1>4, <1>5 DEF EditingTypeOK
<1>7. EditingTypeOK'
  BY <1>1, <1>2, <1>5, <1>6, EditsMap DEF EditingTypeOK, Edited
<1>8. ASSUME ~crossed' PROVE Orderly(since)'
  <2> DEFINE others == UNION {since[y] : y \in Browser \ {x}}
  <2>1. /\ ~crossed /\ "delete" \notin others
        /\ Kind(x) = "delete" => others = {}
        /\ Kind(x) = "move" => "move" \notin others
        /\ Kind(x) = "delete" => \A c \in Known(x)' : Parent(x, c)' \in Known(x)' \cup {Top}
        /\ Kind(x) = "move" => InTree(x)' = Known(x)'
    BY <1>8 DEF RememberEdit
  <2>2. \A y \in Browser \ {x} : since[y] \subseteq others
    OBVIOUS
  <2>3. PICK sn : sn = since
    OBVIOUS
  <2>4. PICK sm : sm = since'
    OBVIOUS
  <2>5. Orderly(sn) /\ sn \in [Browser -> SUBSET {"delete", "move", "grow"}]
    BY <1>1, <2>1, <2>3 DEF CategoriesInv, EditingTypeOK
  <2>6. Recalls(sn, sm, x, Kind(x))
    BY <1>5, <2>1, <2>2, <2>3, <2>4 DEF Recalls, Parent
  <2>7. Orderly(sm)'
    BY <1>1, <1>2, <2>5, <2>6, OrderlyEdits
  <2> QED
    BY <2>4, <2>7
<1> QED
  BY <1>3, <1>7, <1>8 DEF CategoriesInv

LEMMA CategoriesMerge ==
    ASSUME CategoriesInv, NEW x \in Browser, NEW y \in Browser, Merging(x, y),
           RememberMerge, UNCHANGED edits
    PROVE  CategoriesInv'
<1>1. EditingTypeOK /\ Stamped /\ Causal /\ Viewed
  BY DEF CategoriesInv
<1>2. \/ Joins(x, y) /\ Look(x) /\ UNCHANGED filed
      \/ \E p \in Paper : Refiles(x, y, p)
  <2>1. CASE MergeMeta(x, y)
    BY <1>1, <2>1, MergedFacts DEF MergeMeta
  <2>2. ASSUME NEW p \in Paper, Later(filed[y][p], filed[x][p]), MergePaper(x, y, p)
        PROVE  Refiles(x, y, p)
    BY <1>1, <2>2, RefilesFacts
  <2> QED
    BY <2>1, <2>2 DEF Merging
<1>3. /\ meta' \in [Browser -> [Category -> Slot]]
      /\ filed' \in [Browser -> [Paper -> Slip]]
      /\ view' \in [Browser -> Category \cup {Top}]
      /\ Stamped' /\ Causal' /\ Viewed'
  <2>1. CASE Joins(x, y) /\ Look(x) /\ UNCHANGED filed
    <3>1. /\ view' \in [Browser -> Category \cup {Top}]
          /\ view'[x] \in Known(x)' \cup {Top}
          /\ \A z \in Browser \ {x} : view'[z] = view[z]
      BY <1>1, <2>1, LookFacts
    <3>2. Viewed'
      BY <1>1, <2>1, <3>1 DEF Viewed, Joins, Known
    <3> QED
      BY <1>1, <2>1, <3>1, <3>2, StampedJoins, CausalJoins DEF EditingTypeOK, Joins
  <2>2. ASSUME NEW p \in Paper, Refiles(x, y, p)
        PROVE  /\ meta' = meta /\ view' = view
               /\ filed' \in [Browser -> [Paper -> Slip]]
    BY <2>2 DEF Refiles
  <2>3. CASE \E p \in Paper : Refiles(x, y, p)
    <3>1. meta' = meta /\ view' = view /\ filed' \in [Browser -> [Paper -> Slip]]
      BY <2>2, <2>3
    <3> QED
      BY <1>1, <3>1 DEF EditingTypeOK, Stamped, Causal, Viewed, Known
  <2> QED
    BY <1>2, <2>1, <2>3
<1>4. since' = (IF Agreed' THEN [z \in Browser |-> {}] ELSE since) /\ crossed' = crossed
  BY DEF RememberMerge
<1>5. EditingTypeOK'
  BY <1>1, <1>3, <1>4 DEF EditingTypeOK
<1>6. ASSUME ~crossed' PROVE Orderly(since)'
  <2>1. PICK sn : sn = since
    OBVIOUS
  <2>2. Orderly(sn) /\ sn \in [Browser -> SUBSET {"delete", "move", "grow"}]
    BY <1>1, <1>4, <1>6, <2>1 DEF CategoriesInv, EditingTypeOK
  <2>3. Orderly(sn)'
    BY <1>1, <1>2, <2>2, OrderlyMerges
  <2>4. CASE ~Agreed'
    BY <1>4, <2>1, <2>3, <2>4
  <2>5. CASE Agreed'
    <3>1. \A z \in Browser : Sound(z)'
      BY <2>3, <2>5, AgreedSoundNext
    <3>2. Orderly([z \in Browser |-> {}])'
      BY <1>5, <2>5, <3>1, OrderlyAnewNext
    <3> QED
      BY <1>4, <2>5, <3>2
  <2> QED
    BY <2>4, <2>5
<1> QED
  BY <1>3, <1>5, <1>6 DEF CategoriesInv

LEMMA CategoriesStep == CategoriesInv /\ [EditingNext]_editingVars => CategoriesInv'
<1> SUFFICES ASSUME CategoriesInv, [EditingNext]_editingVars PROVE CategoriesInv'
  OBVIOUS
<1>1. CASE UNCHANGED editingVars
  BY <1>1 DEF editingVars, categoriesVars, CategoriesInv, EditingTypeOK, Stamped, Causal,
              Viewed, Known, Orderly, Joint, Ahead, Sound
<1>2. ASSUME NEW x \in Browser, Edit(x), RememberEdit(x), edits' = edits + 1
      PROVE  CategoriesInv'
  BY <1>2, CategoriesEdit
<1>3. ASSUME NEW x \in Browser, NEW y \in Browser, Merging(x, y), RememberMerge,
             UNCHANGED edits
      PROVE  CategoriesInv'
  BY <1>3, CategoriesMerge
<1> QED
  BY <1>1, <1>2, <1>3 DEF EditingNext

\* TreeWholeIfOrderly (SpaceStore.categoryTree): pages that have all of each other's
\* edits of categories have one tree with every category in it, and documents filed
\* under nothing else, however many pages edited at once and in whatever order they got
\* the edits; unless edits crossed.
THEOREM TreeWhole == EditingSpec => []TreeWholeIfOrderly
<1>1. CategoriesInv => TreeWholeIfOrderly
  <2>1. SUFFICES ASSUME CategoriesInv, Agreed, ~crossed, NEW x \in Browser PROVE Whole(x)
    BY DEF TreeWholeIfOrderly
  <2>2. Sound(x) /\ Viewed
    BY <2>1, AgreedSound DEF CategoriesInv
  <2>3. Known(x) = Among(meta[x]) /\ \A c \in Category : Parent(x, c) = meta[x][c].value
        /\ Known(x) \subseteq Category
    BY TreeFacts, KnownFacts
  <2>4. \A c \in Known(x) : Parent(x, c) \in Known(x) \cup {Top}
    <3>1. \A c \in Known(x) : meta[x][c].value \in Known(x) \cup {Top}
      BY <2>2, <2>3 DEF Sound, HasTree
    <3> QED
      BY <3>1 DEF Parent
  <2>5. InTree(x) = Known(x)
    BY <2>2, <2>4, TreeFacts DEF Sound
  <2> QED
    BY <2>2, <2>4, <2>5 DEF Whole, Builds, Sound, Viewed
<1> QED
  BY <1>1, CategoriesInitially, CategoriesStep, PTL DEF EditingSpec

-----------------------------------------------------------------------------
(* Forms *)

\* A validation that is due or under way is of the value that the field has, which passed
\* the others; and else the verdict is on that value, unless an error was meddled with.
Judged(f, p) ==
    /\ p.due \/ p.run # NoRun => p.validating
    /\ p.run # NoRun => p.run = p.value /\ ~p.due
    /\ p.validating => /\ p.value # Empty /\ f \in Checked /\ f \in Async
                       /\ <<f, p.value>> \notin Bad
    /\ ~p.meddled /\ ~p.validating => p.valid = Right(f, p.value)
    /\ ~p.meddled => /\ p.valid <=> p.error = "none"
                     /\ p.show => p.error # "none"

FormsInv == FormsTypeOK /\ \A f \in Field : Judged(f, form[f])

\* A verdict is right for the value it is on, and what is shown is decided anew.
LEMMA VerdictJudged ==
  ASSUME NEW f \in Field, NEW p \in FieldState, p.run = NoRun, ~p.due, ~p.validating,
         NEW error \in {"none", "required", "validation"},
         (error = "none") = Right(f, p.value)
  PROVE  Verdict(f, p, error) \in FieldState /\ Judged(f, Verdict(f, p, error))
<1> DEFINE q == [p EXCEPT !.valid = error = "none", !.error = error, !.meddled = FALSE]
<1>1. q \in FieldState /\ q.value = p.value /\ q.run = NoRun /\ ~q.due /\ ~q.validating
      /\ q.valid = (error = "none") /\ q.error = error
  BY DEF FieldState
<1>2. ShouldShow(f, q) \in BOOLEAN /\ (ShouldShow(f, q) => error # "none")
  BY <1>1 DEF ShouldShow
<1> HIDE DEF q
<1>3. PICK s \in BOOLEAN : s = ShouldShow(f, q)
  BY <1>2
<1>4. Verdict(f, p, error) = [q EXCEPT !.show = s]
  BY <1>3 DEF Verdict, Emit, q
<1>5. ~q.meddled
  BY DEF q, FieldState
<1> QED
  BY <1>1, <1>2, <1>3, <1>4, <1>5 DEF FieldState, Judged

\* Whatever a field was, validating it judges its value, or is about to.
LEMMA ValidateJudged ==
  ASSUME NEW f \in Field, NEW p \in FieldState, p.due \/ p.run # NoRun => p.validating,
         ~p.meddled => (p.valid <=> p.error = "none") /\ (p.show => p.error # "none")
  PROVE  Validate(f, p) \in FieldState /\ Judged(f, Validate(f, p))
<1> DEFINE q == CancelValidation(p)
<1>1. q \in FieldState /\ q.value = p.value /\ q.run = NoRun /\ ~q.due /\ ~q.validating
      /\ q.valid = p.valid /\ q.error = p.error /\ q.show = p.show /\ q.meddled = p.meddled
  BY FormsAssumption DEF CancelValidation, FieldState
<1> HIDE DEF q
<1>2. CASE q.value = Empty
  <2>1. Validate(f, p) = Verdict(f, q, IF f \in Required THEN "required" ELSE "none")
    BY <1>2 DEF Validate, q
  <2> QED
    BY <1>1, <1>2, <2>1, VerdictJudged DEF Right
<1>3. CASE q.value # Empty /\ f \in Checked /\ <<f, q.value>> \in Bad
  <2>1. Validate(f, p) = Verdict(f, q, "validation")
    BY <1>3 DEF Validate, q
  <2> QED
    BY <1>1, <1>3, <2>1, VerdictJudged DEF Right
<1>4. CASE /\ q.value # Empty /\ ~(f \in Checked /\ <<f, q.value>> \in Bad)
           /\ f \in Checked /\ f \in Async
  <2>1. Validate(f, p) = [q EXCEPT !.validating = TRUE, !.due = TRUE]
    BY <1>4 DEF Validate, q
  <2> QED
    BY <1>1, <1>4, <2>1 DEF FieldState, Judged
<1>5. CASE /\ q.value # Empty /\ ~(f \in Checked /\ <<f, q.value>> \in Bad)
           /\ ~(f \in Checked /\ f \in Async)
  <2>1. Validate(f, p) = Verdict(f, q, "none")
    BY <1>5 DEF Validate, q
  <2> QED
    BY <1>1, <1>5, <2>1, VerdictJudged DEF Right
<1> QED
  BY <1>2, <1>3, <1>4, <1>5

LEMMA FormsInitially == FormsInit => FormsInv
<1> SUFFICES ASSUME FormsInit PROVE FormsInv
  OBVIOUS
<1> DEFINE p == [value |-> Empty, disabled |-> FALSE, valid |-> FALSE, error |-> "none",
                 validating |-> FALSE, due |-> FALSE, run |-> NoRun, focused |-> FALSE,
                 touched |-> FALSE, show |-> FALSE, meddled |-> FALSE]
           q(f) == Verdict(f, p, IF f \in Required THEN "required" ELSE "none")
<1>1. p \in FieldState /\ p.value = Empty /\ p.run = NoRun /\ ~p.due /\ ~p.validating
      /\ CancelValidation(p) = p
  BY FormsAssumption DEF FieldState, CancelValidation
<1>2. form = [f \in Field |-> [Validate(f, p) EXCEPT !.show = FALSE]] /\ sending = FALSE
  BY DEF FormsInit
<1> HIDE DEF p
<1>3. ASSUME NEW f \in Field
      PROVE  form[f] \in FieldState /\ Judged(f, form[f])
  <2>1. Validate(f, p) = q(f)
    BY <1>1 DEF Validate
  <2>2. q(f) \in FieldState /\ Judged(f, q(f))
    BY <1>1, VerdictJudged DEF Right
  <2> HIDE DEF q
  <2>3. form[f] = [q(f) EXCEPT !.show = FALSE]
    BY <1>2, <2>1
  <2> QED
    BY <2>2, <2>3 DEF FieldState, Judged
<1> QED
  BY <1>2, <1>3 DEF FormsInv, FormsTypeOK

\* A field that becomes p, being judged, leaves the others so.
LEMMA PutJudged ==
  ASSUME FormsInv, NEW f \in Field, NEW p, Put(f, p), p \in FieldState, Judged(f, p)
  PROVE  FormsInv'
<1>1. form' = [form EXCEPT ![f] = p] /\ sending' = sending
  BY DEF Put
<1>2. \A g \in Field : form'[g] = IF g = f THEN p ELSE form[g]
  BY <1>1 DEF FormsInv, FormsTypeOK
<1>3. FormsTypeOK'
  BY <1>1, <1>2 DEF FormsInv, FormsTypeOK
<1>4. \A g \in Field : Judged(g, form'[g])
  BY <1>2 DEF FormsInv
<1> QED
  BY <1>3, <1>4 DEF FormsInv, Judged, Right

LEMMA FormsStep == FormsInv /\ [FormsNext]_formsVars => FormsInv'
<1> SUFFICES ASSUME FormsInv, [FormsNext]_formsVars PROVE FormsInv'
  OBVIOUS
<1>1. ASSUME NEW f \in Field
      PROVE  form[f] \in FieldState /\ Judged(f, form[f])
  BY DEF FormsInv, FormsTypeOK
<1>2. ASSUME NEW f \in Field, NEW v \in Value, Change(f, v) PROVE FormsInv'
  <2> DEFINE p == [form[f] EXCEPT !.value = v]
  <2>1. p \in FieldState /\ (p.due \/ p.run # NoRun => p.validating)
        /\ (~p.meddled => (p.valid <=> p.error = "none") /\ (p.show => p.error # "none"))
    BY <1>1 DEF FieldState, Judged
  <2>2. Put(f, Validate(f, p))
    BY <1>2 DEF Change
  <2> QED
    BY <2>1, <2>2, ValidateJudged, PutJudged
<1>3. ASSUME NEW f \in Field, AsyncValidate(f) PROVE FormsInv'
  <2> DEFINE p == [form[f] EXCEPT !.due = FALSE, !.run = form[f].value]
  <2>1. p \in FieldState /\ Judged(f, p)
    BY <1>1, <1>3 DEF FieldState, Judged, AsyncValidate
  <2> QED
    BY <1>3, <2>1, PutJudged DEF AsyncValidate
<1>4. ASSUME NEW f \in Field, AsyncAnswer(f) PROVE FormsInv'
  <2> DEFINE p == [form[f] EXCEPT !.run = NoRun, !.validating = FALSE]
             error == IF <<f, form[f].run>> \in AsyncBad THEN "validation" ELSE "none"
  <2>1. form[f].run # NoRun /\ Put(f, Verdict(f, p, error))
    BY <1>4 DEF AsyncAnswer
  <2>2. p \in FieldState /\ p.run = NoRun /\ ~p.due /\ ~p.validating /\ p.value = form[f].value
    BY <1>1, <2>1, FormsAssumption DEF FieldState, Judged
  <2>3. error \in {"none", "validation"} /\ (error = "none") = Right(f, p.value)
    BY <1>1, <2>1, <2>2 DEF Judged, Right
  <2> HIDE DEF p, error
  <2> QED
    BY <2>1, <2>2, <2>3, VerdictJudged, PutJudged
<1>5. ASSUME NEW f \in Field, AsyncFails(f) PROVE FormsInv'
  <2> DEFINE p == [form[f] EXCEPT !.run = NoRun]
  <2>1. p \in FieldState /\ Judged(f, p)
    BY <1>1, <1>5 DEF FieldState, Judged, AsyncFails
  <2> QED
    BY <1>5, <2>1, PutJudged DEF AsyncFails
<1>6. ASSUME NEW f \in Field, Focus(f) PROVE FormsInv'
  <2> DEFINE p == [form[f] EXCEPT !.focused = TRUE, !.touched = TRUE]
  <2>1. p \in FieldState /\ Judged(f, p)
    BY <1>1 DEF FieldState, Judged
  <2> QED
    BY <1>6, <2>1, PutJudged DEF Focus
<1>7. ASSUME NEW f \in Field, Blur(f) PROVE FormsInv'
  <2> DEFINE q == [form[f] EXCEPT !.focused = FALSE]
             s == ShouldShow(f, q)
             p == [form[f] EXCEPT !.show = s]
  <2>1. q.error = form[f].error
    BY <1>1 DEF FieldState
  <2>2. s \in BOOLEAN /\ (s => form[f].error # "none")
    BY <2>1 DEF ShouldShow
  <2> HIDE DEF s
  <2>3. p \in FieldState /\ Judged(f, p)
    BY <1>1, <2>2 DEF FieldState, Judged
  <2>4. Put(f, p)
    BY <1>7 DEF Blur, s
  <2> QED
    BY <2>3, <2>4, PutJudged
<1>8. ASSUME NEW f \in Field, SetError(f) PROVE FormsInv'
  <2> DEFINE q == [form[f] EXCEPT !.valid = FALSE, !.error = "external"]
             s == ShouldShow(f, q)
             p == [[q EXCEPT !.show = s] EXCEPT !.meddled = TRUE]
  <2>1. s \in BOOLEAN
    BY DEF ShouldShow
  <2> HIDE DEF s
  <2>2. p \in FieldState /\ Judged(f, p)
    BY <1>1, <2>1 DEF FieldState, Judged
  <2>3. Put(f, p)
    BY <1>8 DEF SetError, Emit, s
  <2> QED
    BY <2>2, <2>3, PutJudged
<1>9. ASSUME NEW f \in Field, ClearError(f) PROVE FormsInv'
  <2> DEFINE p == [form[f] EXCEPT !.valid = TRUE, !.error = "none", !.meddled = TRUE]
  <2>1. p \in FieldState /\ Judged(f, p)
    BY <1>1 DEF FieldState, Judged
  <2> QED
    BY <1>9, <2>1, PutJudged DEF ClearError
<1>10. ASSUME NEW f \in Field, Toggle(f) PROVE FormsInv'
  <2> DEFINE p == [form[f] EXCEPT !.disabled = ~form[f].disabled]
  <2>1. p \in FieldState /\ Judged(f, p)
    BY <1>1 DEF FieldState, Judged
  <2> QED
    BY <1>10, <2>1, PutJudged DEF Toggle
<1>11. CASE Reset
  <2> DEFINE p(f) == [form[f] EXCEPT !.value = Empty, !.touched = FALSE]
  <2>1. ASSUME NEW f \in Field
        PROVE  Validate(f, p(f)) \in FieldState /\ Judged(f, Validate(f, p(f)))
    <3>1. p(f) \in FieldState /\ (p(f).due \/ p(f).run # NoRun => p(f).validating)
          /\ (~p(f).meddled => (p(f).valid <=> p(f).error = "none")
                               /\ (p(f).show => p(f).error # "none"))
      BY <1>1, FormsAssumption DEF FieldState, Judged
    <3> QED
      BY <3>1, ValidateJudged
  <2>2. form' = [f \in Field |-> Validate(f, p(f))] /\ sending' = sending
    BY <1>11 DEF Reset
  <2> HIDE DEF p
  <2>3. FormsTypeOK'
    BY <2>1, <2>2 DEF FormsInv, FormsTypeOK
  <2>4. \A f \in Field : Judged(f, form'[f])
    BY <2>1, <2>2
  <2> QED
    BY <2>3, <2>4 DEF FormsInv, Judged, Right
<1>12. CASE Submit \/ Sent \/ UNCHANGED formsVars
  <2>1. form' = form /\ sending' \in BOOLEAN
    BY <1>12 DEF Submit, Sent, formsVars, FormsInv, FormsTypeOK
  <2> QED
    BY <2>1 DEF FormsInv, FormsTypeOK, Judged, Right
<1> QED
  BY <1>2, <1>3, <1>4, <1>5, <1>6, <1>7, <1>8, <1>9, <1>10, <1>11, <1>12 DEF FormsNext

\* VerdictsCurrent (FieldStore, FormStore): while nobody sets or clears errors by hand, a
\* field that is not being validated has the verdict on the value it has now, however
\* changes and answers of validations come; and a form that may be submitted has nothing
\* in it that its validations refuse.
THEOREM VerdictsAlwaysCurrent == FormsSpec => []VerdictsCurrent
<1>1. FormsInv => VerdictsCurrent
  BY DEF FormsInv, Judged, VerdictsCurrent, FormValid, Enabled
<1> QED
  BY <1>1, FormsInitially, FormsStep, PTL DEF FormsSpec

-----------------------------------------------------------------------------
(* Accounts *)

\* The job has an account, and it has a token of it.
HasAccount(j) == jobs[j].pc \in {6, 7, 8} => jobs[j].account \in DOMAIN accounts

Issued(j) == /\ j \in DOMAIN jobs /\ jobs[j].pc \in {0, 8}
             /\ jobs[j].account \in DOMAIN accounts

\* Tokens of an account that no deletion has found.
Kept(u) == Owned(u) \ UNION {w.old : w \in sweeps}

Tidied(u) == \/ u \in unswept
             \/ \E w \in sweeps : ~w.found /\ jobs[w.job].account = u
             \/ Cardinality(Kept(u)) <= MaxTokens

\* What a deletion found was issued to the account that it is for.
Sweeps(w) == /\ Issued(w.job) /\ (~w.found => w.old = {})
             /\ \A i \in w.old : Issued(i) /\ jobs[i].account = jobs[w.job].account

TokensInv ==
    /\ \A j \in DOMAIN jobs : HasAccount(j)
    /\ \A i \in DOMAIN tokens : Issued(i) /\ tokens[i].account = jobs[i].account
    /\ \A i, k \in DOMAIN tokens : tokens[i].used = tokens[k].used => i = k
    /\ \A w \in sweeps : Sweeps(w)
    /\ \A u \in DOMAIN accounts : Tidied(u)

\* One account is made by one who found none.
OneMade ==
    \/ "doubled" \in mishaps
    \/ /\ \A j, k \in Busy({5}) : j = k
       /\ accounts # <<>> => Busy({5}) = {} /\ Len(accounts) = 1

Homed == \A u \in DOMAIN accounts :
            \/ accounts[u] = "homed" \/ "homeless" \in mishaps
            \/ \E j \in Busy({6}) : jobs[j].account = u

NoticesInv ==
    /\ notices.told <= notices.made /\ notices.seen <= notices.made
    /\ \/ "unmarked" \in mishaps
       \/ notices.told <= notices.seen
       \/ notices.clearing = 0 /\ notices.unread

AccountsInv == AccountsTypeOK /\ TokensInv /\ OneMade /\ Homed /\ NoticesInv

\* What a job does next: the job becomes r.
JobMoves(j, r) ==
    \/ r.pc = 0 /\ jobs[j].pc > 0 /\ r.account = jobs[j].account /\ accounts' = accounts
    \/ jobs[j].pc \in {1, 2, 3} /\ r.pc \in {2, 3, 4} /\ accounts' = accounts
    \/ jobs[j].pc = 3 /\ r.pc = 7 /\ r.account \in DOMAIN accounts /\ accounts' = accounts
    \/ jobs[j].pc = 4 /\ r.pc = 5 /\ accounts = <<>> /\ accounts' = accounts
    \/ /\ jobs[j].pc = 5 /\ r.pc = 6 /\ r.account = Len(accounts) + 1
       /\ accounts' = Append(accounts, "bare")
    \/ /\ jobs[j].pc = 6 /\ r.pc = 7 /\ r.account = jobs[j].account
       /\ accounts' = [accounts EXCEPT ![jobs[j].account] = "homed"]
    \/ /\ jobs[j].pc = 7 /\ r.pc = 8 /\ r.account = jobs[j].account /\ accounts' = accounts

TokensAlone == tokens' = tokens /\ uses' = uses /\ sweeps' = sweeps

LEMMA AccountsBasics ==
  ASSUME AccountsTypeOK
  PROVE  /\ Len(jobs) \in Nat /\ DOMAIN jobs = 1 .. Len(jobs) /\ Len(jobs) <= MaxJobs
         /\ Len(accounts) \in Nat /\ DOMAIN accounts = 1 .. Len(accounts)
         /\ MaxJobs \in Nat /\ MaxAttempts \in Nat /\ MaxTokens \in Nat
         /\ \A j \in DOMAIN jobs : jobs[j] \in Job(Len(accounts))
         /\ \A u \in DOMAIN accounts : accounts[u] \in {"bare", "homed"}
<1>1. jobs \in Seq(Job(Len(accounts))) /\ accounts \in Seq({"bare", "homed"})
      /\ Len(jobs) <= MaxJobs
  BY DEF AccountsTypeOK
<1>2. Len(jobs) \in Nat /\ DOMAIN jobs = 1 .. Len(jobs)
      /\ Len(accounts) \in Nat /\ DOMAIN accounts = 1 .. Len(accounts)
  BY <1>1, LenProperties
<1>3. \A j \in 1 .. Len(jobs) : jobs[j] \in Job(Len(accounts))
  BY <1>1, ElementOfSeq
<1>4. \A u \in 1 .. Len(accounts) : accounts[u] \in {"bare", "homed"}
  BY <1>1, ElementOfSeq
<1> QED
  BY <1>1, <1>2, <1>3, <1>4, AccountsAssumption

\* Accounts are only added, bare, and get their space.
LEMMA MovesAccounts ==
  ASSUME AccountsTypeOK, NEW j \in DOMAIN jobs, NEW r, JobMoves(j, r), HasAccount(j)
  PROVE  /\ accounts' \in Seq({"bare", "homed"}) /\ Len(accounts') >= Len(accounts)
         /\ Len(accounts') \in Nat /\ DOMAIN accounts' = 1 .. Len(accounts')
         /\ \A u \in DOMAIN accounts : accounts'[u] \in {accounts[u], "homed"}
<1>1. accounts \in Seq({"bare", "homed"}) /\ "bare" \in {"bare", "homed"}
      /\ "homed" \in {"bare", "homed"}
  BY DEF AccountsTypeOK
<1>2. Len(accounts) \in Nat /\ DOMAIN accounts = 1 .. Len(accounts)
  BY AccountsBasics
<1>3. CASE accounts' = accounts
  BY <1>1, <1>2, <1>3
<1>4. CASE accounts' = Append(accounts, "bare")
  <2>1. /\ Append(accounts, "bare") \in Seq({"bare", "homed"})
        /\ Len(Append(accounts, "bare")) = Len(accounts) + 1
        /\ \A i \in 1 .. Len(accounts) : Append(accounts, "bare")[i] = accounts[i]
    BY <1>1, AppendProperties
  <2> QED
    BY <1>2, <1>4, <2>1, LenProperties
<1>5. CASE jobs[j].pc = 6 /\ accounts' = [accounts EXCEPT ![jobs[j].account] = "homed"]
  <2>1. jobs[j].account \in 1 .. Len(accounts)
    BY <1>2, <1>5 DEF HasAccount
  <2> DEFINE s == [accounts EXCEPT ![jobs[j].account] = "homed"]
  <2>2. /\ s \in Seq({"bare", "homed"}) /\ Len(s) = Len(accounts)
        /\ \A i \in 1 .. Len(accounts) : s[i] = IF i = jobs[j].account THEN "homed" ELSE accounts[i]
    BY <1>1, <2>1, ExceptSeq
  <2> QED
    BY <1>2, <1>5, <2>2, LenProperties
<1> QED
  BY <1>3, <1>4, <1>5 DEF JobMoves

LEMMA JobAttempts ==
  ASSUME NEW n, NEW p \in Job(n), NEW k \in 0 .. MaxAttempts
  PROVE  LET q == [p EXCEPT !.attempts = k] IN
         q \in Job(n) /\ q.pc = p.pc /\ q.account = p.account
BY DEF Job

LEMMA JobAccount ==
  ASSUME NEW n, NEW p \in Job(n), NEW m, NEW u \in 0 .. m
  PROVE  LET q == [p EXCEPT !.account = u] IN q \in Job(m) /\ q.pc = p.pc /\ q.account = u
BY DEF Job

\* A job takes one of these steps; only one that issues a token touches tokens.
LEMMA JobStepMoves ==
  ASSUME AccountsTypeOK, NEW j \in DOMAIN jobs, HasAccount(j), JobStep(j) \/ JobFails(j)
  PROVE  /\ \E r \in Job(Len(accounts')) : jobs' = [jobs EXCEPT ![j] = r] /\ JobMoves(j, r)
         /\ TokensAlone \/ IssueToken(j)
         /\ otps' \in [Otp -> [status: {"none", "known", "gone"}, attempts: 0 .. MaxAttempts]]
         /\ held' \in [Device -> 0 .. MaxJobs]
         /\ notices' = notices
<1> DEFINE P == \E r \in Job(Len(accounts')) : jobs' = [jobs EXCEPT ![j] = r] /\ JobMoves(j, r)
           Otps == [Otp -> [status: {"none", "known", "gone"}, attempts: 0 .. MaxAttempts]]
           Still == otps' = otps /\ held' = held /\ notices' = notices
<1>1. /\ jobs[j] \in Job(Len(accounts)) /\ Len(accounts) \in Nat /\ MaxAttempts \in Nat
      /\ DOMAIN jobs = 1 .. Len(jobs) /\ DOMAIN accounts = 1 .. Len(accounts)
      /\ Len(jobs) \in Nat /\ Len(jobs) <= MaxJobs /\ MaxJobs \in Nat
      /\ otps \in Otps /\ held \in [Device -> 0 .. MaxJobs]
  BY AccountsBasics DEF AccountsTypeOK
<1>0. ASSUME NEW pc \in 0 .. 8
      PROVE  [jobs[j] EXCEPT !.pc = pc] \in Job(Len(accounts)) /\ [jobs[j] EXCEPT !.pc = pc].pc = pc
  BY <1>1 DEF Job
<1>2. ASSUME NEW pc \in 0 .. 8, Goto(j, pc), Len(accounts') = Len(accounts),
             JobMoves(j, [jobs[j] EXCEPT !.pc = pc])
      PROVE  P
  <2>1. jobs' = [jobs EXCEPT ![j] = [jobs[j] EXCEPT !.pc = pc]]
    BY <1>2 DEF Goto
  <2>2. [jobs[j] EXCEPT !.pc = pc] \in Job(Len(accounts'))
    BY <1>1, <1>2 DEF Job
  <2> QED
    BY <1>2, <2>1, <2>2
<1>3. ASSUME JobEnds(j), jobs[j].pc > 0, accounts' = accounts PROVE P
  <2>1. JobMoves(j, [jobs[j] EXCEPT !.pc = 0])
    BY <1>1, <1>3 DEF JobMoves, Job
  <2> QED
    BY <1>2, <1>3, <2>1 DEF JobEnds
<1>4. CASE FindOtp(j)
  <2>1. TokensAlone /\ Still /\ accounts' = accounts /\ jobs[j].pc = 1
    BY <1>4 DEF FindOtp, TokensAlone, JobAt
  <2>2. CASE JobEnds(j)
    BY <1>1, <1>3, <2>1, <2>2
  <2>3. CASE ~JobEnds(j)
    <3> DEFINE p == [jobs[j] EXCEPT !.pc = 2]
               k == otps[jobs[j].otp].attempts
               r == [p EXCEPT !.attempts = k]
    <3>1. jobs' = [jobs EXCEPT ![j] = r]
      BY <1>4, <2>3 DEF FindOtp
    <3>2. k \in 0 .. MaxAttempts
      BY <1>1 DEF Job
    <3>3. p \in Job(Len(accounts)) /\ p.pc = 2
      BY <1>0
    <3> HIDE DEF p, k
    <3>4. r \in Job(Len(accounts')) /\ r.pc = 2
      BY <1>1, <2>1, <3>2, <3>3, JobAttempts
    <3> QED
      BY <1>1, <2>1, <3>1, <3>4 DEF JobMoves
  <2> QED
    BY <2>2, <2>3
<1>5. CASE CheckOtp(j)
  <2>1. TokensAlone /\ held' = held /\ notices' = notices /\ accounts' = accounts /\ jobs[j].pc = 2
    BY <1>5 DEF CheckOtp, TokensAlone, JobAt
  <2>2. jobs[j].otp \in Otp
    BY <1>1 DEF Job
  <2>3. [otps EXCEPT ![jobs[j].otp].status = "gone"] \in Otps
    BY <1>1
  <2>4. ASSUME otps[jobs[j].otp].attempts < MaxAttempts
        PROVE  [otps EXCEPT ![jobs[j].otp].attempts = @ + 1] \in Otps
    <3> DEFINE p == otps[jobs[j].otp]
               q == [p EXCEPT !.attempts = p.attempts + 1]
    <3>1. p.attempts + 1 \in 0 .. MaxAttempts
      BY <1>1, <2>2, <2>4
    <3>2. q \in [status: {"none", "known", "gone"}, attempts: 0 .. MaxAttempts]
      BY <1>1, <2>2, <3>1
    <3> HIDE DEF q
    <3>3. [otps EXCEPT ![jobs[j].otp] = q] \in Otps
      BY <1>1, <3>2
    <3> QED
      BY <3>3 DEF q
  <2>5. otps' \in Otps
    BY <1>1, <1>5, <2>3, <2>4 DEF CheckOtp
  <2>6. CASE JobEnds(j)
    BY <1>1, <1>3, <2>1, <2>5, <2>6
  <2>7. CASE Goto(j, 3)
    <3>1. JobMoves(j, [jobs[j] EXCEPT !.pc = 3])
      BY <1>1, <2>1 DEF JobMoves, Job
    <3> QED
      BY <1>1, <1>2, <2>1, <2>5, <2>7, <3>1
  <2> QED
    BY <1>5, <2>6, <2>7 DEF CheckOtp
<1>6. CASE FindUser(j)
  <2>1. TokensAlone /\ Still /\ accounts' = accounts /\ jobs[j].pc = 3
    BY <1>6 DEF FindUser, TokensAlone, JobAt
  <2>2. CASE Goto(j, 4)
    <3>1. JobMoves(j, [jobs[j] EXCEPT !.pc = 4])
      BY <1>1, <2>1 DEF JobMoves, Job
    <3> QED
      BY <1>1, <1>2, <2>1, <2>2, <3>1
  <2>3. CASE ~Goto(j, 4)
    <3>1. PICK u \in DOMAIN accounts : jobs' = [jobs EXCEPT ![j].pc = 7, ![j].account = u]
      BY <1>6, <2>3 DEF FindUser
    <3> DEFINE p == [jobs[j] EXCEPT !.pc = 7]
               r == [p EXCEPT !.account = u]
    <3>2. jobs' = [jobs EXCEPT ![j] = r]
      BY <3>1
    <3>4. p \in Job(Len(accounts)) /\ p.pc = 7
      BY <1>0
    <3> HIDE DEF p
    <3>3. r \in Job(Len(accounts')) /\ r.pc = 7 /\ r.account = u
      BY <1>1, <2>1, <3>4, JobAccount
    <3> QED
      BY <1>1, <2>1, <3>2, <3>3 DEF JobMoves
  <2> QED
    BY <2>2, <2>3
<1>7. CASE CreateUser(j)
  <2>1. TokensAlone /\ Still /\ accounts' = accounts /\ jobs[j].pc = 4
    BY <1>7 DEF CreateUser, TokensAlone, JobAt
  <2>2. CASE accounts = <<>> /\ Goto(j, 5)
    <3>1. JobMoves(j, [jobs[j] EXCEPT !.pc = 5])
      BY <1>1, <2>1, <2>2 DEF JobMoves, Job
    <3> QED
      BY <1>1, <1>2, <2>1, <2>2, <3>1
  <2>3. CASE JobEnds(j)
    BY <1>1, <1>3, <2>1, <2>3
  <2> QED
    BY <1>7, <2>2, <2>3 DEF CreateUser
<1>8. CASE InsertUser(j)
  <2>1. TokensAlone /\ Still /\ accounts' = Append(accounts, "bare") /\ jobs[j].pc = 5
    BY <1>8 DEF InsertUser, TokensAlone, JobAt
  <2>2. Len(accounts') = Len(accounts) + 1
    BY <2>1, AppendProperties DEF AccountsTypeOK
  <2> DEFINE p == [jobs[j] EXCEPT !.pc = 6]
             r == [p EXCEPT !.account = Len(accounts) + 1]
  <2>3. jobs' = [jobs EXCEPT ![j] = r]
    BY <1>8 DEF InsertUser
  <2>5. p \in Job(Len(accounts)) /\ p.pc = 6
    BY <1>0
  <2> HIDE DEF p
  <2>6. Len(accounts) + 1 \in 0 .. Len(accounts')
    BY <1>1, <2>2
  <2>4. r \in Job(Len(accounts')) /\ r.pc = 6 /\ r.account = Len(accounts) + 1
    BY <2>5, <2>6, JobAccount
  <2> QED
    BY <1>1, <2>1, <2>3, <2>4 DEF JobMoves
<1>9. CASE CreateFirstSpace(j)
  <2>1. TokensAlone /\ Still /\ jobs[j].pc = 6
    BY <1>9 DEF CreateFirstSpace, TokensAlone, JobAt
  <2>2. CASE accounts' = accounts /\ JobEnds(j)
    BY <1>1, <1>3, <2>1, <2>2
  <2>3. CASE accounts' = [accounts EXCEPT ![jobs[j].account] = "homed"] /\ Goto(j, 7)
    <3>1. JobMoves(j, [jobs[j] EXCEPT !.pc = 7])
      BY <1>1, <2>1, <2>3 DEF JobMoves, Job
    <3>2. jobs[j].account \in 1 .. Len(accounts)
      BY <1>1, <2>1 DEF HasAccount
    <3>3. Len(accounts') = Len(accounts)
      BY <2>3, <3>2, ExceptSeq DEF AccountsTypeOK
    <3> QED
      BY <1>1, <1>2, <2>1, <2>3, <3>1, <3>3
  <2> QED
    BY <1>9, <2>2, <2>3 DEF CreateFirstSpace
<1>10. CASE IssueToken(j)
  <2>1. Still /\ accounts' = accounts /\ jobs[j].pc = 7 /\ Goto(j, 8)
    BY <1>10 DEF IssueToken, JobAt
  <2>2. JobMoves(j, [jobs[j] EXCEPT !.pc = 8])
    BY <1>1, <2>1 DEF JobMoves, Job
  <2> QED
    BY <1>1, <1>2, <1>10, <2>1, <2>2
<1>11. CASE Answer(j)
  <2>1. TokensAlone /\ otps' = otps /\ notices' = notices /\ accounts' = accounts /\ jobs[j].pc = 8
        /\ JobEnds(j) /\ held' = [held EXCEPT ![jobs[j].device] = j]
    BY <1>11 DEF Answer, TokensAlone, JobAt
  <2>2. held' \in [Device -> 0 .. MaxJobs]
    <3>1. j \in 0 .. MaxJobs
      BY <1>1
    <3> QED
      BY <1>1, <2>1, <3>1
  <2> QED
    BY <1>1, <1>3, <2>1, <2>2
<1>12. CASE JobFails(j)
  <2>1. TokensAlone /\ Still /\ accounts' = accounts /\ jobs[j].pc > 0 /\ JobEnds(j)
    BY <1>12 DEF JobFails, TokensAlone
  <2> QED
    BY <1>1, <1>3, <2>1
<1> QED
  BY <1>4, <1>5, <1>6, <1>7, <1>8, <1>9, <1>10, <1>11, <1>12 DEF JobStep

LEMMA JobsMoved ==
  ASSUME AccountsTypeOK, NEW j \in DOMAIN jobs, NEW r \in Job(Len(accounts')),
         jobs' = [jobs EXCEPT ![j] = r], Len(accounts') \in Nat, Len(accounts') >= Len(accounts)
  PROVE  /\ jobs' \in Seq(Job(Len(accounts'))) /\ Len(jobs') = Len(jobs)
         /\ DOMAIN jobs' = DOMAIN jobs
         /\ \A k \in DOMAIN jobs : jobs'[k] = IF k = j THEN r ELSE jobs[k]
<1>1. Job(Len(accounts)) \subseteq Job(Len(accounts'))
  BY AccountsBasics DEF Job
<1>2. jobs \in Seq(Job(Len(accounts')))
  <2>1. jobs \in [1 .. Len(jobs) -> Job(Len(accounts'))] /\ Len(jobs) \in Nat
    BY <1>1, AccountsBasics, LenProperties DEF AccountsTypeOK
  <2> QED
    BY <2>1, SeqDef
<1>3. j \in 1 .. Len(jobs) /\ DOMAIN jobs = 1 .. Len(jobs)
  BY AccountsBasics
<1>4. /\ jobs' \in Seq(Job(Len(accounts'))) /\ Len(jobs') = Len(jobs)
      /\ \A k \in 1 .. Len(jobs) : jobs'[k] = IF k = j THEN r ELSE jobs[k]
  BY <1>2, <1>3, ExceptSeq
<1> QED
  BY <1>3, <1>4, LenProperties

LEMMA JobsCoded ==
  ASSUME AccountsTypeOK, NEW d \in Device, NEW o \in Otp, NEW right \in BOOLEAN,
         Code(d, o, right)
  PROVE  /\ jobs' \in Seq(Job(Len(accounts'))) /\ Len(jobs') = Len(jobs) + 1
         /\ Len(jobs') <= MaxJobs
         /\ DOMAIN jobs' = DOMAIN jobs \cup {Len(jobs) + 1}
         /\ \A k \in DOMAIN jobs : jobs'[k] = jobs[k]
         /\ jobs'[Len(jobs) + 1].pc = 1
<1> DEFINE r == [pc |-> 1, device |-> d, otp |-> o, right |-> right, attempts |-> 0, account |-> 0]
<1>1. jobs' = Append(jobs, r) /\ accounts' = accounts /\ Len(jobs) < MaxJobs
  BY DEF Code
<1>2. r \in Job(Len(accounts)) /\ r.pc = 1
  BY AccountsBasics DEF Job
<1>3. jobs \in Seq(Job(Len(accounts)))
  BY DEF AccountsTypeOK
<1> HIDE DEF r
<1>4. /\ jobs' \in Seq(Job(Len(accounts))) /\ Len(jobs') = Len(jobs) + 1
      /\ \A k \in 1 .. Len(jobs) : jobs'[k] = jobs[k]
      /\ jobs'[Len(jobs) + 1] = r
  BY <1>1, <1>2, <1>3, AppendProperties
<1>5. DOMAIN jobs' = 1 .. Len(jobs) + 1 /\ DOMAIN jobs = 1 .. Len(jobs)
      /\ Len(jobs) \in Nat /\ MaxJobs \in Nat
  BY <1>4, LenProperties, AccountsBasics
<1> QED
  BY <1>1, <1>2, <1>4, <1>5

-----------------------------------------------------------------------------
(* Accounts: tokens *)

LEMMA OwnedFinite ==
  ASSUME AccountsTypeOK, NEW u
  PROVE  IsFiniteSet(Owned(u)) /\ IsFiniteSet(Kept(u)) /\ Kept(u) \subseteq Owned(u)
<1>1. Owned(u) \subseteq 1 .. Len(jobs) /\ Len(jobs) \in Nat
  BY AccountsBasics DEF AccountsTypeOK, Owned
<1>2. IsFiniteSet(1 .. Len(jobs))
  BY <1>1, FS_Interval
<1>3. Kept(u) \subseteq Owned(u)
  BY DEF Kept
<1>4. IsFiniteSet(Owned(u))
  BY <1>1, <1>2, FS_Subset
<1> QED
  BY <1>3, <1>4, FS_Subset

\* Of finitely many that were used at different times, there are at most n that have
\* fewer than n others used later.
LEMMA FewLast ==
  ASSUME NEW S, IsFiniteSet(S), NEW used \in [S -> Nat], NEW n \in Nat,
         \A i, k \in S : used[i] = used[k] => i = k
  PROVE  Cardinality({i \in S : ~(Cardinality({k \in S : used[k] > used[i]}) >= n)}) <= n
<1> DEFINE later(i) == {k \in S : used[k] > used[i]}
           R == {i \in S : ~(Cardinality(later(i)) >= n)}
           T == {used[i] : i \in R}
<1>1. ASSUME R = {} PROVE Cardinality(R) <= n
  <2> HIDE DEF R
  <2> QED
    BY <1>1, FS_EmptySet
<1>2. ASSUME R # {} PROVE Cardinality(R) <= n
  <2>1. T # {} /\ T \subseteq Nat
    <3>1. R \subseteq S
      OBVIOUS
    <3> HIDE DEF R
    <3> QED
      BY <1>2, <3>1
  <2>2. PICK m \in T : \A x \in T : <<x, m>> \notin OpToRel(<, Nat)
    <3> HIDE DEF T
    <3> QED
      BY <2>1, WFMin, NatLessThanWellFounded
  <2>3. PICK i \in R : m = used[i]
    BY <2>2
  <2>4. \A k \in R : ~(used[k] < used[i])
    BY <2>1, <2>2, <2>3 DEF OpToRel
  <2>5. R \ {i} \subseteq later(i)
    BY <2>3, <2>4
  <2>6. later(i) \subseteq S /\ R \subseteq S /\ R \ {i} \subseteq S
    OBVIOUS
  <2>7. ~(Cardinality(later(i)) >= n)
    BY <2>3
  <2> HIDE DEF R, later, T
  <2>8. IsFiniteSet(later(i)) /\ IsFiniteSet(R)
    BY <2>6, FS_Subset
  <2>9. Cardinality(later(i)) \in Nat /\ Cardinality(R) \in Nat
    BY <2>8, FS_CardinalityType
  <2>10. Cardinality(R \ {i}) <= Cardinality(later(i))
    BY <2>5, <2>8, FS_Subset
  <2>11. Cardinality(R \ {i}) = Cardinality(R) - 1
    BY <2>3, <2>8, FS_RemoveElement
  <2> QED
    BY <2>7, <2>9, <2>10, <2>11
<1> QED
  BY <1>1, <1>2

\* Whoever is left alone by the others keeps what it has.
LEMMA TokensStay ==
  ASSUME AccountsTypeOK, TokensInv, tokens' = tokens, sweeps' = sweeps, unswept' = unswept,
         Len(accounts') \in Nat, Len(accounts') >= Len(accounts),
         DOMAIN accounts' = 1 .. Len(accounts'),
         DOMAIN jobs \subseteq DOMAIN jobs', \A j \in DOMAIN jobs' : HasAccount(j)',
         \A j \in DOMAIN jobs : jobs[j].pc \in {0, 8} =>
             jobs'[j].pc \in {0, 8} /\ jobs'[j].account = jobs[j].account
  PROVE  TokensInv'
<1>1. DOMAIN accounts \subseteq DOMAIN accounts'
  BY AccountsBasics
<1>2. \A i : Issued(i) => Issued(i)' /\ jobs'[i].account = jobs[i].account
  BY <1>1 DEF Issued
<1>3. \A u : Owned(u)' = Owned(u) /\ Kept(u)' = Kept(u)
  BY DEF Owned, Kept
<1>4. ASSUME NEW u \in DOMAIN accounts' PROVE Tidied(u)'
  <2>1. CASE u \in DOMAIN accounts
    BY <1>2, <1>3, <2>1 DEF Tidied, TokensInv, Sweeps
  <2>2. CASE u \notin DOMAIN accounts
    <3>1. Owned(u) = {}
      BY <2>2 DEF Owned, AccountsTypeOK
    <3>2. Cardinality(Kept(u)') = 0
      BY <1>3, <3>1, FS_EmptySet DEF Kept
    <3> QED
      BY <3>2, AccountsAssumption DEF Tidied
  <2> QED
    BY <2>1, <2>2
<1>5. \A i \in DOMAIN tokens' : Issued(i)' /\ tokens'[i].account = jobs'[i].account
  BY <1>2 DEF TokensInv
<1>6. \A w \in sweeps' : Sweeps(w)'
  BY <1>2 DEF TokensInv, Sweeps
<1> QED
  BY <1>4, <1>5, <1>6 DEF TokensInv

LEMMA FunctionOf ==
  ASSUME NEW D, NEW S, NEW g, g = [i \in D |-> g[i]], \A i \in D : g[i] \in S
  PROVE  g \in [D -> S]
OBVIOUS

LEMMA IssueTokenKeeps ==
  ASSUME AccountsTypeOK, TokensInv, NEW j \in DOMAIN jobs, IssueToken(j), unswept' = unswept
  PROVE  /\ TokensInv'
         /\ uses' \in Nat /\ DOMAIN tokens' \subseteq DOMAIN jobs'
         /\ tokens' \in [DOMAIN tokens' -> [account: DOMAIN accounts', used: 1 .. uses']]
         /\ sweeps' \subseteq [job: 1 .. MaxJobs, found: BOOLEAN, old: SUBSET (1 .. MaxJobs)]
<1> DEFINE u == jobs[j].account
           w == [job |-> j, found |-> FALSE, old |-> {}]
<1>1. /\ jobs[j].pc = 7 /\ Goto(j, 8) /\ accounts' = accounts /\ uses' = uses + 1
      /\ tokens' = [i \in DOMAIN tokens \cup {j} |->
                       IF i = j THEN [account |-> u, used |-> uses + 1] ELSE tokens[i]]
      /\ sweeps' = sweeps \cup {w}
  BY DEF IssueToken, JobAt
<1>2. u \in DOMAIN accounts /\ uses \in Nat
  BY <1>1 DEF TokensInv, HasAccount, AccountsTypeOK
<1>3. \A i \in DOMAIN tokens : tokens[i] \in [account: DOMAIN accounts, used: 1 .. uses]
                               /\ i # j
  <2>1. \A i \in DOMAIN tokens : tokens[i] \in [account: DOMAIN accounts, used: 1 .. uses]
    BY DEF AccountsTypeOK
  <2>2. \A i \in DOMAIN tokens : jobs[i].pc \in {0, 8}
    BY DEF TokensInv, Issued
  <2>3. jobs[j].pc = 7
    BY <1>1
  <2> QED
    BY ONLY <2>1, <2>2, <2>3
<1>4. /\ DOMAIN jobs' = DOMAIN jobs
      /\ \A k \in DOMAIN jobs : jobs'[k].account = jobs[k].account
                                /\ jobs'[k].pc = IF k = j THEN 8 ELSE jobs[k].pc
  <2>1. jobs[j] \in Job(Len(accounts)) /\ jobs' = [jobs EXCEPT ![j].pc = 8]
    BY <1>1, AccountsBasics DEF Goto
  <2>2. [jobs[j] EXCEPT !.pc = 8].pc = 8 /\ [jobs[j] EXCEPT !.pc = 8].account = jobs[j].account
    BY <2>1 DEF Job
  <2> QED
    BY <2>1, <2>2
<1>5. /\ DOMAIN tokens' = DOMAIN tokens \cup {j} /\ tokens'[j] = [account |-> u, used |-> uses + 1]
      /\ \A i \in DOMAIN tokens : tokens'[i] = tokens[i]
  BY <1>1, <1>3
<1>6. j \in 1 .. MaxJobs
  BY AccountsBasics
<1>7. /\ uses' \in Nat /\ DOMAIN tokens' \subseteq DOMAIN jobs'
      /\ tokens' \in [DOMAIN tokens' -> [account: DOMAIN accounts', used: 1 .. uses']]
  <2>1. \A i \in DOMAIN tokens' : tokens'[i] \in [account: DOMAIN accounts, used: 1 .. uses + 1]
    BY <1>2, <1>3, <1>5
  <2>2. DOMAIN tokens' \subseteq DOMAIN jobs'
    BY <1>4, <1>5 DEF AccountsTypeOK
  <2>3. tokens' = [i \in DOMAIN tokens' |-> tokens'[i]]
    BY <1>1
  <2> DEFINE Row == [account: DOMAIN accounts, used: 1 .. uses + 1]
  <2>4. \A i \in DOMAIN tokens' : tokens'[i] \in Row
    BY <2>1
  <2> HIDE DEF Row
  <2>5. tokens' \in [DOMAIN tokens' -> Row]
    BY ONLY <2>3, <2>4
  <2>6. uses' \in Nat /\ uses' = uses + 1 /\ accounts' = accounts
    BY <1>1, <1>2
  <2> QED
    BY <2>2, <2>5, <2>6 DEF Row
<1>8. sweeps' \subseteq [job: 1 .. MaxJobs, found: BOOLEAN, old: SUBSET (1 .. MaxJobs)]
  <2>1. w \in [job: 1 .. MaxJobs, found: BOOLEAN, old: SUBSET (1 .. MaxJobs)]
    BY <1>6
  <2> QED
    BY <1>1, <2>1 DEF AccountsTypeOK
<1>9. \A i : Issued(i) => Issued(i)'
  BY <1>1, <1>4 DEF Issued
<1>10. Issued(j)' /\ jobs'[j].account = u
  BY <1>1, <1>2, <1>4 DEF Issued
<1>11. \A k \in DOMAIN jobs' : HasAccount(k)'
  BY <1>1, <1>4 DEF TokensInv, HasAccount
<1>12. \A i \in DOMAIN tokens' : Issued(i)' /\ tokens'[i].account = jobs'[i].account
  BY <1>4, <1>5, <1>9, <1>10 DEF TokensInv, AccountsTypeOK
<1>13. \A i, k \in DOMAIN tokens' : tokens'[i].used = tokens'[k].used => i = k
  BY <1>2, <1>3, <1>5 DEF TokensInv
<1>14. \A v \in sweeps' : Sweeps(v)'
  <2>1. \A i : Issued(i) => jobs'[i].account = jobs[i].account
    BY <1>4 DEF Issued
  <2>2. ASSUME NEW v \in sweeps PROVE Sweeps(v)'
    BY <1>9, <2>1 DEF TokensInv, Sweeps
  <2>3. Sweeps(w)'
    BY <1>10 DEF Sweeps
  <2> QED
    BY <1>1, <2>2, <2>3
<1>15. ASSUME NEW c \in DOMAIN accounts' PROVE Tidied(c)'
  <2>1. CASE c = u
    <3>1. w \in sweeps' /\ ~w.found /\ w.job = j
      BY <1>1
    <3> QED
      BY <1>10, <2>1, <3>1 DEF Tidied
  <2>2. CASE c # u
    <3>1. Owned(c)' = Owned(c)
      BY <1>5, <2>2 DEF Owned
    <3>2. UNION {v.old : v \in sweeps'} = UNION {v.old : v \in sweeps}
      BY <1>1
    <3>3. Kept(c)' = Kept(c)
      BY <3>1, <3>2 DEF Kept
    <3>4. \A v \in sweeps : jobs'[v.job].account = jobs[v.job].account
      BY <1>4 DEF TokensInv, Sweeps, Issued
    <3> QED
      BY <1>1, <3>3, <3>4 DEF Tidied, TokensInv
  <2> QED
    BY <2>1, <2>2
<1> QED
  BY <1>7, <1>8, <1>11, <1>12, <1>13, <1>14, <1>15 DEF TokensInv

LEMMA FindOldKeeps ==
  ASSUME AccountsTypeOK, TokensInv, NEW w \in sweeps, FindOld(w),
         unswept' = unswept \ {jobs[w.job].account}
  PROVE  /\ TokensInv'
         /\ sweeps' \subseteq [job: 1 .. MaxJobs, found: BOOLEAN, old: SUBSET (1 .. MaxJobs)]
<1> DEFINE u == jobs[w.job].account
           Sweep == [job: 1 .. MaxJobs, found: BOOLEAN, old: SUBSET (1 .. MaxJobs)]
           Olds == UNION {x.old : x \in sweeps}
<1>0. PICK v : v = [w EXCEPT !.found = TRUE, !.old = Old(u)]
  OBVIOUS
<1>1. /\ ~w.found /\ accounts' = accounts /\ tokens' = tokens /\ uses' = uses /\ jobs' = jobs
      /\ sweeps' = (sweeps \ {w}) \cup IF Old(u) = {} THEN {} ELSE {v}
  BY <1>0 DEF FindOld
<1>2. w \in Sweep /\ sweeps \subseteq Sweep /\ Issued(w.job) /\ w.old = {}
  BY <1>1 DEF AccountsTypeOK, TokensInv, Sweeps
<1>3. Old(u) \subseteq Owned(u) /\ Owned(u) \subseteq 1 .. MaxJobs
  <2>1. Old(u) \subseteq Owned(u)
    BY DEF Old
  <2>2. Owned(u) \subseteq DOMAIN jobs
    BY DEF Owned, AccountsTypeOK
  <2> QED
    BY <2>1, <2>2, AccountsBasics
<1>4. v \in Sweep /\ v.job = w.job /\ v.found /\ v.old = Old(u)
  BY <1>0, <1>2, <1>3
<1>5. sweeps' \subseteq Sweep
  BY <1>1, <1>2, <1>4
<1>6. \A i : Issued(i)' <=> Issued(i)
  BY <1>1 DEF Issued
<1>7. \A x \in sweeps' : Sweeps(x)'
  <2>1. \A i \in Old(u) : Issued(i) /\ jobs[i].account = u
    BY DEF Old, Owned, TokensInv
  <2>2. Sweeps(v)'
    <3>1. Issued(v.job)'
      BY <1>2, <1>4, <1>6
    <3>2. \A i \in v.old : Issued(i)' /\ jobs'[i].account = jobs'[v.job].account
      BY <1>1, <1>4, <1>6, <2>1
    <3> QED
      BY <1>4, <3>1, <3>2 DEF Sweeps
  <2>3. ASSUME NEW x \in sweeps PROVE Sweeps(x)'
    BY <1>1, <1>6 DEF TokensInv, Sweeps
  <2>4. ASSUME NEW x \in sweeps' PROVE x \in sweeps \/ x = v
    BY <1>1
  <2> QED
    BY <2>2, <2>3, <2>4
<1>8. \A c : Owned(c)' = Owned(c)
  BY <1>1 DEF Owned
<1>9. \A i \in Olds \cup Old(u) : \E x \in sweeps' : i \in x.old
  <2>1. \A i \in Old(u) : v \in sweeps' /\ i \in v.old
    BY <1>1, <1>4
  <2>2. \A i \in Olds : \E x \in sweeps \ {w} : i \in x.old
    BY <1>2
  <2> QED
    BY <1>1, <2>1, <2>2
<1>10. \A c : Kept(c)' \subseteq Kept(c) \ Old(u)
  BY <1>8, <1>9 DEF Kept
<1>11. ASSUME NEW c \in DOMAIN accounts' PROVE Tidied(c)'
  <2>1. CASE \E x \in sweeps \ {w} : ~x.found /\ jobs[x.job].account = c
    <3>1. PICK x \in sweeps \ {w} : ~x.found /\ jobs[x.job].account = c
      BY <2>1
    <3>2. x \in sweeps' /\ jobs'[x.job].account = c
      BY <1>1, <3>1
    <3> QED
      BY <3>1, <3>2 DEF Tidied
  <2>2. CASE c = u
    <3> DEFINE S == Owned(u)
               used == [i \in S |-> tokens[i].used]
               R == {i \in S : ~(Cardinality({k \in S : used[k] > used[i]}) >= MaxTokens)}
    <3>1. used \in [S -> Nat] /\ \A i, k \in S : used[i] = used[k] => i = k
      BY DEF Owned, AccountsTypeOK, TokensInv
    <3>2. IsFiniteSet(S) /\ MaxTokens \in Nat
      BY OwnedFinite, AccountsBasics
    <3>3. Cardinality(R) <= MaxTokens
      BY <3>1, <3>2, FewLast
    <3>4. \A i \in S : {k \in S : used[k] > used[i]} = {k \in S : tokens[k].used > tokens[i].used}
      OBVIOUS
    <3>5. S \ Old(u) \subseteq R
      BY <3>4 DEF Old
    <3>6. Kept(c)' \subseteq R
      BY <1>10, <2>2, <3>5 DEF Kept
    <3>7. R \subseteq S
      OBVIOUS
    <3> HIDE DEF R, S
    <3>8. IsFiniteSet(R) /\ Cardinality(Kept(c)') <= Cardinality(R)
      BY <3>2, <3>6, <3>7, FS_Subset
    <3>9. Cardinality(Kept(c)') \in Nat /\ Cardinality(R) \in Nat
      BY <3>6, <3>8, FS_Subset, FS_CardinalityType
    <3>10. Cardinality(Kept(c)') <= MaxTokens
      BY <3>2, <3>3, <3>8, <3>9
    <3> QED
      BY <3>10 DEF Tidied
  <2>3. CASE c # u /\ c \in unswept
    BY <2>3 DEF Tidied
  <2>4. CASE /\ c # u /\ c \notin unswept
             /\ ~\E x \in sweeps \ {w} : ~x.found /\ jobs[x.job].account = c
    <3>1. Cardinality(Kept(c)) <= MaxTokens
      BY <1>1, <2>4 DEF TokensInv, Tidied
    <3>2. Kept(c)' \subseteq Kept(c)
      BY <1>10
    <3>3. IsFiniteSet(Kept(c)) /\ MaxTokens \in Nat
      BY OwnedFinite, AccountsBasics
    <3>4. Cardinality(Kept(c)') <= Cardinality(Kept(c)) /\ Cardinality(Kept(c)) \in Nat
          /\ Cardinality(Kept(c)') \in Nat
      BY <3>2, <3>3, FS_Subset, FS_CardinalityType
    <3>5. Cardinality(Kept(c)') <= MaxTokens
      BY <3>1, <3>3, <3>4
    <3> QED
      BY <3>5 DEF Tidied
  <2> QED
    BY <2>1, <2>2, <2>3, <2>4
<1>12. \A k \in DOMAIN jobs' : HasAccount(k)'
  BY <1>1 DEF TokensInv, HasAccount
<1>13. \A i \in DOMAIN tokens' : Issued(i)' /\ tokens'[i].account = jobs'[i].account
  BY <1>1, <1>6 DEF TokensInv
<1> QED
  BY <1>1, <1>5, <1>7, <1>11, <1>12, <1>13 DEF TokensInv

\* Tokens go, and what no deletion found is no more than before.
LEMMA DeleteKeeps ==
  ASSUME AccountsTypeOK, TokensInv, NEW ids, Delete(ids), accounts' = accounts, jobs' = jobs,
         uses' = uses, unswept' = unswept, sweeps' \subseteq sweeps,
         \A x \in sweeps \ sweeps' : x.found /\ x.old \subseteq ids
  PROVE  /\ TokensInv' /\ DOMAIN tokens' \subseteq DOMAIN jobs'
         /\ tokens' \in [DOMAIN tokens' -> [account: DOMAIN accounts', used: 1 .. uses']]
<1>1. /\ DOMAIN tokens' = DOMAIN tokens \ ids
      /\ \A i \in DOMAIN tokens' : tokens'[i] = tokens[i]
      /\ tokens' = [i \in DOMAIN tokens' |-> tokens[i]]
  BY DEF Delete
<1>2. \A i : Issued(i)' <=> Issued(i)
  BY DEF Issued
<1>3. \A c : Kept(c)' \subseteq Kept(c)
  BY <1>1 DEF Kept, Owned
<1>4. ASSUME NEW c \in DOMAIN accounts' PROVE Tidied(c)'
  <2>1. CASE c \in unswept \/ \E x \in sweeps : ~x.found /\ jobs[x.job].account = c
    BY <2>1 DEF Tidied
  <2>2. CASE Cardinality(Kept(c)) <= MaxTokens
    <3>1. IsFiniteSet(Kept(c)) /\ MaxTokens \in Nat
      BY OwnedFinite, AccountsBasics
    <3>2. Cardinality(Kept(c)') <= Cardinality(Kept(c)) /\ Cardinality(Kept(c)) \in Nat
          /\ Cardinality(Kept(c)') \in Nat
      BY <1>3, <3>1, FS_Subset, FS_CardinalityType
    <3>3. Cardinality(Kept(c)') <= MaxTokens
      BY <2>2, <3>1, <3>2
    <3> QED
      BY <3>3 DEF Tidied
  <2> QED
    BY <2>1, <2>2 DEF TokensInv, Tidied
<1>5. \A k \in DOMAIN jobs' : HasAccount(k)'
  BY DEF TokensInv, HasAccount
<1>6. \A i \in DOMAIN tokens' : Issued(i)' /\ tokens'[i].account = jobs'[i].account
  BY <1>1, <1>2 DEF TokensInv
<1>7. \A i, k \in DOMAIN tokens' : tokens'[i].used = tokens'[k].used => i = k
  BY <1>1 DEF TokensInv
<1>8. \A x \in sweeps' : Sweeps(x)'
  BY <1>2 DEF TokensInv, Sweeps
<1>9. DOMAIN tokens' \subseteq DOMAIN jobs'
      /\ tokens' \in [DOMAIN tokens' -> [account: DOMAIN accounts', used: 1 .. uses']]
  <2>1. \A i \in DOMAIN tokens' : tokens'[i] \in [account: DOMAIN accounts, used: 1 .. uses]
    BY <1>1 DEF AccountsTypeOK
  <2> QED
    BY <1>1, <2>1 DEF AccountsTypeOK
<1> QED
  BY <1>4, <1>5, <1>6, <1>7, <1>8, <1>9 DEF TokensInv

LEMMA UseKeeps ==
  ASSUME AccountsTypeOK, TokensInv, NEW id \in DOMAIN tokens, Use(id), accounts' = accounts,
         jobs' = jobs, sweeps' = sweeps, unswept' = unswept
  PROVE  /\ TokensInv' /\ uses' \in Nat /\ DOMAIN tokens' \subseteq DOMAIN jobs'
         /\ tokens' \in [DOMAIN tokens' -> [account: DOMAIN accounts', used: 1 .. uses']]
<1>1. \A i \in DOMAIN tokens : tokens[i] \in [account: DOMAIN accounts, used: 1 .. uses]
  BY DEF AccountsTypeOK
<1>2. uses' = uses + 1 /\ uses \in Nat /\ tokens' = [tokens EXCEPT ![id].used = uses + 1]
  BY DEF Use, AccountsTypeOK
<1>3. /\ DOMAIN tokens' = DOMAIN tokens
      /\ \A i \in DOMAIN tokens : /\ tokens'[i].account = tokens[i].account
                                  /\ tokens'[i].used = IF i = id THEN uses + 1 ELSE tokens[i].used
                                  /\ tokens'[i] \in [account: DOMAIN accounts, used: 1 .. uses + 1]
  <2> DEFINE r == [tokens[id] EXCEPT !.used = uses + 1]
  <2>1. r \in [account: DOMAIN accounts, used: 1 .. uses + 1] /\ r.used = uses + 1
        /\ r.account = tokens[id].account
    BY <1>1, <1>2
  <2>2. tokens' = [tokens EXCEPT ![id] = r]
    BY <1>2
  <2> HIDE DEF r
  <2>3. DOMAIN tokens' = DOMAIN tokens
        /\ \A i \in DOMAIN tokens : tokens'[i] = IF i = id THEN r ELSE tokens[i]
    BY <2>2
  <2>4. \A i \in DOMAIN tokens : tokens[i] \in [account: DOMAIN accounts, used: 1 .. uses + 1]
    <3>1. 1 .. uses \subseteq 1 .. uses + 1
      BY <1>2
    <3> QED
      BY <1>1, <3>1
  <2> QED
    BY <2>1, <2>3, <2>4
<1>4. tokens' \in [DOMAIN tokens' -> [account: DOMAIN accounts, used: 1 .. uses']]
  BY <1>2, <1>3
<1>5. \A i : Issued(i)' <=> Issued(i)
  BY DEF Issued
<1>6. \A c : Kept(c)' = Kept(c)
  BY <1>3 DEF Kept, Owned
<1>7. \A c \in DOMAIN accounts' : Tidied(c)'
  BY <1>6 DEF Tidied, TokensInv
<1>8. \A k \in DOMAIN jobs' : HasAccount(k)'
  BY DEF TokensInv, HasAccount
<1>9. \A i \in DOMAIN tokens' : Issued(i)' /\ tokens'[i].account = jobs'[i].account
  BY <1>3, <1>5 DEF TokensInv
<1>10. \A i, k \in DOMAIN tokens' : tokens'[i].used = tokens'[k].used => i = k
  <2>1. \A i \in DOMAIN tokens : tokens[i].used \in 1 .. uses
    BY <1>1
  <2> QED
    BY <1>2, <1>3, <2>1 DEF TokensInv
<1>11. \A x \in sweeps' : Sweeps(x)'
  BY <1>5 DEF TokensInv, Sweeps
<1>12. uses' \in Nat /\ DOMAIN tokens' \subseteq DOMAIN jobs'
  BY <1>2, <1>3 DEF AccountsTypeOK
<1>13. accounts' = accounts
  OBVIOUS
<1>14. TokensInv'
  BY ONLY <1>7, <1>8, <1>9, <1>10, <1>11 DEF TokensInv
<1> QED
  BY ONLY <1>4, <1>12, <1>13, <1>14

\* A deletion fails: what it found is still there, of the account that it was for.
LEMMA SweepFailsKeeps ==
  ASSUME AccountsTypeOK, TokensInv, NEW w \in sweeps, SweepFails(w),
         unswept' = unswept \cup {jobs[w.job].account}
  PROVE  TokensInv'
<1>1. /\ accounts' = accounts /\ tokens' = tokens /\ uses' = uses /\ jobs' = jobs
      /\ sweeps' = sweeps \ {w}
  BY DEF SweepFails
<1>2. \A i : Issued(i)' <=> Issued(i)
  BY <1>1 DEF Issued
<1>3. \A x \in sweeps' : Sweeps(x)'
  BY <1>1, <1>2 DEF TokensInv, Sweeps
<1>4. ASSUME NEW c \in DOMAIN accounts' PROVE Tidied(c)'
  <2>1. CASE c = jobs[w.job].account
    BY <2>1 DEF Tidied
  <2>2. CASE c # jobs[w.job].account
    <3>1. \A i \in Owned(c) : i \notin w.old
      BY <2>2 DEF TokensInv, Sweeps, Owned
    <3>2. Owned(c)' = Owned(c)
      BY <1>1 DEF Owned
    <3>3. Kept(c)' = Kept(c)
      BY <1>1, <3>1, <3>2 DEF Kept
    <3>4. Tidied(c)
      BY <1>1 DEF TokensInv
    <3>5. CASE \E x \in sweeps : ~x.found /\ jobs[x.job].account = c
      BY <1>1, <2>2, <3>5 DEF Tidied
    <3> QED
      BY <3>3, <3>4, <3>5 DEF Tidied
  <2> QED
    BY <2>1, <2>2
<1>5. \A k \in DOMAIN jobs' : HasAccount(k)'
  BY <1>1 DEF TokensInv, HasAccount
<1>6. \A i \in DOMAIN tokens' : Issued(i)' /\ tokens'[i].account = jobs'[i].account
  BY <1>1, <1>2 DEF TokensInv
<1> QED
  BY <1>1, <1>3, <1>4, <1>5, <1>6 DEF TokensInv

-----------------------------------------------------------------------------
(* Accounts: all of it *)

\* Two that would insert a user at once are remembered.
LEMMA TwoAtOnce ==
  ASSUME AccountsTypeOK', RememberMishaps, "doubled" \notin mishaps'
  PROVE  \A j, k \in Busy({5})' : j = k
<1> SUFFICES ASSUME NEW j \in Busy({5})', NEW k \in Busy({5})', j # k PROVE FALSE
  OBVIOUS
<1>1. Busy({5})' \subseteq DOMAIN jobs'
  BY DEF Busy
<1>2. Len(jobs') \in Nat /\ DOMAIN jobs' = 1 .. Len(jobs')
  BY LenProperties DEF AccountsTypeOK
<1>3. IsFiniteSet(Busy({5})')
  <2>1. IsFiniteSet(1 .. Len(jobs'))
    BY <1>2, FS_Interval
  <2> QED
    BY <1>1, <1>2, <2>1, FS_Subset
<1>4. IsFiniteSet({j}) /\ Cardinality({j}) = 1 /\ k \notin {j}
  BY FS_Singleton
<1>5. Cardinality({j} \cup {k}) = 2
  <2>1. Cardinality({j} \cup {k}) = Cardinality({j}) + 1
    <3> DEFINE S == {j}
    <3> HIDE DEF S
    <3> QED
      BY <1>4, FS_AddElement DEF S
  <2> QED
    BY <1>4, <2>1
<1>6. 2 <= Cardinality(Busy({5})') /\ Cardinality(Busy({5})') \in Nat
  BY <1>3, <1>5, FS_Subset, FS_CardinalityType
<1> QED
  BY <1>6 DEF RememberMishaps

\* Nothing that concerns making accounts happens.
LEMMA OthersKeepAccounts ==
  ASSUME AccountsTypeOK, OneMade, Homed, RememberMishaps, accounts' = accounts,
         \A k \in DOMAIN jobs : k \in DOMAIN jobs' /\ jobs'[k] = jobs[k],
         \A k \in DOMAIN jobs' \ DOMAIN jobs : jobs'[k].pc = 1
  PROVE  OneMade' /\ Homed'
<1>1. Busy({5})' = Busy({5}) /\ mishaps \subseteq mishaps'
  BY DEF Busy, RememberMishaps
<1>2. OneMade'
  BY <1>1 DEF OneMade
<1>3. \A u : (\E j \in Busy({6}) : jobs[j].account = u)
               => \E j \in Busy({6})' : jobs'[j].account = u
  BY DEF Busy
<1> QED
  BY <1>1, <1>2, <1>3 DEF Homed

LEMMA JobsKeepAccounts ==
  ASSUME AccountsTypeOK, AccountsTypeOK', OneMade, Homed, RememberMishaps, NEW j \in DOMAIN jobs,
         HasAccount(j), NEW r \in Job(Len(accounts')),
         jobs' = [jobs EXCEPT ![j] = r], JobMoves(j, r)
  PROVE  OneMade' /\ Homed'
<1>1. /\ accounts' \in Seq({"bare", "homed"}) /\ Len(accounts') >= Len(accounts)
      /\ Len(accounts') \in Nat /\ DOMAIN accounts' = 1 .. Len(accounts')
      /\ \A u \in DOMAIN accounts : accounts'[u] \in {accounts[u], "homed"}
  BY MovesAccounts
<1>2. /\ DOMAIN jobs' = DOMAIN jobs
      /\ \A k \in DOMAIN jobs : jobs'[k] = IF k = j THEN r ELSE jobs[k]
  BY <1>1, JobsMoved
<1>3. mishaps \subseteq mishaps' /\ (jobs[j].pc = 6 /\ r.pc = 0 => "homeless" \in mishaps')
  BY <1>2 DEF RememberMishaps, Busy
<1>4. Len(accounts) \in Nat /\ DOMAIN accounts = 1 .. Len(accounts)
  BY AccountsBasics
<1>5. OneMade'
  <2>1. SUFFICES ASSUME "doubled" \notin mishaps'
                 PROVE  accounts' # <<>> => Busy({5})' = {} /\ Len(accounts') = 1
    BY TwoAtOnce DEF OneMade
  <2>2. /\ \A k, l \in Busy({5}) : k = l
        /\ accounts # <<>> => Busy({5}) = {} /\ Len(accounts) = 1
    BY <1>3, <2>1 DEF OneMade
  <2>3. CASE r.pc # 5 /\ accounts' = accounts
    BY <1>2, <2>2, <2>3 DEF Busy
  <2>4. CASE r.pc = 5 /\ accounts = <<>> /\ accounts' = accounts
    BY <2>4
  <2>5. CASE jobs[j].pc = 5 /\ r.pc = 6 /\ accounts' = Append(accounts, "bare")
    <3>1. Busy({5}) = {j}
      BY <2>2, <2>5 DEF Busy
    <3>2. accounts = <<>>
      BY <2>2, <3>1
    <3>3. Len(accounts') = 1
      BY <2>5, <3>2
    <3>4. Busy({5})' = {}
      BY <1>2, <2>5, <3>1 DEF Busy
    <3> QED
      BY <3>3, <3>4
  <2>6. CASE /\ jobs[j].pc = 6 /\ r.pc = 7
             /\ accounts' = [accounts EXCEPT ![jobs[j].account] = "homed"]
    <3>1. jobs[j].account \in DOMAIN accounts
      BY <2>6 DEF HasAccount
    <3>2. accounts # <<>> /\ Len(accounts') = Len(accounts)
      <4>1. jobs[j].account \in 1 .. Len(accounts) /\ accounts \in Seq({"bare", "homed"})
            /\ "homed" \in {"bare", "homed"}
        BY <1>4, <3>1 DEF AccountsTypeOK
      <4>2. Len(accounts') = Len(accounts)
        BY <2>6, <4>1, ExceptSeq
      <4>3. Len(accounts) > 0
        BY <1>4, <4>1
      <4> QED
        BY <4>2, <4>3
    <3> QED
      BY <1>2, <2>2, <2>6, <3>2 DEF Busy
  <2> QED
    BY <2>3, <2>4, <2>5, <2>6 DEF JobMoves
<1>6. Homed'
  <2>1. SUFFICES ASSUME NEW u \in DOMAIN accounts', accounts'[u] # "homed",
                        "homeless" \notin mishaps'
                 PROVE  \E k \in Busy({6})' : jobs'[k].account = u
    BY DEF Homed
  <2>2. CASE u \in DOMAIN accounts
    <3>1. accounts[u] # "homed" /\ "homeless" \notin mishaps
      BY <1>1, <1>3, <2>1, <2>2
    <3>2. PICK k \in Busy({6}) : jobs[k].account = u
      BY <2>2, <3>1 DEF Homed
    <3>3. k # j
      <4>1. SUFFICES ASSUME k = j PROVE FALSE
        OBVIOUS
      <4>2. jobs[j].pc = 6 /\ jobs[j].account = u
        BY <3>2, <4>1 DEF Busy
      <4>3. accounts' = [accounts EXCEPT ![u] = "homed"]
        BY <1>3, <2>1, <4>2 DEF JobMoves
      <4> QED
        BY <2>1, <2>2, <4>3
    <3> QED
      BY <1>2, <3>2, <3>3 DEF Busy
  <2>3. CASE u \notin DOMAIN accounts
    <3>1. accounts' # accounts /\ accounts' # [accounts EXCEPT ![jobs[j].account] = "homed"]
      BY <2>1, <2>3
    <3>2. r.pc = 6 /\ r.account = Len(accounts) + 1 /\ accounts' = Append(accounts, "bare")
      BY <3>1 DEF JobMoves
    <3>3. u = Len(accounts) + 1
      <4>1. Len(accounts') = Len(accounts) + 1
        BY <3>2, AppendProperties DEF AccountsTypeOK
      <4> QED
        BY <1>1, <1>4, <2>1, <2>3, <4>1
    <3> QED
      BY <1>2, <3>2, <3>3 DEF Busy
  <2> QED
    BY <2>2, <2>3
<1> QED
  BY <1>5, <1>6

LEMMA NoticesFields ==
  ASSUME NEW n \in [made: Nat, told: Nat, seen: Nat, unread: BOOLEAN, clearing: Nat],
         NEW x \in Nat, NEW y \in Nat, NEW z \in BOOLEAN
  PROVE  /\ LET m == [n EXCEPT !.told = x, !.unread = z] IN
            /\ m \in [made: Nat, told: Nat, seen: Nat, unread: BOOLEAN, clearing: Nat]
            /\ m.made = n.made /\ m.told = x /\ m.seen = n.seen
            /\ m.unread = z /\ m.clearing = n.clearing
         /\ LET m == [n EXCEPT !.clearing = x, !.unread = z] IN
            /\ m \in [made: Nat, told: Nat, seen: Nat, unread: BOOLEAN, clearing: Nat]
            /\ m.made = n.made /\ m.told = n.told /\ m.seen = n.seen /\ m.clearing = x
         /\ LET m == [n EXCEPT !.seen = x, !.clearing = y] IN
            /\ m \in [made: Nat, told: Nat, seen: Nat, unread: BOOLEAN, clearing: Nat]
            /\ m.made = n.made /\ m.told = n.told /\ m.seen = x /\ m.clearing = y
<1>1. LET m == [n EXCEPT !.told = x, !.unread = z] IN
      /\ m \in [made: Nat, told: Nat, seen: Nat, unread: BOOLEAN, clearing: Nat]
      /\ m.made = n.made /\ m.told = x /\ m.seen = n.seen
      /\ m.unread = z /\ m.clearing = n.clearing
  OBVIOUS
<1>2. LET m == [n EXCEPT !.clearing = x, !.unread = z] IN
      /\ m \in [made: Nat, told: Nat, seen: Nat, unread: BOOLEAN, clearing: Nat]
      /\ m.made = n.made /\ m.told = n.told /\ m.seen = n.seen /\ m.clearing = x
  OBVIOUS
<1>3. LET m == [n EXCEPT !.seen = x, !.clearing = y] IN
      /\ m \in [made: Nat, told: Nat, seen: Nat, unread: BOOLEAN, clearing: Nat]
      /\ m.made = n.made /\ m.told = n.told /\ m.seen = x /\ m.clearing = y
  OBVIOUS
<1> QED
  BY <1>1, <1>2, <1>3

\* The mark for notifications.
LEMMA NoticesKept ==
  ASSUME AccountsTypeOK, NoticesInv, RememberMishaps,
         notices' = notices \/ TellInvite \/ ClearUnread \/ MakeInvite \/ ListInvites
  PROVE  /\ NoticesInv'
         /\ notices' \in [made: Nat, told: Nat, seen: Nat, unread: BOOLEAN, clearing: Nat]
<1>1. notices \in [made: Nat, told: Nat, seen: Nat, unread: BOOLEAN, clearing: Nat]
  BY DEF AccountsTypeOK
<1>2. mishaps \subseteq mishaps'
      /\ (notices.clearing > 0 /\ notices'.told > notices.told => "unmarked" \in mishaps')
  BY DEF RememberMishaps
<1>3. CASE notices' = notices
  BY <1>1, <1>2, <1>3 DEF NoticesInv
<1>4. CASE TellInvite
  <2> DEFINE x == notices.told + 1
             n == [notices EXCEPT !.told = x, !.unread = TRUE]
  <2>1. notices' = n /\ notices.told < notices.made
    BY <1>4 DEF TellInvite
  <2>2. x \in Nat /\ x = notices.told + 1
    BY <1>1
  <2> HIDE DEF x
  <2>3. /\ n \in [made: Nat, told: Nat, seen: Nat, unread: BOOLEAN, clearing: Nat]
        /\ n.made = notices.made /\ n.told = x /\ n.seen = notices.seen
        /\ n.unread = TRUE /\ n.clearing = notices.clearing
    BY <1>1, <2>2, NoticesFields
  <2> HIDE DEF n
  <2> QED
    BY <1>1, <1>2, <2>1, <2>2, <2>3 DEF NoticesInv
<1>5. CASE ClearUnread
  <2> DEFINE x == notices.clearing - 1
             n == [notices EXCEPT !.clearing = x, !.unread = FALSE]
  <2>1. notices' = n /\ notices.clearing > 0
    BY <1>5 DEF ClearUnread
  <2>2. x \in Nat
    BY <1>1, <2>1
  <2> HIDE DEF x
  <2>3. /\ n \in [made: Nat, told: Nat, seen: Nat, unread: BOOLEAN, clearing: Nat]
        /\ n.made = notices.made /\ n.told = notices.told /\ n.seen = notices.seen
    BY <1>1, <2>2, NoticesFields
  <2> HIDE DEF n
  <2> QED
    BY <1>1, <1>2, <2>1, <2>3 DEF NoticesInv
<1>6. CASE MakeInvite
  <2> DEFINE n == [notices EXCEPT !.made = notices.made + 1]
  <2>1. notices' = n
    BY <1>6 DEF MakeInvite
  <2>2. /\ n \in [made: Nat, told: Nat, seen: Nat, unread: BOOLEAN, clearing: Nat]
        /\ n.made = notices.made + 1 /\ n.told = notices.told /\ n.seen = notices.seen
        /\ n.unread = notices.unread /\ n.clearing = notices.clearing
    BY <1>1
  <2> HIDE DEF n
  <2> QED
    BY <1>1, <1>2, <2>1, <2>2 DEF NoticesInv
<1>7. CASE ListInvites
  <2> DEFINE x == notices.made
             y == notices.clearing + 1
             n == [notices EXCEPT !.seen = x, !.clearing = y]
  <2>1. notices' = n
    BY <1>7 DEF ListInvites
  <2>2. x \in Nat /\ y \in Nat /\ x = notices.made
    BY <1>1
  <2> HIDE DEF x, y
  <2>3. /\ n \in [made: Nat, told: Nat, seen: Nat, unread: BOOLEAN, clearing: Nat]
        /\ n.made = notices.made /\ n.told = notices.told /\ n.seen = x
    BY <1>1, <2>2, NoticesFields
  <2> HIDE DEF n
  <2> QED
    BY <1>1, <1>2, <2>1, <2>2, <2>3 DEF NoticesInv
<1> QED
  BY <1>3, <1>4, <1>5, <1>6, <1>7

LEMMA AccountsInitially == AccountsInit /\ mishaps = {} /\ unswept = {} => AccountsInv
<1> SUFFICES ASSUME AccountsInit, mishaps = {}, unswept = {} PROVE AccountsInv
  OBVIOUS
<1>1. /\ otps = [o \in Otp |-> [status |-> "none", attempts |-> 0]]
      /\ accounts \in {<<>>, <<"homed">>}
      /\ tokens = <<>> /\ uses = 0 /\ jobs = <<>> /\ sweeps = {}
      /\ held = [d \in Device |-> 0]
      /\ notices = [made |-> 0, told |-> 0, seen |-> 0, unread |-> FALSE, clearing |-> 0]
  BY DEF AccountsInit
<1>2. MaxJobs \in Nat /\ MaxAttempts \in Nat /\ MaxTokens \in Nat
  BY AccountsAssumption
<1>3. DOMAIN jobs = {} /\ DOMAIN tokens = {} /\ Len(jobs) = 0 /\ jobs \in Seq(Job(Len(accounts)))
  BY <1>1
<1>4. accounts \in Seq({"bare", "homed"})
      /\ (accounts # <<>> => Len(accounts) = 1) /\ \A u \in DOMAIN accounts : accounts[u] = "homed"
  <2>1. CASE accounts = <<>>
    BY <2>1
  <2>2. CASE accounts = <<"homed">>
    BY <2>2
  <2> QED
    BY <1>1, <2>1, <2>2
<1>5. AccountsTypeOK
  <2>1. otps \in [Otp -> [status: {"none", "known", "gone"}, attempts: 0 .. MaxAttempts]]
    BY <1>1, <1>2
  <2>2. held \in [Device -> 0 .. MaxJobs]
    BY <1>1, <1>2
  <2>3. tokens \in [DOMAIN tokens -> [account: DOMAIN accounts, used: 1 .. uses]]
    BY <1>1
  <2>4. notices \in [made: Nat, told: Nat, seen: Nat, unread: BOOLEAN, clearing: Nat]
    BY <1>1
  <2> QED
    BY <1>1, <1>2, <1>3, <1>4, <2>1, <2>2, <2>3, <2>4 DEF AccountsTypeOK
<1>6. TokensInv
  <2>1. \A u : Owned(u) = {} /\ Kept(u) = {}
    BY <1>3 DEF Owned, Kept
  <2>2. Cardinality({}) = 0 /\ 0 <= MaxTokens
    BY <1>2, FS_EmptySet
  <2>3. \A u \in DOMAIN accounts : Tidied(u)
    BY <2>1, <2>2 DEF Tidied
  <2> QED
    BY <1>1, <1>3, <2>3 DEF TokensInv
<1>7. OneMade /\ Homed
  BY <1>3, <1>4 DEF OneMade, Homed, Busy
<1>8. NoticesInv
  BY <1>1 DEF NoticesInv
<1> QED
  BY <1>5, <1>6, <1>7, <1>8 DEF AccountsInv

LEMMA AccountsStep == AccountsInv /\ [AccountsNext]_mishapVars => AccountsInv'
<1>1. SUFFICES ASSUME AccountsInv, AccountsNext PROVE AccountsInv'
  <2>1. ASSUME AccountsInv, UNCHANGED mishapVars PROVE AccountsInv'
    <3>1. /\ UNCHANGED <<otps, accounts, tokens, uses, jobs, sweeps, held, notices>>
          /\ mishaps' = mishaps /\ unswept' = unswept
      BY <2>1 DEF mishapVars, accountsVars
    <3>2. AccountsTypeOK' /\ NoticesInv'
      BY <2>1, <3>1 DEF AccountsInv, AccountsTypeOK, NoticesInv
    <3>3. TokensInv'
      BY <2>1, <3>1 DEF AccountsInv, TokensInv, HasAccount, Issued, Tidied, Kept, Owned, Sweeps
    <3>4. OneMade' /\ Homed'
      BY <2>1, <3>1 DEF AccountsInv, OneMade, Homed, Busy
    <3> QED
      BY <3>2, <3>3, <3>4 DEF AccountsInv
  <2> QED
    BY <1>1, <2>1
<1>2. /\ AccountsTypeOK /\ TokensInv /\ OneMade /\ Homed /\ NoticesInv /\ RememberMishaps
      /\ \A j \in DOMAIN jobs : HasAccount(j)
  BY <1>1 DEF AccountsInv, AccountsNext, TokensInv
<1>3. /\ Len(accounts) \in Nat /\ DOMAIN accounts = 1 .. Len(accounts)
      /\ MaxJobs \in Nat /\ Len(jobs) <= MaxJobs
  BY <1>2, AccountsBasics
<1>4. ASSUME NEW j \in DOMAIN jobs, JobStep(j) \/ JobFails(j), unswept' = unswept
      PROVE  AccountsInv'
  <2>1. PICK r \in Job(Len(accounts')) : jobs' = [jobs EXCEPT ![j] = r] /\ JobMoves(j, r)
    BY <1>2, <1>4, JobStepMoves
  <2>2. /\ TokensAlone \/ IssueToken(j)
        /\ otps' \in [Otp -> [status: {"none", "known", "gone"}, attempts: 0 .. MaxAttempts]]
        /\ held' \in [Device -> 0 .. MaxJobs] /\ notices' = notices
    BY <1>2, <1>4, JobStepMoves
  <2>3. /\ accounts' \in Seq({"bare", "homed"}) /\ Len(accounts') >= Len(accounts)
        /\ Len(accounts') \in Nat /\ DOMAIN accounts' = 1 .. Len(accounts')
    BY <1>2, <2>1, MovesAccounts
  <2>4. /\ jobs' \in Seq(Job(Len(accounts'))) /\ Len(jobs') = Len(jobs)
        /\ DOMAIN jobs' = DOMAIN jobs
        /\ \A k \in DOMAIN jobs : jobs'[k] = IF k = j THEN r ELSE jobs[k]
    BY <1>2, <2>1, <2>3, JobsMoved
  <2>5. /\ TokensInv' /\ uses' \in Nat /\ DOMAIN tokens' \subseteq DOMAIN jobs'
        /\ tokens' \in [DOMAIN tokens' -> [account: DOMAIN accounts', used: 1 .. uses']]
        /\ sweeps' \subseteq [job: 1 .. MaxJobs, found: BOOLEAN, old: SUBSET (1 .. MaxJobs)]
    <3>1. CASE IssueToken(j)
      BY <1>2, <1>4, <3>1, IssueTokenKeeps
    <3>2. CASE TokensAlone
      <4>1. DOMAIN accounts \subseteq DOMAIN accounts'
        BY <1>3, <2>3
      <4>2. \A k \in DOMAIN jobs' : HasAccount(k)'
        <5>1. \A k \in DOMAIN jobs' : k # j => HasAccount(k)'
          BY <1>2, <2>4, <4>1 DEF HasAccount
        <5>2. HasAccount(j)'
          <6>1. r.pc \in {6, 7, 8} => r.account \in 1 .. Len(accounts')
            <7>1. CASE r.pc = 6
              <8>1. r.account = Len(accounts) + 1 /\ accounts' = Append(accounts, "bare")
                BY <2>1, <7>1 DEF JobMoves
              <8>2. Len(accounts') = Len(accounts) + 1
                BY <1>2, <8>1, AppendProperties DEF AccountsTypeOK
              <8> QED
                BY <1>3, <8>1, <8>2
            <7>2. CASE r.pc \in {7, 8}
              <8>1. r.account \in DOMAIN accounts
                BY <1>2, <2>1, <7>2 DEF JobMoves, HasAccount
              <8> QED
                BY <2>3, <4>1, <8>1
            <7> QED
              BY <7>1, <7>2
          <6> QED
            BY <2>3, <2>4, <6>1 DEF HasAccount
        <5> QED
          BY <5>1, <5>2
      <4>3. \A k \in DOMAIN jobs : jobs[k].pc \in {0, 8} =>
                jobs'[k].pc \in {0, 8} /\ jobs'[k].account = jobs[k].account
        BY <2>1, <2>4 DEF JobMoves
      <4>4. TokensInv'
        BY <1>2, <1>4, <2>3, <2>4, <3>2, <4>2, <4>3, TokensStay DEF TokensAlone
      <4>5. tokens \in [DOMAIN tokens -> [account: DOMAIN accounts', used: 1 .. uses]]
        BY <1>2, <4>1 DEF AccountsTypeOK
      <4> QED
        BY <1>2, <2>4, <3>2, <4>4, <4>5 DEF TokensAlone, AccountsTypeOK
    <3> QED
      BY <2>2, <3>1, <3>2
  <2>6. /\ NoticesInv'
        /\ notices' \in [made: Nat, told: Nat, seen: Nat, unread: BOOLEAN, clearing: Nat]
    BY <1>2, <2>2, NoticesKept
  <2>7. AccountsTypeOK'
    BY <1>3, <2>2, <2>3, <2>4, <2>5, <2>6 DEF AccountsTypeOK
  <2>8. OneMade' /\ Homed'
    BY <1>2, <2>1, <2>7, JobsKeepAccounts
  <2> QED
    BY <2>5, <2>6, <2>7, <2>8 DEF AccountsInv
\* Steps that leave jobs and accounts alone.
<1>5. ASSUME jobs' = jobs, accounts' = accounts, TokensInv',
             uses' \in Nat, DOMAIN tokens' \subseteq DOMAIN jobs',
             tokens' \in [DOMAIN tokens' -> [account: DOMAIN accounts', used: 1 .. uses']],
             sweeps' \subseteq [job: 1 .. MaxJobs, found: BOOLEAN, old: SUBSET (1 .. MaxJobs)],
             otps' \in [Otp -> [status: {"none", "known", "gone"}, attempts: 0 .. MaxAttempts]],
             held' \in [Device -> 0 .. MaxJobs],
             notices' = notices \/ TellInvite \/ ClearUnread \/ MakeInvite \/ ListInvites
      PROVE  AccountsInv'
  <2>1. /\ NoticesInv'
        /\ notices' \in [made: Nat, told: Nat, seen: Nat, unread: BOOLEAN, clearing: Nat]
    BY <1>2, <1>5, NoticesKept
  <2>2. OneMade' /\ Homed'
    BY <1>2, <1>5, OthersKeepAccounts
  <2> QED
    BY <1>2, <1>5, <2>1, <2>2 DEF AccountsInv, AccountsTypeOK
<1>6. ASSUME TokensAlone, jobs' = jobs, accounts' = accounts, unswept' = unswept
      PROVE  /\ TokensInv' /\ uses' \in Nat /\ DOMAIN tokens' \subseteq DOMAIN jobs'
             /\ tokens' \in [DOMAIN tokens' -> [account: DOMAIN accounts', used: 1 .. uses']]
             /\ sweeps' \subseteq [job: 1 .. MaxJobs, found: BOOLEAN, old: SUBSET (1 .. MaxJobs)]
  <2>1. tokens' = tokens /\ uses' = uses /\ sweeps' = sweeps
    BY <1>6 DEF TokensAlone
  <2>2. TokensInv'
    BY <1>2, <1>6, <2>1 DEF TokensInv, HasAccount, Issued, Tidied, Kept, Owned, Sweeps
  <2> QED
    BY <1>2, <1>6, <2>1, <2>2 DEF AccountsTypeOK
<1>7. ASSUME NEW w \in sweeps, FindOld(w), unswept' = unswept \ {jobs[w.job].account}
      PROVE  AccountsInv'
  <2>1. /\ TokensInv'
        /\ sweeps' \subseteq [job: 1 .. MaxJobs, found: BOOLEAN, old: SUBSET (1 .. MaxJobs)]
    BY <1>2, <1>7, FindOldKeeps
  <2>2. UNCHANGED <<otps, accounts, tokens, uses, jobs, held, notices>>
    BY <1>7 DEF FindOld
  <2> QED
    BY <1>2, <1>5, <2>1, <2>2 DEF AccountsTypeOK
<1>8. ASSUME NEW w \in sweeps, DeleteOld(w), unswept' = unswept PROVE AccountsInv'
  <2>1. /\ w.found /\ Delete(w.old) /\ sweeps' = sweeps \ {w}
        /\ UNCHANGED <<otps, accounts, uses, jobs, held, notices>>
    BY <1>8 DEF DeleteOld
  <2>2. /\ TokensInv' /\ DOMAIN tokens' \subseteq DOMAIN jobs'
        /\ tokens' \in [DOMAIN tokens' -> [account: DOMAIN accounts', used: 1 .. uses']]
    BY <1>2, <1>8, <2>1, DeleteKeeps
  <2> QED
    BY <1>2, <1>5, <2>1, <2>2 DEF AccountsTypeOK
<1>9. ASSUME TellInvite \/ ClearUnread \/ MakeInvite \/ ListInvites, unswept' = unswept
      PROVE  AccountsInv'
  <2>1. TokensAlone /\ jobs' = jobs /\ accounts' = accounts /\ otps' = otps /\ held' = held
    BY <1>9 DEF TellInvite, ClearUnread, MakeInvite, ListInvites, TokensAlone
  <2> QED
    BY <1>2, <1>5, <1>6, <1>9, <2>1 DEF AccountsTypeOK
<1>10. ASSUME NEW o \in Otp, SendCode(o), unswept' = unswept PROVE AccountsInv'
  <2>1. TokensAlone /\ jobs' = jobs /\ accounts' = accounts /\ held' = held /\ notices' = notices
        /\ otps' = [otps EXCEPT ![o].status = "known"]
    BY <1>10 DEF SendCode, TokensAlone
  <2>2. otps' \in [Otp -> [status: {"none", "known", "gone"}, attempts: 0 .. MaxAttempts]]
    BY <1>2, <2>1 DEF AccountsTypeOK
  <2> QED
    BY <1>2, <1>5, <1>6, <1>10, <2>1, <2>2 DEF AccountsTypeOK
<1>11. ASSUME NEW o \in Otp, NEW d \in Device, NEW right \in BOOLEAN, Code(d, o, right),
              unswept' = unswept
       PROVE  AccountsInv'
  <2>1. /\ jobs' \in Seq(Job(Len(accounts'))) /\ Len(jobs') = Len(jobs) + 1
        /\ Len(jobs') <= MaxJobs
        /\ DOMAIN jobs' = DOMAIN jobs \cup {Len(jobs) + 1}
        /\ \A k \in DOMAIN jobs : jobs'[k] = jobs[k]
        /\ jobs'[Len(jobs) + 1].pc = 1
    BY <1>2, <1>11, JobsCoded
  <2>2. TokensAlone /\ accounts' = accounts /\ otps' = otps /\ held' = held /\ notices' = notices
    BY <1>11 DEF Code, TokensAlone
  <2>3. \A k \in DOMAIN jobs' : HasAccount(k)'
    BY <1>2, <2>1, <2>2 DEF HasAccount
  <2>4. TokensInv'
    BY <1>2, <1>3, <1>11, <2>1, <2>2, <2>3, TokensStay DEF TokensAlone
  <2>5. /\ NoticesInv'
        /\ notices' \in [made: Nat, told: Nat, seen: Nat, unread: BOOLEAN, clearing: Nat]
    BY <1>2, <2>2, NoticesKept
  <2>6. OneMade' /\ Homed'
    BY <1>2, <2>1, <2>2, OthersKeepAccounts
  <2>7. AccountsTypeOK'
    BY <1>2, <2>1, <2>2, <2>5 DEF AccountsTypeOK, TokensAlone
  <2> QED
    BY <2>4, <2>5, <2>6, <2>7 DEF AccountsInv
<1>12. ASSUME NEW d \in Device, Access(d), unswept' = unswept PROVE AccountsInv'
  <2>1. UNCHANGED <<otps, accounts, jobs, sweeps, notices>>
    BY <1>12 DEF Access
  <2>2. CASE held[d] \in DOMAIN tokens
    <3>1. Use(held[d]) /\ held' = held
      BY <1>12, <2>2 DEF Access
    <3>2. /\ TokensInv' /\ uses' \in Nat /\ DOMAIN tokens' \subseteq DOMAIN jobs'
          /\ tokens' \in [DOMAIN tokens' -> [account: DOMAIN accounts', used: 1 .. uses']]
      BY <1>2, <1>12, <2>1, <2>2, <3>1, UseKeeps
    <3> QED
      BY <1>2, <1>5, <2>1, <3>1, <3>2 DEF AccountsTypeOK
  <2>3. CASE held[d] \notin DOMAIN tokens
    <3>1. TokensAlone /\ held' = [held EXCEPT ![d] = 0]
      BY <1>12, <2>1, <2>3 DEF Access, TokensAlone
    <3>2. held' \in [Device -> 0 .. MaxJobs]
      BY <1>2, <1>3, <3>1 DEF AccountsTypeOK
    <3> QED
      BY <1>2, <1>5, <1>6, <1>12, <2>1, <3>1, <3>2 DEF AccountsTypeOK
  <2> QED
    BY <2>2, <2>3
<1>13. ASSUME NEW d \in Device, SignOut(d), unswept' = unswept PROVE AccountsInv'
  <2>1. TokensAlone /\ held' = [held EXCEPT ![d] = 0] /\ UNCHANGED <<otps, accounts, jobs, notices>>
    BY <1>13 DEF SignOut, TokensAlone
  <2>2. held' \in [Device -> 0 .. MaxJobs]
    BY <1>2, <1>3, <2>1 DEF AccountsTypeOK
  <2> QED
    BY <1>2, <1>5, <1>6, <1>13, <2>1, <2>2 DEF AccountsTypeOK
<1>14. ASSUME NEW d \in Device, Terminate(d), unswept' = unswept PROVE AccountsInv'
  <2>1. /\ Delete(Owned(tokens[held[d]].account) \ {held[d]})
        /\ UNCHANGED <<otps, accounts, uses, jobs, sweeps, held, notices>>
    BY <1>14 DEF Terminate
  <2>2. /\ TokensInv' /\ DOMAIN tokens' \subseteq DOMAIN jobs'
        /\ tokens' \in [DOMAIN tokens' -> [account: DOMAIN accounts', used: 1 .. uses']]
    BY <1>2, <1>14, <2>1, DeleteKeeps
  <2> QED
    BY <1>2, <1>5, <2>1, <2>2 DEF AccountsTypeOK
<1>15. ASSUME NEW w \in sweeps, SweepFails(w),
              unswept' = unswept \cup {jobs[w.job].account}
       PROVE  AccountsInv'
  <2>1. TokensInv'
    BY <1>2, <1>15, SweepFailsKeeps
  <2>2. UNCHANGED <<otps, accounts, tokens, uses, jobs, held, notices>> /\ sweeps' \subseteq sweeps
    BY <1>15 DEF SweepFails
  <2> QED
    BY <1>2, <1>5, <2>1, <2>2 DEF AccountsTypeOK
<1> QED
  BY <1>1, <1>4, <1>7, <1>8, <1>9, <1>10, <1>11, <1>12, <1>13, <1>14, <1>15
     DEF AccountsNext, AccountsGoOn, DevicesDo, InvitesDo, Sweeping

\* AccountsInOrder (AuthService, UserService): however many sign in at once with whatever
\* codes, and use, leave and end their sessions meanwhile, a person has at most one account
\* and it has a space, but for the mishaps; once the deletions of old tokens are done,
\* no account has more tokens than are kept unless that failed; and the mark for notifications is true.
THEOREM AccountsAlwaysInOrder == AccountsSpec => []AccountsInOrder
<1>1. AccountsInv => AccountsInOrder
  <2> SUFFICES ASSUME AccountsInv PROVE AccountsInOrder
    OBVIOUS
  <2>1. AccountsTypeOK /\ TokensInv /\ OneMade /\ Homed /\ NoticesInv
    BY DEF AccountsInv
  <2>2. Len(accounts) \in Nat /\ DOMAIN accounts = 1 .. Len(accounts)
    BY <2>1, AccountsBasics
  <2>3. ASSUME Busy(1 .. 8) = {}, sweeps = {}
        PROVE  /\ Len(accounts) > 1 => "doubled" \in mishaps
               /\ \A u \in DOMAIN accounts :
                     /\ accounts[u] = "homed" \/ "homeless" \in mishaps
                     /\ Cardinality(Owned(u)) <= MaxTokens \/ u \in unswept
    <3>1. Busy({6}) = {}
      BY <2>3 DEF Busy
    <3>2. \A u \in DOMAIN accounts : Kept(u) = Owned(u)
      BY <2>3 DEF Kept
    <3>3. \A u \in DOMAIN accounts : Cardinality(Owned(u)) <= MaxTokens \/ u \in unswept
      BY <2>1, <2>3, <3>2 DEF TokensInv, Tidied
    <3>4. Len(accounts) > 1 => accounts # <<>>
      BY <2>2
    <3>5. Len(accounts) > 1 => "doubled" \in mishaps
      BY <2>1, <2>2, <3>4 DEF OneMade
    <3>6. \A u \in DOMAIN accounts : accounts[u] = "homed" \/ "homeless" \in mishaps
      BY <2>1, <3>1 DEF Homed
    <3> QED
      BY <3>3, <3>5, <3>6
  <2>4. notices.clearing = 0 /\ notices.told = notices.made /\ notices.made > notices.seen =>
            notices.unread \/ "unmarked" \in mishaps
    BY <2>1 DEF NoticesInv, AccountsTypeOK
  <2> QED
    BY <2>3, <2>4 DEF AccountsInOrder
<1> QED
  BY <1>1, AccountsInitially, AccountsStep, PTL DEF AccountsSpec
=============================================================================
