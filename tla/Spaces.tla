------------------------------- MODULE Spaces -------------------------------
(***************************************************************************)
(* A space of the application: its members and their roles, its invites,   *)
(* and the two groups of the sync server that give its members access to   *)
(* its documents (packages/app/src/services/space.ts, invite.ts and their  *)
(* routes).                                                                *)
(*                                                                         *)
(* A request runs its handler up to the next `await`, a step here; any     *)
(* other request runs meanwhile.  Calls to the sync server are queued in   *)
(* the request and made one by one; nobody looks whether they succeed.  A  *)
(* transaction is seen by others when it is committed; who writes rows     *)
(* that it has deleted, or that refer to such rows, waits for it.          *)
(***************************************************************************)
EXTENDS Channels, SequencesExt

CONSTANTS Owner, Request, Invite, Target, Nothing

ASSUME SpacesAssumption ==
    Owner \in User /\ Invite \subseteq Target /\ Nothing \notin Target

Rank  == {"readonly", "editor", "admin", "owner"}
Group == {"members", "readonly"}
Call  == [do: {"create", "add", "remove", "delete", "other"}, group: Group]

\* What requests are for: the space, its members and invites, and its content.
Operation ==
    {"none", "create", "delete", "leave", "change", "remove", "invite", "update", "cancel",
     "accept", "decline", "lock", "unlock", "publish", "unpublish", "copy", "upload"}

VARIABLES
    space,     \* none, creating, live, deleting, deleted
    rows,      \* the roles in a user's rows of the table of members
    invites,
    exist,     \* the sync server's groups of the space, ...
    access,    \* ... and of which of them a user is a member
    req        \* the requests under way

dbVars     == <<space, rows, invites>>
syncVars   == <<exist, access>>
spacesVars == <<dbVars, syncVars, req, channelVars>>

\* `on` is what a request is about besides a user; `saw` what it keeps of a read.
Idle == [op |-> "none", by |-> Owner, to |-> Owner, role |-> "owner", on |-> Nothing,
         pc |-> 0, calls |-> <<>>, saw |-> "none"]

NoInvite == [status |-> "none", to |-> Owner, role |-> "editor"]

SpacesTypeOK ==
    /\ space \in {"none", "creating", "live", "deleting", "deleted"}
    /\ rows \in [User -> Seq(Rank)]
    /\ invites \in [Invite -> [status: {"none", "sent", "accepted", "declined",
                                        "cancelled", "deleted"},
                               to: User, role: Rank]]
    /\ exist \subseteq Group
    /\ access \in [User -> SUBSET Group]
    /\ req \in [Request -> [op: Operation, by: User, to: User, role: Rank,
                            on: Target \cup {Nothing}, pc: Nat, calls: Seq(Call),
                            saw: Rank \cup {"none"}]]
    /\ ChannelsTypeOK

SpacesInit ==
    /\ space = "none"
    /\ rows = [u \in User |-> <<>>]
    /\ invites = [i \in Invite |-> NoInvite]
    /\ exist = {} /\ access = [u \in User |-> {}]
    /\ req = [q \in Request |-> Idle]
    /\ ChannelsInit

\* What a query for one row of a user may return.
Roles(u) == IF rows[u] = <<>> THEN {"none"} ELSE ToSet(rows[u])

\* Is no transaction in the way of writing rows?
Writable == space # "deleting"

At(q, op, pc) == req[q].op = op /\ req[q].pc = pc /\ req[q].calls = <<>>
Advance(q)       == req' = [req EXCEPT ![q].pc = @ + 1]
Done(q)       == req' = [req EXCEPT ![q] = Idle]
AdvanceIf(q, ok) == IF ok THEN Advance(q) ELSE Done(q)

\* A user sends a request.
Begin(q, op, by, to, role, on) ==
    /\ req[q].op = "none"
    /\ req' = [req EXCEPT ![q] = [Idle EXCEPT !.op = op, !.by = by, !.to = to,
                                             !.role = role, !.on = on, !.pc = 1]]
    /\ UNCHANGED <<dbVars, syncVars, channelVars>>

-----------------------------------------------------------------------------
(* Calls to the sync server *)

DoCall(u, c) ==
    LET g == c.group IN
    /\ exist' = CASE c.do = "create" -> exist \cup {g}
                  [] c.do = "delete" -> exist \ {g}
                  [] OTHER -> exist
    /\ access' =
        CASE c.do = "add" /\ g \in exist -> [access EXCEPT ![u] = @ \cup {g}]
          [] c.do = "remove" -> [access EXCEPT ![u] = @ \ {g}]
          [] c.do = "delete" -> [v \in User |-> access[v] \ {g}]
          [] OTHER -> access

\* A queued call is made, or fails.
MakeCall(q) ==
    /\ req[q].calls # <<>>
    /\ DoCall(req[q].to, Head(req[q].calls))
    /\ req' = [req EXCEPT ![q].calls = Tail(@)]
    /\ UNCHANGED <<dbVars, channelVars>>

CallFails(q) ==
    /\ req[q].calls # <<>>
    /\ req' = [req EXCEPT ![q].calls = Tail(@)]
    /\ UNCHANGED <<dbVars, syncVars, channelVars>>

Calling(q, calls) == req' = [req EXCEPT ![q].calls = calls, ![q].pc = @ + 1]

\* Mutant of GroupOf: a group for each role.
GroupNamed(role) == role

GroupOf(role) == IF role = "readonly" THEN "readonly" ELSE "members"
Ask(do, group)  == [do |-> do, group |-> group]

-----------------------------------------------------------------------------
(* The space *)

\* In a transaction: the row and the groups, the collection and its meta document;
\* then the owner's membership; the reply; and the commit.
CreateSpace(q) ==
    /\ \/ /\ At(q, "create", 1) /\ space = "none"
          /\ space' = "creating"
          /\ Calling(q, <<Ask("create", "readonly"), Ask("create", "members"),
                          Ask("other", "members"), Ask("other", "members")>>)
          /\ UNCHANGED rows
       \/ /\ At(q, "create", 2)
          /\ rows' = [rows EXCEPT ![Owner] = <<"owner">>]
          /\ Calling(q, <<Ask("add", "members")>>)
          /\ UNCHANGED space
       \/ At(q, "create", 3) /\ space' = "live" /\ Done(q) /\ UNCHANGED rows
    /\ UNCHANGED <<invites, syncVars, channelVars>>

\* The owner only.  The rows, in a transaction; the collection (there is no such
\* command) and the groups; the commit.
DeleteSpace(q) ==
    /\ \/ /\ At(q, "delete", 1)
          /\ AdvanceIf(q, space \in {"live", "deleting"} /\ req[q].by = Owner)
          /\ UNCHANGED <<space, rows, invites>>
       \/ /\ At(q, "delete", 2) /\ Writable
          /\ space' = IF space = "live" THEN "deleting" ELSE space
          /\ Calling(q, <<Ask("other", "members"), Ask("delete", "readonly"),
                          Ask("delete", "members")>>)
          /\ UNCHANGED <<rows, invites>>
       \/ /\ At(q, "delete", 3)
          /\ space' = "deleted"
          /\ rows' = [u \in User |-> <<>>]
          /\ invites' = [i \in Invite |-> [NoInvite EXCEPT !.status =
                            IF invites[i].status = "none" THEN "none" ELSE "deleted"]]
          /\ Done(q)
    /\ UNCHANGED <<syncVars, channelVars>>

-----------------------------------------------------------------------------
(* Members *)

\* Of rows of a user, those that leaving does not delete.
OwnerRows(s) == [n \in 1 .. Cardinality({i \in DOMAIN s : s[i] = "owner"}) |-> "owner"]

\* The rows of the user, but for an owner's; the groups of the sync server are not
\* told, nor is anybody.
LeaveSpace(q) ==
    /\ At(q, "leave", 1) /\ Writable
    /\ rows' = [rows EXCEPT ![req[q].by] = OwnerRows(@)]
    /\ Done(q)
    /\ UNCHANGED <<space, invites, syncVars, channelVars>>

\* What a member with role r may do to one with role `of`, who is to have `role`.
MayChange(r, of, role) ==
    r = "owner" \/ (r = "admin" /\ of \notin {"admin", "owner"}
                               /\ role \in {"editor", "readonly"})

MayRemove(r, of) == r = "owner" \/ (r = "admin" /\ of \in {"editor", "readonly"})

\* Both requests begin with the roles of the two, the other's first.
CheckMember(q) ==
    /\ req[q].op \in {"change", "remove"}
    /\ \/ /\ At(q, req[q].op, 1)
          /\ \E of \in Roles(req[q].to) :
                IF of = "none" THEN Done(q)
                ELSE req' = [req EXCEPT ![q].saw = of, ![q].pc = 2]
       \/ /\ At(q, req[q].op, 2)
          /\ \E r \in Roles(req[q].by) :
                AdvanceIf(q, IF req[q].op = "remove" THEN MayRemove(r, req[q].saw)
                          ELSE MayChange(r, req[q].saw, req[q].role))
    /\ UNCHANGED <<dbVars, syncVars, channelVars>>

\* Mutant of Moves: a member who becomes readonly stays in the group of members.
MovesIn(old, new) ==
    IF GroupOf(old) = GroupOf(new) THEN <<>> ELSE <<Ask("add", GroupOf(new))>>

\* The calls for a change of role.
Moves(old, new) ==
    IF GroupOf(old) = GroupOf(new) THEN <<>>
    ELSE IF new = "readonly"
    THEN <<Ask("add", "readonly"), Ask("remove", "members")>>
    ELSE <<Ask("remove", "readonly"), Ask("add", "members")>>

\* The role is read again, the groups follow, then the rows.
ChangeMemberRole(q) ==
    LET u == req[q].to  role == req[q].role IN
    /\ \/ /\ At(q, "change", 3)
          /\ \E old \in Roles(u) :
                IF old \in {"none", role} THEN Done(q) ELSE Calling(q, Moves(old, role))
          /\ UNCHANGED <<rows, channelVars>>
       \/ /\ At(q, "change", 4) /\ Writable
          /\ rows' = [rows EXCEPT ![u] = [i \in DOMAIN @ |-> role]]
          /\ Tell(u)
          /\ Done(q)
    /\ UNCHANGED <<space, invites, syncVars>>

\* The rows first, then both groups.
RemoveMember(q) ==
    LET u == req[q].to IN
    /\ \/ /\ At(q, "remove", 3) /\ Writable
          /\ rows' = [rows EXCEPT ![u] = <<>>]
          /\ IF rows[u] = <<>> THEN Done(q)
             ELSE Calling(q, <<Ask("remove", "members"), Ask("remove", "readonly")>>)
          /\ UNCHANGED channelVars
       \/ At(q, "remove", 4) /\ Tell(u) /\ Done(q) /\ UNCHANGED rows
    /\ UNCHANGED <<space, invites, syncVars>>

-----------------------------------------------------------------------------
(* Invites *)

SetInvite(i, inv)  == invites' = [invites EXCEPT ![i] = inv]
SetStatus(i, st)   == SetInvite(i, [invites[i] EXCEPT !.status = st])
MayInvite(r, role) == r = "owner" \/ (r = "admin" /\ role # "admin")

\* The inviter's role; is the user a member?; an earlier invite is deleted; the new
\* one inserted, if there is still a space.
CreateInvite(q) ==
    LET u == req[q].to IN
    /\ \/ /\ At(q, "invite", 1)
          /\ \E r \in Roles(req[q].by) : AdvanceIf(q, MayInvite(r, req[q].role))
          /\ UNCHANGED invites
       \/ At(q, "invite", 2) /\ AdvanceIf(q, rows[u] = <<>>) /\ UNCHANGED invites
       \/ /\ At(q, "invite", 3) /\ Writable
          /\ invites' = [i \in Invite |->
                IF invites[i].to = u /\ invites[i].status = "sent"
                THEN [invites[i] EXCEPT !.status = "deleted"] ELSE invites[i]]
          /\ Advance(q)
       \/ /\ At(q, "invite", 4) /\ Writable
          /\ IF space # "live" THEN UNCHANGED invites
             ELSE LET new == {i \in Invite : invites[i].status = "none"} IN
                  /\ new # {}
                  /\ SetInvite(CHOOSE i \in new : TRUE,
                               [NoInvite EXCEPT !.status = "sent", !.to = u,
                                                !.role = req[q].role])
          /\ Done(q)
    /\ UNCHANGED <<space, rows, syncVars, channelVars>>

\* Both find an invite that is sent, then the role of who asks; then they write.
CheckInvite(q) ==
    LET i == req[q].on IN
    /\ req[q].op \in {"update", "cancel"}
    /\ \/ At(q, req[q].op, 1) /\ AdvanceIf(q, invites[i].status = "sent")
       \/ /\ At(q, req[q].op, 2)
          /\ \E r \in Roles(req[q].by) :
                AdvanceIf(q, IF req[q].op = "cancel" THEN r \in {"admin", "owner"}
                          ELSE MayInvite(r, req[q].role))
    /\ UNCHANGED <<dbVars, syncVars, channelVars>>

\* The invite may no longer be there, or no longer be sent.
WriteInvite(q) ==
    LET i == req[q].on IN
    /\ At(q, "update", 3) \/ At(q, "cancel", 3)
    /\ Writable
    /\ IF invites[i].status = "deleted" THEN UNCHANGED invites
       ELSE IF req[q].op = "cancel" THEN SetStatus(i, "cancelled")
       ELSE SetInvite(i, [invites[i] EXCEPT !.role = req[q].role])
    /\ Done(q)
    /\ UNCHANGED <<space, rows, syncVars, channelVars>>

\* Mutant of Mine: whatever became of the invite.
MineAnyhow(q) == invites[req[q].on].status # "none" /\ invites[req[q].on].to = req[q].by

Mine(q) == invites[req[q].on].status = "sent" /\ invites[req[q].on].to = req[q].by

\* It is marked, if it is sent and the user's; read again, with the role it has by
\* then; the user becomes a member; and reads the space.
AcceptInvite(q) ==
    LET i == req[q].on  u == req[q].by IN
    /\ \/ /\ At(q, "accept", 1) /\ Writable
          /\ IF Mine(q) THEN SetStatus(i, "accepted") ELSE UNCHANGED invites
          /\ AdvanceIf(q, Mine(q))
          /\ UNCHANGED rows
       \/ /\ At(q, "accept", 2)
          /\ IF invites[i].status = "deleted" THEN Done(q)
             ELSE req' = [req EXCEPT ![q].role = invites[i].role, ![q].pc = 3]
          /\ UNCHANGED <<invites, rows>>
       \/ /\ At(q, "accept", 3) /\ Writable
          /\ IF space # "live" THEN Done(q) /\ UNCHANGED rows
             ELSE /\ rows' = [rows EXCEPT ![u] = Append(@, req[q].role)]
                  /\ Calling(q, <<Ask("add", GroupOf(req[q].role))>>)
          /\ UNCHANGED invites
       \/ At(q, "accept", 4) /\ Done(q) /\ UNCHANGED <<invites, rows>>
    /\ UNCHANGED <<space, syncVars, channelVars>>

DeclineInvite(q) ==
    /\ At(q, "decline", 1) /\ Writable
    /\ IF Mine(q) THEN SetStatus(req[q].on, "declined") ELSE UNCHANGED invites
    /\ Done(q)
    /\ UNCHANGED <<space, rows, syncVars, channelVars>>

-----------------------------------------------------------------------------

\* The application stops and starts again: what it was doing ends where it is, and
\* what was not committed is undone.  The groups of a space that was being created
\* stay behind; the next has its own.
Crash ==
    /\ req' = [q \in Request |-> Idle]
    /\ chan' = {} /\ mail' = [u \in User |-> 0]
    /\ IF space = "creating"
       THEN /\ space' = "none" /\ exist' = {}
            /\ rows' = [u \in User |-> <<>>] /\ access' = [u \in User |-> {}]
       ELSE /\ space' = IF space = "deleting" THEN "live" ELSE space
            /\ UNCHANGED <<rows, syncVars>>
    /\ UNCHANGED invites

MemberStep(q) ==
    \/ MakeCall(q) \/ CreateSpace(q) \/ DeleteSpace(q) \/ LeaveSpace(q)
    \/ CheckMember(q) \/ ChangeMemberRole(q) \/ RemoveMember(q)
    \/ CreateInvite(q) \/ CheckInvite(q) \/ WriteInvite(q)
    \/ AcceptInvite(q) \/ DeclineInvite(q)

-----------------------------------------------------------------------------
(* Properties *)

\* The user whose membership a request is about; of everybody's, for the space's.
Concerns(q, u) ==
    CASE req[q].op \in {"create", "delete"} -> TRUE
      [] req[q].op \in {"accept", "leave"} -> u = req[q].by
      [] req[q].op \in {"change", "remove", "invite"} -> u = req[q].to
      [] OTHER -> FALSE

\* The groups that the sync server has a user in are those of the user's role.
AccessIs(u) == access[u] = {GroupOf(r) : r \in ToSet(rows[u])}
=============================================================================
