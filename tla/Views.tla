------------------------------- MODULE Views --------------------------------
(***************************************************************************)
(* What a page keeps of the server's answers, and what it offers the user, *)
(* in the views of the members of a space, the notifications, a document's *)
(* publication, the sessions and the settings (packages/front/src/views),  *)
(* with as much of the routes behind them as the answers depend on.  One   *)
(* view is open at a time; what is answered to one that was closed is not  *)
(* seen.  The server checks a request, then carries it out; answers come   *)
(* in any order.                                                           *)
(***************************************************************************)
EXTENDS Naturals, FiniteSets, SequencesExt

CONSTANTS
    Me, Person,            \* Me is one of them
    Invite, FromMe, ToMe,  \* disjoint; ToMe are to another space, the others to this one
    Name, MaxCalls

VARIABLES
    server,    \* what the server has
    shown,     \* what the page has
    calls,     \* requests under way; whether anyone still hears the answer
    unsure     \* history: what the view cannot know: see Properties

viewsVars == <<server, shown, calls, unsure>>

Role == {"readonly", "editor", "admin", "owner"}
View == {"members", "notifications", "publish", "sessions", "settings"}

ViewsTypeOK ==
    /\ server.members \in [Person -> Role \cup {"none"}]
    /\ server.invites \in [Invite -> {"sent", "accepted", "declined", "cancelled"}]
    /\ server.post \in BOOLEAN /\ server.name \in Name /\ server.hidden \subseteq Invite
    /\ shown.at \in View \cup {"none"} /\ shown.role \in Role /\ shown.name \in Name
    /\ Len(calls) <= MaxCalls
    /\ \A i \in DOMAIN calls : calls[i].pc \in {"sent", "checked", "ok"}

ViewsInit(members, invites) ==
    /\ server = [members |-> members, invites |-> invites, hidden |-> {}, post |-> FALSE,
                 name |-> CHOOSE n \in Name : TRUE, devices |-> 2]
    /\ shown = [at |-> "none", ready |-> FALSE, role |-> members[Me], name |-> server.name,
                members |-> <<>>, invites |-> <<>>, post |-> FALSE, devices |-> 0]
    /\ calls = <<>> /\ unsure = {}

Manages(role) == role \in {"admin", "owner"}

-----------------------------------------------------------------------------
(* What is offered *)

ShowActions(m) ==
    /\ m.id # Me /\ m.role # "owner"
    /\ IF m.role = "admin" THEN shown.role = "owner" ELSE Manages(shown.role)

RoleOptions   == {"readonly", "editor"} \cup (IF shown.role = "owner" THEN {"admin"} ELSE {})
InviteOptions == {"readonly", "editor"} \cup (IF shown.role = "owner" THEN {"admin"} ELSE {})

\* What a member with role r may do: change `of` to `role`, remove, invite.
MayChange(r, of, role) ==
    r = "owner" \/ (r = "admin" /\ ~Manages(of) /\ role \in {"editor", "readonly"})
MayRemove(r, of)   == r = "owner" \/ (r = "admin" /\ of \in {"editor", "readonly"})
MayInvite(r, role) == IF role = "admin" THEN r = "owner" ELSE Manages(r)

-----------------------------------------------------------------------------
(* Requests *)

Heard     == {c \in ToSet(calls) : c.heard}
Pending(does, on) == \E c \in Heard : c.do \in does /\ c.on = on

Call(do, on, role, place) ==
    /\ Len(calls) < MaxCalls
    /\ calls' = Append(calls, [do |-> do, on |-> on, role |-> role, place |-> place,
                               from |-> shown.at, heard |-> TRUE, pc |-> "sent", got |-> <<>>])
    /\ UNCHANGED server

\* What a request is about, and what may be wrong when another is under way about it.
About(c) ==
    CASE c.do \in {"remove", "update"} -> {c.on}
      [] c.do \in {"cancel", "accept", "decline", "hide"} -> {c.on}
      [] c.do \in {"publish", "republish", "unpublish"} -> {"post"}
      [] c.do = "terminate" -> {"devices"}
      [] c.do = "rename" -> {"name"}
      [] OTHER -> {}

Crossing(do, on) ==
    CASE do = "update" /\ Pending({"update"}, on) -> {on}
      [] shown.at = "members" /\ do = "cancel" /\ Pending({"cancel"}, on) -> {"invites"}
      [] shown.at = "notifications" /\ \E c \in Heard : c.from = "notifications" -> {"invites"}
      [] shown.at = "publish" /\ \E c \in Heard : c.from = "publish" -> {"post"}
      [] do = "rename" /\ \E c \in ToSet(calls) : c.do = "rename" -> {"name"}
      [] OTHER -> {}

Click(do, on, role, place) ==
    /\ Call(do, on, role, place)
    /\ unsure' = unsure \cup Crossing(do, on)
    /\ UNCHANGED shown

\* The view is left, or another one opened, which asks for what it shows; the settings
\* show what the page has.  A name that is being changed will still be heard of.
Leave(at) == [shown EXCEPT !.at = at, !.ready = (at = "settings"), !.members = <<>>,
                           !.invites = <<>>, !.post = FALSE, !.devices = 0]

Unheard == [i \in DOMAIN calls |->
              [calls[i] EXCEPT !.heard = @ /\ calls[i].do = "rename"]]

OpenView(at) ==
    /\ shown.at = "none"
    /\ at = "publish" => Manages(shown.role)
    /\ at = "settings" => shown.role = "owner"
    /\ shown' = Leave(at)
    /\ IF at = "settings" THEN UNCHANGED calls
       ELSE /\ Len(calls) < MaxCalls
            /\ calls' = Append(calls, [do |-> "fetch", on |-> "-", role |-> "none", place |-> 0,
                               from |-> at, heard |-> TRUE, pc |-> "sent", got |-> <<>>])
    /\ UNCHANGED <<server, unsure>>

CloseView ==
    /\ shown.at # "none"
    /\ shown' = Leave("none") /\ calls' = Unheard
    /\ UNCHANGED <<server, unsure>>

\* A member's menu is closed while a removal is under way, but an update of the role may
\* be followed by others; an invite may be cancelled again and again.
ClickMember ==
    /\ shown.at = "members" /\ shown.ready
    /\ \/ \E n \in DOMAIN shown.members : LET m == shown.members[n] IN
             /\ ShowActions(m) /\ ~Pending({"remove"}, m.id)
             /\ \/ Click("remove", m.id, "none", n)
                \/ \E role \in RoleOptions : Click("update", m.id, role, 0)
       \/ /\ Manages(shown.role)
          /\ \E i \in ToSet(shown.invites) : Click("cancel", i.id, "none", 0)

\* Of the buttons of a notification only one is closed while a request is under way.
ClickNotification ==
    /\ shown.at = "notifications" /\ shown.ready
    /\ \E n \in DOMAIN shown.invites : LET i == shown.invites[n] IN
          IF i.id \notin FromMe THEN \E do \in {"accept", "decline"} : Click(do, i.id, "none", n)
          ELSE IF i.status # "sent" THEN Click("hide", i.id, "none", n)
          ELSE /\ ~Pending({"cancel", "hide", "accept", "decline"}, i.id)
               /\ Click("cancel", i.id, "none", n)

ClickPublish ==
    /\ shown.at = "publish" /\ shown.ready
    /\ \E do \in IF shown.post THEN {"republish", "unpublish"} ELSE {"publish"} :
          Click(do, "-", "none", 0)

ClickTerminate ==
    /\ shown.at = "sessions" /\ shown.ready
    /\ shown.devices # 1 /\ ~Pending({"terminate"}, "-")
    /\ Click("terminate", "-", "none", 0)

\* The dialog may be closed, and opened again, while a request is under way.
ClickRename ==
    /\ shown.at = "settings"
    /\ \E n \in Name \ {shown.name} : Click("rename", n, "none", 0)

-----------------------------------------------------------------------------
(* The server *)

RoleOf(p) == server.members[p]

Permitted(c) ==
    CASE c.do = "remove" -> c.on # Me /\ RoleOf(c.on) # "none" /\ MayRemove(RoleOf(Me), RoleOf(c.on))
      [] c.do = "update" -> /\ c.on # Me /\ RoleOf(c.on) # "none"
                            /\ MayChange(RoleOf(Me), RoleOf(c.on), c.role)
      [] c.do = "cancel" -> server.invites[c.on] = "sent" /\ Manages(RoleOf(Me))
      [] c.do \in {"publish", "rename"} -> Manages(RoleOf(Me))
      [] c.do \in {"republish", "unpublish"} -> server.post /\ Manages(RoleOf(Me))
      [] OTHER -> TRUE

Answer(n, pc) == calls' = [calls EXCEPT ![n].pc = pc]
Refuse(n)     == calls' = RemoveAt(calls, n)

Check(n) ==
    /\ calls[n].pc = "sent"
    /\ IF Permitted(calls[n]) THEN Answer(n, "checked") ELSE Refuse(n)
    /\ UNCHANGED <<server, shown, unsure>>

\* The rows of members and invites come in some order.
GetMembers == SetToSeq({[id |-> p, role |-> RoleOf(p)] : p \in {q \in Person : RoleOf(q) # "none"}})

SpaceInvites ==
    SetToSeq({[id |-> i, status |-> "sent"] :
                 i \in {j \in Invite \ ToMe : server.invites[j] = "sent"}})

Active(i) ==
    \/ server.invites[i] = "sent" /\ i \in FromMe \cup ToMe
    \/ server.invites[i] \in {"accepted", "declined"} /\ i \in FromMe \ server.hidden

UserInvites ==
    SetToSeq({[id |-> i, status |-> server.invites[i]] : i \in {j \in Invite : Active(j)}})

GetPost     == server.post
GetSessions == server.devices

Fetched(at) ==
    [members |-> IF at = "members" THEN GetMembers ELSE <<>>,
     invites |-> CASE at = "members" -> SpaceInvites [] at = "notifications" -> UserInvites
                   [] OTHER -> <<>>,
     post    |-> at = "publish" /\ GetPost,
     devices |-> IF at = "sessions" THEN GetSessions ELSE 0]

\* The view knows what it is about to be told.
Fetch(n) ==
    /\ calls[n].do = "fetch" /\ calls[n].pc = "checked"
    /\ calls' = [calls EXCEPT ![n].pc = "ok", ![n].got = Fetched(calls[n].from)]
    /\ unsure' = IF calls[n].heard THEN unsure \cap {"name"} ELSE unsure
    /\ UNCHANGED <<server, shown>>

SetMember(p, role) == server' = [server EXCEPT !.members[p] = role]
SetInvite(i, st)   == server' = [server EXCEPT !.invites[i] = st]
SetPost(there)     == server' = [server EXCEPT !.post = there]

\* What is no longer there cannot be changed.
ChangeMember(c) ==
    \/ c.do = "remove" /\ RoleOf(c.on) # "none" /\ SetMember(c.on, "none")
    \/ c.do = "update" /\ RoleOf(c.on) \notin {"none", c.role} /\ SetMember(c.on, c.role)

\* A cancellation is written without another look.
ChangeInvite(c) ==
    \/ c.do = "cancel" /\ SetInvite(c.on, "cancelled")
    \/ c.do = "accept" /\ server.invites[c.on] = "sent" /\ SetInvite(c.on, "accepted")
    \/ c.do = "decline" /\ server.invites[c.on] = "sent" /\ SetInvite(c.on, "declined")
    \/ /\ c.do = "hide" /\ server.invites[c.on] \in {"accepted", "declined"}
       /\ server' = [server EXCEPT !.hidden = @ \cup {c.on}]

ChangePost(c) ==
    \/ c.do = "publish" /\ ~server.post /\ SetPost(TRUE)
    \/ c.do = "republish" /\ server.post /\ UNCHANGED server
    \/ c.do = "unpublish" /\ server.post /\ SetPost(FALSE)

Terminate(c)   == c.do = "terminate" /\ server' = [server EXCEPT !.devices = 1]
RenameSpace(c) == c.do = "rename" /\ server' = [server EXCEPT !.name = c.on]

Write(n) ==
    LET c == calls[n] IN
    /\ c.pc = "checked"
    /\ ChangeMember(c) \/ ChangeInvite(c) \/ ChangePost(c) \/ Terminate(c) \/ RenameSpace(c)
    /\ Answer(n, "ok")
    /\ unsure' = IF c.heard THEN unsure ELSE unsure \cup About(c)
    /\ UNCHANGED shown

WriteRefused(n) ==
    LET c == calls[n] IN
    /\ c.pc = "checked"
    /\ \/ c.do = "remove" /\ RoleOf(c.on) = "none"
       \/ c.do = "update" /\ RoleOf(c.on) \in {"none", c.role}
       \/ c.do \in {"accept", "decline"} /\ server.invites[c.on] # "sent"
       \/ c.do = "hide" /\ server.invites[c.on] \notin {"accepted", "declined"}
       \/ c.do = "publish" /\ server.post
       \/ c.do \in {"republish", "unpublish"} /\ ~server.post
    /\ Refuse(n)
    /\ UNCHANGED <<server, shown, unsure>>

-----------------------------------------------------------------------------
(* Answers *)

\* splice(idx, 1), where idx is -1 when there is none: then the last one goes.
Find(list, id) == {i \in DOMAIN list : list[i].id = id}

DropLast(list) == IF list = <<>> THEN list ELSE Front(list)

Drop(list, id) ==
    IF Find(list, id) = {} THEN DropLast(list)
    ELSE RemoveAt(list, CHOOSE i \in Find(list, id) : TRUE)

\* remove(invites, idx): nothing happens beyond the end.
DropAt(list, place) == IF place <= Len(list) THEN RemoveAt(list, place) ELSE list

\* Mutant of AfterMember: what was at the place of the member when the request was sent.
AfterMemberAt(c) ==
    CASE c.do = "remove" -> [shown EXCEPT !.members = DropAt(@, c.place)]
      [] c.do = "update" -> [shown EXCEPT !.members = [i \in DOMAIN @ |->
            IF @[i].id = c.on THEN [@[i] EXCEPT !.role = c.role] ELSE @[i]]]
      [] OTHER -> [shown EXCEPT !.invites = Drop(@, c.on)]

AfterMember(c) ==
    CASE c.do = "remove" -> [shown EXCEPT !.members = Drop(@, c.on)]
      [] c.do = "update" -> [shown EXCEPT !.members = [i \in DOMAIN @ |->
            IF @[i].id = c.on THEN [@[i] EXCEPT !.role = c.role] ELSE @[i]]]
      [] OTHER -> [shown EXCEPT !.invites = Drop(@, c.on)]

AfterFetch(c) ==
    [shown EXCEPT !.ready = TRUE, !.members = c.got.members, !.invites = c.got.invites,
                  !.post = c.got.post, !.devices = c.got.devices]

AfterPublish(c) == [shown EXCEPT !.post = (c.do # "unpublish")]

\* Who accepts an invite leaves the view.
AfterInvite(c) ==
    IF c.do = "accept" THEN Leave("none") ELSE [shown EXCEPT !.invites = DropAt(@, c.place)]

Read(n) ==
    LET c == calls[n] IN
    /\ c.pc = "ok"
    /\ shown' =
          CASE ~c.heard -> shown
            [] c.do = "fetch"        -> AfterFetch(c)
            [] c.from = "members"    -> AfterMember(c)
            [] c.from = "notifications" -> AfterInvite(c)
            [] c.from = "publish"    -> AfterPublish(c)
            [] c.from = "sessions"   -> [shown EXCEPT !.devices = 1]
            [] OTHER                 -> [shown EXCEPT !.name = c.on]
    /\ calls' = RemoveAt(IF c.heard /\ c.do = "accept" THEN Unheard ELSE calls, n)
    /\ UNCHANGED <<server, unsure>>

\* The request does not reach the server, or its answer does not reach the page.
CallFails(n) ==
    /\ calls[n].heard
    /\ \/ calls[n].pc = "sent" /\ Refuse(n) /\ UNCHANGED unsure
       \/ /\ calls' = [calls EXCEPT ![n].heard = FALSE]
          /\ unsure' = IF calls[n].pc = "ok" THEN unsure \cup About(calls[n]) ELSE unsure
    /\ UNCHANGED <<server, shown>>

\* What others do; and the page reads the user's profile, with the role and the name.
OthersDo ==
    /\ \/ \E p \in Person, role \in {"none", "editor", "admin"} :
             /\ RoleOf(p) \notin {"none", "owner", role} /\ (p = Me => role # "none")
             /\ SetMember(p, role) /\ unsure' = unsure \cup {p}
       \/ \E i \in Invite, st \in {"accepted", "declined", "cancelled"} :
             /\ server.invites[i] = "sent" /\ (i \in ToMe => st = "cancelled")
             /\ SetInvite(i, st) /\ unsure' = unsure \cup {i}
       \/ SetPost(~server.post) /\ unsure' = unsure \cup {"post"}
       \/ /\ server' = [server EXCEPT !.devices = 3 - @] /\ unsure' = unsure \cup {"devices"}
    /\ UNCHANGED <<shown, calls>>

ReadProfile ==
    /\ <<shown.role, shown.name>> # <<RoleOf(Me), server.name>>
    /\ shown' = [shown EXCEPT !.role = RoleOf(Me), !.name = server.name]
    /\ unsure' = IF \E c \in ToSet(calls) : c.do = "rename" THEN unsure ELSE unsure \ {"name"}
    /\ UNCHANGED <<server, calls>>

-----------------------------------------------------------------------------
(* Properties *)

\* `unsure` are members, invites and so on that others changed since the server told the
\* view; or that a request changed whose answer nobody heard; and what is wrong when two
\* requests about the same were under way at once, which the views do not prevent: an
\* older answer comes last, or the answer to the second takes another entry off the list.

\* When nothing is under way, what a view shows is what the server has, but for that.
ListsTrue ==
    Heard = {} =>
        /\ "name" \notin unsure => shown.name = server.name
        /\ shown.ready =>
            CASE shown.at = "members" ->
                    /\ \A p \in Person \ unsure :
                          {m.role : m \in {k \in ToSet(shown.members) : k.id = p}} =
                              {RoleOf(p)} \ {"none"}
                    /\ "invites" \notin unsure => \A i \in Invite \ unsure :
                          Find(shown.invites, i) # {} <=> server.invites[i] = "sent" /\ i \notin ToMe
              [] shown.at = "notifications" ->
                    "invites" \notin unsure => \A i \in Invite \ unsure :
                          Find(shown.invites, i) # {} <=> Active(i)
              [] shown.at = "publish"  -> "post" \in unsure \/ shown.post = server.post
              [] shown.at = "sessions" -> "devices" \in unsure \/ shown.devices = server.devices
              [] OTHER -> TRUE

\* What is offered is permitted, if the page knows the user's role and the member's.
OffersPermitted ==
    shown.role = RoleOf(Me) /\ shown.ready /\ shown.at = "members" /\ Heard = {} =>
        /\ \A m \in ToSet(shown.members) : m.id \notin unsure /\ ShowActions(m) =>
              /\ MayRemove(RoleOf(Me), RoleOf(m.id))
              /\ \A role \in RoleOptions : MayChange(RoleOf(Me), RoleOf(m.id), role)
        /\ Manages(shown.role) => \A role \in InviteOptions : MayInvite(RoleOf(Me), role)
=============================================================================
