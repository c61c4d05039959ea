------------------------------ MODULE Channels ------------------------------
(***************************************************************************)
(* The application's message channels: a websocket for each page on which  *)
(* the application tells a user that something has changed (ChannelServer  *)
(* in packages/app/src/channels.ts, Channel in packages/client/src).  A    *)
(* user is open on at most one page; a message to a user who is not        *)
(* connected is lost.                                                      *)
(***************************************************************************)
EXTENDS Naturals, Sequences

CONSTANT User

VARIABLES
    chan,     \* users whose channel is connected
    mail      \* "profile" messages on their way to a page

channelVars == <<chan, mail>>

ChannelsTypeOK == chan \subseteq User /\ mail \in [User -> Nat]

ChannelsInit == chan = {} /\ mail = [u \in User |-> 0]

\* Mutant of Tell: only users who are not connected are told.
TellAbsent(u) ==
    /\ mail' = IF u \in chan THEN mail ELSE [mail EXCEPT ![u] = @ + 1]
    /\ UNCHANGED chan

Tell(u) ==
    /\ mail' = IF u \in chan THEN [mail EXCEPT ![u] = @ + 1] ELSE mail
    /\ UNCHANGED chan

\* The page opens its channel, at first or again: nothing is sent for what was missed.
ChannelUp(u) == u \notin chan /\ chan' = chan \cup {u} /\ UNCHANGED mail

\* The connection is lost, or the heartbeat closes it.
ChannelDown(u) ==
    /\ u \in chan
    /\ chan' = chan \ {u}
    /\ mail' = [mail EXCEPT ![u] = 0]
=============================================================================
