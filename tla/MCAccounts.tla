---------------------------- MODULE MCAccounts -----------------------------
(***************************************************************************)
(* Accounts of a person, for TLC and for proofs: requests, devices, the    *)
(* deletion of tokens and the mark for notifications go on in any order.   *)
(***************************************************************************)
EXTENDS Accounts

VARIABLES mishaps, unswept    \* history: see below

mishapVars == <<accountsVars, mishaps, unswept>>

\* `mishaps` is what happened to the accounts: two of them made at the same time, or one
\* without its space; and an invite told of while the mark of unread ones was cleared.
Busy(pcs) == {j \in DOMAIN jobs : jobs[j].pc \in pcs}

RememberMishaps ==
    mishaps' = mishaps
        \cup (IF Cardinality(Busy({5})') > 1 THEN {"doubled"} ELSE {})
        \cup (IF \E j \in Busy({6}) : jobs'[j].pc = 0 THEN {"homeless"} ELSE {})
        \cup (IF notices.clearing > 0 /\ notices'.told > notices.told
              THEN {"unmarked"} ELSE {})

\* `unswept` are the accounts whose tokens failed to be deleted, until they are looked
\* through again.
Sweeping ==
    \E w \in sweeps :
        \/ FindOld(w) /\ unswept' = unswept \ {jobs[w.job].account}
        \/ SweepFails(w) /\ unswept' = unswept \cup {jobs[w.job].account}

\* What was begun goes on.
AccountsGoOn ==
    \/ \E j \in DOMAIN jobs : JobStep(j)
    \/ \E w \in sweeps : DeleteOld(w)
    \/ TellInvite \/ ClearUnread

DevicesDo ==
    \/ \E o \in Otp : SendCode(o) \/ \E d \in Device, right \in BOOLEAN : Code(d, o, right)
    \/ \E d \in Device : Access(d) \/ SignOut(d) \/ Terminate(d)
    \/ \E j \in DOMAIN jobs : JobFails(j)

InvitesDo == MakeInvite \/ ListInvites

AccountsNext ==
    /\ \/ (AccountsGoOn \/ DevicesDo \/ InvitesDo) /\ UNCHANGED unswept
       \/ Sweeping
    /\ RememberMishaps

AccountsSpec ==
    (AccountsInit /\ mishaps = {} /\ unswept = {}) /\ [][AccountsNext]_mishapVars

-----------------------------------------------------------------------------
(* Properties *)

\* When nothing is under way, a person has one account, unless two sign-ins made one at
\* once, with a space, unless making it failed, and no more tokens than are kept, unless
\* deleting them failed the last time; and invites that were not seen are marked, unless
\* the mark was being cleared meanwhile.
AccountsInOrder ==
    /\ Busy(1 .. 8) = {} /\ sweeps = {} =>
        /\ Len(accounts) > 1 => "doubled" \in mishaps
        /\ \A a \in DOMAIN accounts :
              /\ accounts[a] = "homed" \/ "homeless" \in mishaps
              /\ Cardinality(Owned(a)) <= MaxTokens \/ a \in unswept
    /\ notices.clearing = 0 /\ notices.told = notices.made /\ notices.made > notices.seen =>
        notices.unread \/ "unmarked" \in mishaps
=============================================================================
