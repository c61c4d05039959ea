------------------------------ MODULE Accounts ------------------------------
(***************************************************************************)
(* Accounts of one person (one email address) in packages/app: signing in  *)
(* with a code that was mailed, the tokens of the person's devices, and    *)
(* the mark for unread notifications.                                      *)
(*                                                                         *)
(* Requests run one await after the other, none in a transaction, and some *)
(* calls are not awaited at all.  The page lets the same code be sent      *)
(* again while the first request is under way.                             *)
(*                                                                         *)
(* Tokens do not expire (auth.ts: "TODO issue with expiration").  How the  *)
(* account's first space is created is said in Spaces; here it is one      *)
(* step, which may fail.                                                   *)
(***************************************************************************)
EXTENDS Naturals, FiniteSets, SequencesExt

CONSTANTS
    Otp,           \* codes that may be mailed
    Device,        \* the person's pages, each with at most one token
    MaxJobs,       \* requests to sign in
    MaxAttempts,   \* wrong codes until another must be asked for
    MaxTokens      \* tokens of an account that are kept

ASSUME AccountsAssumption == {MaxJobs, MaxAttempts, MaxTokens} \subseteq Nat

VARIABLES
    otps,       \* the codes that are known, and the wrong attempts at each
    accounts,   \* rows of the table of users, and whether each has got its space
    tokens,     \* rows of the table of tokens, by token: whose, and which of all uses
    uses,       \* of tokens was its last
    jobs,       \* requests to sign in, as they came
    sweeps,     \* deletions of old tokens that were started
    held,       \* the token that each device has, or 0
    notices     \* invites to the person, and the mark for them

accountsVars == <<otps, accounts, tokens, uses, jobs, sweeps, held, notices>>

Job(n) == [pc: 0 .. 8, device: Device, otp: Otp, right: BOOLEAN,
           attempts: 0 .. MaxAttempts, account: 0 .. n]

AccountsTypeOK ==
    /\ otps \in [Otp -> [status: {"none", "known", "gone"}, attempts: 0 .. MaxAttempts]]
    /\ accounts \in Seq({"bare", "homed"})
    /\ uses \in Nat /\ DOMAIN tokens \subseteq DOMAIN jobs
    /\ tokens \in [DOMAIN tokens -> [account: DOMAIN accounts, used: 1 .. uses]]
    /\ jobs \in Seq(Job(Len(accounts))) /\ Len(jobs) <= MaxJobs
    /\ sweeps \subseteq [job: 1 .. MaxJobs, found: BOOLEAN, old: SUBSET (1 .. MaxJobs)]
    /\ held \in [Device -> 0 .. MaxJobs]
    /\ notices \in [made: Nat, told: Nat, seen: Nat, unread: BOOLEAN, clearing: Nat]

-----------------------------------------------------------------------------
(* Signing in *)

\* A code is mailed, and then recorded.
SendCode(o) ==
    /\ otps[o].status = "none"
    /\ otps' = [otps EXCEPT ![o].status = "known"]
    /\ UNCHANGED <<accounts, tokens, uses, jobs, sweeps, held, notices>>

\* The page sends a code, maybe again.
Code(d, o, right) ==
    /\ Len(jobs) < MaxJobs /\ otps[o].status # "none"
    /\ jobs' = Append(jobs, [pc |-> 1, device |-> d, otp |-> o, right |-> right,
                             attempts |-> 0, account |-> 0])
    /\ UNCHANGED <<otps, accounts, tokens, uses, sweeps, held, notices>>

JobAt(j, pc) == jobs[j].pc = pc
Goto(j, pc)  == jobs' = [jobs EXCEPT ![j].pc = pc]
JobEnds(j)   == Goto(j, 0)

FindOtp(j) ==
    /\ JobAt(j, 1)
    /\ IF otps[jobs[j].otp].status = "known"
       THEN jobs' = [jobs EXCEPT ![j].pc = 2, ![j].attempts = otps[jobs[j].otp].attempts]
       ELSE JobEnds(j)
    /\ UNCHANGED <<otps, accounts, tokens, uses, sweeps, held, notices>>

\* The code goes once it was right, has expired, or was wrong too often.
CheckOtp(j) ==
    LET o == jobs[j].otp  gone == [otps EXCEPT ![o].status = "gone"] IN
    /\ JobAt(j, 2)
    /\ \/ otps' = gone /\ JobEnds(j)
       \/ jobs[j].right /\ otps' = gone /\ Goto(j, 3)
       \/ /\ ~jobs[j].right /\ jobs[j].attempts + 1 < MaxAttempts
          /\ otps' = IF otps[o].status = "known" /\ otps[o].attempts < MaxAttempts
                     THEN [otps EXCEPT ![o].attempts = @ + 1] ELSE otps
          /\ JobEnds(j)
    /\ UNCHANGED <<accounts, tokens, uses, sweeps, held, notices>>

FindUser(j) ==
    /\ JobAt(j, 3)
    /\ IF accounts = <<>> THEN Goto(j, 4)
       ELSE \E a \in DOMAIN accounts : jobs' = [jobs EXCEPT ![j].pc = 7, ![j].account = a]
    /\ UNCHANGED <<otps, accounts, tokens, uses, sweeps, held, notices>>

CreateUser(j) ==
    /\ JobAt(j, 4)
    /\ IF accounts = <<>> THEN Goto(j, 5) ELSE JobEnds(j)
    /\ UNCHANGED <<otps, accounts, tokens, uses, sweeps, held, notices>>

\* The entity says that emails are unique; the migrations make an index that is not.
InsertUser(j) ==
    /\ JobAt(j, 5)
    /\ accounts' = Append(accounts, "bare")
    /\ jobs' = [jobs EXCEPT ![j].pc = 6, ![j].account = Len(accounts) + 1]
    /\ UNCHANGED <<otps, tokens, uses, sweeps, held, notices>>

CreateFirstSpace(j) ==
    /\ JobAt(j, 6)
    /\ \/ accounts' = [accounts EXCEPT ![jobs[j].account] = "homed"] /\ Goto(j, 7)
       \/ UNCHANGED accounts /\ JobEnds(j)
    /\ UNCHANGED <<otps, tokens, uses, sweeps, held, notices>>

\* The token is issued; nobody waits for the old ones to be deleted.
IssueToken(j) ==
    /\ JobAt(j, 7)
    /\ uses' = uses + 1
    /\ tokens' = [i \in DOMAIN tokens \cup {j} |->
          IF i = j THEN [account |-> jobs[j].account, used |-> uses'] ELSE tokens[i]]
    /\ sweeps' = sweeps \cup {[job |-> j, found |-> FALSE, old |-> {}]}
    /\ Goto(j, 8)
    /\ UNCHANGED <<otps, accounts, held, notices>>

\* The profile goes with the answer; the page then has the token, whatever it had.
Answer(j) ==
    /\ JobAt(j, 8)
    /\ JobEnds(j)
    /\ held' = [held EXCEPT ![jobs[j].device] = j]
    /\ UNCHANGED <<otps, accounts, tokens, uses, sweeps, notices>>

\* A call to the database or the mail fails, or the answer is lost.
JobFails(j) ==
    /\ jobs[j].pc > 0
    /\ JobEnds(j)
    /\ UNCHANGED <<otps, accounts, tokens, uses, sweeps, held, notices>>

-----------------------------------------------------------------------------
(* Tokens *)

Owned(a) == {i \in DOMAIN tokens : tokens[i].account = a}

\* Those of which enough others were used later.
Old(a) ==
    {i \in Owned(a) : Cardinality({k \in Owned(a) : tokens[k].used > tokens[i].used}) >= MaxTokens}

Delete(ids) == tokens' = [i \in DOMAIN tokens \ ids |-> tokens[i]]

FindOld(w) ==
    /\ w \in sweeps /\ ~w.found
    /\ LET old == Old(jobs[w.job].account) IN
       sweeps' = (sweeps \ {w}) \cup
                 IF old = {} THEN {} ELSE {[w EXCEPT !.found = TRUE, !.old = old]}
    /\ UNCHANGED <<otps, accounts, tokens, uses, jobs, held, notices>>

DeleteOld(w) ==
    /\ w \in sweeps /\ w.found
    /\ Delete(w.old)
    /\ sweeps' = sweeps \ {w}
    /\ UNCHANGED <<otps, accounts, uses, jobs, held, notices>>

\* It fails where it is: nobody is told, and what is too many stays.
SweepFails(w) ==
    /\ w \in sweeps
    /\ sweeps' = sweeps \ {w}
    /\ UNCHANGED <<otps, accounts, tokens, uses, jobs, held, notices>>

Use(id) == uses' = uses + 1 /\ tokens' = [tokens EXCEPT ![id].used = uses']

\* Any request of a device: its token becomes the one used last.  If the token is not
\* there any more, the page signs out.
Access(d) ==
    /\ held[d] # 0
    /\ IF held[d] \in DOMAIN tokens
       THEN Use(held[d]) /\ UNCHANGED held
       ELSE held' = [held EXCEPT ![d] = 0] /\ UNCHANGED <<tokens, uses>>
    /\ UNCHANGED <<otps, accounts, jobs, sweeps, notices>>

\* What other code of the page does on logging out is said in Session.
SignOut(d) ==
    /\ held[d] # 0
    /\ held' = [held EXCEPT ![d] = 0]
    /\ UNCHANGED <<otps, accounts, tokens, uses, jobs, sweeps, notices>>

\* The sessions of other devices are ended.
Terminate(d) ==
    /\ held[d] # 0 /\ held[d] \in DOMAIN tokens
    /\ Delete(Owned(tokens[held[d]].account) \ {held[d]})
    /\ UNCHANGED <<otps, accounts, uses, jobs, sweeps, held, notices>>

-----------------------------------------------------------------------------
(* Notifications *)

\* An invite is made, and then its receiver's mark is set.
MakeInvite ==
    /\ accounts # <<>>
    /\ notices' = [notices EXCEPT !.made = @ + 1]
    /\ UNCHANGED <<otps, accounts, tokens, uses, jobs, sweeps, held>>

\* Mutant of TellInvite: nothing is marked.
TellUnmarked ==
    /\ notices.told < notices.made
    /\ notices' = [notices EXCEPT !.told = @ + 1]
    /\ UNCHANGED <<otps, accounts, tokens, uses, jobs, sweeps, held>>

TellInvite ==
    /\ notices.told < notices.made
    /\ notices' = [notices EXCEPT !.told = @ + 1, !.unread = TRUE]
    /\ UNCHANGED <<otps, accounts, tokens, uses, jobs, sweeps, held>>

\* The notifications are read; nobody waits for the mark to be cleared.
ListInvites ==
    /\ notices' = [notices EXCEPT !.seen = notices.made, !.clearing = @ + 1]
    /\ UNCHANGED <<otps, accounts, tokens, uses, jobs, sweeps, held>>

ClearUnread ==
    /\ notices.clearing > 0
    /\ notices' = [notices EXCEPT !.clearing = @ - 1, !.unread = FALSE]
    /\ UNCHANGED <<otps, accounts, tokens, uses, jobs, sweeps, held>>

-----------------------------------------------------------------------------

AccountsInit ==
    /\ otps = [o \in Otp |-> [status |-> "none", attempts |-> 0]]
    /\ accounts \in {<<>>, <<"homed">>}
    /\ tokens = <<>> /\ uses = 0 /\ jobs = <<>> /\ sweeps = {}
    /\ held = [d \in Device |-> 0]
    /\ notices = [made |-> 0, told |-> 0, seen |-> 0, unread |-> FALSE, clearing |-> 0]

JobStep(j) ==
    \/ FindOtp(j) \/ CheckOtp(j) \/ FindUser(j) \/ CreateUser(j) \/ InsertUser(j)
    \/ CreateFirstSpace(j) \/ IssueToken(j) \/ Answer(j)
=============================================================================
