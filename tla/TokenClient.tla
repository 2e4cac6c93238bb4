---------------------------- MODULE TokenClient ----------------------------
(***************************************************************************)
(* The token handling of the browser (lib/api/client.ts and                *)
(* lib/contexts/auth.tsx): tabs that share localStorage and talk to the    *)
(* server, each running its JavaScript to completion between two awaits.   *)
(*                                                                         *)
(* Login and refresh hand out an access and a refresh token together; both *)
(* keys of localStorage are written and removed together, so a pair is one *)
(* number, and its number is used again once nobody holds it.  All pairs   *)
(* belong to one account.  A member of Jobs is a chain of awaits of a page *)
(* (a call of the API client) with its request; when the page goes, a      *)
(* request that is under way stays with the server (dead).                 *)
(*                                                                         *)
(* The server's side is what Sessions details: Validate and the rest of a  *)
(* rotation are separate steps, a logout revokes every refresh token.      *)
(***************************************************************************)
EXTENDS Naturals, FiniteSets

CONSTANTS
    Tabs,           \* the tabs of the browser
    Jobs,           \* how many chains of calls can be under way
    Tokens,         \* the numbers of pairs
    Nobody,         \* no tab's call did
    Mishaps         \* whether requests fail and users reload pages

None == 0

ASSUME TokensAssumption ==
    /\ IsFiniteSet(Jobs)
    /\ Tokens = 1 .. (Cardinality(Jobs) + 2)
ASSUME NobodyAssumption == Nobody \notin Tabs
ASSUME MishapsAssumption == Mishaps \in BOOLEAN

VARIABLES
    stored,         \* the pair in localStorage
    live,           \* the refresh tokens Redis has
    expired,        \* the access tokens past their 15 minutes
    user,           \* what AuthProvider of a tab knows: see Shown
    leaving,        \* the tabs whose page has been told to go to /login
    job,
    renewedBy,      \* history: the tab whose calls brought the pair by refresh
    loggedOut       \* history: a logout has ended and no tokens came since

vars == <<stored, live, expired, user, leaving, job, renewedBy, loggedOut>>

\* A tab whose page is yet to load, one with no user, one with the user.
Shown == {"unloaded", "nobody", "somebody"}

\* withTokenRefresh wraps the calls of a page and the logouts; "background"
\* is the logout AuthProvider starts without awaiting it.
Wrapped == {"page", "logout", "background"}
Kinds == Wrapped \cup {"restore", "login"}

AtServer == {"sent", "refresh", "checked", "login"}
Answered == {"ok", "denied", "failed", "granted", "refused", "cut"}

JobRecords ==
    [tab : Tabs, kind : Kinds, pc : AtServer \cup Answered \cup {"waiting"},
     tok : Tokens \cup {None}, retries : 0 .. 1, dead : BOOLEAN,
     early : BOOLEAN]   \* history: its refresh was under way when a logout ended

NoJob == [pc |-> "idle"]

Busy(j) == job[j] # NoJob

\* A chain of a page that is still there.
Awake(j) == Busy(j) /\ ~job[j].dead

InUse == {stored} \cup {job[j].tok : j \in {k \in Jobs : Busy(k)}}

Fresh == CHOOSE n \in Tokens \ InUse : \A k \in Tokens \ InUse : n <= k

----------------------------------------------------------------------------
\* Mutant: every call refreshes for itself.
InFlightNever(t) == FALSE

Renewing(j) == Busy(j) /\ job[j].pc \in {"refresh", "checked", "granted", "refused", "cut"}

(***************************************************************************)
(* isRefreshing && refreshPromise: a call of the page has a refresh under  *)
(* way, which ends when its answer has been dealt with.  The refresh of    *)
(* AuthProvider does not go through it.                                    *)
(***************************************************************************)
InFlight(t) ==
    \E j \in Jobs : /\ Awake(j)
                    /\ job[j].tab = t
                    /\ job[j].kind \in Wrapped
                    /\ Renewing(j)

\* The chains of a tab that await the refresh j carries, j included.
Awaiting(j) ==
    {j} \cup {k \in Jobs : Awake(k) /\ job[k].tab = job[j].tab /\ job[k].pc = "waiting"}

\* A request that matters to the browser even when nobody gets the answer.
Lingers(j) ==
    \/ job[j].pc \in {"refresh", "checked"}
    \/ job[j].pc = "sent" /\ job[j].kind # "page"

\* The page of a tab goes: its chains end, the server keeps the requests it
\* has got, and whose they were does not matter any more.
Unloaded(t) ==
    [k \in Jobs |->
        IF ~Awake(k) \/ job[k].tab # t THEN job[k]
        ELSE IF Lingers(k)
        THEN [job[k] EXCEPT !.dead = TRUE, !.kind = "background", !.retries = 0,
                            !.early = FALSE]
        ELSE NoJob]

\* The request of j is answered; nobody listens if its page has gone.
Reply(j, pc, tok) ==
    job' = [job EXCEPT ![j] = IF job[j].dead THEN NoJob
                              ELSE [@ EXCEPT !.pc = pc, !.tok = tok]]

\* What is true of a token that nobody can present any more is forgotten.
Server(refreshable, old) ==
    /\ live' = refreshable \cap InUse'
    /\ expired' = old \cap InUse'

Start(j, t, kind, pc, retries) ==
    /\ ~Busy(j)
    /\ job' = [job EXCEPT ![j] = [tab |-> t, kind |-> kind, pc |-> pc, tok |-> stored,
                                  retries |-> retries, dead |-> FALSE, early |-> FALSE]]

Browser == <<stored, user, leaving, renewedBy, loggedOut>>
Idle == Server(live, expired)

----------------------------------------------------------------------------
\* The browser opens with or without a pair in localStorage.
Init ==
    /\ stored \in {None, 1}
    /\ live = {stored} \ {None}
    /\ expired = {}
    /\ user = [t \in Tabs |-> "unloaded"]
    /\ leaving = {}
    /\ job = [j \in Jobs |-> NoJob]
    /\ renewedBy = Nobody
    /\ loggedOut = FALSE

\* A page loads and AuthProvider restores the user.  isTokenExpired answers
\* yes up to five seconds before the server does.
Load(t, j) ==
    /\ user[t] = "unloaded"
    /\ \/ /\ stored = None
          /\ user' = [user EXCEPT ![t] = "nobody"]
          /\ UNCHANGED job
       \/ /\ stored # None /\ stored \notin expired
          /\ user' = [user EXCEPT ![t] = "somebody"]
          /\ UNCHANGED job
       \/ /\ stored # None
          /\ Start(j, t, "restore", "refresh", 0)
          /\ user' = [user EXCEPT ![t] = "nobody"]
    /\ UNCHANGED <<stored, leaving, renewedBy, loggedOut>>
    /\ Idle

\* A call that needs the user, from a page that shows one.
Call(t, j) ==
    /\ user[t] = "somebody"
    /\ Start(j, t, "page", "sent", 1)
    /\ UNCHANGED Browser
    /\ Idle

Logout(t, j) ==
    /\ user[t] = "somebody"
    /\ Start(j, t, "logout", "sent", 1)
    /\ UNCHANGED Browser
    /\ Idle

Login(t, j) ==
    /\ user[t] = "nobody"
    /\ Start(j, t, "login", "login", 0)
    /\ UNCHANGED Browser
    /\ Idle

\* The page of a tab is unloaded.
Unload(t) ==
    /\ user[t] # "unloaded"
    /\ user' = [user EXCEPT ![t] = "unloaded"]
    /\ leaving' = leaving \ {t}
    /\ job' = Unloaded(t)
    /\ UNCHANGED <<stored, renewedBy, loggedOut>>
    /\ Idle

\* The user reloads it, or the browser follows window.location: until then
\* its scripts run on, and the user can use it.
Reload(t) == Mishaps /\ Unload(t)
Leave(t) == t \in leaving /\ Unload(t)

----------------------------------------------------------------------------
\* AuthMiddleware decides by the access token alone; a logout it lets
\* through revokes all refresh tokens of the user.
ServeCall(j) ==
    /\ Busy(j) /\ job[j].pc = "sent"
    /\ UNCHANGED Browser
    /\ IF job[j].tok # None /\ job[j].tok \notin expired
       THEN /\ Reply(j, "ok", None)
            /\ Server(IF job[j].kind = "page" THEN live ELSE {}, expired)
       ELSE /\ Reply(j, "denied", None)
            /\ Idle

\* Every answer of a login or a refresh carries a new pair.
Issue(j, old) ==
    /\ UNCHANGED Browser
    /\ Reply(j, "granted", Fresh)
    /\ Server((live \ old) \cup {Fresh}, expired \ {Fresh})

ServeLogin(j) ==
    /\ Busy(j) /\ job[j].pc = "login"
    /\ Issue(j, {})

CheckRefresh(j) ==
    /\ Busy(j) /\ job[j].pc = "refresh"
    /\ IF job[j].tok \in live
       THEN job' = [job EXCEPT ![j].pc = "checked"]
       ELSE Reply(j, "refused", None)
    /\ UNCHANGED Browser
    /\ Idle

Rotate(j) ==
    /\ Busy(j) /\ job[j].pc = "checked"
    /\ Issue(j, {job[j].tok})

\* A request or its answer is lost, or the server fails: fetch rejects, or
\* the status is one the client does not retry.
Lose(j) ==
    /\ Mishaps
    /\ UNCHANGED Browser
    /\ Busy(j) /\ job[j].pc \in {"sent", "ok", "refresh", "checked", "login", "granted"}
    /\ Reply(j, IF job[j].kind = "login" \/ job[j].pc \in {"sent", "ok"}
                THEN "failed" ELSE "cut",
             None)
    /\ \/ Idle
       \/ job[j].pc = "checked" /\ Server(live \ {job[j].tok}, expired)

Expire(n) ==
    /\ n \in InUse \ (expired \cup {None})
    /\ expired' = expired \cup {n}
    /\ UNCHANGED <<Browser, live, job>>

----------------------------------------------------------------------------
\* Mutant: the retry may refresh again.
ResentAgain(j) ==
    [k \in Jobs |-> IF k \in Awaiting(j)
                    THEN [job[k] EXCEPT !.pc = "sent", !.tok = job[j].tok]
                    ELSE job[k]]

\* Whoever awaits the refresh sends its call again, with the new token and
\* one retry less.
Resent(j) ==
    [k \in Jobs |-> IF k \in Awaiting(j)
                    THEN [job[k] EXCEPT !.pc = "sent", !.tok = job[j].tok,
                                        !.retries = @ - 1, !.early = FALSE]
                    ELSE job[k]]

\* A login or a refresh was answered: the pair is stored, and the chain goes
\* on.
Store(j) ==
    /\ Awake(j) /\ job[j].pc = "granted"
    /\ stored' = job[j].tok
    /\ IF job[j].kind \in Wrapped
       THEN /\ job' = Resent(j)
            /\ renewedBy' = job[j].tab
            /\ UNCHANGED user
       ELSE /\ job' = [job EXCEPT ![j] = NoJob]
            /\ renewedBy' = Nobody
            /\ user' = [user EXCEPT ![job[j].tab] = "somebody"]
    /\ loggedOut' = FALSE
    /\ UNCHANGED leaving
    /\ Idle

\* AuthProvider's own refresh failed: it starts a logout, which goes out
\* with the access token of that moment, and does not wait for it.
RestoreFails(j) ==
    /\ Awake(j) /\ job[j].pc \in {"refused", "cut"} /\ job[j].kind = "restore"
    /\ job' = [job EXCEPT ![j] = [@ EXCEPT !.kind = "background", !.pc = "sent",
                                           !.tok = stored, !.retries = 1]]
    /\ UNCHANGED Browser
    /\ Idle

\* A step has ended a logout of the user's: the refreshes under way are marked.
Marked(jobs, ended) ==
    [k \in Jobs |-> IF ended /\ Renewing(k) /\ jobs[k] # NoJob /\ ~jobs[k].dead
                    THEN [jobs[k] EXCEPT !.early = TRUE] ELSE jobs[k]]

\* The chains that await the refresh of j throw.
Thrown(j) == [k \in Jobs |-> IF k \in Awaiting(j) THEN NoJob ELSE job[k]]

\* Mutant: the page stays.
RedirectNot(j) ==
    /\ job' = Thrown(j)
    /\ UNCHANGED <<user, leaving, loggedOut>>

\* No new pair: the page is told to go to /login and the calls throw; a
\* logout among them still runs its finally block.
Redirect(j) ==
    LET ended == \E k \in Awaiting(j) : job[k].kind = "logout" IN
    /\ leaving' = leaving \cup {job[j].tab}
    /\ job' = Marked(Thrown(j), ended)
    /\ user' = IF ended THEN [user EXCEPT ![job[j].tab] = "nobody"] ELSE user
    /\ loggedOut' = (loggedOut \/ ended)

\* Any failure of the refresh, the network's included, removes the tokens.
RefreshFails(j) ==
    /\ Awake(j) /\ job[j].pc \in {"refused", "cut"} /\ job[j].kind \in Wrapped
    /\ stored' = None
    /\ renewedBy' = Nobody
    /\ Redirect(j)
    /\ Idle

\* Mutant: every 401 of a call is taken for the first.
DeniedAgain(j) ==
    /\ Awake(j) /\ job[j].pc = "denied"
    /\ \/ /\ InFlight(job[j].tab)
          /\ job' = [job EXCEPT ![j].pc = "waiting"]
          /\ UNCHANGED <<user, leaving, loggedOut>>
       \/ /\ ~InFlight(job[j].tab) /\ stored # None
          /\ job' = [job EXCEPT ![j].pc = "refresh", ![j].tok = stored]
          /\ UNCHANGED <<user, leaving, loggedOut>>
       \/ /\ ~InFlight(job[j].tab) /\ stored = None
          /\ Redirect(j)
    /\ UNCHANGED <<stored, renewedBy>>
    /\ Idle

\* The first 401 of a call: join the refresh under way, or start one, or
\* give up when there is no refresh token.
Denied(j) ==
    /\ Awake(j) /\ job[j].pc = "denied" /\ job[j].retries > 0
    /\ \/ /\ InFlight(job[j].tab)
          /\ job' = [job EXCEPT ![j].pc = "waiting"]
          /\ UNCHANGED <<user, leaving, loggedOut>>
       \/ /\ ~InFlight(job[j].tab) /\ stored # None
          /\ job' = [job EXCEPT ![j].pc = "refresh", ![j].tok = stored]
          /\ UNCHANGED <<user, leaving, loggedOut>>
       \/ /\ ~InFlight(job[j].tab) /\ stored = None
          /\ Redirect(j)
    /\ UNCHANGED <<stored, renewedBy>>
    /\ Idle

\* Mutant: a logout that fails keeps the tokens.
ForgetsIfTold(j) == job[j].kind \in {"logout", "background"} /\ job[j].pc = "ok"

\* A logout removes the tokens whatever the answer.
Forgets(j) == job[j].kind \in {"logout", "background"}

\* A call is answered for good, and the logout the user asked for forgets the
\* user.
Finish(j) ==
    LET ended == job[j].kind = "logout" IN
    /\ Awake(j)
    /\ job[j].pc \in {"ok", "failed"} \/ (job[j].pc = "denied" /\ job[j].retries = 0)
    /\ job' = Marked([job EXCEPT ![j] = NoJob], ended)
    /\ IF Forgets(j) THEN stored' = None /\ renewedBy' = Nobody
                     ELSE UNCHANGED <<stored, renewedBy>>
    /\ user' = IF ended THEN [user EXCEPT ![job[j].tab] = "nobody"] ELSE user
    /\ loggedOut' = (loggedOut \/ ended)
    /\ UNCHANGED leaving
    /\ Idle

----------------------------------------------------------------------------
\* What the server and the event loop of a page owe to a chain.
Serve(j) == ServeCall(j) \/ ServeLogin(j) \/ CheckRefresh(j) \/ Rotate(j)

React(j) ==
    Store(j) \/ RestoreFails(j) \/ RefreshFails(j) \/ Denied(j) \/ Finish(j)

Next ==
    \/ \E t \in Tabs, j \in Jobs : Load(t, j) \/ Call(t, j) \/ Logout(t, j) \/ Login(t, j)
    \/ \E t \in Tabs : Reload(t) \/ Leave(t)
    \/ \E j \in Jobs : Serve(j) \/ React(j) \/ Lose(j)
    \/ \E n \in Tokens : Expire(n)

Spec == Init /\ [][Next]_vars

(***************************************************************************)
(* The server answers, a browser that has an answer runs the handler, and  *)
(* one that is told to go to another page goes there.  Nobody owes a       *)
(* user's click, a token's expiry or a failure.                            *)
(***************************************************************************)
Fairness ==
    /\ \A j \in Jobs : WF_vars(Serve(j)) /\ WF_vars(React(j))
    /\ \A t \in Tabs : WF_vars(Leave(t))

FairSpec == Spec /\ Fairness

----------------------------------------------------------------------------
TypeOK ==
    /\ stored \in Tokens \cup {None}
    /\ live \subseteq Tokens
    /\ expired \subseteq Tokens
    /\ user \in [Tabs -> Shown]
    /\ leaving \subseteq {t \in Tabs : user[t] # "unloaded"}
    /\ job \in [Jobs -> JobRecords \cup {NoJob}]
    /\ renewedBy \in Tabs \cup {Nobody}
    /\ loggedOut \in BOOLEAN

(***************************************************************************)
(* The chains of one page never present one refresh token at a time: the   *)
(* second would find it revoked and remove the pair the first brought      *)
(* (isRefreshing and refreshPromise, client.ts:31-42; AuthProvider's own   *)
(* refresh goes past them).                                                *)
(***************************************************************************)
PresentedOnce ==
    \A j, k \in Jobs :
        /\ Awake(j) /\ job[j].pc \in {"refresh", "checked"}
        /\ Awake(k) /\ job[k].pc \in {"refresh", "checked"}
        /\ job[j].tab = job[k].tab
        /\ job[j].tok = job[k].tok
        => j = k

(***************************************************************************)
(* A refresh that the server refuses does not remove a pair that is still  *)
(* good and that a refresh of the same page's calls brought: what          *)
(* client.ts:63 throws away is dead, or came meanwhile from another page,  *)
(* from a login, or from AuthProvider, whose own refresh goes past         *)
(* isRefreshing in this page as well.                                      *)
(***************************************************************************)
OwnPairIsKept ==
    [][ \A j \in Jobs :
          RefreshFails(j) /\ job[j].pc = "refused" /\ stored \in live
              => renewedBy # job[j].tab ]_vars

(***************************************************************************)
(* After a logout, whether the server heard of it or not (client.ts:164),  *)
(* no tokens come back without a login, but for a refresh that was under   *)
(* way when the logout ended and stores what it is answered                *)
(* (client.ts:56-57), in this tab or another.                              *)
(***************************************************************************)
OnlyRefreshesUndoLogout ==
    [][ loggedOut /\ stored' # None =>
          \E j \in Jobs : Store(j) /\ (job[j].kind = "login" \/ job[j].early) ]_vars

(***************************************************************************)
(* Every call of a page ends: answered, after one refresh and one retry,   *)
(* or with its page on the way to /login (client.ts:90), whatever it has   *)
(* to wait for and whatever expires, fails or is reloaded meanwhile.       *)
(***************************************************************************)
EveryCallEnds == \A j \in Jobs : Busy(j) ~> ~Busy(j)

(***************************************************************************)
(* A page that still shows the user when the tokens are gone notices at    *)
(* its next call: the call's 401 takes it to /login, unless new tokens     *)
(* come first (client.ts:96-99).                                           *)
(***************************************************************************)
SignedOutPagesNotice ==
    \A t \in Tabs, j \in Jobs :
        (/\ Awake(j) /\ job[j].tab = t /\ job[j].kind = "page"
         /\ job[j].pc = "denied" /\ job[j].retries > 0 /\ stored = None)
        ~> (user[t] # "somebody" \/ stored # None)
=============================================================================
