-------------------------- MODULE TokenClientProofs --------------------------
(***************************************************************************)
(* Proofs about TokenClient, for any number of tabs and of chains of calls.*)
(* The invariant says which chains of one page can have a refresh under    *)
(* way together, and which pair each of them carries.                      *)
(***************************************************************************)
EXTENDS TokenClient, FiniteSetTheorems, WellFoundedInduction, TLAPS

Presenting(j) == Busy(j) /\ job[j].pc \in {"refresh", "checked"}

SamePage(j, k) == Awake(j) /\ Awake(k) /\ job[j].tab = job[k].tab

\* What the chain of a kind can be at.
KindsAgree ==
    \A j \in Jobs : Busy(j) =>
        /\ job[j].kind = "login" => job[j].pc \in {"login", "granted", "failed"}
        /\ job[j].kind = "restore" => Renewing(j)
        /\ job[j].kind \in Wrapped => job[j].pc # "login"

\* A page that is yet to load runs no chain.
PagesRun == \A j \in Jobs : Awake(j) => user[job[j].tab] # "unloaded"

\* Only the first 401 of a call makes it refresh or wait.
RetryLeft ==
    \A j \in Jobs :
        Awake(j) /\ job[j].kind \in Wrapped /\ (Renewing(j) \/ job[j].pc = "waiting")
            => job[j].retries = 1

\* isRefreshing lets the calls of a page have one refresh under way.
OneRenewal ==
    \A j, k \in Jobs :
        /\ SamePage(j, k) /\ Renewing(j) /\ Renewing(k)
        /\ job[j].kind \in Wrapped /\ job[k].kind \in Wrapped
        => j = k

\* AuthProvider restores once for a page.
OneRestore ==
    \A j, k \in Jobs :
        SamePage(j, k) /\ job[j].kind = "restore" /\ job[k].kind = "restore" => j = k

\* A pair on its way to its chain is no other's.
GrantedIsNew ==
    \A j \in Jobs : Busy(j) /\ job[j].pc = "granted" =>
        /\ job[j].tok \in Tokens /\ job[j].tok # stored
        /\ \A k \in Jobs \ {j} : Busy(k) => job[k].tok # job[j].tok

\* As long as AuthProvider's refresh presents the stored pair, the page shows
\* no user, and so makes no calls that could present it too.
RestoreComesFirst ==
    \A j \in Jobs : Awake(j) /\ Presenting(j) /\ job[j].kind = "restore" =>
        /\ job[j].tok \in Tokens
        /\ job[j].tok = stored =>
              /\ user[job[j].tab] = "nobody"
              /\ \A k \in Jobs : SamePage(j, k) => job[k].kind \notin Wrapped

\* A page whose calls brought the stored pair presents that one; once it is
\* refused it is dead.
OwnRenewal ==
    \A j \in Jobs : Awake(j) /\ job[j].kind \in Wrapped /\ renewedBy = job[j].tab =>
        /\ Presenting(j) => job[j].tok = stored
        /\ job[j].pc = "refused" => stored \notin live

\* After a logout there is nothing to present, and what is under way is marked.
LogoutHolds ==
    loggedOut =>
        /\ stored = None
        /\ \A j \in Jobs : Awake(j) /\ Renewing(j) => job[j].kind = "login" \/ job[j].early

ClientInv ==
    /\ TypeOK /\ KindsAgree
    /\ PagesRun /\ RetryLeft /\ OneRenewal /\ OneRestore
    /\ GrantedIsNew /\ RestoreComesFirst
    /\ PresentedOnce
    /\ OwnRenewal /\ LogoutHolds

----------------------------------------------------------------------------
(***************************************************************************)
(* There is always a number for the next pair: the chains and localStorage *)
(* hold one less than there are.                                           *)
(***************************************************************************)
LEMMA LeastNumber ==
    ASSUME NEW S \in SUBSET Nat, S # {}
    PROVE  \E n \in S : \A k \in S : n <= k
<1>1. PICK n \in S : \A k \in S : ~ (<<k, n>> \in OpToRel(<, Nat))
  BY WFMin, NatLessThanWellFounded, Zenon
<1>2. \A k \in S : ~ (k < n)
  BY <1>1 DEF OpToRel
<1> QED
  BY <1>2

LEMMA NoneIsNoToken == None \notin Tokens /\ Tokens \subseteq Nat
BY TokensAssumption, FS_CardinalityType DEF None

LEMMA InUseIsSmall == Tokens \ InUse # {}
<1> DEFINE B == {k \in Jobs : Busy(k)}
<1> DEFINE T == {job[j].tok : j \in B}
<1> DEFINE N == Cardinality(Jobs)
<1>1. IsFiniteSet(B) /\ Cardinality(B) <= N
  BY TokensAssumption, FS_Subset
<1>2. IsFiniteSet(T) /\ Cardinality(T) <= Cardinality(B)
  <2>1. [j \in B |-> job[j].tok] \in Surjection(B, T)
    BY DEF Surjection
  <2> QED
    BY <1>1, <2>1, FS_Surjection
<1>3. InUse = T \cup {stored}
  BY DEF InUse
<1>4. IsFiniteSet(InUse) /\ Cardinality(InUse) <= N + 1
  <2>1. /\ N \in Nat /\ Cardinality(B) \in Nat /\ Cardinality(T) \in Nat
    BY <1>1, <1>2, TokensAssumption, FS_CardinalityType
  <2>2. /\ IsFiniteSet(T \cup {stored})
        /\ \/ Cardinality(T \cup {stored}) = Cardinality(T)
           \/ Cardinality(T \cup {stored}) = Cardinality(T) + 1
    BY <1>2, FS_AddElement
  <2> QED
    BY <1>1, <1>2, <1>3, <2>1, <2>2
<1>5. Cardinality(Tokens) = N + 2
  BY TokensAssumption, FS_CardinalityType, FS_Interval
<1>6. ASSUME Tokens \subseteq InUse PROVE FALSE
  BY <1>4, <1>5, <1>6, TokensAssumption, FS_Subset, FS_CardinalityType
<1> QED
  BY <1>6

LEMMA FreshIsNew == Fresh \in Tokens \ InUse
BY InUseIsSmall, LeastNumber, NoneIsNoToken DEF Fresh

----------------------------------------------------------------------------
(***************************************************************************)
(* Types.                                                                  *)
(***************************************************************************)
JobsOK == job \in [Jobs -> JobRecords \cup {NoJob}]

LEMMA BusyJob ==
    ASSUME JobsOK, NEW j \in Jobs, Busy(j)
    PROVE  job[j] \in JobRecords
BY DEF JobsOK, Busy

LEMMA RecordsAreBusy == \A r \in JobRecords : r # NoJob
BY DEF JobRecords, NoJob, AtServer, Answered

LEMMA UpdatedRecord ==
    ASSUME NEW r \in JobRecords, NEW pc \in AtServer \cup Answered \cup {"waiting"},
           NEW tok \in Tokens \cup {None}
    PROVE  /\ [r EXCEPT !.pc = pc] \in JobRecords
           /\ [r EXCEPT !.pc = pc, !.tok = tok] \in JobRecords
           /\ [r EXCEPT !.dead = TRUE, !.kind = "background", !.retries = 0, !.early = FALSE]
                 \in JobRecords
           /\ r.retries = 1 =>
                 [r EXCEPT !.pc = pc, !.tok = tok, !.retries = @ - 1, !.early = FALSE]
                     \in JobRecords
           /\ [r EXCEPT !.kind = "background", !.pc = pc, !.tok = tok, !.retries = 1]
                 \in JobRecords
<1>1. 0 \in 0 .. 1 /\ 1 \in 0 .. 1 /\ "background" \in Kinds
  BY DEF Kinds, Wrapped
<1>2. ASSUME r.retries = 1
      PROVE  [r EXCEPT !.pc = pc, !.tok = tok, !.retries = @ - 1, !.early = FALSE] \in JobRecords
  <2>1. [r EXCEPT !.pc = pc, !.tok = tok, !.retries = @ - 1, !.early = FALSE]
            = [r EXCEPT !.pc = pc, !.tok = tok, !.retries = 0, !.early = FALSE]
    BY <1>2
  <2> QED
    BY <1>1, <2>1 DEF JobRecords
<1> QED
  BY <1>1, <1>2 DEF JobRecords

LEMMA ReplyTypes ==
    ASSUME JobsOK, NEW j \in Jobs, Busy(j), NEW pc \in Answered,
           NEW tok \in Tokens \cup {None}, Reply(j, pc, tok)
    PROVE  JobsOK'
<1>1. [job[j] EXCEPT !.pc = pc, !.tok = tok] \in JobRecords
  BY BusyJob, UpdatedRecord
<1> QED
  BY <1>1 DEF JobsOK, Reply

LEMMA StartTypes ==
    ASSUME JobsOK, NEW j \in Jobs, NEW t \in Tabs, NEW kind \in Kinds,
           NEW pc \in AtServer, NEW retries \in 0 .. 1, stored \in Tokens \cup {None},
           Start(j, t, kind, pc, retries)
    PROVE  JobsOK'
<1>1. [tab |-> t, kind |-> kind, pc |-> pc, tok |-> stored, retries |-> retries,
       dead |-> FALSE, early |-> FALSE] \in JobRecords
  BY DEF JobRecords
<1> QED
  BY <1>1 DEF JobsOK, Start

LEMMA UnloadedTypes ==
    ASSUME JobsOK, NEW t
    PROVE  Unloaded(t) \in [Jobs -> JobRecords \cup {NoJob}]
<1>1. ASSUME NEW k \in Jobs, Awake(k)
      PROVE  [job[k] EXCEPT !.dead = TRUE, !.kind = "background", !.retries = 0,
                            !.early = FALSE] \in JobRecords
  <2>1. job[k] \in JobRecords
    BY <1>1, BusyJob DEF Awake
  <2> QED
    BY <2>1, UpdatedRecord DEF AtServer, None
<1> QED
  BY <1>1 DEF Unloaded, JobsOK

LEMMA MarkedTypes ==
    ASSUME NEW jobs \in [Jobs -> JobRecords \cup {NoJob}], NEW ended
    PROVE  Marked(jobs, ended) \in [Jobs -> JobRecords \cup {NoJob}]
<1>1. ASSUME NEW k \in Jobs, jobs[k] # NoJob
      PROVE  [jobs[k] EXCEPT !.early = TRUE] \in JobRecords
  BY <1>1 DEF JobRecords
<1> QED
  BY <1>1 DEF Marked

LEMMA ResentTypes ==
    ASSUME JobsOK, KindsAgree, RetryLeft, NEW j \in Jobs, Awake(j), job[j].kind \in Wrapped,
           job[j].pc = "granted"
    PROVE  Resent(j) \in [Jobs -> JobRecords \cup {NoJob}]
<1>1. ASSUME NEW k \in Awaiting(j)
      PROVE  [job[k] EXCEPT !.pc = "sent", !.tok = job[j].tok, !.retries = @ - 1,
                            !.early = FALSE] \in JobRecords
  <2>1. k \in Jobs /\ job[k] \in JobRecords /\ job[j] \in JobRecords
    BY BusyJob DEF Awaiting, Awake
  <2>3. job[k].retries = 1
    <3>1. CASE k = j
      BY <3>1 DEF RetryLeft, Renewing, Awake
    <3>2. CASE k # j
      <4>1. Awake(k) /\ job[k].pc = "waiting"
        BY <3>2 DEF Awaiting
      <4>2. job[k].kind \in Wrapped
        BY <2>1, <4>1 DEF KindsAgree, Renewing, Awake, JobRecords, Kinds
      <4> QED
        BY <2>1, <4>1, <4>2 DEF RetryLeft
    <3> QED
      BY <3>1, <3>2
  <2>2. job[j].tok \in Tokens \cup {None} /\ "sent" \in AtServer
    BY <2>1 DEF JobRecords, AtServer
  <2> QED
    BY <2>1, <2>2, <2>3, UpdatedRecord
<1> QED
  BY <1>1 DEF Resent, JobsOK

LEMMA RedirectTypes ==
    ASSUME TypeOK, PagesRun, NEW j \in Jobs, Awake(j), Redirect(j)
    PROVE  /\ JobsOK' /\ user' \in [Tabs -> Shown] /\ loggedOut' \in BOOLEAN
           /\ leaving' \subseteq {t \in Tabs : user'[t] # "unloaded"}
<1>1. Thrown(j) \in [Jobs -> JobRecords \cup {NoJob}]
  BY DEF Thrown, TypeOK
<1>2. job[j].tab \in Tabs /\ user[job[j].tab] # "unloaded"
  BY BusyJob DEF TypeOK, JobsOK, Awake, PagesRun, JobRecords
<1>3. JobsOK'
  BY <1>1, MarkedTypes DEF Redirect, JobsOK
<1> QED
  BY <1>2, <1>3 DEF Redirect, TypeOK, Shown

LEMMA ServerTypes ==
    ASSUME TypeOK, NEW refreshable, NEW old, refreshable \subseteq Tokens, old \subseteq Tokens,
           Server(refreshable, old)
    PROVE  live' \subseteq Tokens /\ expired' \subseteq Tokens
BY DEF Server

LEMMA IssueTypes ==
    ASSUME TypeOK, NEW j \in Jobs, Busy(j), NEW old, Issue(j, old)
    PROVE  TypeOK'
<1>1. /\ UNCHANGED Browser /\ Reply(j, "granted", Fresh)
      /\ Server((live \ old) \cup {Fresh}, expired \ {Fresh})
  BY DEF Issue
<1>2. Fresh \in Tokens
  BY FreshIsNew
<1>3. live' \subseteq Tokens /\ expired' \subseteq Tokens
  BY <1>1, <1>2, ServerTypes DEF TypeOK
<1>4. JobsOK'
  BY <1>1, <1>2, ReplyTypes DEF TypeOK, JobsOK, Answered
<1> QED
  BY <1>1, <1>3, <1>4 DEF TypeOK, JobsOK, Browser

LEMMA IdleTypes ==
    ASSUME TypeOK, Idle
    PROVE  live' \subseteq Tokens /\ expired' \subseteq Tokens
BY DEF Idle, Server, TypeOK

LEMMA PageTypes ==
    ASSUME TypeOK, NEW t \in Tabs,
           \/ \E j \in Jobs : Load(t, j) \/ Call(t, j) \/ Logout(t, j) \/ Login(t, j)
           \/ Unload(t)
    PROVE  TypeOK'
<1>1. live' \subseteq Tokens /\ expired' \subseteq Tokens
  BY IdleTypes DEF Load, Call, Logout, Login, Unload
<1>2. user' \in [Tabs -> Shown] /\ leaving' \subseteq {s \in Tabs : user'[s] # "unloaded"}
  BY DEF Load, Call, Logout, Login, Unload, Browser, TypeOK, Shown
<1>3. /\ {"restore", "page", "logout", "login"} \subseteq Kinds
      /\ {"refresh", "sent", "login"} \subseteq AtServer
  BY DEF Kinds, Wrapped, AtServer
<1>4. JobsOK'
  <2>1. ASSUME NEW j \in Jobs, Load(t, j) \/ Call(t, j) \/ Logout(t, j) \/ Login(t, j)
        PROVE  JobsOK'
    BY <1>3, <2>1, StartTypes DEF Load, Call, Logout, Login, TypeOK, JobsOK
  <2>2. CASE Unload(t)
    BY <2>2, UnloadedTypes DEF Unload, TypeOK, JobsOK
  <2> QED
    BY <2>1, <2>2
<1> QED
  BY <1>1, <1>2, <1>4 DEF Load, Call, Logout, Login, Unload, Browser, TypeOK, JobsOK

LEMMA ServeTypes ==
    ASSUME TypeOK, NEW j \in Jobs, Serve(j) \/ Lose(j)
    PROVE  TypeOK'
<1> USE DEF TypeOK, Browser
<1>1. Busy(j) /\ JobsOK
  BY DEF Serve, ServeCall, ServeLogin, CheckRefresh, Rotate, Lose, JobsOK
<1>2. CASE ServeLogin(j) \/ Rotate(j)
  BY <1>1, <1>2, IssueTypes DEF ServeLogin, Rotate
<1>3. CASE ServeCall(j)
  <2>1. JobsOK'
    BY <1>1, <1>3, ReplyTypes DEF ServeCall, Answered
  <2>2. live' \subseteq Tokens /\ expired' \subseteq Tokens
    BY <1>3, IdleTypes, ServerTypes DEF ServeCall
  <2> QED
    BY <1>3, <2>1, <2>2 DEF ServeCall, JobsOK
<1>4. CASE CheckRefresh(j)
  <2>1. [job[j] EXCEPT !.pc = "checked"] \in JobRecords
    BY <1>1, BusyJob DEF JobRecords, AtServer
  <2>2. JobsOK'
    BY <1>1, <1>4, <2>1, ReplyTypes DEF CheckRefresh, Answered, JobsOK
  <2> QED
    BY <1>4, <2>2, IdleTypes DEF CheckRefresh, JobsOK
<1>5. CASE Lose(j)
  <2>1. JobsOK'
    BY <1>1, <1>5, ReplyTypes DEF Lose, Answered
  <2>2. live' \subseteq Tokens /\ expired' \subseteq Tokens
    BY <1>5, IdleTypes, ServerTypes DEF Lose
  <2> QED
    BY <1>5, <2>1, <2>2 DEF Lose, JobsOK
<1> QED
  BY <1>2, <1>3, <1>4, <1>5 DEF Serve

LEMMA ReactTypes ==
    ASSUME TypeOK, KindsAgree, PagesRun, RetryLeft, NEW j \in Jobs, React(j)
    PROVE  TypeOK'
<1> USE DEF TypeOK, Browser
<1>1. /\ Busy(j) /\ JobsOK /\ job[j] \in JobRecords
      /\ live' \subseteq Tokens /\ expired' \subseteq Tokens
  BY BusyJob, IdleTypes
  DEF React, Store, RestoreFails, RefreshFails, Denied, Finish, Awake, JobsOK
<1>2. job[j].tab \in Tabs /\ job[j].tok \in Tokens \cup {None}
  BY <1>1 DEF JobRecords
<1>3. CASE Store(j)
  <2>1. JobsOK'
    BY <1>1, <1>3, ResentTypes DEF Store, JobsOK
  <2> QED
    BY <1>1, <1>2, <1>3, <2>1 DEF Store, JobsOK, Shown
<1>4. CASE RestoreFails(j)
  <2>1. [job[j] EXCEPT !.kind = "background", !.pc = "sent", !.tok = stored, !.retries = 1]
            \in JobRecords
    BY <1>1, UpdatedRecord DEF AtServer
  <2> QED
    BY <1>1, <1>4, <2>1 DEF RestoreFails
<1>5. CASE RefreshFails(j)
  BY <1>1, <1>5, RedirectTypes DEF RefreshFails, JobsOK
<1>6. CASE Denied(j)
  <2>1. /\ [job[j] EXCEPT !.pc = "waiting"] \in JobRecords
        /\ [job[j] EXCEPT !.pc = "refresh", !.tok = stored] \in JobRecords
    BY <1>1 DEF JobRecords, AtServer
  <2>2. /\ JobsOK' /\ user' \in [Tabs -> Shown] /\ loggedOut' \in BOOLEAN
        /\ leaving' \subseteq {t \in Tabs : user'[t] # "unloaded"}
    BY <1>1, <1>6, <2>1, RedirectTypes DEF Denied, JobsOK
  <2> QED
    BY <1>1, <1>6, <2>2 DEF Denied, JobsOK
<1>7. CASE Finish(j)
  <2>1. JobsOK'
    BY <1>1, <1>7, MarkedTypes DEF Finish, JobsOK
  <2> QED
    BY <1>1, <1>7, <2>1 DEF Finish, JobsOK, Shown
<1> QED
  BY <1>3, <1>4, <1>5, <1>6, <1>7 DEF React

LEMMA TypeInit == Init => TypeOK
<1>1. 1 \in Tokens
  BY TokensAssumption, FS_CardinalityType
<1> QED
  BY <1>1 DEF Init, TypeOK, Shown, None

LEMMA TypeNext ==
    ASSUME TypeOK, KindsAgree, PagesRun, RetryLeft, [Next]_vars
    PROVE  TypeOK'
<1>1. ASSUME NEW n \in Tokens, Expire(n) PROVE TypeOK'
  BY <1>1 DEF Expire, Browser, TypeOK
<1>2. CASE UNCHANGED vars
  BY <1>2 DEF vars, TypeOK
<1> QED
  BY <1>1, <1>2, PageTypes, ServeTypes, ReactTypes DEF Next, Reload, Leave

----------------------------------------------------------------------------
(***************************************************************************)
(* Steps that start no chain and move none: chains end, pages go, tokens   *)
(* are removed or expire.                                                  *)
(***************************************************************************)
Dwindles ==
    /\ \A k \in Jobs : Busy(k)' =>
          /\ Busy(k)
          /\ job'[k].tab = job[k].tab
          /\ job'[k].pc = job[k].pc /\ job'[k].tok = job[k].tok
          /\ \/ job'[k].kind = job[k].kind /\ job'[k].retries = job[k].retries
             \/ job'[k].kind = "background" /\ job[k].pc # "login" /\ job'[k].dead
          /\ Awake(k)' => Awake(k)
    /\ stored' \in {stored, None}
    /\ renewedBy' = Nobody \/ UNCHANGED <<stored, renewedBy>>
    /\ stored \in live' => stored \in live
    /\ \A k \in Jobs : Awake(k)' =>
          \/ user'[job[k].tab] = user[job[k].tab]
          \/ user'[job[k].tab] = "nobody"

LEMMA DwindlesKeeps ==
    ASSUME ClientInv, TypeOK', Dwindles, LogoutHolds'
    PROVE  ClientInv'
<1> USE DEF ClientInv
<1>1. \A k \in Jobs : Busy(k)' =>
         /\ Busy(k)
         /\ job'[k].tab = job[k].tab
         /\ job'[k].pc = job[k].pc /\ job'[k].tok = job[k].tok
         /\ Renewing(k)' <=> Renewing(k)
         /\ Presenting(k)' <=> Presenting(k)
  BY DEF Dwindles, Renewing, Presenting
<1>2. \A k \in Jobs : Awake(k)' =>
         /\ Awake(k) /\ Busy(k)'
         /\ job'[k].kind = job[k].kind /\ job'[k].retries = job[k].retries
  BY DEF Dwindles, Awake
<1>3. \A j, k \in Jobs : SamePage(j, k)' =>
         /\ SamePage(j, k) /\ Busy(j)' /\ Busy(k)'
         /\ job'[j].kind = job[j].kind /\ job'[k].kind = job[k].kind
  BY <1>1, <1>2 DEF SamePage
<1>4. \A k \in Jobs : Awake(k)' => job'[k].tab = job[k].tab /\ job[k].tab \in Tabs
  BY <1>1, <1>2, BusyJob DEF TypeOK, JobsOK, JobRecords
<1>5. KindsAgree'
  BY <1>1 DEF KindsAgree, Dwindles
<1>6. PagesRun'
  BY <1>2, <1>4 DEF PagesRun, Dwindles
<1>13. RetryLeft'
  BY <1>1, <1>2 DEF RetryLeft
<1>7. OneRenewal'
  BY <1>1, <1>3 DEF OneRenewal
<1>8. OneRestore'
  BY <1>1, <1>3 DEF OneRestore
<1>9. GrantedIsNew'
  BY <1>1, NoneIsNoToken DEF GrantedIsNew, Dwindles
<1>10. RestoreComesFirst'
  <2> SUFFICES ASSUME NEW j \in Jobs, Awake(j)', Presenting(j)', job'[j].kind = "restore"
               PROVE  /\ job'[j].tok \in Tokens
                      /\ job'[j].tok = stored' =>
                            /\ user'[job'[j].tab] = "nobody"
                            /\ \A k \in Jobs : SamePage(j, k)' => job'[k].kind \notin Wrapped
    BY DEF RestoreComesFirst
  <2>1. /\ Awake(j) /\ Presenting(j) /\ job[j].kind = "restore"
        /\ job'[j].tok = job[j].tok /\ job'[j].tab = job[j].tab
    BY <1>1, <1>2
  <2>2. job[j].tok \in Tokens
    BY <2>1 DEF RestoreComesFirst
  <2>3. ASSUME job'[j].tok = stored' PROVE job[j].tok = stored
    BY <2>1, <2>2, <2>3, NoneIsNoToken DEF Dwindles
  <2>4. ASSUME job[j].tok = stored
        PROVE  /\ user[job[j].tab] = "nobody"
               /\ \A k \in Jobs : SamePage(j, k) => job[k].kind \notin Wrapped
    BY <2>1, <2>4 DEF RestoreComesFirst
  <2>5. user'[job[j].tab] \in {user[job[j].tab], "nobody"}
    BY DEF Dwindles
  <2> QED
    BY <1>1, <1>3, <2>1, <2>2, <2>3, <2>4, <2>5
<1>11. PresentedOnce'
  BY <1>1, <1>2 DEF PresentedOnce
<1>12. OwnRenewal'
  <2> SUFFICES ASSUME NEW j \in Jobs, Awake(j)', job'[j].kind \in Wrapped,
                      renewedBy' = job'[j].tab
               PROVE  /\ Presenting(j)' => job'[j].tok = stored'
                      /\ job'[j].pc = "refused" => stored' \notin live'
    BY DEF OwnRenewal
  <2>1. UNCHANGED <<stored, renewedBy>>
    BY <1>4, NobodyAssumption DEF Dwindles
  <2> QED
    BY <1>1, <1>2, <2>1 DEF OwnRenewal, Dwindles
<1> QED
  BY <1>5, <1>6, <1>7, <1>8, <1>9, <1>10, <1>11, <1>12, <1>13

\* What Marked and Unloaded leave of a chain.
LEMMA MarkedChain ==
    ASSUME NEW jobs \in [Jobs -> JobRecords \cup {NoJob}], NEW ended \in BOOLEAN, NEW k \in Jobs,
           Marked(jobs, ended)[k] # NoJob
    PROVE  /\ jobs[k] \in JobRecords
           /\ Marked(jobs, ended)[k].tab = jobs[k].tab
           /\ Marked(jobs, ended)[k].kind = jobs[k].kind
           /\ Marked(jobs, ended)[k].pc = jobs[k].pc
           /\ Marked(jobs, ended)[k].tok = jobs[k].tok
           /\ Marked(jobs, ended)[k].dead = jobs[k].dead
           /\ Marked(jobs, ended)[k].retries = jobs[k].retries
           /\ jobs[k].early => Marked(jobs, ended)[k].early
           /\ ended /\ Renewing(k) /\ ~jobs[k].dead => Marked(jobs, ended)[k].early
<1>1. \/ Marked(jobs, ended)[k] = jobs[k] /\ jobs[k] # NoJob
         /\ ~(ended /\ Renewing(k) /\ ~jobs[k].dead)
      \/ Marked(jobs, ended)[k] = [jobs[k] EXCEPT !.early = TRUE] /\ jobs[k] # NoJob
  BY DEF Marked
<1>2. jobs[k] \in JobRecords
  BY <1>1
<1> QED
  BY <1>1, <1>2 DEF JobRecords

\* A step that ends some chains and marks others.
LEMMA MarkedSteps ==
    ASSUME JobsOK, NEW jobs \in [Jobs -> JobRecords \cup {NoJob}], NEW ended \in BOOLEAN,
           job' = Marked(jobs, ended),
           \A k \in Jobs : jobs[k] # NoJob => jobs[k] = job[k] /\ Busy(k)
    PROVE  \A k \in Jobs : Busy(k)' =>
              /\ Busy(k)
              /\ job'[k].tab = job[k].tab /\ job'[k].kind = job[k].kind
              /\ job'[k].pc = job[k].pc /\ job'[k].tok = job[k].tok
              /\ job'[k].retries = job[k].retries
              /\ Awake(k)' => /\ Awake(k)
                              /\ job[k].early => job'[k].early
                              /\ ended /\ Renewing(k) => job'[k].early
<1> SUFFICES ASSUME NEW k \in Jobs, job'[k] # NoJob
             PROVE  /\ Busy(k)
                    /\ job'[k].tab = job[k].tab /\ job'[k].kind = job[k].kind
                    /\ job'[k].pc = job[k].pc /\ job'[k].tok = job[k].tok
                    /\ job'[k].retries = job[k].retries
                    /\ job'[k].dead = job[k].dead
                    /\ job[k].early => job'[k].early
                    /\ ended /\ Renewing(k) /\ ~job[k].dead => job'[k].early
  BY DEF Busy, Awake
<1>1. Marked(jobs, ended)[k] # NoJob
  OBVIOUS
<1>2. jobs[k] # NoJob
  BY <1>1, MarkedChain, RecordsAreBusy
<1>3. jobs[k] = job[k] /\ Busy(k)
  BY <1>2
<1> QED
  BY <1>1, <1>3, MarkedChain

LEMMA UnloadedChain ==
    ASSUME JobsOK, NEW t, NEW k \in Jobs, Unloaded(t)[k] # NoJob
    PROVE  /\ Busy(k)
           /\ Unloaded(t)[k].tab = job[k].tab
           /\ Unloaded(t)[k].pc = job[k].pc
           /\ Unloaded(t)[k].tok = job[k].tok
           /\ \/ /\ Unloaded(t)[k].kind = job[k].kind
                 /\ Unloaded(t)[k].retries = job[k].retries
              \/ /\ Unloaded(t)[k].kind = "background"
                 /\ job[k].pc # "login" /\ Unloaded(t)[k].dead
           /\ ~Unloaded(t)[k].dead =>
                 Awake(k) /\ job[k].tab # t /\ Unloaded(t)[k].early = job[k].early
<1>1. \/ Unloaded(t)[k] = job[k] /\ (~Awake(k) \/ job[k].tab # t)
      \/ /\ Unloaded(t)[k] = [job[k] EXCEPT !.dead = TRUE, !.kind = "background",
                                             !.retries = 0, !.early = FALSE]
         /\ Awake(k) /\ Lingers(k)
  BY DEF Unloaded
<1>2. Busy(k) /\ job[k] \in JobRecords
  BY <1>1, BusyJob DEF Busy, Awake
<1> QED
  BY <1>1, <1>2 DEF Awake, JobRecords, Lingers

LEMMA UnloadKeeps ==
    ASSUME ClientInv, TypeOK', NEW t \in Tabs, Unload(t)
    PROVE  ClientInv'
<1>1. JobsOK /\ job' = Unloaded(t) /\ TypeOK
  BY DEF ClientInv, TypeOK, JobsOK, Unload
<1>2. \A k \in Jobs : Busy(k)' =>
         /\ Busy(k)
         /\ job'[k].tab = job[k].tab
         /\ job'[k].pc = job[k].pc /\ job'[k].tok = job[k].tok
         /\ \/ job'[k].kind = job[k].kind /\ job'[k].retries = job[k].retries
            \/ job'[k].kind = "background" /\ job[k].pc # "login" /\ job'[k].dead
         /\ Awake(k)' => /\ Awake(k) /\ job[k].tab # t
                         /\ job'[k].early = job[k].early
  BY <1>1, UnloadedChain DEF Busy, Awake
<1>3. \A k \in Jobs : Busy(k) => job[k].tab \in Tabs
  BY <1>1, BusyJob DEF JobRecords
<1>4. Dwindles
  BY <1>1, <1>2, <1>3 DEF Dwindles, Unload, Idle, Server, Awake, TypeOK
<1>5. LogoutHolds'
  BY <1>2 DEF LogoutHolds, Unload, ClientInv, Renewing, Awake
<1> QED
  BY <1>4, <1>5, DwindlesKeeps

LEMMA RedirectKeeps ==
    ASSUME ClientInv, TypeOK', NEW j \in Jobs, Awake(j), Redirect(j), Idle,
           stored' = None, renewedBy' = Nobody \/ UNCHANGED <<stored, renewedBy>>
    PROVE  ClientInv'
<1> DEFINE ended == \E k \in Awaiting(j) : job[k].kind = "logout"
<1>1. /\ JobsOK /\ job' = Marked(Thrown(j), ended) /\ TypeOK
      /\ Thrown(j) \in [Jobs -> JobRecords \cup {NoJob}]
  BY DEF ClientInv, TypeOK, JobsOK, Redirect, Thrown
<1>2. \A k \in Jobs : Thrown(j)[k] # NoJob => Thrown(j)[k] = job[k] /\ Busy(k)
  BY DEF Thrown, Busy
<1>3. \A k \in Jobs : Busy(k)' =>
         /\ Busy(k)
         /\ job'[k].tab = job[k].tab /\ job'[k].kind = job[k].kind
         /\ job'[k].pc = job[k].pc /\ job'[k].tok = job[k].tok
         /\ job'[k].retries = job[k].retries
         /\ Awake(k)' => /\ Awake(k)
                         /\ job[k].early => job'[k].early
                         /\ ended /\ Renewing(k) => job'[k].early
  BY <1>1, <1>2, MarkedSteps
<1>4. \A k \in Jobs : Busy(k) => job[k].tab \in Tabs
  BY <1>1, BusyJob DEF JobRecords
<1>5. /\ user' = IF ended THEN [user EXCEPT ![job[j].tab] = "nobody"] ELSE user
      /\ loggedOut' = (loggedOut \/ ended)
  BY DEF Redirect
<1>6. Dwindles
  BY <1>1, <1>3, <1>4, <1>5 DEF Dwindles, Idle, Server, Awake, TypeOK
<1>7. LogoutHolds'
  BY <1>3, <1>5 DEF LogoutHolds, ClientInv, Renewing, Awake
<1> QED
  BY <1>6, <1>7, DwindlesKeeps

LEMMA FinishKeeps ==
    ASSUME ClientInv, TypeOK', NEW j \in Jobs, Finish(j)
    PROVE  ClientInv'
<1> DEFINE jobs == [job EXCEPT ![j] = NoJob]
<1> DEFINE ended == job[j].kind = "logout"
<1>1. /\ JobsOK /\ job' = Marked(jobs, ended) /\ TypeOK
      /\ jobs \in [Jobs -> JobRecords \cup {NoJob}]
  BY DEF ClientInv, TypeOK, JobsOK, Finish
<1>2. \A k \in Jobs : jobs[k] # NoJob => jobs[k] = job[k] /\ Busy(k)
  BY <1>1 DEF Busy, JobsOK
<1>3. \A k \in Jobs : Busy(k)' =>
         /\ Busy(k)
         /\ job'[k].tab = job[k].tab /\ job'[k].kind = job[k].kind
         /\ job'[k].pc = job[k].pc /\ job'[k].tok = job[k].tok
         /\ job'[k].retries = job[k].retries
         /\ Awake(k)' => /\ Awake(k)
                         /\ job[k].early => job'[k].early
                         /\ ended /\ Renewing(k) => job'[k].early
  BY <1>1, <1>2, MarkedSteps
<1>4. \A k \in Jobs : Busy(k) => job[k].tab \in Tabs
  BY <1>1, BusyJob DEF JobRecords
<1>5. /\ user' = IF ended THEN [user EXCEPT ![job[j].tab] = "nobody"] ELSE user
      /\ loggedOut' = (loggedOut \/ ended)
      /\ \/ stored' = None /\ renewedBy' = Nobody
         \/ ~ended /\ UNCHANGED <<stored, renewedBy>>
      /\ Idle
  BY DEF Finish, Forgets
<1>6. Dwindles
  BY <1>1, <1>3, <1>4, <1>5 DEF Dwindles, Idle, Server, Awake, TypeOK
<1>7. LogoutHolds'
  BY <1>3, <1>5 DEF LogoutHolds, ClientInv, Renewing, Awake
<1> QED
  BY <1>6, <1>7, DwindlesKeeps

----------------------------------------------------------------------------
(***************************************************************************)
(* Steps in which one chain of a page moves on: the server answers it, its *)
(* request is lost, or a 401 lets it refresh.                              *)
(***************************************************************************)
Advances(j) ==
    /\ \A k \in Jobs \ {j} : job'[k] = job[k]
    /\ Busy(j) /\ Busy(j)'
    /\ job'[j].tab = job[j].tab /\ job'[j].dead = job[j].dead /\ job'[j].early = job[j].early
    /\ UNCHANGED Browser
    /\ stored \in live' => stored \in live
    /\ \/ job'[j].kind = job[j].kind
       \/ job[j].kind = "restore" /\ job'[j].kind = "background" /\ job'[j].pc = "sent"
    /\ IF job'[j].pc = "granted" THEN job'[j].tok \in Tokens \ InUse
                                 ELSE job'[j].tok \in {job[j].tok, stored, None}
    /\ Renewing(j)' =>
          \/ Renewing(j)
          \/ job[j].kind = "login"
          \/ job[j].kind \in Wrapped /\ ~InFlight(job[j].tab) /\ stored # None
    /\ Presenting(j)' =>
          \/ Presenting(j) /\ job'[j].tok = job[j].tok
          \/ job[j].kind \in Wrapped /\ ~InFlight(job[j].tab) /\ job'[j].tok = stored
    /\ job'[j].pc = "refused" => Presenting(j) /\ job[j].tok \notin live
    /\ job[j].kind = "login" => job'[j].pc \in {"granted", "failed"}
    /\ job'[j].kind = "restore" => Renewing(j)'
    /\ job[j].kind \in Wrapped => job'[j].pc # "login"
    /\ job[j].kind \in Wrapped /\ (Renewing(j)' \/ job'[j].pc = "waiting") =>
          /\ job'[j].retries = job[j].retries
          /\ Renewing(j) \/ job[j].retries = 1

LEMMA AdvancesKeeps ==
    ASSUME ClientInv, TypeOK', NEW j \in Jobs, Advances(j)
    PROVE  ClientInv'
<1> USE DEF ClientInv
<1>1. /\ UNCHANGED <<stored, user, renewedBy, loggedOut>>
      /\ stored \in live' => stored \in live
  BY DEF Advances, Browser
<1>2. \A k \in Jobs : k # j =>
         /\ job'[k] = job[k]
         /\ Busy(k)' <=> Busy(k)
         /\ Renewing(k)' <=> Renewing(k)
         /\ Presenting(k)' <=> Presenting(k)
  BY DEF Advances, Busy, Renewing, Presenting
<1>3. \A k \in Jobs : /\ Awake(k)' <=> Awake(k)
                      /\ Awake(k) => job'[k].tab = job[k].tab
  BY <1>2 DEF Awake, Advances
<1>4. \A k, l \in Jobs : SamePage(k, l)' <=> SamePage(k, l)
  BY <1>3 DEF SamePage
<1>5. \/ job'[j].kind = job[j].kind
      \/ /\ job[j].kind = "restore" /\ job'[j].kind = "background" /\ job'[j].pc = "sent"
         /\ ~Renewing(j)' /\ ~Presenting(j)'
  BY DEF Advances, Renewing, Presenting
<1>6. job[j].kind \in Wrapped => job[j].kind \notin {"restore", "login"}
  BY DEF Wrapped
<1>7. KindsAgree'
  <2>1. /\ job'[j].kind = "login" => job'[j].pc \in {"login", "granted", "failed"}
        /\ job'[j].kind = "restore" => Renewing(j)'
        /\ job'[j].kind \in Wrapped => job'[j].pc # "login"
    BY <1>5 DEF Advances, Wrapped
  <2> QED
    BY <1>2, <2>1 DEF KindsAgree
<1>8. PagesRun'
  BY <1>1, <1>3 DEF PagesRun
<1>9. OneRenewal'
  <2>1. ASSUME NEW k \in Jobs, k # j, SamePage(j, k) \/ SamePage(k, j), Renewing(j)', Renewing(k),
               job'[j].kind \in Wrapped, job[k].kind \in Wrapped
        PROVE  FALSE
    <3>1. job[j].kind \in Wrapped /\ SamePage(j, k)
      BY <1>5, <2>1 DEF SamePage
    <3>2. CASE Renewing(j)
      BY <2>1, <3>1, <3>2 DEF OneRenewal
    <3>3. CASE ~InFlight(job[j].tab)
      BY <2>1, <3>1, <3>3 DEF InFlight, SamePage
    <3> QED
      BY <1>6, <2>1, <3>1, <3>2, <3>3 DEF Advances
  <2> QED
    BY <1>2, <1>4, <2>1 DEF OneRenewal
<1>10. OneRestore'
  <2>1. \A k \in Jobs : job'[k].kind = "restore" => job[k].kind = "restore"
    BY <1>2, <1>5
  <2> QED
    BY <1>4, <2>1 DEF OneRestore
<1>11. GrantedIsNew'
  <2>1. ASSUME job'[j].pc = "granted"
        PROVE  /\ job'[j].tok \in Tokens /\ job'[j].tok # stored
               /\ \A k \in Jobs \ {j} : Busy(k) => job[k].tok # job'[j].tok
    BY <2>1 DEF Advances, InUse
  <2>2. ASSUME NEW k \in Jobs, k # j, Busy(k), job[k].pc = "granted"
        PROVE  job'[j].tok # job[k].tok
    <3>1. /\ job[k].tok \in Tokens /\ job[k].tok # stored /\ job[k].tok # job[j].tok
          /\ job[k].tok \in InUse
      BY <2>2 DEF GrantedIsNew, Advances, InUse
    <3> QED
      BY <3>1, NoneIsNoToken DEF Advances
  <2> QED
    BY <1>1, <1>2, <2>1, <2>2 DEF GrantedIsNew
<1>12. RestoreComesFirst'
  <2> SUFFICES ASSUME NEW i \in Jobs, Awake(i)', Presenting(i)', job'[i].kind = "restore"
               PROVE  /\ job'[i].tok \in Tokens
                      /\ job'[i].tok = stored' =>
                            /\ user'[job'[i].tab] = "nobody"
                            /\ \A k \in Jobs : SamePage(i, k)' => job'[k].kind \notin Wrapped
    BY DEF RestoreComesFirst
  <2>1. /\ Awake(i) /\ Presenting(i) /\ job[i].kind = "restore"
        /\ job'[i].tok = job[i].tok /\ job'[i].tab = job[i].tab
    BY <1>2, <1>3, <1>5, <1>6 DEF Advances
  <2>2. ASSUME NEW k \in Jobs, SamePage(i, k), job[k].kind \notin Wrapped,
               job'[k].kind \in Wrapped
        PROVE  FALSE
    <3>1. k = j /\ job[k].kind = "restore" /\ i # k
      BY <1>2, <1>5, <2>1, <2>2
    <3> QED
      BY <2>1, <2>2, <3>1 DEF OneRestore
  <2> QED
    BY <1>1, <1>4, <2>1, <2>2 DEF RestoreComesFirst
<1>13. PresentedOnce'
  <2>1. ASSUME NEW k \in Jobs, k # j, SamePage(j, k), Presenting(j)', Presenting(k),
               job'[j].tok = job[k].tok
        PROVE  FALSE
    <3>1. CASE Presenting(j) /\ job'[j].tok = job[j].tok
      BY <2>1, <3>1 DEF PresentedOnce, SamePage, Presenting
    <3>2. CASE job[j].kind \in Wrapped /\ ~InFlight(job[j].tab) /\ job'[j].tok = stored
      <4>1. job[k].kind \notin Wrapped
        BY <2>1, <3>2 DEF InFlight, SamePage, Presenting, Renewing
      <4>2. job[k].kind \in Kinds
        BY <2>1, BusyJob DEF TypeOK, JobsOK, JobRecords, Presenting
      <4>3. job[k].kind # "login"
        BY <2>1 DEF KindsAgree, Presenting
      <4>4. job[k].kind = "restore"
        BY <4>1, <4>2, <4>3 DEF Kinds
      <4> QED
        BY <2>1, <3>2, <4>4 DEF RestoreComesFirst, SamePage
    <3> QED
      BY <2>1, <3>1, <3>2 DEF Advances
  <2>2. ASSUME NEW i \in Jobs, NEW k \in Jobs, SamePage(i, k)', Presenting(i)', Presenting(k)',
               job'[i].tok = job'[k].tok
        PROVE  i = k
    <3>1. SamePage(i, k) /\ SamePage(k, i)
      BY <1>4, <2>2 DEF SamePage
    <3>2. CASE i = j
      BY <1>2, <2>1, <2>2, <3>1, <3>2
    <3>3. CASE k = j
      BY <1>2, <2>1, <2>2, <3>1, <3>3
    <3>4. CASE i # j /\ k # j
      BY <1>2, <2>2, <3>1, <3>4 DEF PresentedOnce, SamePage, Presenting
    <3> QED
      BY <3>2, <3>3, <3>4
  <2> QED
    BY <2>2 DEF PresentedOnce, SamePage, Presenting, Awake
<1>14. OwnRenewal'
  <2>1. ASSUME Awake(j), job'[j].kind \in Wrapped, renewedBy = job[j].tab
        PROVE  /\ Presenting(j)' => job'[j].tok = stored
               /\ job'[j].pc = "refused" => stored \notin live'
    <3>1. CASE job[j].kind \in Wrapped
      BY <1>1, <2>1, <3>1 DEF OwnRenewal, Advances
    <3>2. CASE job[j].kind \notin Wrapped
      BY <1>5, <2>1, <3>2
    <3> QED
      BY <3>1, <3>2
  <2>2. job'[j].tab = job[j].tab
    BY DEF Advances
  <2> QED
    BY <1>1, <1>2, <1>3, <2>1, <2>2 DEF OwnRenewal
<1>15. LogoutHolds'
  <2>1. ASSUME loggedOut, Awake(j), Renewing(j)'
        PROVE  job'[j].kind = "login" \/ job'[j].early
    BY <1>5, <2>1 DEF LogoutHolds, Advances
  <2> QED
    BY <1>1, <1>2, <1>3, <2>1 DEF LogoutHolds
<1>16. RetryLeft'
  <2>1. ASSUME Awake(j), job'[j].kind \in Wrapped, Renewing(j)' \/ job'[j].pc = "waiting"
        PROVE  job'[j].retries = 1
    BY <1>5, <2>1 DEF RetryLeft, Advances
  <2> QED
    BY <1>2, <1>3, <2>1 DEF RetryLeft
<1> QED
  BY <1>7, <1>8, <1>9, <1>10, <1>11, <1>12, <1>13, <1>14, <1>15, <1>16

LEMMA AnswersKeep ==
    ASSUME ClientInv, TypeOK', NEW j \in Jobs, Busy(j), NEW pc \in Answered, NEW tok,
           Reply(j, pc, tok), UNCHANGED Browser, stored \in live' => stored \in live,
           IF pc = "granted" THEN tok \in Tokens \ InUse ELSE tok = None,
           pc \in {"granted", "refused", "cut"} => Renewing(j) \/ job[j].kind = "login",
           pc = "refused" => Presenting(j) /\ job[j].tok \notin live,
           job[j].kind = "login" => pc \in {"granted", "failed"},
           job[j].kind = "restore" => pc \in {"granted", "refused", "cut"}
    PROVE  ClientInv'
<1>1. JobsOK /\ job[j] \in JobRecords
  BY BusyJob DEF ClientInv, TypeOK, JobsOK
<1>2. CASE job[j].dead
  <2>1. job' = [job EXCEPT ![j] = NoJob]
    BY <1>2 DEF Reply
  <2>2. Dwindles
    BY <1>1, <2>1 DEF Dwindles, Browser, Busy, Awake, JobsOK
  <2>3. LogoutHolds'
    BY <1>1, <2>1 DEF LogoutHolds, ClientInv, Browser, Renewing, Busy, Awake, JobsOK
  <2> QED
    BY <2>2, <2>3, DwindlesKeeps
<1>3. CASE ~job[j].dead
  <2>1. job' = [job EXCEPT ![j] = [job[j] EXCEPT !.pc = pc, !.tok = tok]]
    BY <1>1, <1>3 DEF Reply, JobsOK
  <2>2. /\ \A k \in Jobs \ {j} : job'[k] = job[k]
        /\ job'[j].tab = job[j].tab /\ job'[j].dead = job[j].dead
        /\ job'[j].early = job[j].early /\ job'[j].kind = job[j].kind
        /\ job'[j].pc = pc /\ job'[j].tok = tok /\ job'[j].retries = job[j].retries
        /\ Busy(j)'
    <3>1. job'[j] = [job[j] EXCEPT !.pc = pc, !.tok = tok] /\ job'[j] \in JobRecords \cup {NoJob}
      BY <1>1, <2>1 DEF JobsOK, TypeOK
    <3>2. job'[j].pc = pc /\ NoJob.pc \notin Answered
      BY <1>1, <3>1 DEF JobRecords, NoJob, Answered
    <3> QED
      BY <1>1, <2>1, <3>1, <3>2 DEF JobRecords, Busy, JobsOK
  <2>3. /\ Presenting(j)' => FALSE
        /\ Renewing(j)' => pc \in {"granted", "refused", "cut"}
        /\ pc \in {"granted", "refused", "cut"} => Renewing(j)'
    BY <2>2 DEF Presenting, Renewing, Answered
  <2>4. Advances(j)
    BY <1>3, <2>2, <2>3 DEF Advances, Answered, Wrapped
  <2> QED
    BY <2>4, AdvancesKeeps
<1> QED
  BY <1>2, <1>3

LEMMA IdleKeepsDead == Idle => (stored \in live' => stored \in live)
BY DEF Idle, Server

LEMMA IssueKeeps ==
    ASSUME ClientInv, TypeOK', NEW j \in Jobs, Busy(j), NEW old, Issue(j, old),
           job[j].pc \in {"login", "checked"}
    PROVE  ClientInv'
<1>1. /\ UNCHANGED Browser /\ Reply(j, "granted", Fresh)
      /\ Server((live \ old) \cup {Fresh}, expired \ {Fresh})
      /\ Fresh \in Tokens \ InUse
  BY FreshIsNew DEF Issue
<1>2. stored \in live' => stored \in live
  BY <1>1 DEF Server, InUse
<1>3. job[j].kind \in Kinds
  BY BusyJob DEF ClientInv, TypeOK, JobsOK, JobRecords
<1>4. Renewing(j) \/ job[j].kind = "login"
  BY <1>3 DEF ClientInv, KindsAgree, Kinds, Renewing
<1> QED
  BY <1>1, <1>2, <1>4, AnswersKeep DEF Answered

LEMMA ServeKeeps ==
    ASSUME ClientInv, TypeOK', NEW j \in Jobs, Serve(j)
    PROVE  ClientInv'
<1>1. Busy(j) /\ job[j] \in JobRecords
  BY BusyJob DEF Serve, ServeCall, ServeLogin, CheckRefresh, Rotate, ClientInv, TypeOK, JobsOK
<1>2. CASE ServeCall(j)
  <2>1. job[j].kind \notin {"login", "restore"}
    BY <1>1, <1>2 DEF ServeCall, ClientInv, KindsAgree, Renewing
  <2>2. UNCHANGED Browser /\ (Reply(j, "ok", None) \/ Reply(j, "denied", None))
    BY <1>2 DEF ServeCall
  <2>3. stored \in live' => stored \in live
    BY <1>2, IdleKeepsDead DEF ServeCall, Server
  <2> QED
    BY <1>1, <2>1, <2>2, <2>3, AnswersKeep DEF Answered
<1>3. CASE ServeLogin(j)
  BY <1>1, <1>3, IssueKeeps DEF ServeLogin
<1>4. CASE Rotate(j)
  BY <1>1, <1>4, IssueKeeps DEF Rotate
<1>5. CASE CheckRefresh(j) /\ job[j].tok \notin live
  <2>1. /\ Reply(j, "refused", None) /\ UNCHANGED Browser /\ Idle
        /\ Presenting(j) /\ Renewing(j)
    BY <1>5 DEF CheckRefresh, Presenting, Renewing
  <2>2. job[j].kind # "login"
    BY <1>1, <1>5 DEF CheckRefresh, ClientInv, KindsAgree
  <2> QED
    BY <1>1, <1>5, <2>1, <2>2, AnswersKeep, IdleKeepsDead DEF Answered
<1>6. CASE CheckRefresh(j) /\ job[j].tok \in live
  <2>1. /\ job' = [job EXCEPT ![j].pc = "checked"] /\ job \in [Jobs -> JobRecords \cup {NoJob}]
        /\ UNCHANGED Browser /\ Idle /\ Presenting(j) /\ Renewing(j)
    BY <1>6 DEF CheckRefresh, Presenting, Renewing, ClientInv, TypeOK
  <2>2. job[j].kind # "login"
    BY <1>1, <1>6 DEF CheckRefresh, ClientInv, KindsAgree
  <2>3. /\ \A k \in Jobs \ {j} : job'[k] = job[k]
        /\ job'[j] = [job[j] EXCEPT !.pc = "checked"]
    BY <2>1
  <2>4. /\ job'[j].tab = job[j].tab /\ job'[j].dead = job[j].dead
        /\ job'[j].early = job[j].early /\ job'[j].kind = job[j].kind
        /\ job'[j].pc = "checked" /\ job'[j].tok = job[j].tok
        /\ job'[j].retries = job[j].retries
    BY <1>1, <2>3 DEF JobRecords
  <2>5. Busy(j)' /\ Renewing(j)'
    BY <2>4 DEF Busy, Renewing, NoJob
  <2>6. Advances(j)
    BY <1>1, <2>1, <2>2, <2>3, <2>4, <2>5, IdleKeepsDead DEF Advances
  <2> QED
    BY <2>6, AdvancesKeeps
<1> QED
  BY <1>2, <1>3, <1>4, <1>5, <1>6 DEF Serve

LEMMA LoseKeeps ==
    ASSUME ClientInv, TypeOK', NEW j \in Jobs, Lose(j)
    PROVE  ClientInv'
<1> DEFINE given == job[j].kind = "login" \/ job[j].pc \in {"sent", "ok"}
<1>1. /\ Busy(j) /\ job[j] \in JobRecords /\ UNCHANGED Browser
      /\ job[j].pc \in {"sent", "ok", "refresh", "checked", "login", "granted"}
      /\ Reply(j, IF given THEN "failed" ELSE "cut", None)
  BY BusyJob DEF Lose, ClientInv, TypeOK, JobsOK
<1>2. stored \in live' => stored \in live
  BY IdleKeepsDead DEF Lose, Server
<1>3. CASE given
  <2>1. job[j].kind # "restore"
    BY <1>1, <1>3 DEF ClientInv, KindsAgree, Renewing
  <2> QED
    BY <1>1, <1>2, <1>3, <2>1, AnswersKeep DEF Answered
<1>4. CASE ~given
  <2>1. job[j].kind # "login" /\ Renewing(j)
    BY <1>1, <1>4 DEF ClientInv, KindsAgree, Renewing, JobRecords, Kinds
  <2> QED
    BY <1>1, <1>2, <1>4, <2>1, AnswersKeep DEF Answered
<1> QED
  BY <1>3, <1>4

LEMMA RestoreFailsKeeps ==
    ASSUME ClientInv, TypeOK', NEW j \in Jobs, RestoreFails(j)
    PROVE  ClientInv'
<1>1. /\ Awake(j) /\ Busy(j) /\ job[j].kind = "restore" /\ job[j] \in JobRecords
      /\ job \in [Jobs -> JobRecords \cup {NoJob}]
      /\ job' = [job EXCEPT ![j] = [@ EXCEPT !.kind = "background", !.pc = "sent",
                                             !.tok = stored, !.retries = 1]]
      /\ UNCHANGED Browser /\ Idle
  BY BusyJob DEF RestoreFails, Awake, ClientInv, TypeOK, JobsOK
<1>2. /\ \A k \in Jobs \ {j} : job'[k] = job[k]
      /\ job'[j] = [job[j] EXCEPT !.kind = "background", !.pc = "sent",
                                  !.tok = stored, !.retries = 1]
  BY <1>1
<1>3. /\ job'[j].tab = job[j].tab /\ job'[j].dead = job[j].dead
      /\ job'[j].early = job[j].early /\ job'[j].kind = "background"
      /\ job'[j].pc = "sent" /\ job'[j].tok = stored
  BY <1>1, <1>2 DEF JobRecords
<1>4. Busy(j)' /\ ~Renewing(j)' /\ ~Presenting(j)'
  BY <1>3 DEF Busy, Renewing, Presenting, NoJob
<1>5. Advances(j)
  BY <1>1, <1>2, <1>3, <1>4, IdleKeepsDead DEF Advances, Wrapped
<1> QED
  BY <1>5, AdvancesKeeps

LEMMA DeniedKeeps ==
    ASSUME ClientInv, TypeOK', NEW j \in Jobs, Denied(j)
    PROVE  ClientInv'
<1>1. /\ Awake(j) /\ Busy(j) /\ job[j].pc = "denied" /\ job[j] \in JobRecords /\ Idle
      /\ job[j].retries = 1
      /\ job \in [Jobs -> JobRecords \cup {NoJob}]
      /\ UNCHANGED <<stored, renewedBy>>
  <2>1. job[j] \in JobRecords /\ job[j].retries > 0
    BY BusyJob DEF Denied, Awake, ClientInv, TypeOK, JobsOK
  <2>2. job[j].retries = 1
    BY <2>1 DEF JobRecords
  <2> QED
    BY <2>1, <2>2 DEF Denied, Awake, ClientInv, TypeOK
<1>2. job[j].kind \in Wrapped
  BY <1>1 DEF ClientInv, KindsAgree, Renewing, JobRecords, Kinds
<1>3. CASE Redirect(j) /\ stored = None
  BY <1>1, <1>3, RedirectKeeps
<1>4. CASE /\ job' = [job EXCEPT ![j].pc = "waiting"]
           /\ UNCHANGED <<user, leaving, loggedOut>>
  <2>1. /\ \A k \in Jobs \ {j} : job'[k] = job[k]
        /\ job'[j] = [job[j] EXCEPT !.pc = "waiting"]
    BY <1>1, <1>4
  <2>2. /\ job'[j].tab = job[j].tab /\ job'[j].dead = job[j].dead
        /\ job'[j].early = job[j].early /\ job'[j].kind = job[j].kind
        /\ job'[j].pc = "waiting" /\ job'[j].tok = job[j].tok
        /\ job'[j].retries = job[j].retries
    BY <1>1, <2>1 DEF JobRecords
  <2>3. Busy(j)' /\ ~Renewing(j)' /\ ~Presenting(j)'
    BY <2>2 DEF Busy, Renewing, Presenting, NoJob
  <2>4. Advances(j)
    BY <1>1, <1>2, <1>4, <2>1, <2>2, <2>3, IdleKeepsDead DEF Advances, Browser, Wrapped
  <2> QED
    BY <2>4, AdvancesKeeps
<1>5. CASE /\ ~InFlight(job[j].tab) /\ stored # None
           /\ job' = [job EXCEPT ![j].pc = "refresh", ![j].tok = stored]
           /\ UNCHANGED <<user, leaving, loggedOut>>
  <2>1. /\ \A k \in Jobs \ {j} : job'[k] = job[k]
        /\ job'[j] = [job[j] EXCEPT !.pc = "refresh", !.tok = stored]
    BY <1>1, <1>5
  <2>2. /\ job'[j].tab = job[j].tab /\ job'[j].dead = job[j].dead
        /\ job'[j].early = job[j].early /\ job'[j].kind = job[j].kind
        /\ job'[j].pc = "refresh" /\ job'[j].tok = stored
        /\ job'[j].retries = job[j].retries
    BY <1>1, <2>1 DEF JobRecords
  <2>3. Busy(j)' /\ Renewing(j)'
    BY <2>2 DEF Busy, Renewing, NoJob
  <2>4. Advances(j)
    BY <1>1, <1>2, <1>5, <2>1, <2>2, <2>3, IdleKeepsDead DEF Advances, Browser, Wrapped
  <2> QED
    BY <2>4, AdvancesKeeps
<1> QED
  BY <1>3, <1>4, <1>5 DEF Denied

----------------------------------------------------------------------------
(***************************************************************************)
(* A page starts a chain, with the pair in localStorage.                   *)
(***************************************************************************)
LEMMA StartKeeps ==
    ASSUME ClientInv, TypeOK', NEW j \in Jobs, NEW t \in Tabs, NEW kind, NEW pc, NEW retries,
           Start(j, t, kind, pc, retries), Idle,
           UNCHANGED <<stored, renewedBy, loggedOut>>,
           \/ /\ kind = "restore" /\ pc = "refresh" /\ stored # None
              /\ user[t] = "unloaded" /\ user' = [user EXCEPT ![t] = "nobody"]
           \/ /\ kind \in {"page", "logout"} /\ pc = "sent"
              /\ user[t] = "somebody" /\ UNCHANGED user
           \/ /\ kind = "login" /\ pc = "login"
              /\ user[t] = "nobody" /\ UNCHANGED user
    PROVE  ClientInv'
<1> USE DEF ClientInv
<1>1. /\ job \in [Jobs -> JobRecords \cup {NoJob}] /\ ~Busy(j)
      /\ user \in [Tabs -> Shown] /\ stored \in Tokens \cup {None}
      /\ job' = [job EXCEPT ![j] = [tab |-> t, kind |-> kind, pc |-> pc, tok |-> stored,
                                    retries |-> retries, dead |-> FALSE, early |-> FALSE]]
  BY DEF Start, TypeOK
<1>2. /\ \A k \in Jobs \ {j} : job'[k] = job[k]
      /\ job'[j] = [tab |-> t, kind |-> kind, pc |-> pc, tok |-> stored,
                    retries |-> retries, dead |-> FALSE, early |-> FALSE]
  BY <1>1
<1>3. /\ job'[j].tab = t /\ job'[j].kind = kind /\ job'[j].pc = pc /\ job'[j].tok = stored
      /\ job'[j].dead = FALSE
  BY <1>2
<1>4. \A k \in Jobs : k # j =>
         /\ job'[k] = job[k]
         /\ Busy(k)' <=> Busy(k)
         /\ Awake(k)' <=> Awake(k)
         /\ Renewing(k)' <=> Renewing(k)
         /\ Presenting(k)' <=> Presenting(k)
  BY <1>2 DEF Busy, Awake, Renewing, Presenting
<1>5. /\ Renewing(j)' => kind = "restore"
      /\ Presenting(j)' => kind = "restore"
      /\ kind = "restore" => Renewing(j)'
  <2>1. kind = "restore" => Busy(j)'
    BY <1>3 DEF Busy, NoJob
  <2> QED
    BY <1>3, <2>1 DEF Renewing, Presenting
<1>6. \A k \in Jobs : Busy(k) => job[k].tab \in Tabs
  BY <1>1, BusyJob DEF JobsOK, JobRecords
<1>7. kind = "restore" => \A k \in Jobs : Awake(k) => job[k].tab # t
  BY <1>1 DEF PagesRun
<1>8. KindsAgree'
  BY <1>3, <1>4, <1>5 DEF KindsAgree, Wrapped
<1>9. PagesRun'
  <2>1. \A k \in Jobs : Awake(k) => user'[job[k].tab] # "unloaded"
    BY <1>1, <1>6, <1>7 DEF PagesRun, Awake
  <2>2. user'[t] # "unloaded"
    BY <1>1
  <2> QED
    BY <1>3, <1>4, <2>1, <2>2 DEF PagesRun
<1>10. OneRenewal'
  BY <1>3, <1>4, <1>5 DEF OneRenewal, SamePage, Wrapped
<1>11. OneRestore'
  BY <1>3, <1>4, <1>7 DEF OneRestore, SamePage
<1>12. GrantedIsNew'
  BY <1>1, <1>3, <1>4 DEF GrantedIsNew
<1>13. RestoreComesFirst'
  <2> SUFFICES ASSUME NEW i \in Jobs, Awake(i)', Presenting(i)', job'[i].kind = "restore"
               PROVE  /\ job'[i].tok \in Tokens
                      /\ job'[i].tok = stored' =>
                            /\ user'[job'[i].tab] = "nobody"
                            /\ \A k \in Jobs : SamePage(i, k)' => job'[k].kind \notin Wrapped
    BY DEF RestoreComesFirst
  <2>1. CASE i = j
    <3>1. /\ job'[i].tok \in Tokens /\ user'[job'[i].tab] = "nobody"
          /\ job'[j].kind \notin Wrapped
      BY <1>1, <1>3, <2>1 DEF Wrapped
    <3>2. \A k \in Jobs : SamePage(i, k)' => k = j
      BY <1>3, <1>4, <1>7, <2>1 DEF SamePage
    <3> QED
      BY <2>1, <3>1, <3>2
  <2>2. CASE i # j
    <3>1. Awake(i) /\ Presenting(i) /\ job[i].kind = "restore" /\ job'[i] = job[i]
      BY <1>4, <2>2
    <3>2. job[i].tok \in Tokens
      BY <3>1 DEF RestoreComesFirst
    <3>3. ASSUME job[i].tok = stored
          PROVE  /\ user[job[i].tab] = "nobody"
                 /\ \A k \in Jobs : SamePage(i, k) => job[k].kind \notin Wrapped
      BY <3>1, <3>3 DEF RestoreComesFirst
    <3>4. ASSUME job[i].tok = stored, NEW k \in Jobs, SamePage(i, k)'
          PROVE  job'[k].kind \notin Wrapped
      <4>1. CASE k = j
        BY <1>3, <3>1, <3>3, <3>4, <4>1 DEF SamePage, Wrapped
      <4>2. CASE k # j
        BY <1>4, <3>1, <3>3, <3>4, <4>2 DEF SamePage
      <4> QED
        BY <4>1, <4>2
    <3>5. ASSUME job[i].tok = stored PROVE user'[job[i].tab] = "nobody"
      BY <1>1, <1>6, <3>1, <3>3, <3>5 DEF Awake
    <3> QED
      BY <3>1, <3>2, <3>4, <3>5
  <2> QED
    BY <2>1, <2>2
<1>14. PresentedOnce'
  <2>1. \A i, k \in Jobs : /\ Awake(i)' /\ Presenting(i)' /\ Awake(k)' /\ Presenting(k)'
                           /\ job'[i].tab = job'[k].tab /\ job'[i].tok = job'[k].tok
                           => i = k
    BY <1>3, <1>4, <1>5, <1>7 DEF PresentedOnce, Presenting
  <2> QED
    BY <2>1 DEF PresentedOnce, Presenting, Awake
<1>15. OwnRenewal'
  <2>1. stored \in live' => stored \in live
    BY IdleKeepsDead
  <2> QED
    BY <1>3, <1>4, <1>5, <2>1 DEF OwnRenewal, Wrapped
<1>16. LogoutHolds'
  BY <1>3, <1>4, <1>5 DEF LogoutHolds
<1>17. RetryLeft'
  BY <1>3, <1>4, <1>5 DEF RetryLeft, Wrapped
<1> QED
  BY <1>8, <1>9, <1>10, <1>11, <1>12, <1>13, <1>14, <1>15, <1>16, <1>17

LEMMA PageKeeps ==
    ASSUME ClientInv, TypeOK', NEW t \in Tabs, NEW j \in Jobs,
           Load(t, j) \/ Call(t, j) \/ Logout(t, j) \/ Login(t, j)
    PROVE  ClientInv'
<1>1. CASE Call(t, j) \/ Logout(t, j) \/ Login(t, j)
  BY <1>1, StartKeeps DEF Call, Logout, Login, Browser
<1>2. CASE Load(t, j) /\ Start(j, t, "restore", "refresh", 0)
  <2>1. CASE stored # None /\ user' = [user EXCEPT ![t] = "nobody"]
    BY <1>2, <2>1, StartKeeps DEF Load
  <2>2. CASE UNCHANGED job
    BY <1>2, <2>2 DEF Start, Busy, NoJob, ClientInv, TypeOK
  <2> QED
    BY <1>2, <2>1, <2>2 DEF Load
<1>3. CASE Load(t, j) /\ UNCHANGED job
  <2>1. /\ UNCHANGED <<stored, renewedBy, loggedOut>> /\ Idle
        /\ \E s : user' = [user EXCEPT ![t] = s]
        /\ user \in [Tabs -> Shown]
        /\ \A k \in Jobs : Awake(k) => job[k].tab # t
    BY <1>3 DEF Load, ClientInv, PagesRun, TypeOK
  <2>2. \A k \in Jobs : Busy(k) => job[k].tab \in Tabs
    BY BusyJob DEF ClientInv, TypeOK, JobsOK, JobRecords
  <2>3. Dwindles
    BY <1>3, <2>1, <2>2, IdleKeepsDead DEF Dwindles, Busy, Awake
  <2>4. LogoutHolds'
    BY <1>3, <2>1 DEF LogoutHolds, ClientInv, Renewing, Busy, Awake
  <2> QED
    BY <2>3, <2>4, DwindlesKeeps
<1> QED
  BY <1>1, <1>2, <1>3 DEF Load

----------------------------------------------------------------------------
(***************************************************************************)
(* A new pair is stored, and whoever awaits it sends its call again.       *)
(***************************************************************************)
LEMMA ResentChain ==
    ASSUME JobsOK, NEW j \in Jobs, Awake(j), job[j].tok \in Tokens, NEW k \in Jobs,
           Resent(j)[k] # NoJob
    PROVE  /\ Busy(k)
           /\ Resent(j)[k].tab = job[k].tab
           /\ Resent(j)[k].kind = job[k].kind
           /\ Resent(j)[k].dead = job[k].dead
           /\ \/ Resent(j)[k] = job[k] /\ k # j
              \/ /\ Resent(j)[k].pc = "sent" /\ Resent(j)[k].tok = job[j].tok
                 /\ k = j \/ job[k].pc = "waiting"
<1>1. CASE k \in Awaiting(j)
  <2>1. /\ Busy(k) /\ job[k] \in JobRecords
        /\ k = j \/ job[k].pc = "waiting"
    BY <1>1, BusyJob DEF Awaiting, Awake
  <2>2. Resent(j)[k] = [job[k] EXCEPT !.pc = "sent", !.tok = job[j].tok, !.retries = @ - 1,
                                      !.early = FALSE]
    BY <1>1 DEF Resent
  <2> QED
    BY <2>1, <2>2 DEF JobRecords
<1>2. CASE k \notin Awaiting(j)
  BY <1>2 DEF Resent, Awaiting, Busy
<1> QED
  BY <1>1, <1>2

LEMMA StoreKeeps ==
    ASSUME ClientInv, TypeOK', NEW j \in Jobs, Store(j)
    PROVE  ClientInv'
<1> USE DEF ClientInv
<1>1. /\ Awake(j) /\ Busy(j) /\ job[j].pc = "granted" /\ JobsOK
      /\ job \in [Jobs -> JobRecords \cup {NoJob}]
      /\ stored' = job[j].tok /\ loggedOut' = FALSE
      /\ job[j].tok \in Tokens /\ job[j].tok # stored
      /\ \A k \in Jobs \ {j} : Busy(k) => job[k].tok # job[j].tok
      /\ job[j].kind \in Wrapped =>
            job' = Resent(j) /\ renewedBy' = job[j].tab /\ UNCHANGED user
      /\ job[j].kind \notin Wrapped =>
            /\ job' = [job EXCEPT ![j] = NoJob] /\ renewedBy' = Nobody
            /\ user' = [user EXCEPT ![job[j].tab] = "somebody"]
  BY DEF Store, Awake, TypeOK, JobsOK, GrantedIsNew
<1>2. \A k \in Jobs : Busy(k)' =>
         /\ Busy(k) /\ job'[k].tab = job[k].tab /\ job'[k].kind = job[k].kind
         /\ job'[k].dead = job[k].dead
         /\ \/ job'[k] = job[k] /\ k # j
            \/ /\ job'[k].pc = "sent" /\ job'[k].tok = job[j].tok
               /\ (k = j /\ job[j].kind \in Wrapped) \/ job[k].pc = "waiting"
  <2>1. CASE job[j].kind \in Wrapped
    BY <1>1, <2>1, ResentChain DEF Busy
  <2>2. CASE job[j].kind \notin Wrapped
    BY <1>1, <2>2 DEF Busy
  <2> QED
    BY <2>1, <2>2
<1>3. \A k \in Jobs : Awake(k)' => Awake(k) /\ Busy(k)'
  BY <1>2 DEF Awake
<1>4. \A k \in Jobs : Busy(k) => job[k].tab \in Tabs
  BY <1>1, BusyJob DEF JobRecords
<1>5. \A k \in Jobs : Renewing(k)' => /\ Busy(k)' /\ Renewing(k) /\ k # j
                                      /\ job'[k] = job[k]
  BY <1>2 DEF Renewing
<1>6. \A k \in Jobs : Presenting(k)' => Renewing(k)' /\ Presenting(k)
  BY <1>5 DEF Presenting, Renewing
<1>7. KindsAgree'
  <2> SUFFICES ASSUME NEW k \in Jobs, Busy(k)'
               PROVE  /\ job'[k].kind = "login" => job'[k].pc \in {"login", "granted", "failed"}
                      /\ job'[k].kind = "restore" => Renewing(k)'
                      /\ job'[k].kind \in Wrapped => job'[k].pc # "login"
    BY DEF KindsAgree
  <2>1. CASE job'[k] = job[k]
    BY <1>2, <2>1 DEF KindsAgree, Renewing, Busy
  <2>2. CASE job'[k].pc = "sent" /\ ((k = j /\ job[j].kind \in Wrapped) \/ job[k].pc = "waiting")
    BY <1>2, <2>2 DEF KindsAgree, Renewing, Wrapped
  <2> QED
    BY <1>2, <2>1, <2>2
<1>8. PagesRun'
  BY <1>1, <1>2, <1>3, <1>4 DEF PagesRun, TypeOK
<1>9. OneRenewal'
  BY <1>2, <1>3, <1>5 DEF OneRenewal, SamePage
<1>10. OneRestore'
  BY <1>2, <1>3 DEF OneRestore, SamePage
<1>11. GrantedIsNew'
  <2> SUFFICES ASSUME NEW i \in Jobs, Busy(i)', job'[i].pc = "granted"
               PROVE  /\ job'[i].tok \in Tokens /\ job'[i].tok # stored'
                      /\ \A k \in Jobs \ {i} : Busy(k)' => job'[k].tok # job'[i].tok
    BY DEF GrantedIsNew
  <2>1. Busy(i) /\ job'[i] = job[i] /\ i # j
    BY <1>2
  <2>2. /\ job[i].tok \in Tokens
        /\ \A k \in Jobs \ {i} : Busy(k) => job[k].tok # job[i].tok
    BY <2>1 DEF GrantedIsNew
  <2> QED
    BY <1>1, <1>2, <2>1, <2>2
<1>12. RestoreComesFirst'
  <2> SUFFICES ASSUME NEW i \in Jobs, Awake(i)', Presenting(i)', job'[i].kind = "restore"
               PROVE  job'[i].tok \in Tokens /\ job'[i].tok # stored'
    BY DEF RestoreComesFirst
  <2>1. Awake(i) /\ Busy(i) /\ Presenting(i) /\ job'[i] = job[i] /\ i # j
    BY <1>3, <1>5, <1>6 DEF Awake
  <2> QED
    BY <1>1, <2>1 DEF RestoreComesFirst
<1>13. PresentedOnce'
  <2>1. \A k \in Jobs : Awake(k)' /\ Presenting(k)' => /\ Awake(k) /\ Presenting(k)
                                                      /\ job'[k] = job[k]
    BY <1>3, <1>5, <1>6
  <2>2. \A i, k \in Jobs : /\ Awake(i)' /\ Presenting(i)' /\ Awake(k)' /\ Presenting(k)'
                           /\ job'[i].tab = job'[k].tab /\ job'[i].tok = job'[k].tok
                           => i = k
    BY <2>1 DEF PresentedOnce, Presenting
  <2> QED
    BY <2>2 DEF PresentedOnce, Presenting, Awake
<1>14. OwnRenewal'
  <2> SUFFICES ASSUME NEW k \in Jobs, Awake(k)', job'[k].kind \in Wrapped,
                      renewedBy' = job'[k].tab, Presenting(k)' \/ job'[k].pc = "refused"
               PROVE  FALSE
    BY DEF OwnRenewal
  <2>1. Renewing(k)'
    BY <1>3, <1>6 DEF Renewing
  <2>2. k # j /\ Renewing(k) /\ Awake(k) /\ job'[k] = job[k] /\ job[k].kind \in Wrapped
    BY <1>3, <1>5, <2>1
  <2>3. job[j].kind \in Wrapped /\ job[k].tab = job[j].tab
    BY <1>1, <1>4, <2>2, NobodyAssumption DEF Awake
  <2>4. Renewing(j)
    BY <1>1 DEF Renewing
  <2> QED
    BY <1>1, <2>2, <2>3, <2>4 DEF OneRenewal, SamePage
<1>15. LogoutHolds'
  BY <1>1 DEF LogoutHolds
<1>16. RetryLeft'
  BY <1>2, <1>3, <1>5 DEF RetryLeft
<1> QED
  BY <1>7, <1>8, <1>9, <1>10, <1>11, <1>12, <1>13, <1>14, <1>15, <1>16

----------------------------------------------------------------------------
LEMMA ExpireKeeps ==
    ASSUME ClientInv, TypeOK', \/ UNCHANGED vars
                               \/ \E n \in Tokens : Expire(n)
    PROVE  ClientInv'
<1>1. UNCHANGED <<stored, live, user, job, renewedBy, loggedOut>>
  BY DEF vars, Expire, Browser
<1>2. Dwindles
  BY <1>1 DEF Dwindles, Busy, Awake
<1>3. LogoutHolds'
  BY <1>1 DEF LogoutHolds, ClientInv, Awake, Busy, Renewing
<1> QED
  BY <1>2, <1>3, DwindlesKeeps

LEMMA ClientInit == Init => ClientInv
<1> SUFFICES ASSUME Init PROVE ClientInv
  OBVIOUS
<1>1. \A j \in Jobs : ~Busy(j) /\ ~Awake(j)
  BY DEF Init, Busy, Awake
<1> QED
  BY <1>1, TypeInit
  DEF Init, ClientInv, KindsAgree, PagesRun, RetryLeft, OneRenewal, OneRestore, GrantedIsNew,
      RestoreComesFirst, PresentedOnce, OwnRenewal, LogoutHolds, SamePage

LEMMA ClientNext == ClientInv /\ [Next]_vars => ClientInv'
<1> SUFFICES ASSUME ClientInv, [Next]_vars PROVE ClientInv'
  OBVIOUS
<1>1. TypeOK'
  BY TypeNext DEF ClientInv
<1>2. ASSUME NEW t \in Tabs, NEW j \in Jobs, Load(t, j) \/ Call(t, j) \/ Logout(t, j) \/ Login(t, j)
      PROVE  ClientInv'
  BY <1>1, <1>2, PageKeeps
<1>3. ASSUME NEW t \in Tabs, Reload(t) \/ Leave(t) PROVE ClientInv'
  BY <1>1, <1>3, UnloadKeeps DEF Reload, Leave
<1>4. ASSUME NEW j \in Jobs, Serve(j) PROVE ClientInv'
  BY <1>1, <1>4, ServeKeeps
<1>5. ASSUME NEW j \in Jobs, React(j) PROVE ClientInv'
  <2>1. CASE Store(j)
    BY <1>1, <2>1, StoreKeeps
  <2>2. CASE RestoreFails(j)
    BY <1>1, <2>2, RestoreFailsKeeps
  <2>3. CASE RefreshFails(j)
    BY <1>1, <2>3, RedirectKeeps DEF RefreshFails
  <2>4. CASE Denied(j)
    BY <1>1, <2>4, DeniedKeeps
  <2>5. CASE Finish(j)
    BY <1>1, <2>5, FinishKeeps
  <2> QED
    BY <1>5, <2>1, <2>2, <2>3, <2>4, <2>5 DEF React
<1>6. ASSUME NEW j \in Jobs, Lose(j) PROVE ClientInv'
  BY <1>1, <1>6, LoseKeeps
<1>7. CASE UNCHANGED vars \/ \E n \in Tokens : Expire(n)
  BY <1>1, <1>7, ExpireKeeps
<1> QED
  BY <1>2, <1>3, <1>4, <1>5, <1>6, <1>7 DEF Next

LEMMA ClientAlways == Spec => []ClientInv
BY ClientInit, ClientNext, PTL DEF Spec

----------------------------------------------------------------------------
(***************************************************************************)
(* Every variable keeps its type: that a chain always finds a number for   *)
(* its pair rests on FreshIsNew, that it does not retry more than once on  *)
(* RetryLeft.                                                              *)
(***************************************************************************)
THEOREM ClientTypes == Spec => []TypeOK
<1>1. ClientInv => TypeOK
  BY DEF ClientInv
<1> QED
  BY <1>1, ClientAlways, PTL

(***************************************************************************)
(* The chains of one page never present one refresh token at a time,       *)
(* whatever runs in the other tabs, fails or is reloaded: isRefreshing     *)
(* keeps the calls apart (client.ts:31-42), and AuthProvider's refresh,    *)
(* which goes past it, comes before the page has a user.                   *)
(***************************************************************************)
THEOREM RefreshesArePresentedOnce == Spec => []PresentedOnce
<1>1. ClientInv => PresentedOnce
  BY DEF ClientInv
<1> QED
  BY <1>1, ClientAlways, PTL

(***************************************************************************)
(* A refused refresh removes no live pair that its own page brought.       *)
(***************************************************************************)
THEOREM OwnPairsAreKept == Spec => OwnPairIsKept
<1>1. ClientInv =>
        [ \A j \in Jobs :
            RefreshFails(j) /\ job[j].pc = "refused" /\ stored \in live
                => renewedBy # job[j].tab ]_vars
  BY DEF ClientInv, OwnRenewal, RefreshFails
<1> QED
  BY <1>1, ClientAlways, PTL DEF OwnPairIsKept

(***************************************************************************)
(* Tokens come back after a logout by a login, or by a refresh that was    *)
(* under way when the logout ended, and by nothing else.                   *)
(***************************************************************************)
LEMMA UndoStep ==
    ASSUME ClientInv, Next, loggedOut, stored' # None
    PROVE  \E j \in Jobs : Store(j) /\ (job[j].kind = "login" \/ job[j].early)
<1>1. stored = None
  BY DEF ClientInv, LogoutHolds
<1>2. PICK j \in Jobs : Store(j)
  <2>1. ASSUME NEW j \in Jobs, Serve(j) \/ Lose(j) PROVE UNCHANGED stored
    BY <2>1 DEF Serve, ServeCall, ServeLogin, CheckRefresh, Rotate, Issue, Lose, Browser
  <2>2. ASSUME NEW j \in Jobs, React(j), ~Store(j) PROVE stored' \in {stored, None}
    BY <2>2 DEF React, RestoreFails, RefreshFails, Denied, Finish, Browser
  <2>3. ASSUME NEW t \in Tabs, NEW j \in Jobs,
               Load(t, j) \/ Call(t, j) \/ Logout(t, j) \/ Login(t, j)
        PROVE  UNCHANGED stored
    BY <2>3 DEF Load, Call, Logout, Login, Browser
  <2>4. ASSUME NEW t \in Tabs, Reload(t) \/ Leave(t) PROVE UNCHANGED stored
    BY <2>4 DEF Reload, Leave, Unload
  <2>5. ASSUME NEW n \in Tokens, Expire(n) PROVE UNCHANGED stored
    BY <2>5 DEF Expire, Browser
  <2> QED
    BY <1>1, <2>1, <2>2, <2>3, <2>4, <2>5 DEF Next
<1>3. Awake(j) /\ Renewing(j)
  BY <1>2 DEF Store, Awake, Renewing
<1> QED
  BY <1>2, <1>3 DEF ClientInv, LogoutHolds

THEOREM LogoutsHold == Spec => OnlyRefreshesUndoLogout
<1>1. ClientInv /\ [Next]_vars =>
        [ loggedOut /\ stored' # None =>
            \E j \in Jobs : Store(j) /\ (job[j].kind = "login" \/ job[j].early) ]_vars
  BY UndoStep
<1> QED
  BY <1>1, ClientAlways, PTL DEF Spec, OnlyRefreshesUndoLogout
=============================================================================
