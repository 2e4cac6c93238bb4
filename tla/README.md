# poll-app: specifications, model checking and proofs

TLA+ modules of the poll application in `backend/` and `frontend/`, the TLC
runs that check them on small instances, and TLAPS proofs of what matters
most for every instance. Paths below are relative to the repository.

## 1. The system

A browser application (React Router, `frontend/app`) talks HTTP/JSON to a Go
server (`backend/`). The server keeps accounts, polls and votes in Postgres
through a generated `ent` client, and refresh tokens in Redis. `net/http` runs
every request in a goroutine of its own. The server holds no lock and no
state in memory between requests: everything requests share is in the two
stores, every storage call is one SQL statement (or one small transaction)
of its own, every Redis command is atomic, and **no handler joins two of them
in a transaction**. That is where the hard behaviour of this program is.

| component | state it keeps | operations | talks to |
|---|---|---|---|
| ent client, `backend/ent` (generated) | per builder a mutation: what its calls have set, cleared, added and removed; per query its predicates, limits, columns and the queries to load | the calls of a builder, Save, Exec, CreateBulk; the calls of a query, All, First, Only, IDs, Exist | Postgres, through `sqlgraph` |
| storage layer, `backend/storage` | tables `users`, `polls`, `votes` with their unique indexes and foreign keys | insert, select, update, delete; one statement each | Postgres |
| poll and vote services, `backend/service`, behind `backend/controller` | none between calls; within a call the options it read | CreatePoll, UpdatePoll, DeletePoll, VoteOnPoll, DeleteVote | storage, several statements per call |
| views, `controller` + `converter` | the row and the votes read so far | ListPolls, GetPoll, GetVoteCounts, GetVotersByOption | storage, several queries per call |
| sessions, `backend/auth/jwt.go`, `user_controller.go` | a key per refresh token, a set of sessions per user, times to live | sign-up, login, refresh (rotate), logout | Redis |
| access tokens, `auth/middleware.go` | none: the token says who it is | ValidateToken | - |
| accounts, `service/user_service.go` | table `users` | CreateUser, Login, GetUserByID | storage |
| browser token client, `lib/api/client.ts`, `lib/contexts/auth.tsx` | two tokens in localStorage shared by all tabs; per tab the refresh in flight and the user shown | every API call with one refresh and one retry, login, logout, restore on load | the server |
| pages, `frontend/app/routes` | form and view state | load, vote, edit the list of options | token client |
| server start, `cmd/server`, `storage/db.go`, `auth/redis.go` | none | connect, migrate, connect, listen; the first error ends it | Postgres, Redis |
| deployment scripts, `calm/scripts` | PID files | start, stop, wait loops | processes |

### What is hard here

* A handler **decides by what it read and acts some statements later**:
  VoteOnPoll by the list of options, UpdatePoll by the old list, UpdatePoll and
  DeletePoll by the owner, DeleteVote and VoteOnPoll by the vote they found.
* A handler **does in several statements what is meant as one**: clear the
  votes and write the list; clear the votes and delete the poll; delete the old
  vote and insert the new one; revoke a token and issue the next. The process
  may die, or a statement fail, between any two.
* A page **is put together from several queries** while writers run.
* The **index of sessions and the sessions** are different keys, changed by
  different commands, some of whose failures are ignored, with different times
  to live.
* In the browser **several tabs share the tokens** and each refreshes on its
  own; a request outlives the page that sent it.
* A builder of the ent client keeps one column or edge **in several fields**
  (the value, a mark for cleared, a flag, the added and the removed rows), takes
  its calls in any order and may be saved again. A query with eager loads is
  **several statements**, which change the query as they go.

### What makes each component correct

* Tables: one vote per user and poll; no vote without its poll.
* Handlers: alone, every call is atomic; with others, a vote for an option
  that is gone can only come from the one race that is known; a vote leaves
  only by its voter or by the owner of its poll, for a reason.
* Views: what is shown is of one moment, unless an update overlapped it; nobody
  is counted twice.
* Sessions: a token that works is in the index, where a logout finds it; a
  token is exchanged once; a logout leaves nothing behind but what raced it.
* Accounts: one account per email and per name; what a sign-up or a login is
  told is true of the tables.
* Token client: every call ends; the calls of one page present a refresh token
  once; a refused refresh throws no good pair of its own page away; a logout is
  final but for refreshes under way.
* ent client: a Save writes what the calls, in their order, ask for, in one
  transaction or not at all; saving again makes no second row. A query finds and
  loads what its calls ask for, also when it is run again.

The hazards, each at its line, are in `PROJECT.json` under `hazards`.

## 2. The modules

```
PollStore            the tables, their constraints, one operator per statement
  PollBoard          abstract: every call atomic
  PollService        the five writing handlers, statement by statement
    PollProps        what they promise; refinement of PollBoard
      MCPollService           instances for TLC
      PollServiceProofs       types, constraints, the overlap theorem
        PollSerialProofs      votes leave by right; one call at a time, PollBoard
    PollViews        PollService with readers beside it
      MCPollViews
      PollViewsProofs         what is shown (extends PollServiceProofs, too)
Accounts             sign-up and login on the users table
  MCAccounts
  AccountsProofs     one account each, true answers
TokenClient          tabs over one localStorage, against a server that rotates
  MCTokenClient
  TokenClientProofs  one refresh of a page at a time, its pair, logouts
EntSchema            entities, their columns, edges and tables
  EntMutation        what the calls of a builder have changed so far
    EntBuilders      the calls, defaults, checks and statements of each builder
      EntSave        builders at work on the tables, saves, lost answers
        EntSaveProofs         what a Save writes, for the builders alone
        EntQuery     queries and their eager loads, beside the builders
          MCEntQuery
          EntQueryProofs      what a run finds, and the saves beside it
Sessions             refresh tokens, their index, their expiry
  MCSessions
  SessionProofs      types, one exchange per token, the index covers the tokens,
                     what a logout leaves
```

### PollStore

`polls` maps an identifier to its row, to `Unborn` (never inserted) or `Gone`
(deleted); a row keeps the owner and the list of options, as titles,
descriptions and timestamps decide nothing. `votes` is a set of rows; a vote
has no identity beyond user, poll and option, which is enough for the handlers,
whose statements select by these (`vote_storage.go:33-111`). Only the views ask
by a vote's own identifier, and they are told of it (`deleted`, below). `Insertable` and `Deletable` are the constraints of
`ent/migrate/schema.go`: the unique index on `(user_id, poll_id)` and the
foreign key `votes_polls_poll` without cascade. An INSERT or DELETE that they
refuse fails and changes nothing. Options are non-empty texts; the server lets
a list hold an empty one, which nobody can vote for, and a list may repeat an
option, which the instances include.

### PollService

A member of `Requests` is a slot that serves one call after another; with n
slots there are up to n calls at a time. `pc[r]` names the statement it runs
next, `seen[r]` the list it read and still decides by. A step is one statement
and what the handler decides from its result:

| handler | steps (`pc`) |
|---|---|
| CreatePoll | `Create` (the lookup of the owner, which cannot be deleted, is part of it) |
| UpdatePoll | `Owner` -> `Current` -> `Clear` -> `Write`; without a list `Owner` -> `Write`; without removed options `Current` -> `Write` |
| DeletePoll | `Owner` -> `ClearAll` -> `Drop` |
| VoteOnPoll | `ReadPoll` -> `Lookup` -> (`Replace` ->) `Insert` |
| DeleteVote | `ReadPoll` -> `Find` -> `Remove` |

`StatementFails` is any statement returning an error: every handler gives up,
but VoteOnPoll goes on when its lookup fails (`vote_service.go:46`). A
statement that takes effect and whose answer is lost is, for the tables, the
statement followed by a failure of the next one or by a crash. `Crash` ends
every call; the tables stay. Requests carry the user of their access token:
`AuthMiddleware` decides from the token alone and lets nothing else through.

Two history variables say what a race is. A VoteOnPoll holds a list from its
read (`vote_service.go:26`) to its INSERT (`:66`), an UpdatePoll from its read
(`poll_service.go:65`) to its UPDATE (`:98`). `raced` has the VoteOnPolls under
way whose stretch meets that of an UpdatePoll of the same poll; `suspect` has
the votes they inserted. They guard nothing.

### PollBoard and the refinement

`PollBoard` is the specification a client would write: open, edit, close, cast,
retract, each atomic, an edit taking the votes of dropped options with it.
`PollProps!SerialCallsAreAtomic` says that PollService implements it. Under the
refinement mapping `EffectivePolls`, UpdatePoll takes effect when it clears the
votes (it has announced its list by then), DeletePoll when it clears them; if
nothing needs clearing, with the only statement that writes. It holds for one
request at a time up to the first failure, and only then: the violation runs
show how overlap breaks it.

### PollViews

Readers run beside the handlers of PollService: GetPoll (its row, then its
votes, as `PollQuery.sqlAll` and `loadVotes` do), GetVoteCounts (the row, then
the votes) and GetVotersByOption (the row, the votes of the option, then one
query per vote for its user, where a vote that has gone or whose query fails is
left out of the answer). That last query joins by the vote's identifier, so a
vote that was deleted and cast again is another row: `deleted` has the votes
loaded whose rows have been deleted since. `VoteCounts` is what `PollToResponse` and
`GetVoteCountsByPoll` compute. `torn` has the readers whose row an UpdatePoll
was about to replace.

### Sessions

`tokens` has the sessions with a `refresh_token` key, `index[u]` is the set
`user_sessions:u`. All times to live are the same seven days, so keys expire in
the order in which they were given one. `timed` has the keys with a time to
live, `sooner[k]` those that expire before `k`; `KeyExpires` takes a key that
nothing precedes. A new set has no time to live until EXPIRE; a set that
becomes empty disappears. Steps are Redis commands, a command with the
retries of the Redis client inside it being one step:

| handler | steps (`pc`) |
|---|---|
| sign-up, login | `Set` -> `Index` -> `Expire`; a failed SADD -> `Undo` |
| refresh | `Get` -> `Revoke` -> `Unindex` -> `Set` -> `Index` -> `Expire` -> `User` |
| logout | `Members` -> `DelKeys` (once per session) -> `DelSet` |

A command fails before or after it took effect; the handler then does what the
code does, which is to go on in five places (`jwt.go:120,124,195,216` and the
loop of the logout). `held` has the sessions whose token a client was sent; the
answer may be lost. Tokens are not parsed or signed: a token is its session,
and it ends when its key does (the claim `exp` is the same seven days).

Histories: `exposed` has the sessions that the index may miss for a known
reason, `parent` the session one was rotated from, `contested` those that two
refreshes found valid before either revoked them, `before` the sessions clients
held when a logout began.

### Accounts

`users` maps an identifier to its row. Sign-up is `LookupEmail` -> `LookupName`
-> `InsertUser` -> `IssueTokens`, login `FindUser` -> `IssueTokens`; a lookup
that fails counts as one that found nothing (`user_service.go:28,33`), an INSERT
may take effect and its answer be lost, and if the tokens cannot be made the
account stays. bcrypt is an ideal function that refuses a password of more than
72 bytes; it runs after the lookups, as in the code. The Redis commands of
`IssueTokens` are one step, which `Sessions` details. `hit` and `known` are
histories: a statement of the request failed; the account that a login asks for
was there when it began. `GetUserByID` changes nothing and is left out.

### TokenClient

A tab runs its JavaScript to completion between two awaits, so a step is what
happens from one await to the next. A member of `Jobs` is a chain of awaits with
the request it waits for: a call of a page, a logout, a login, AuthProvider's
restore on load, or the logout that the restore starts without awaiting it
(`auth.tsx:63,70`).

| code | actions |
|---|---|
| `withTokenRefresh` (`client.ts:78-105`) | `Call`, `Logout` send with one retry left; `Denied` joins the refresh of its page, starts one, or gives up |
| `attemptTokenRefresh` (`client.ts:38-75`) | `Store`, `RefreshFails`; `Resent` and `Redirect` are what the calls that awaited it do next, `Thrown` those that give up |
| `window.location.href = "/login"` (`client.ts:98`) | `Redirect` puts the tab in `leaving`; `Leave` is the unload that follows |
| `AuthProvider` (`auth.tsx`) | `Load`, `Login`, `Logout`, `RestoreFails`, the user shown |
| server | `ServeCall`, `ServeLogin`, `CheckRefresh` then `Rotate`: what `Sessions` details, two steps here, as its races need two |
| network, clock, user | `Lose`, `Expire`, `Reload` |

`stored` is localStorage. Both keys are written together and removed together,
so a pair is one number; a number is used again once nobody holds it, which
bounds them without bounding the behaviour. All pairs are one account's. A page
that has been told to go to /login runs on until it is unloaded: its other
chains, and calls that the user makes meanwhile, act as ever. A page that is
unloaded (`Unload`) leaves its requests with the server (`dead`): a rotation then
happens and nobody stores its answer. `renewedBy`, `loggedOut` and the field `early` of
a chain are histories; `renewedBy` counts a page's calls, not AuthProvider's own
refresh. Left out: the refresh token's seven days (as a token the
server no longer has, it is in `Lose`), a request that neither answers nor fails
(browsers give up), and `AuthProvider.refreshToken`, which has no caller.

### The ent client

`EntSchema` is the generated schema: per entity its columns and their kinds, its
unique edges (`One`, each with its column) and other edges (`Many`), and the
constraints of the tables. `EntMutation` is `ent/mutation.go`: one record serves
the three mutations, whose generated methods differ in nothing else. `value`
has the pointers, `marked` is `clearedFields`, `unset` and `emptied` the flags,
`added` and `removed` the maps of edges, `old` the row that `oldValue` read.
`EntBuilders` has, for each of the create, update and update-one builders,
the calls it takes, its `defaults`, its `check` and the statement its `sqlSave`
makes of the mutation.

`EntSave` puts builders to work: any legal sequence of calls (the setters for
pointers, for rows and for several rows come down to the plain ones), `ReadOld`,
`SaveCreate`, `SaveUpdate`, `ExecDelete`, `SaveBulk` and `Mutate`. A Save fills in the
defaults, checks, and executes one transaction of `sqlgraph`, which is external:
it inserts or updates, takes rows off edges before it puts rows on them, puts a
row on an edge only from none, and leaves only legal tables. `Execute` has the
four ends of it: done, refused, failed, done with the answer lost. Where
sqlgraph's choice is not visible from the repository (a list both set and
appended to; a note both set and cleared) the model allows both. `Elsewhere` is
another client of the database. `said` is a history: what the calls ask for,
computed from the calls, which the properties compare with the tables; where the
calls leave a time open it has the time of the first Save since (`Dated`), as the
code leaves in the mutation what `defaults` has filled in. Predicates are sets of
rows. Times are numbers: `Then`, before the first step, for times that are set
and for the first rows, and `Now`, which moves on with every call and Save, so
that a Save knows its own time from an earlier one's.

A bulk is not one step: `SaveBulk` fills in the defaults of both builders, and
`Mutate` is one mutator of the chain (`bulk` has the builders, `turn` whose mutator
is next), which checks its builder and calls the next one; the last one hands all
specs to `BatchCreate` (external: one INSERT). Others may change the rows between
two mutators. `ReadOld` may fail, too, and keeps the error, as `once` does.

`EntQuery` has the three query builders. `query` is a tree: at the root the query
itself, below it those that `With...` adds, each with its rows (`where`, `keys`),
limit, offset, selected columns (`fields`) and `withFKs` (`hidden`). `Ask` starts
from a table or from an edge of rows; `Refine` is a call (Where, Limit, Offset,
Select, With); `StartRun` is All, First, Only, IDs, FirstID, OnlyID or Exist,
with the limit or the column it leaves in the query; `Statement` is one round of
`sqlAll`, in preorder of the tree, with the predicate and the column that the
`loadX` method adds for good (`PollLoad`, `UserLoad`, `VoteLoad`); `Return` and
`RunFails` end the run; `Meanwhile` is another client between statements. `asked` is a history: the
tree as the calls alone make it.

## 3. The runs

| run | instance | checks |
|---|---|---|
| `races` | 2 requests, 2 users, 1 poll, 3 options, 4 lists, 1 fault; all five handlers | TypeOK, OneVotePerUser, VotesHavePolls, OrphansNeedOverlap, VotesLeaveByRight |
| `alone` | 1 request, 2 faults | NoOrphansAtRest, SerialCallsAreAtomic |
| `orphans`, `drop`, `revote` | 2 requests, no fault | NoOrphansAtRest, DropFindsNoVotes, ReplacedVotesAreWithdrawn: violated |
| `views` | 2 requests, 1 reader, 2 users, 2 options, a list that repeats one, 1 fault | ViewsTypeOK, EachVoterCountsOnce, TornViewNeedsOverlap |
| `sessions` | 2 requests, 2 users, 3 sessions, 1 fault | TypeOK, IndexCoversTokens, TwinsNeedOverlap, LogoutLeavesOnlyExposed |
| `logout` | 2 requests, 2 users, 3 sessions, no fault | LogoutRevokesAll: violated |
| `accounts` | 2 requests, 3 accounts, 2 emails and names, 2 passwords and one too long, 2 faults | TypeOK, OneAccountEach, SignUpAnswersAreTrue, LoginAnswersAreTrue |
| `tabs` | 2 tabs, 2 chains, 4 pairs, lost requests and reloads | TypeOK, PresentedOnce, OwnPairIsKept, OnlyRefreshesUndoLogout |
| `ends` | 1 tab, 2 chains, 4 pairs, lost requests and reloads, fairness | EveryCallEnds, SignedOutPagesNotice |
| `builders` | 1 builder of any kind or 2 of a bulk, 3 calls or saves, 1 mishap; or a query, 3 calls or runs, loads 2 deep, 1 mishap | TypeOK, NoEmptyTexts, OneRowPerBuilder, SavesMeanTheCalls, LinksMeanTheCalls, OldIsNotOwn, BulkIsWhole; TreeOK, LoadsFindTheirNodes, AnswersMeanTheCalls, OnlyMeansOne |

*races.* Whatever two overlapping calls do and whatever fails, the constraints
hold, votes leave the tables only by their voter or by the current owner of the
poll, for an option the new list drops, and a vote for an option that is gone
comes only from a VoteOnPoll that overlapped an UpdatePoll. In particular two
overlapping UpdatePolls, a failed statement or a crash between the two writes
of an UpdatePoll never strand a vote: the votes go first, which is the safe
order.

*alone* against *orphans*, *drop*, *revote*: one call at a time is atomic until
something fails (`SerialCallsAreAtomic`), and leaves no orphan even with failures and
crashes (`NoOrphansAtRest`). What comments of the service say of the clean-ups is
refuted by two requests without any failure. The counterexamples: a vote that was decided by
the old list is inserted after the clean-up and stays for an option nobody can
see; a vote lands between the two statements of DeletePoll, which then fails
with all earlier votes gone; a VoteOnPoll with an outdated list takes the
user's vote for a new option for a withdrawn one and deletes it.

*views.* Counts are of options that are shown unless an UpdatePoll ran between
the two queries or an orphan is counted; no answer counts a user twice.

*sessions.* A token that works is in its user's index unless one of these
happened to it: its SADD fell between a logout's SMEMBERS and DEL, the index
ran out between SADD and EXPIRE, a command on it failed, the server died over
it. A logout leaves no others. Two sessions come from one token only if both
refreshes read it before either deleted it.

*logout.* The first of these is enough to refute what the handler's comment
says: with two clients of one user and no failure, a session added while the
other client logs out loses its entry, and the next logout, which succeeds,
leaves its token in place.

*accounts.* Two sign-ups that both found the name free end with one account,
and one of them with an error that is true. A sign-up that stored the account
and was told of a failure leaves an account its owner can log in to. A login
whose statements work is refused only if there was no such account.

*tabs.* The calls of one page share one refresh, so they never present a token
twice; AuthProvider's own refresh goes past the sharing, and two tabs present
one token freely. What `client.ts:63` throws away when the server refuses a
refresh is never a good pair that a refresh of the same page's calls brought; it can
be one that another tab, a login or the page's own AuthProvider brought (nothing in
the code says otherwise). The last of these takes three parties: a page restores,
its user logs in meanwhile and calls, another tab's logout revokes the login's
pair, the restore's pair is stored, and the refused refresh removes it. After a logout,
answered or not, tokens come back without a login only through a refresh that
was under way when it ended: that one can, in the same tab or in another, as
nothing cancels it (`client.ts:56-57`), so "the user is logged out locally"
(`client.ts:165`) holds but for this.

*ends.* Every call ends, whatever expires or fails, and one whose tokens are
gone takes its page to /login, which the page then really leaves for. What makes it so is that a call retries once: with
a retry that may refresh again, TLC finds a call that never ends.

*builders.* A Save that takes effect, the first or a later one, writes what the
calls asked for last and leaves other columns and rows alone; edges hold what
the calls ask for; a create builder saved again after a lost answer makes no
second row, as the first Save fixed the identifier; no text is
stored empty. A bulk makes both rows or none: no mutator writes before all of them
have checked, and the last one's batch has the specs of all. That the batch itself is one
transaction is assumed of sqlgraph. Four things about builders are as they are and surprise: what a Save
fills in stays in the mutation, for good with an identifier, less so with a time: an
update builder that is saved again, be it after a failure, writes the `updated_at` of
its first Save, and `SavesMeanTheCalls` states just this (the storage layer saves each
builder once); rows
added to an edge before `ClearX` is called on it are still put on it
(`LinksMeanTheCalls` leaves out such edges, `late`); the check "clearing a
required unique edge" refuses an edge that is both cleared and set, and lets one
through that is only cleared, which the NOT NULL column then refuses; `ResetX` of
an edge leaves its column marked as cleared.

In the same run, queries: a query returns as many matching rows as its limit lets
through, with the columns that are selected, and loads exactly the matching rows
at the other end of each edge, also where the column of the edge was not
selected and where the tree is run again; whatever others change between two statements, no load comes to a row
that belongs to none, which the code reports as an "unexpected foreign-key".
What surprises, and is in the model as it is: First, Only and
Exist leave their limit in the query, and IDs its column, so a later All returns
at most that many rows or only identifiers, and a second IDs is refused as it
selects the column twice; loading narrows the queries of the edges for good, so
a tree with limits that is run again may load less than it was asked for
(`AnswersMeanTheCalls` leaves that case out, and nothing in the program runs a query twice).

### Bounds, and why they suffice

Two requests are the smallest number that race, and every race listed under the
hazards is between two; for the properties that are theorems the
number does not matter. One poll: no statement touches two. Two users: an owner
who votes and another voter. Three options and the lists `<<>>`, `<<tea>>`,
`<<tea, milk>>`, `<<tea, mate>>` have an absent list, one that is too short, and
two that drop an option and add one. `MaxFaults` bounds failed statements and
crashes together. Three sessions are one to rotate, the one it becomes, and one
more; identifiers are not used again, so a behaviour of *sessions* stops
issuing after three. Requests, users, sessions and the two options that are
alike are symmetric; no property checked under symmetry is a liveness property.

Two tabs and two chains are the least that have two calls of one page, a call
and a page of another tab, and a logout beside a refresh. Pairs number two more
than the chains: each chain holds at most one, localStorage one, and one is being
made, so a fresh number is always left. *tabs* tells states apart by everything but
`leaving` (VIEW `Sight`): only `Leave` reads it, and with `Reload` enabled as long
as there is a page, every step of `Leave` is one of `Reload`, so states that differ
in nothing else have the same steps. *ends* has one tab, as a chain waits for
nothing but its own page and the server. In *builders* three steps are enough
for a call that another call undoes and a save, and for a call and two saves, of
which the first failed; every pair of calls comes up in both orders. Two creators
of one entity are the smallest bulk. The tables have a row of each entity and
identifiers to come (two of them polls, so that a bulk can succeed, and a row to
refer to that does not exist). Three calls of a query are a load, or two that
nest, with a run or with two. A query runs with no builder at hand, as the
mishap stands for any change that others make.

### Fairness

*ends* assumes, for each chain, weak fairness of `Serve` (the server answers, or
the network reports that it does not) and of `React` (a page that has an answer
runs its handler: the event loop). Both stay enabled until they are taken or
the chain ends otherwise, so weak fairness is enough. For each tab it assumes weak fairness of `Leave`:
a browser that is told to load another page does. Nobody owes a click, a
login, an expiry, a reload or a failure. The other runs assume no fairness: the
calls of the server end after a bounded number of statements by construction.
Only `MCEntQuery_builders.cfg` turns the deadlock check off: its steps are
bounded and it stops when they are used up.

## 4. The proofs

Every theorem is about the specification of its module and has no fairness.
Each rests on an inductive invariant, whose preservation is proved action by
action; the invariants were model-checked on the instances of the runs first.

### Polls and votes

`PollServiceProofs`, `PollSerialProofs` and
`PollViewsProofs` hold for every set of users, polls, options, lists, requests
and readers and every `MaxFaults`, from the assumptions named in `PollStore`,
`PollService` and `PollViews` (lists are sequences of options; the values for
"no row", "no call", "no ask" and "no option" are none of the real ones;
`MaxFaults` is a natural number).

* `TypeCorrect` (`TypeOK`). `TypeOK` alone is not inductive: that a vote's
  option is an option, and not the empty text a client may send, rests on the
  check some statements before the INSERT. `TypeInv` adds `LabelsAgree` (a label
  belongs to its handler) and `RequestInv` (a VoteOnPoll past its check carries
  a real option). `StoreInv`, `LabelsAgree` and `RequestInv` are separate parts
  so that each handler has a lemma that disturbs few of them.
* `OneVote`, `NoVoteWithoutPoll`. `TableStep` says what any step does to the
  tables: nothing, a constrained INSERT, fewer votes, a new row, an update of
  a row, a constrained DELETE. That each step is a table step is proved once per
  handler; the two theorems are then about `TableStep` only.
* `OrphansOnlyByOverlap` (`OrphansNeedOverlap`). The invariant `OverlapInv` adds
  what holds in the middle of the two handlers: `VotersUpToDate` (a VoteOnPoll
  that is not `raced` meets no UpdatePoll between its read and write, and its
  option is still offered), `VotersHavePolls`, and `EditorsCoverVotes`, the heart
  of it: while UpdatePolls are under way, every vote that is not `suspect` is
  for an option of **each** new list, or of the old list that editor is yet to
  clear. `QuietStep` disposes of the steps that touch none of this.
* `VotesAreSafe` (`VotesLeaveByRight`). The statements that delete votes say
  themselves whose votes and which options; what they cannot say is that the
  owner checked by `IsPollOwner` is still the owner. `OwnersHold` is that: the
  check stays true, as no statement changes an owner and a deleted poll does not
  come back. That the poll is there at all follows from `VotesHavePolls`: there
  is a vote to delete.
* `NoOrphansAlone` (`NoOrphansAtRest`) and
  `HandlersImplementBoard` (`SerialCallsAreAtomic`) assume `Alone`, that
  `Requests` has at most one member: what the run *alone* instantiates, with
  the users, polls, lists and faults left open. The assumption cannot be dropped,
  as *orphans* shows. `Calm` has what the one request knows
  at each statement of the tables (the list it read is the poll's, the poll has
  no votes when it is to be dropped, there is a row to write). The refinement goes
  step by step: `EffectivePolls`, a CHOOSE among requests, is first shown to be
  the function `Effect` of the one request's label and call, then each step of a
  handler is one step of the board or none.
* `ViewsTypes`, `VotersAreShownOnce`, `ViewsAreTornByOverlap`
  (`TornViewNeedsOverlap`). `ReadersInOrder` says what a reader has in hand at each
  query, `RowsUpToDate` that the row of a reader which is not `torn` is the poll's,
  with no UpdatePoll about to change it. `RowsStay` is what the handlers give:
  a poll that no UpdatePoll is about to write keeps its options. With
  `OverlapInv`, every vote loaded is then for an option of the row, or `suspect`.
* `VotersCountOnce` (`EachVoterCountsOnce`). The handlers give `ShownOnce`; the
  rest is counting. The total is a fold, a recursive function on the sets of
  options. The proof names another function, the number of votes for a set of
  options, shows that it obeys the same recursion (`VotesForOptions`) and that two
  functions that do agree on a finite set (`SumsAgree`: otherwise there is a
  smallest set on which they differ). `FinitelyMany` says that the sets are finite.

### Sessions

`SessionProofs` holds for every set of users, sessions
and requests and every `MaxFaults`, from `NobodyAssumption` (nobody and no
session are none of the real ones), `KeysAssumption` (a user and a session are
different keys) and `FaultsAssumption`.

* `SessionTypes` (`TypeOK`). `Base` adds `RequestInv`, what a request knows at
  each of its commands (its session is its own, not stored before SET and owned
  by its user after), and `FreshInv` (a session nobody has generated is
  nowhere: no key, no index, no client, no request).
* `TokensAreExchangedOnce` (`TwinsNeedOverlap`). The final property says nothing
  of a refresh under way, so `TwinInv` adds `Swapping`: of two refreshes between
  Validate and SET with the same token one found it contested, and a token that
  a refresh has deleted, or a session came from, is not stored again.
* `IndexCovers` (`IndexCoversTokens`) and `LogoutLeaves`
  (`LogoutLeavesOnlyExposed`). `CoverInv` adds why DEL of an index loses nothing
  that is not exposed: `LogoutsKnow`, when a logout deletes it (what is in the
  index is still on the logout's list or was exposed on its way in), and
  `IndexOutlives`, when it expires (every token in a set with a time to live
  expires before the set, or is exposed, or its EXPIRE is still to come).
  `CoverQuiet` disposes of steps that add nothing.

### Accounts

`AccountsProofs` holds for every set of accounts, emails, names, passwords and
requests and every `MaxFaults`. `AccountTypes` needs what a request's checks have
found by each statement (`CallsAreChecked`); `AccountsAreUnique` is then about the
one INSERT; `SignUpsAreAnsweredTruly` and `LoginsAreAnsweredTruly` are about
answers, which are given long after what they report was seen: `Grows`, that rows
are only added, carries "there is such an account" from the statement that saw it
(`AccountsInHand`) to the answer, and from then on.

### The browser's tokens

`TokenClientProofs` holds for every set of tabs, every finite set of chains and
`TokensAssumption`, that there are two more numbers of pairs than chains. `FreshIsNew`
shows from it, by counting, that an unused number is always left: the bound
on the pairs bounds no behaviour. `ClientInv` is the invariant:

* `KindsAgree`, `PagesRun`, `RetryLeft`: which chain can be at what, that a page that
  is yet to load has none, and that a call that refreshes has its retry still: `Resent`
  takes one away, and `ClientTypes` (`TypeOK`) needs that there is one to take.
* `OneRenewal`, `OneRestore`: a page has at most one refresh that its calls share and
  one of AuthProvider's. It can have one of each, so for `RefreshesArePresentedOnce`
  (`PresentedOnce`) they must not present the same pair. `RestoreComesFirst` is the
  reason: as long as AuthProvider's refresh presents the pair that is stored, the page
  shows no user, so it runs no call; once the page has a user, the stored pair is
  another one.
* `GrantedIsNew`: a pair on its way to its chain is nobody else's.
* `OwnRenewal`, for `OwnPairsAreKept` (`OwnPairIsKept`): while the stored pair is one
  that a refresh of the page brought, a refresh of this page presents that pair,
  and if it is refused, the pair is dead.
* `LogoutHolds`, for `LogoutsHold` (`OnlyRefreshesUndoLogout`): after a logout nothing
  is stored, and every refresh under way is marked.

Two lemmas carry most actions: `DwindlesKeeps` (steps that start no chain and move
none: a page goes, a call ends, tokens are removed) and `AdvancesKeeps` (one chain
moves on); `StartKeeps` and `StoreKeeps` are the rest.

### The ent client

`EntSaveProofs` and `EntQueryProofs` hold for every set of builders, offers, words
and mishaps, for any tables to begin with, and for any number of calls, saves and
runs, with loads as deep as one likes. What they assume is named in `EntSave` and
`EntQuery`: the tables to begin with satisfy the constraints, have complete rows and
no empty text where the builders would refuse one (`StartAssumption`); there are
finitely many identifiers and none is NULL (`IdsAssumption`); no value of a column
and no limit is the value for "nil" (`NoneAssumption`, `LimitAssumption`); the
builders offered, the selections and the bounds have their types.

**The builders.** `EntInv` is the invariant: the types of tables and mutations
(`TableOK`, `WellFormed`), that a builder whose Save was answered is `done`
(`SavedIsDone`), that what a create builder has made is the row of the identifier
it holds (`BornOnce`), and the heart of it, `Agrees`: column by column
(`FieldAgrees`), for the list (`TailAgrees`) and edge by edge (`EdgeAgrees`) a
mutation is what the history `said` makes of the calls. It is needed because a Save
changes the mutation (defaults, the identifier) and may be followed by more calls
and another Save. Preservation is one lemma per call and one per Save.

* `TypesHold`, `NoEmptyTextsHold`, `OneRowHolds` (`TypeOK`, `NoEmptyTexts`,
  `OneRowPerBuilder`) follow from `EntInv`.
* `SavesMeanTheCallsHold`: `Agrees` says what the mutation holds; lemmas about
  defaults (with the times that earlier Saves have left, `Dated`) and checks what it
  holds when the statement is made; `InsertMeans` and
  its like for updates what the tables hold then. `LinksMeanTheCallsHold` is the
  same for edges, where rows are taken off before rows are put on.
* `OldIsNotOwnHolds`: a row is read only if the mutation is not done.
* `BulkIsWholeHolds`: of the steps that may come while a bulk is being saved (a
  mutator, or a change by others) only the last mutator makes a row, and it makes
  both (`BatchFacts`: neither identifier was in the table before). A change by others
  makes no row.

The steps of others and the mishaps are part of `EntStep`, so each of these is proved
of any step that may come, and holds beside a query too (`QueriedRowsHold`,
`QueriedSavesHold`, `QueriedOldAndBulkHold`), which is what *builders* checks.

**The queries.** `QueryInv` adds to `EntInv` that the tables are legal and

* `Trees`: each query lies on an edge of the query above it, and is, apart from what
  loading has added, what was asked (`Alike`: predicates and columns are only added);
* `RunInv`: the queries to come are different ones, each under a query that has
  found nodes, and each node holds the columns that the edges to load need. This is
  where `LoadsFindTheirNodesHolds` comes from: a load keeps the rows at the other
  end of the nodes it was given, and other clients cannot change the nodes;
* `CalmInv`, while nobody else has changed the tables: `Fair`, a predicate left by an
  earlier run keeps out no row that a row above it leads to; `Right`, what is found
  is what matches; `Whole`, the rows at the other end of the nodes above are all found;
  `Complete`, no query of the tree is left out. Without `Fair` the invariant says
  nothing of a second run, whose predicates are those of the first as well;
* `FirstRun`: a query that a first run has not reached is as it was asked. With limits
  `AnswersMeanTheCalls` speaks of first runs only, and this is why it holds of them.

`TreeHolds`, `LoadsFindTheirNodesHolds`, `AnswersMeanTheCallsHold` and `OnlyMeansOneHolds`
follow from it. `QueryInv` was model-checked as an invariant on the instance of
*builders*, and on one with four calls of a query.

The attempt found that two definitions of the model had CASE arms that overlap
(`Rewritten` and `Wanted`): TLC takes the first one, TLA+ leaves the choice open, and
nothing could be proved of them. They are IFs now, in the order of the code. In the
same way `made` and `said` now have the builders there are as domain, and
the tree is empty before `Ask`, where there had been a value outside every type.

### What stays with TLC

The liveness properties `EveryCallEnds` and `SignedOutPagesNotice`: fairness and
ENABLED are beyond the provers. Every other property of a passing run is the
property of a theorem. The four violations of the findings are
counterexamples, which need no proof. That the models follow the code is not
proved either: it rests on reading, at the lines that `PROJECT.json` maps.

## 5. The plan

What has been planned of models and proofs for the components that are modelled is
done. What would come next:

1. **Startup**: the start scripts' waits, the order of Postgres, Redis and
   the server, the server's straight line to Listen.
2. **Options editing and conversion**: the list the editor pages build (trim,
   drop empty ones, at least two), checked against a reference definition; what
   the page shows after a vote.

## 6. Not modelled

Hashing, signing, parsing, HTTP encoding, CORS, rendering and styling: pure
functions of their input with no state. Of the generated ent client: grouping,
aggregation and counting; Order and Unique (which rows a limit keeps is open),
Clone, and a query chained on a query whose calls come later; transactions and
hooks, which the program does not use; `Select` on the row an update returns;
the `X` variants, which panic where the plain call returns an error.
The OpenAPI types and clients. The pages' form state. The
install scripts. Ordering and formatting of lists.
