--------------------------- MODULE PollViewsProofs ---------------------------
(***************************************************************************)
(* Proofs about PollViews: what the readers show, beside any number of     *)
(* handlers that write.  The invariant about the handlers is OverlapInv    *)
(* (PollServiceProofs); a reader's step leaves it alone.                   *)
(***************************************************************************)
EXTENDS PollViews, PollServiceProofs, FiniteSetTheorems, WellFoundedInduction

\* A reader has nothing to query or to show before it has selected votes.
ReadersInOrder ==
    /\ left \in [Readers -> SUBSET VoteRows]
    /\ \A q \in Readers :
          /\ rpc[q] # "Users" => left[q] = {}
          /\ rpc[q] \in {"Poll", "Votes"} => shown[q] = {}
          /\ rpc[q] # "idle" => polls[ask[q].poll] # Unborn

\* The row of a reader whose view is not torn: no UpdatePoll is about to
\* replace it, and none has.
RowsUpToDate ==
    \A q \in Readers \ torn : rpc[q] = "Votes" =>
        /\ Editors(ask[q].poll) = {}
        /\ Live(ask[q].poll) => row[q] = polls[ask[q].poll].options

\* The votes of an answer are of different users.
ShownOnce ==
    \A q \in Readers : \A v, w \in shown[q] : v.user = w.user => v = w

HandlersInv == Before /\ OneVotePerUser

ViewsInv == HandlersInv /\ ViewsTypeOK /\ ReadersInOrder /\ RowsUpToDate /\ ShownOnce

----------------------------------------------------------------------------
(***************************************************************************)
(* What the handlers that write do to a poll that no UpdatePoll is about   *)
(* to change.                                                              *)
(***************************************************************************)
LEMMA RowsStay ==
    ASSUME Before, [Next]_vars, NEW p \in Polls, polls[p] # Unborn
    PROVE  /\ polls'[p] # Unborn
           /\ Editors(p) = {} /\ Live(p)' =>
                 Live(p) /\ polls'[p].options = polls[p].options
<1> USE DEF Before, TypeInv
<1>1. CASE polls'[p] = polls[p]
  BY <1>1 DEF Live
<1>2. ASSUME NEW r \in Requests, WritePoll(r), polls'[p] # polls[p]
      PROVE  /\ polls'[p] \in Rows /\ Live(p)
             /\ Editors(p) = {} => polls'[p].options = polls[p].options
  <2>1. UpdatePollRow(call[r].poll, call[r].options) /\ pc[r] = "Write"
    BY <1>2 DEF WritePoll, storeVars, At
  <2>2. call[r].poll = p /\ polls[p] \in Rows /\ Live(p)
    BY <1>2, <2>1, LiveRow DEF UpdatePollRow, StoreInv, StoreTypeOK
  <2>3. call[r].options \in OptionLists \cup {<<>>}
    BY <2>1 DEF RequestInv, Calls
  <2>4. /\ polls'[p] \in Rows
        /\ call[r].options = <<>> => polls'[p].options = polls[p].options
    BY <2>1, <2>2, <2>3 DEF UpdatePollRow, StoreInv, StoreTypeOK, Rows
  <2>5. call[r].options # <<>> => r \in Editors(p)
    BY <2>1, <2>2 DEF Editors
  <2> QED
    BY <2>2, <2>4, <2>5
<1>3. ASSUME polls'[p] # polls[p], \A r \in Requests : ~WritePoll(r)
      PROVE  polls'[p] = Gone
  <2>1. PICK r \in Requests : Step(r)
    BY <1>3 DEF Next, vars, Begin, StatementFails, Crash, Reading
  <2>2. CASE CreatePollRow(call[r].poll, call[r].user, call[r].options)
    BY <1>3, <2>2 DEF CreatePollRow, StoreInv, StoreTypeOK
  <2>3. CASE DeletePollRow(call[r].poll)
    BY <1>3, <2>3 DEF DeletePollRow, StoreInv, StoreTypeOK
  <2>4. \/ UNCHANGED polls
        \/ CreatePollRow(call[r].poll, call[r].user, call[r].options)
        \/ DeletePollRow(call[r].poll)
    BY <1>3, <2>1, DeletedVotes
    DEF Step, InsertPoll, UpdatePoll, CheckOwner, ReadCurrent, ClearRemoved, DeletePoll,
        CheckDeleter, ClearVotes, DropPoll, VoteOnPoll, ReadOptions, LookupVote, ReplaceVote,
        InsertVote, DeleteVote, CheckPoll, FindVote, RemoveVote, Reading, storeVars, CreateVote
  <2> QED
    BY <1>3, <2>2, <2>3, <2>4
<1> QED
  BY <1>1, <1>2, <1>3, NoRowAssumption DEF Live

LEMMA HandlersNext ==
    ASSUME HandlersInv, [Next]_vars
    PROVE  HandlersInv'
<1>1. TypeInv' /\ TableStep /\ StoreInv
  BY TypeNext, StepsAreTableSteps DEF HandlersInv, Before, TypeInv
<1>2. OneVotePerUser' /\ VotesHavePolls'
  BY <1>1, TableStepKeepsOneVote, TableStepKeepsPolls DEF HandlersInv, Before
<1> QED
  BY <1>1, <1>2, OverlapNext DEF HandlersInv, Before

\* A query of a reader fails.
LEMMA HandlersFault ==
    ASSUME HandlersInv, faults' \in 0..MaxFaults,
           UNCHANGED <<polls, votes, call, pc, seen, reply, raced, suspect>>
    PROVE  HandlersInv'
BY DEF HandlersInv, Before, TypeInv, RequestInv, LabelsAgree, StoreInv, StoreTypeOK,
       OneVotePerUser, VotesHavePolls, OverlapInv, OrphansNeedOverlap, VotersUpToDate,
       VotersHavePolls, EditorsCoverVotes, Voting, Editors, Live, VotesOn

LEMMA OneMoreFault ==
    ASSUME HandlersInv, faults < MaxFaults, faults' = faults + 1
    PROVE  faults' \in 0..MaxFaults
BY FaultsAssumption DEF HandlersInv, Before, TypeInv, RequestInv

LEMMA ReadKeepsHandlers ==
    ASSUME HandlersInv, NEW q \in Readers, Read(q)
    PROVE  HandlersInv'
<1>1. CASE BeginRead(q) \/ ReadRow(q) \/ LoadVotes(q)
  BY <1>1, HandlersNext DEF BeginRead, ReadRow, LoadVotes
<1>2. CASE LoadUser(q) \/ QueryFails(q)
  <2>1. UNCHANGED <<polls, votes, call, pc, seen, reply, raced, suspect>>
    BY <1>2 DEF LoadUser, QueryFails
  <2>2. faults' \in 0..MaxFaults
    BY <1>2, OneMoreFault DEF LoadUser, QueryFails, HandlersInv, Before, TypeInv, RequestInv
  <2> QED
    BY <2>1, <2>2, HandlersFault
<1> QED
  BY <1>1, <1>2 DEF Read

----------------------------------------------------------------------------
ReadersInv == ViewsTypeOK /\ ReadersInOrder /\ RowsUpToDate /\ ShownOnce

\* What a step of q leaves of the other readers.
OtherReaders(q) ==
    \A o \in Readers \ {q} :
        /\ ask'[o] = ask[o] /\ rpc'[o] = rpc[o] /\ row'[o] = row[o]
        /\ shown'[o] = shown[o] /\ left'[o] = left[o]
        /\ o \in torn' <=> o \in torn

(***************************************************************************)
(* A step of one reader keeps the readers' invariant if it keeps what the  *)
(* invariant says of that reader.                                          *)
(***************************************************************************)
LEMMA OneReader ==
    ASSUME ReadersInv, NEW q \in Readers, OtherReaders(q),
           UNCHANGED <<polls, votes, call, pc, suspect>>,
           ask' \in [Readers -> Asks \cup {NoAsk}],
           rpc' \in [Readers -> {"idle", "Poll", "Votes", "Users"}],
           row' \in [Readers -> OptionLists \cup {<<>>}],
           shown' \in [Readers -> SUBSET VoteRows],
           left' \in [Readers -> SUBSET VoteRows],
           deleted' \in [Readers -> SUBSET VoteRows],
           torn' \subseteq Readers,
           rpc'[q] # "idle" => ask'[q] \in Asks /\ polls[ask'[q].poll] # Unborn,
           left'[q] \subseteq shown'[q],
           rpc'[q] # "Users" => left'[q] = {},
           rpc'[q] \in {"Poll", "Votes"} => shown'[q] = {},
           q \notin torn' /\ rpc'[q] = "Votes" =>
               /\ Editors(ask'[q].poll) = {}
               /\ Live(ask'[q].poll) => row'[q] = polls[ask'[q].poll].options,
           \A v, w \in shown'[q] : v.user = w.user => v = w
    PROVE  ReadersInv'
<1> USE DEF ReadersInv
<1>1. \A p : Editors(p)' = Editors(p) /\ (Live(p)' <=> Live(p))
  BY DEF Editors, Live
<1>2. ViewsTypeOK'
  BY DEF ViewsTypeOK, OtherReaders
<1>3. ReadersInOrder'
  BY DEF ReadersInOrder, OtherReaders
<1>4. RowsUpToDate'
  BY <1>1 DEF RowsUpToDate, OtherReaders
<1>5. ShownOnce'
  BY DEF ShownOnce, OtherReaders
<1> QED
  BY <1>2, <1>3, <1>4, <1>5

LEMMA CloseReader ==
    ASSUME ReadersInv, NEW q \in Readers, Close(q),
           UNCHANGED <<polls, votes, call, pc, suspect>>,
           shown' \in [Readers -> SUBSET VoteRows],
           \A o \in Readers \ {q} : shown'[o] = shown[o],
           \A v, w \in shown'[q] : v.user = w.user => v = w
    PROVE  ReadersInv'
<1>1. /\ OtherReaders(q) /\ rpc'[q] = "idle" /\ left'[q] = {}
      /\ ask' \in [Readers -> Asks \cup {NoAsk}]
      /\ rpc' \in [Readers -> {"idle", "Poll", "Votes", "Users"}]
      /\ row' \in [Readers -> OptionLists \cup {<<>>}]
      /\ left' \in [Readers -> SUBSET VoteRows]
      /\ deleted' \in [Readers -> SUBSET VoteRows]
      /\ torn' \subseteq Readers
  BY DEF Close, OtherReaders, ReadersInv, ViewsTypeOK, ReadersInOrder
<1> QED
  BY <1>1, OneReader

LEMMA BeginReadKeeps ==
    ASSUME HandlersInv, ReadersInv, NEW q \in Readers, BeginRead(q)
    PROVE  ReadersInv'
<1> USE DEF ReadersInv, ViewsTypeOK, ReadersInOrder
<1>1. PICK k \in Asks : polls[k.poll] # Unborn /\ ask' = [ask EXCEPT ![q] = k]
  BY DEF BeginRead
<1>2. /\ rpc[q] = "idle" /\ rpc' = [rpc EXCEPT ![q] = "Poll"]
      /\ shown' = [shown EXCEPT ![q] = {}] /\ UNCHANGED <<row, left, deleted, torn>>
      /\ UNCHANGED <<polls, votes, call, pc, suspect>>
  BY DEF BeginRead, vars
<1>3. OtherReaders(q)
  BY <1>1, <1>2 DEF OtherReaders
<1>4. /\ ask'[q] = k /\ rpc'[q] = "Poll" /\ shown'[q] = {} /\ left'[q] = {}
  BY <1>1, <1>2
<1>5. /\ ask' \in [Readers -> Asks \cup {NoAsk}]
      /\ rpc' \in [Readers -> {"idle", "Poll", "Votes", "Users"}]
      /\ shown' \in [Readers -> SUBSET VoteRows]
  BY <1>1, <1>2
<1> QED
  BY <1>1, <1>2, <1>3, <1>4, <1>5, OneReader

LEMMA ReadRowKeeps ==
    ASSUME HandlersInv, ReadersInv, NEW q \in Readers, ReadRow(q)
    PROVE  ReadersInv'
<1> USE DEF ReadersInv, ViewsTypeOK, ReadersInOrder
<1>1. rpc[q] = "Poll" /\ UNCHANGED <<polls, votes, call, pc, suspect>>
  BY DEF ReadRow, vars
<1>2. CASE Close(q) /\ UNCHANGED shown
  BY <1>1, <1>2, CloseReader DEF ShownOnce
<1>3. CASE /\ Live(ask[q].poll)
           /\ rpc' = [rpc EXCEPT ![q] = "Votes"]
           /\ row' = [row EXCEPT ![q] = polls[ask[q].poll].options]
           /\ torn' = IF Editors(ask[q].poll) = {} THEN torn ELSE torn \cup {q}
           /\ UNCHANGED <<ask, shown, left, deleted>>
  <2>1. ask[q] \in Asks /\ ask[q].poll \in Polls
    BY <1>1 DEF Asks
  <2>2. polls[ask[q].poll].options \in OptionLists
    BY <1>3, <2>1, LiveRow DEF HandlersInv, Before, TypeInv, StoreInv, Rows
  <2>3. OtherReaders(q)
    BY <1>3 DEF OtherReaders
  <2>4. /\ rpc'[q] = "Votes" /\ row'[q] = polls[ask[q].poll].options
        /\ rpc' \in [Readers -> {"idle", "Poll", "Votes", "Users"}]
        /\ row' \in [Readers -> OptionLists \cup {<<>>}]
        /\ torn' \subseteq Readers
        /\ q \notin torn' => Editors(ask[q].poll) = {}
    BY <1>3, <2>2
  <2> QED
    BY <1>1, <1>3, <2>1, <2>3, <2>4, OneReader
<1> QED
  BY <1>2, <1>3 DEF ReadRow

LEMMA LoadVotesKeeps ==
    ASSUME HandlersInv, ReadersInv, NEW q \in Readers, LoadVotes(q)
    PROVE  ReadersInv'
<1> USE DEF ReadersInv, ViewsTypeOK, ReadersInOrder
<1> DEFINE found == Selected(ask[q])
<1>1. /\ rpc[q] = "Votes" /\ shown' = [shown EXCEPT ![q] = found]
      /\ UNCHANGED <<polls, votes, call, pc, suspect>>
  BY DEF LoadVotes, vars
<1>2. found \subseteq VotesOn(ask[q].poll) /\ found \subseteq VoteRows
  BY DEF Selected, VotesOn, HandlersInv, Before, TypeInv, StoreInv, StoreTypeOK
<1>3. \A v, w \in found : v.user = w.user => v = w
  BY <1>2 DEF VotesOn, HandlersInv, OneVotePerUser
<1> HIDE DEF found
<1>4. shown' \in [Readers -> SUBSET VoteRows] /\ shown'[q] = found
  BY <1>1, <1>2
<1>5. CASE Close(q)
  BY <1>1, <1>3, <1>4, <1>5, CloseReader
<1>6. CASE /\ rpc' = [rpc EXCEPT ![q] = "Users"]
           /\ left' = [left EXCEPT ![q] = found]
           /\ UNCHANGED <<ask, row, deleted, torn>>
  <2>1. OtherReaders(q)
    BY <1>1, <1>6 DEF OtherReaders
  <2>2. /\ rpc'[q] = "Users" /\ left'[q] = found
        /\ rpc' \in [Readers -> {"idle", "Poll", "Votes", "Users"}]
        /\ left' \in [Readers -> SUBSET VoteRows]
    BY <1>2, <1>6
  <2> QED
    BY <1>1, <1>3, <1>4, <1>6, <2>1, <2>2, OneReader
<1> QED
  BY <1>5, <1>6 DEF LoadVotes, found

LEMMA LoadUserKeeps ==
    ASSUME HandlersInv, ReadersInv, NEW q \in Readers, LoadUser(q)
    PROVE  ReadersInv'
<1> USE DEF ReadersInv, ViewsTypeOK, ReadersInOrder
<1>1. rpc[q] = "Users" /\ UNCHANGED <<polls, votes, call, pc, suspect>>
  BY DEF LoadUser
<1>2. PICK v \in left[q] :
         /\ UNCHANGED shown \/ shown' = [shown EXCEPT ![q] = @ \ {v}]
         /\ \/ Close(q)
            \/ left' = [left EXCEPT ![q] = @ \ {v}] /\ UNCHANGED <<ask, rpc, row, deleted, torn>>
  BY DEF LoadUser
<1>3. /\ shown' \in [Readers -> SUBSET VoteRows]
      /\ shown[q] \ {v} \subseteq shown'[q] /\ shown'[q] \subseteq shown[q]
      /\ \A o \in Readers \ {q} : shown'[o] = shown[o]
  BY <1>2
<1>4. \A w, x \in shown'[q] : w.user = x.user => w = x
  BY <1>3 DEF ShownOnce
<1>5. CASE Close(q)
  BY <1>1, <1>3, <1>4, <1>5, CloseReader
<1>6. CASE left' = [left EXCEPT ![q] = @ \ {v}] /\ UNCHANGED <<ask, rpc, row, deleted, torn>>
  <2>1. OtherReaders(q)
    BY <1>3, <1>6 DEF OtherReaders
  <2>2. /\ left'[q] \subseteq shown'[q] /\ left' \in [Readers -> SUBSET VoteRows]
    BY <1>3, <1>6
  <2> QED
    BY <1>1, <1>3, <1>4, <1>6, <2>1, <2>2, OneReader
<1> QED
  BY <1>2, <1>5, <1>6

LEMMA QueryFailsKeeps ==
    ASSUME HandlersInv, ReadersInv, NEW q \in Readers, QueryFails(q)
    PROVE  ReadersInv'
BY CloseReader DEF QueryFails, ReadersInv, ViewsTypeOK, ShownOnce

(***************************************************************************)
(* A step of a handler that writes outdates no row without the reader      *)
(* becoming torn.                                                          *)
(***************************************************************************)
LEMMA WriteKeeps ==
    ASSUME HandlersInv, ReadersInv, Write
    PROVE  ReadersInv'
<1> USE DEF ReadersInv, ViewsTypeOK, ReadersInOrder
<1>1. /\ [Next]_vars /\ UNCHANGED <<ask, rpc, row, shown, left>>
      /\ deleted' = [q \in Readers |-> deleted[q] \cup (left[q] \cap (votes \ votes'))]
      /\ torn' = torn \cup {q \in Readers : rpc[q] = "Votes" /\ Editors(ask[q].poll)' # {}}
  BY DEF Write, Next
<1>2. ASSUME NEW q \in Readers, rpc[q] # "idle"
      PROVE  /\ polls'[ask[q].poll] # Unborn
             /\ Editors(ask[q].poll) = {} /\ Live(ask[q].poll)' =>
                   /\ Live(ask[q].poll)
                   /\ polls'[ask[q].poll].options = polls[ask[q].poll].options
  <2>1. ask[q].poll \in Polls /\ polls[ask[q].poll] # Unborn
    BY <1>2 DEF Asks
  <2>2. PICK p \in Polls : p = ask[q].poll
    BY <2>1
  <2>3. polls[p] # Unborn
    BY <2>1, <2>2
  <2>4. /\ polls'[p] # Unborn
        /\ Editors(p) = {} /\ Live(p)' => Live(p) /\ polls'[p].options = polls[p].options
    BY <1>1, <2>3, RowsStay DEF HandlersInv
  <2> QED
    BY <1>1, <2>2, <2>4 DEF Live
<1>3. ReadersInOrder'
  BY <1>1, <1>2
<1>4. RowsUpToDate'
  <2> SUFFICES ASSUME NEW q \in Readers \ torn', rpc'[q] = "Votes"
               PROVE  (/\ Editors(ask[q].poll) = {}
                       /\ Live(ask[q].poll) => row[q] = polls[ask[q].poll].options)'
    BY DEF RowsUpToDate
  <2>1. q \in Readers \ torn /\ rpc[q] = "Votes" /\ ask'[q] = ask[q] /\ row'[q] = row[q]
    BY <1>1
  <2>2. Editors(ask[q].poll)' = {}
    BY <1>1, <2>1
  <2>3. /\ Editors(ask[q].poll) = {}
        /\ Live(ask[q].poll) => row[q] = polls[ask[q].poll].options
    BY <2>1 DEF RowsUpToDate
  <2> QED
    BY <1>2, <2>1, <2>2, <2>3
<1>5. ShownOnce' /\ ViewsTypeOK'
  BY <1>1 DEF ShownOnce
<1> QED
  BY <1>3, <1>4, <1>5

LEMMA CrashKeeps ==
    ASSUME HandlersInv, ReadersInv, CrashAll
    PROVE  ReadersInv'
BY DEF CrashAll, ReadersInv, ViewsTypeOK, ReadersInOrder, RowsUpToDate, ShownOnce

----------------------------------------------------------------------------
LEMMA ViewsInvInit == ViewsInit => ViewsInv
<1> SUFFICES ASSUME ViewsInit PROVE ViewsInv
  OBVIOUS
<1>1. Init
  BY DEF ViewsInit
<1>2. TypeInv
  BY <1>1, TypeInit
<1>3. HandlersInv
  BY <1>1, <1>2
  DEF Init, InitStore, HandlersInv, Before, OneVotePerUser, VotesHavePolls, OverlapInv,
      OrphansNeedOverlap, VotersUpToDate, VotersHavePolls, EditorsCoverVotes, Voting, VotesOn
<1> QED
  BY <1>3 DEF ViewsInit, ViewsInv, ViewsTypeOK, ReadersInOrder, RowsUpToDate, ShownOnce

LEMMA ViewsInvNext == ViewsInv /\ [ViewsNext]_allVars => ViewsInv'
<1> SUFFICES ASSUME ViewsInv, [ViewsNext]_allVars PROVE ViewsInv'
  OBVIOUS
<1>1. HandlersInv /\ ReadersInv
  BY DEF ViewsInv, ReadersInv
<1>2. CASE Write
  BY <1>1, <1>2, HandlersNext, WriteKeeps DEF Write, Next, ViewsInv, ReadersInv
<1>3. CASE CrashAll
  BY <1>1, <1>3, HandlersNext, CrashKeeps DEF CrashAll, Next, ViewsInv, ReadersInv
<1>4. ASSUME NEW q \in Readers, Read(q) PROVE ViewsInv'
  <2>1. HandlersInv'
    BY <1>1, <1>4, ReadKeepsHandlers
  <2>2. ReadersInv'
    BY <1>1, <1>4, BeginReadKeeps, ReadRowKeeps, LoadVotesKeeps, LoadUserKeeps, QueryFailsKeeps
    DEF Read
  <2> QED
    BY <2>1, <2>2 DEF ViewsInv, ReadersInv
<1>5. CASE UNCHANGED allVars
  <2>1. UNCHANGED vars /\ UNCHANGED <<ask, rpc, row, shown, left, deleted, torn>>
    BY <1>5 DEF allVars, readerVars
  <2>2. HandlersInv'
    BY <1>1, <2>1, HandlersNext
  <2>3. \A p : Editors(p)' = Editors(p) /\ (Live(p)' <=> Live(p)) /\ UNCHANGED polls
    BY <2>1 DEF vars, Editors, Live
  <2>4. ReadersInv'
    BY <1>1, <2>1, <2>3 DEF ReadersInv, ViewsTypeOK, ReadersInOrder, RowsUpToDate, ShownOnce
  <2> QED
    BY <2>2, <2>4 DEF ViewsInv, ReadersInv
<1> QED
  BY <1>2, <1>3, <1>4, <1>5 DEF ViewsNext

LEMMA ViewsAlways == ViewsSpec => []ViewsInv
BY ViewsInvInit, ViewsInvNext, PTL DEF ViewsSpec

(***************************************************************************)
(* The readers' variables keep their types; a vote whose user is still to  *)
(* be queried is one of those the answer is made of.                       *)
(***************************************************************************)
THEOREM ViewsTypes == ViewsSpec => []ViewsTypeOK
<1>1. ViewsInv => ViewsTypeOK
  BY DEF ViewsInv
<1> QED
  BY <1>1, ViewsAlways, PTL

(***************************************************************************)
(* No answer is made of two votes of one user, even if a vote is replaced  *)
(* while GetVotersByOption asks for the users one by one                   *)
(* (service/vote_service.go:106).                                          *)
(***************************************************************************)
THEOREM VotersAreShownOnce == ViewsSpec => []ShownOnce
<1>1. ViewsInv => ShownOnce
  BY DEF ViewsInv
<1> QED
  BY <1>1, ViewsAlways, PTL

(***************************************************************************)
(* GetPoll counts a vote for an option that it does not show only if an    *)
(* UpdatePoll overlapped it, or the vote is an orphan.                     *)
(***************************************************************************)
LEMMA ViewStep ==
    ASSUME ViewsInv, ViewsNext, NEW q \in Readers \ torn,
           rpc[q] = "Votes", ask[q].kind = "GetPoll", rpc'[q] = "idle"
    PROVE  DOMAIN VoteCounts(shown'[q] \ suspect) \subseteq Offered(row[q])
<1> USE DEF ViewsInv, HandlersInv, Before
<1>1. DOMAIN VoteCounts(shown'[q] \ suspect) = {v.option : v \in shown'[q] \ suspect}
  BY DEF VoteCounts
<1>2. shown[q] = {}
  BY DEF ReadersInOrder
<1>3. CASE shown'[q] = {}
  BY <1>1, <1>3
<1>4. CASE LoadVotes(q)
  <2>1. shown'[q] \subseteq VotesOn(ask[q].poll)
    BY <1>4 DEF LoadVotes, Selected, ViewsTypeOK
  <2>2. ASSUME NEW v \in shown'[q] \ suspect
        PROVE  v.option \in Offered(row[q])
    <3>1. v \in votes \ suspect /\ v.poll = ask[q].poll
      BY <2>1, <2>2 DEF VotesOn
    <3>2. Live(ask[q].poll) /\ v.option \in Offered(polls[ask[q].poll].options)
      BY <3>1 DEF VotesHavePolls, OverlapInv, OrphansNeedOverlap
    <3>3. row[q] = polls[ask[q].poll].options
      BY <3>2 DEF RowsUpToDate
    <3> QED
      BY <3>2, <3>3
  <2> QED
    BY <1>1, <2>2
<1>5. ASSUME NEW o \in Readers, Read(o), ~LoadVotes(q)
      PROVE  shown'[q] = {}
  <2>1. o = q => ~LoadUser(o)
    BY DEF LoadUser
  <2> QED
    BY <1>2, <1>5, <2>1
    DEF Read, BeginRead, ReadRow, LoadVotes, LoadUser, QueryFails, ViewsTypeOK, vars
<1>6. CASE Write \/ CrashAll
  BY <1>2, <1>3, <1>6 DEF Write, CrashAll
<1> QED
  BY <1>3, <1>4, <1>5, <1>6 DEF ViewsNext

THEOREM ViewsAreTornByOverlap == ViewsSpec => TornViewNeedsOverlap
<1>1. ViewsInv /\ [ViewsNext]_allVars =>
        [\A q \in Readers \ torn :
            rpc[q] = "Votes" /\ ask[q].kind = "GetPoll" /\ rpc'[q] = "idle" =>
                DOMAIN VoteCounts(shown'[q] \ suspect) \subseteq Offered(row[q])]_allVars
  BY ViewStep
<1> QED
  BY <1>1, ViewsAlways, PTL DEF ViewsSpec, TornViewNeedsOverlap

----------------------------------------------------------------------------
(***************************************************************************)
(* Counting.  The fold that adds up the counts of the options picks one    *)
(* option after another; the number of votes for a set of options obeys    *)
(* the same recursion, which has one solution on a finite set.             *)
(***************************************************************************)
Pick(s) == CHOOSE o \in s : TRUE

Sums(g, f) ==
    g = [s \in SUBSET DOMAIN f |-> IF s = {} THEN 0 ELSE f[Pick(s)] + g[s \ {Pick(s)}]]

LEMMA TotalIsASum ==
    ASSUME NEW f, NEW g, Sums(g, f)
    PROVE  \E h : Sums(h, f) /\ TotalVotes(f) = h[DOMAIN f]
<1> DEFINE Unfold(h) == [s \in SUBSET DOMAIN f |->
                          IF s = {} THEN 0
                          ELSE f[CHOOSE o \in s : TRUE] + h[s \ {CHOOSE o \in s : TRUE}]]
           h == CHOOSE k : k = Unfold(k)
<1>1. \E k : k = Unfold(k)
  BY DEF Sums, Pick
<1>2. h = Unfold(h)
  BY <1>1, Zenon
<1>3. Sums(h, f)
  BY <1>2 DEF Sums, Pick
<1>4. TotalVotes(f) = h[DOMAIN f]
  BY Zenon DEF TotalVotes, FoldFunction, FoldFunctionOnSet, MapThenFoldSet
<1> QED
  BY <1>3, <1>4

LEMMA LeastCount ==
    ASSUME NEW S \in SUBSET Nat, S # {}
    PROVE  \E n \in S : \A k \in S : n <= k
<1>1. PICK n \in S : \A k \in S : ~ (<<k, n>> \in OpToRel(<, Nat))
  BY WFMin, NatLessThanWellFounded, Zenon
<1>2. \A k \in S : ~ (k < n)
  BY <1>1 DEF OpToRel
<1> QED
  BY <1>2

LEMMA SumsAgree ==
    ASSUME NEW f, IsFiniteSet(DOMAIN f), NEW g, NEW h, Sums(g, f), Sums(h, f)
    PROVE  g[DOMAIN f] = h[DOMAIN f]
<1> DEFINE Differ == {s \in SUBSET DOMAIN f : g[s] # h[s]}
           Sizes == {Cardinality(s) : s \in Differ}
<1>1. \A s \in SUBSET DOMAIN f : IsFiniteSet(s) /\ Cardinality(s) \in Nat
  BY FS_Subset, FS_CardinalityType
<1>2. \A s \in SUBSET DOMAIN f :
          /\ g[s] = IF s = {} THEN 0 ELSE f[Pick(s)] + g[s \ {Pick(s)}]
          /\ h[s] = IF s = {} THEN 0 ELSE f[Pick(s)] + h[s \ {Pick(s)}]
  BY DEF Sums
<1>3. ASSUME Differ # {} PROVE FALSE
  <2>1. Sizes \in SUBSET Nat /\ Sizes # {}
    BY <1>1, <1>3
  <2>2. PICK n \in Sizes : \A k \in Sizes : n <= k
    BY <2>1, LeastCount
  <2>3. PICK s \in Differ : Cardinality(s) = n
    OBVIOUS
  <2>4. s # {}
    BY <1>2
  <2>5. Pick(s) \in s
    BY <2>4 DEF Pick
  <2>6. Cardinality(s \ {Pick(s)}) = n - 1
    BY <1>1, <2>3, <2>5, FS_RemoveElement
  <2>7. s \ {Pick(s)} \in SUBSET DOMAIN f /\ n \in Nat
    BY <2>1
  <2>8. s \ {Pick(s)} \notin Differ
    BY <2>2, <2>6, <2>7
  <2> QED
    BY <1>2, <2>4, <2>7, <2>8
<1> QED
  BY <1>3

LEMMA VotesForOptions ==
    ASSUME NEW loaded, IsFiniteSet(loaded)
    PROVE  Sums([s \in SUBSET DOMAIN VoteCounts(loaded) |->
                     Cardinality({v \in loaded : v.option \in s})],
                VoteCounts(loaded))
<1> DEFINE D == {v.option : v \in loaded}
           Those(s) == {v \in loaded : v.option \in s}
           g == [s \in SUBSET D |-> Cardinality(Those(s))]
<1>1. DOMAIN VoteCounts(loaded) = D
  BY DEF VoteCounts
<1>2. ASSUME NEW s \in SUBSET D, s # {}
      PROVE  g[s] = VoteCounts(loaded)[Pick(s)] + g[s \ {Pick(s)}]
  <2>1. Pick(s) \in s
    BY <1>2 DEF Pick
  <2> DEFINE rest == s \ {Pick(s)}
             one == {v \in loaded : v.option = Pick(s)}
  <2>2. VoteCounts(loaded)[Pick(s)] = Cardinality(one)
    BY <2>1 DEF VoteCounts
  <2>3. Those(s) = one \cup Those(rest) /\ one \cap Those(rest) = {}
    BY <2>1
  <2>4. IsFiniteSet(one) /\ IsFiniteSet(Those(rest))
    BY FS_Subset
  <2>5. Cardinality(one) \in Nat /\ Cardinality(Those(rest)) \in Nat
    BY <2>4, FS_CardinalityType
  <2>6. Cardinality(Those(s)) = Cardinality(one) + Cardinality(Those(rest))
    <3>1. Cardinality(one \cup Those(rest))
            = Cardinality(one) + Cardinality(Those(rest)) - Cardinality(one \cap Those(rest))
      BY <2>4, FS_Union, Zenon
    <3>2. Cardinality(one \cap Those(rest)) = 0 /\ Those(s) = one \cup Those(rest)
      BY <2>3, FS_EmptySet, Zenon
    <3> HIDE DEF Those, one, rest
    <3> QED
      BY <2>5, <3>1, <3>2
  <2>7. rest \in SUBSET D
    OBVIOUS
  <2> QED
    BY <2>2, <2>6, <2>7
<1>3. g[{}] = 0
  <2>1. Those({}) = {}
    OBVIOUS
  <2> QED
    BY <2>1, FS_EmptySet
<1>4. g = [s \in SUBSET D |-> IF s = {} THEN 0
                              ELSE VoteCounts(loaded)[Pick(s)] + g[s \ {Pick(s)}]]
  <2> HIDE DEF D
  <2>1. \A s \in SUBSET D : g[s] = IF s = {} THEN 0
                              ELSE VoteCounts(loaded)[Pick(s)] + g[s \ {Pick(s)}]
    BY <1>2, <1>3
  <2> QED
    BY <2>1
<1> QED
  BY <1>1, <1>4 DEF Sums

(***************************************************************************)
(* The counts of any votes add up to their number.                         *)
(***************************************************************************)
LEMMA CountsAddUp ==
    ASSUME NEW loaded, IsFiniteSet(loaded)
    PROVE  TotalVotes(VoteCounts(loaded)) = Cardinality(loaded)
<1> DEFINE D == {v.option : v \in loaded}
           g == [s \in SUBSET DOMAIN VoteCounts(loaded) |->
                    Cardinality({v \in loaded : v.option \in s})]
<1>1. DOMAIN VoteCounts(loaded) = D
  BY DEF VoteCounts
<1>2. IsFiniteSet(D)
  <2>1. [v \in loaded |-> v.option] \in Surjection(loaded, D)
    BY DEF Surjection
  <2> QED
    BY <2>1, FS_Surjection
<1>3. Sums(g, VoteCounts(loaded))
  BY VotesForOptions
<1>4. PICK h : Sums(h, VoteCounts(loaded)) /\ TotalVotes(VoteCounts(loaded)) = h[DOMAIN VoteCounts(loaded)]
  BY <1>3, TotalIsASum
<1>5. h[D] = g[D]
  <2> HIDE DEF D, g
  <2> QED
    BY <1>1, <1>2, <1>3, <1>4, SumsAgree
<1>6. {v \in loaded : v.option \in D} = loaded
  OBVIOUS
<1>7. g[D] = Cardinality(loaded)
  BY <1>1, <1>6
<1> QED
  BY <1>1, <1>4, <1>5, <1>7

LEMMA UsersOfVotes ==
    ASSUME NEW loaded, IsFiniteSet(loaded), \A v, w \in loaded : v.user = w.user => v = w
    PROVE  Cardinality({v.user : v \in loaded}) = Cardinality(loaded)
<1> DEFINE T == {v.user : v \in loaded}
           f == [v \in loaded |-> v.user]
<1>1. f \in [loaded -> T] /\ \A v \in loaded : f[v] = v.user
  OBVIOUS
<1>3. f \in Injection(loaded, T)
  BY <1>1 DEF Injection, IsInjective
<1>4. f \in Surjection(loaded, T)
  BY <1>1 DEF Surjection
<1>5. f \in Bijection(loaded, T)
  BY <1>3, <1>4 DEF Bijection
<1>2. ExistsBijection(loaded, T)
  BY <1>5 DEF ExistsBijection
<1> QED
  BY <1>2, FS_Bijection

----------------------------------------------------------------------------
(***************************************************************************)
(* There are finitely many votes: the tables start empty and grow by one   *)
(* row at a time.                                                          *)
(***************************************************************************)
FinitelyMany == IsFiniteSet(votes) /\ \A q \in Readers : IsFiniteSet(shown[q])

LEMMA FiniteVotes ==
    ASSUME IsFiniteSet(votes), TableStep
    PROVE  IsFiniteSet(votes')
<1>1. CASE votes' \subseteq votes
  BY <1>1, FS_Subset
<1>2. ASSUME NEW u \in Users, NEW p \in Polls, NEW o \in Options, CreateVote(u, p, o)
      PROVE  IsFiniteSet(votes')
  BY <1>2, FS_AddElement DEF CreateVote
<1> QED
  BY <1>1, <1>2 DEF TableStep, CreatePollRow, UpdatePollRow, DeletePollRow, storeVars

LEMMA FiniteNext == ViewsInv /\ FinitelyMany /\ [ViewsNext]_allVars => FinitelyMany'
<1> SUFFICES ASSUME ViewsInv, FinitelyMany, [ViewsNext]_allVars PROVE FinitelyMany'
  OBVIOUS
<1>1. CASE Write \/ CrashAll
  <2>1. [Next]_vars /\ UNCHANGED shown
    BY <1>1 DEF Write, CrashAll, Next
  <2>2. TableStep
    BY <2>1, StepsAreTableSteps DEF ViewsInv, HandlersInv, Before
  <2> QED
    BY <2>1, <2>2, FiniteVotes DEF FinitelyMany
<1>2. ASSUME NEW q \in Readers, Read(q)
      PROVE  FinitelyMany'
  <2>1. votes' = votes
    BY <1>2 DEF Read, BeginRead, ReadRow, LoadVotes, LoadUser, QueryFails, vars, storeVars
  <2>2. \/ shown' = shown
        \/ \E X : shown' = [shown EXCEPT ![q] = X] /\ (X \subseteq votes \/ X \subseteq shown[q])
    BY <1>2 DEF Read, BeginRead, ReadRow, LoadVotes, LoadUser, QueryFails, Selected, VotesOn
  <2>3. shown \in [Readers -> SUBSET VoteRows]
    BY DEF ViewsInv, ViewsTypeOK
  <2>4. \A o \in Readers : shown'[o] \subseteq votes \/ shown'[o] \subseteq shown[o]
    BY <2>2, <2>3
  <2>5. \A o \in Readers : IsFiniteSet(shown'[o])
    BY <2>4, FS_Subset DEF FinitelyMany
  <2> QED
    BY <2>1, <2>5 DEF FinitelyMany
<1>3. CASE UNCHANGED allVars
  BY <1>3 DEF allVars, vars, storeVars, readerVars, FinitelyMany
<1> QED
  BY <1>1, <1>2, <1>3 DEF ViewsNext

(***************************************************************************)
(* No answer counts a user twice: the counts that PollToResponse makes     *)
(* (converter/converter.go:30) and the page adds up                        *)
(* (app/routes/polls.$id.tsx:152) come to the number of users that voted.  *)
(***************************************************************************)
THEOREM VotersCountOnce == ViewsSpec => []EachVoterCountsOnce
<1>1. ViewsInit => FinitelyMany
  BY FS_EmptySet DEF ViewsInit, Init, InitStore, FinitelyMany
<1>2. ViewsInv /\ FinitelyMany => EachVoterCountsOnce
  BY CountsAddUp, UsersOfVotes DEF FinitelyMany, ViewsInv, ShownOnce, EachVoterCountsOnce
<1> QED
  BY <1>1, <1>2, FiniteNext, ViewsAlways, PTL DEF ViewsSpec
=============================================================================
