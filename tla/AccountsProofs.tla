---------------------------- MODULE AccountsProofs ----------------------------
(***************************************************************************)
(* Proofs about Accounts, for any number of accounts and of concurrent     *)
(* sign-ups and logins.                                                    *)
(***************************************************************************)
EXTENDS Accounts, TLAPS

(***************************************************************************)
(* What a handler has checked of its call by the time of a statement.      *)
(***************************************************************************)
CallsAreChecked ==
    \A r \in Requests : pc[r] # "idle" =>
        /\ call[r] \in Calls
        /\ call[r].email \in Emails /\ call[r].password \in Passwords \cup {TooLong}
        /\ pc[r] \in {"email", "username", "insert"} =>
              call[r].kind = "CreateUser" /\ call[r].name \in Names
        /\ pc[r] = "insert" => call[r].password \in Passwords
        /\ pc[r] = "find" => call[r].kind = "Login"

TypeInv == TypeOK /\ CallsAreChecked

\* The account that a sign-up has made or a login asks for.
HasAccount(c) ==
    \E a \in WithEmail(c.email) :
        /\ users[a].password = c.password
        /\ c.kind = "CreateUser" => users[a].name = c.name

(***************************************************************************)
(* A request that is to issue tokens has its account, and so does a login  *)
(* whose account was there when it began.                                  *)
(***************************************************************************)
AccountsInHand ==
    \A r \in Requests :
        pc[r] = "tokens" \/ (pc[r] = "find" /\ known[r]) => HasAccount(call[r])

\* What SignUpAnswersAreTrue and LoginAnswersAreTrue say of one answer.
SignUpTrue(a) ==
    a.call.kind = "CreateUser" =>
        /\ a.status = "created" => HasAccount(a.call)
        /\ a.status # "created" /\ ~a.hit =>
              \/ a.call.password = TooLong
              \/ WithEmail(a.call.email) \cup WithName(a.call.name) # {}

LoginTrue(a) ==
    a.call.kind = "Login" =>
        /\ a.known /\ ~a.hit => a.status = "welcome"
        /\ a.status = "welcome" => HasAccount(a.call)

AnswersAreTrue ==
    \A r \in Requests : reply[r] # NoReply => SignUpTrue(reply[r]) /\ LoginTrue(reply[r])

AccountInv == TypeInv /\ OneAccountEach /\ AccountsInHand /\ AnswersAreTrue

----------------------------------------------------------------------------
(***************************************************************************)
(* The table only grows: what is true of a call's account stays true.      *)
(***************************************************************************)
Grows ==
    \A a \in Registered :
        a \in Accounts /\ users'[a] = users[a] /\ users[a] # NoAccount

LEMMA GrowsKeeps ==
    ASSUME Grows
    PROVE  /\ \A e : WithEmail(e) \subseteq WithEmail(e)'
           /\ \A n : WithName(n) \subseteq WithName(n)'
           /\ \A c : HasAccount(c) => HasAccount(c)'
           /\ \A a : SignUpTrue(a) => SignUpTrue(a)'
           /\ \A a : LoginTrue(a) => LoginTrue(a)'
<1>1. \A a \in Registered : a \in Registered' /\ users'[a] = users[a]
  BY DEF Grows, Registered
<1>2. \A e : WithEmail(e) \subseteq WithEmail(e)'
  BY <1>1 DEF WithEmail
<1>3. \A n : WithName(n) \subseteq WithName(n)'
  BY <1>1 DEF WithName
<1>4. ASSUME NEW c, HasAccount(c)
      PROVE  HasAccount(c)'
  BY <1>1, <1>2, <1>4 DEF HasAccount, WithEmail
<1>5. ASSUME NEW a, SignUpTrue(a)
      PROVE  SignUpTrue(a)'
  BY <1>2, <1>3, <1>4, <1>5 DEF SignUpTrue
<1>6. ASSUME NEW a, LoginTrue(a)
      PROVE  LoginTrue(a)'
  BY <1>4, <1>6 DEF LoginTrue
<1> QED
  BY <1>2, <1>3, <1>4, <1>5, <1>6

LEMMA SameGrows ==
    ASSUME UNCHANGED users
    PROVE  Grows
BY DEF Grows, Registered

LEMMA InsertGrows ==
    ASSUME TypeInv, NEW a \in Accounts \ Registered, NEW row \in UserRows,
           users' = [users EXCEPT ![a] = row]
    PROVE  /\ Grows
           /\ users' \in [Accounts -> UserRows \cup {NoAccount}]
           /\ Registered' = Registered \cup {a}
           /\ users'[a] = row
<1>1. users'[a] = row /\ \A b \in Accounts \ {a} : users'[b] = users[b]
  BY DEF TypeInv, TypeOK
<1>2. row # NoAccount
  BY RowAssumption
<1> QED
  BY <1>1, <1>2 DEF TypeInv, TypeOK, Registered, Grows

----------------------------------------------------------------------------
(***************************************************************************)
(* The ways a statement ends: the request goes on, or it is answered.      *)
(***************************************************************************)
Others(r) ==
    \A q \in Requests \ {r} :
        pc'[q] = pc[q] /\ call'[q] = call[q] /\ known'[q] = known[q] /\ reply'[q] = reply[q]

Faults(r) == Sound(r) \/ Fault(r)

LEMMA FaultTypes ==
    ASSUME TypeInv, NEW r \in Requests, Faults(r)
    PROVE  hit' \in [Requests -> BOOLEAN] /\ faults' \in 0 .. MaxFaults
<1>1. CASE Sound(r)
  BY <1>1 DEF Sound, TypeInv, TypeOK
<1>2. CASE Fault(r)
  BY <1>2, FaultsAssumption DEF Fault, TypeInv, TypeOK
<1> QED
  BY <1>1, <1>2 DEF Faults

LEMMA GotoKeeps ==
    ASSUME AccountInv, NEW r \in Requests, NEW label \in Labels \ {"idle"},
           Goto(r, label), Faults(r), Grows,
           users' \in [Accounts -> UserRows \cup {NoAccount}],
           OneAccountEach', pc[r] # "idle",
           label \in {"username", "insert"} => pc[r] \in {"email", "username"},
           label \in {"username", "insert", "tokens"},
           label = "insert" => call[r].password # TooLong,
           label = "tokens" => HasAccount(call[r])'
    PROVE  AccountInv'
<1> USE DEF AccountInv, TypeInv
<1>1. /\ pc' = [pc EXCEPT ![r] = label]
      /\ call' = call /\ known' = known /\ reply' = reply
  BY DEF Goto
<1>2. pc' \in [Requests -> Labels]
  BY <1>1 DEF TypeOK
<1>3. TypeOK'
  BY <1>1, <1>2, FaultTypes DEF TypeOK
<1>4. pc'[r] = label /\ \A q \in Requests \ {r} : pc'[q] = pc[q]
  BY <1>1 DEF TypeOK
<1>5. CallsAreChecked'
  BY <1>1, <1>4, Zenon DEF CallsAreChecked
<1>6. AccountsInHand'
  BY <1>1, <1>4, GrowsKeeps DEF AccountsInHand
<1>7. AnswersAreTrue'
  BY <1>1, GrowsKeeps DEF AnswersAreTrue
<1> QED
  BY <1>3, <1>5, <1>6, <1>7

\* The answer that Answer leaves.
Told(r, status, failed) ==
    [call |-> call[r], status |-> status, hit |-> hit[r] \/ failed, known |-> known[r]]

LEMMA AnswerKeeps ==
    ASSUME AccountInv, NEW r \in Requests, NEW status \in Statuses, NEW failed \in BOOLEAN,
           Answer(r, status, failed), Faults(r), Grows,
           users' \in [Accounts -> UserRows \cup {NoAccount}],
           OneAccountEach', pc[r] # "idle",
           SignUpTrue(Told(r, status, failed)), LoginTrue(Told(r, status, failed))
    PROVE  AccountInv'
<1> USE DEF AccountInv, TypeInv
<1> DEFINE answer == Told(r, status, failed)
<1>1. /\ pc' = [pc EXCEPT ![r] = "idle"] /\ call' = [call EXCEPT ![r] = NoCall]
      /\ reply' = [reply EXCEPT ![r] = answer] /\ known' = [known EXCEPT ![r] = FALSE]
  BY DEF Answer, Told
<1>2. answer \in Replies
  BY DEF Told, Replies, CallsAreChecked, TypeOK
<1>3. TypeOK'
  <2>1. pc' \in [Requests -> Labels]
    BY <1>1 DEF TypeOK, Labels
  <2>2. reply' \in [Requests -> Replies \cup {NoReply}]
    BY <1>1, <1>2 DEF TypeOK
  <2> QED
    BY <1>1, <2>1, <2>2, FaultTypes DEF TypeOK
<1>4. Others(r) /\ pc'[r] = "idle"
  BY <1>1 DEF Others, TypeOK
<1>5. CallsAreChecked'
  BY <1>4 DEF CallsAreChecked, Others
<1>6. AccountsInHand'
  BY <1>4, GrowsKeeps DEF AccountsInHand, Others
<1>7. AnswersAreTrue'
  <2>1. reply'[r] = answer
    BY <1>1 DEF TypeOK
  <2>2. SignUpTrue(reply[r])' /\ LoginTrue(reply[r])'
    <3>1. PICK a : a = answer
      OBVIOUS
    <3>2. SignUpTrue(a)' /\ LoginTrue(a)'
      BY <3>1, GrowsKeeps
    <3> QED
      BY <2>1, <3>1, <3>2
  <2> QED
    BY <1>4, <2>2, GrowsKeeps DEF AnswersAreTrue, Others
<1> QED
  BY <1>3, <1>5, <1>6, <1>7

----------------------------------------------------------------------------
LEMMA BeginKeeps ==
    ASSUME AccountInv, NEW r \in Requests, NEW c \in Calls, Begin(r, c)
    PROVE  AccountInv'
<1> USE DEF AccountInv, TypeInv
<1>1. UNCHANGED users /\ Grows /\ reply' = [reply EXCEPT ![r] = NoReply]
  BY SameGrows DEF Begin
<1>2. pc' \in [Requests -> Labels] /\ pc'[r] \in {"email", "find"}
  BY DEF Begin, TypeOK, Labels
<1>3. TypeOK'
  BY <1>2 DEF Begin, TypeOK
<1>4. Others(r)
  BY DEF Begin, Others, TypeOK
<1>5. /\ call'[r] = c /\ c.email \in Emails /\ c.password \in Passwords \cup {TooLong}
      /\ c.kind = "CreateUser" => c.name \in Names
      /\ c.kind \in {"CreateUser", "Login"}
      /\ pc'[r] = "email" => c.kind = "CreateUser"
      /\ pc'[r] = "find" => c.kind = "Login"
  BY DEF Begin, TypeOK, Calls
<1>6. CallsAreChecked'
  BY <1>2, <1>4, <1>5 DEF CallsAreChecked, Others
<1>7. AccountsInHand'
  <2>1. pc'[r] = "find" /\ known'[r] => HasAccount(c)
    BY <1>5 DEF Begin, TypeOK, HasAccount, Matches
  <2>2. pc'[r] = "find" /\ known'[r] => HasAccount(call[r])'
    BY <1>1, <1>5, <2>1, GrowsKeeps
  <2> QED
    BY <1>1, <1>2, <1>4, <2>2, GrowsKeeps DEF AccountsInHand, Others
<1>8. AnswersAreTrue'
  <2>1. reply'[r] = NoReply
    BY <1>1 DEF TypeOK
  <2> QED
    BY <1>1, <1>4, <2>1, GrowsKeeps DEF AnswersAreTrue, Others
<1>9. OneAccountEach'
  BY <1>1 DEF OneAccountEach, Registered
<1> QED
  BY <1>3, <1>6, <1>7, <1>8, <1>9

LEMMA SameTable ==
    ASSUME AccountInv, UNCHANGED users
    PROVE  /\ Grows /\ OneAccountEach'
           /\ users' \in [Accounts -> UserRows \cup {NoAccount}]
BY SameGrows DEF AccountInv, TypeInv, TypeOK, OneAccountEach, Registered

LEMMA LookupEmailKeeps ==
    ASSUME AccountInv, NEW r \in Requests, LookupEmail(r)
    PROVE  AccountInv'
<1>1. pc[r] = "email" /\ UNCHANGED users /\ call[r].kind = "CreateUser"
  BY DEF LookupEmail, AccountInv, TypeInv, CallsAreChecked
<1>2. CASE Goto(r, "username") /\ Faults(r)
  BY <1>1, <1>2, SameTable, GotoKeeps DEF Labels
<1>3. CASE EmailTaken(r) /\ Answer(r, "taken", FALSE) /\ Sound(r)
  <2>1. SignUpTrue(Told(r, "taken", FALSE)) /\ LoginTrue(Told(r, "taken", FALSE))
    BY <1>1, <1>3 DEF Told, SignUpTrue, LoginTrue, EmailTaken, WithEmail, Registered
  <2> QED
    BY <1>1, <1>3, <2>1, SameTable, AnswerKeeps DEF Faults, Statuses
<1> QED
  BY <1>1, <1>2, <1>3 DEF LookupEmail, Faults

LEMMA AfterNamesKeeps ==
    ASSUME AccountInv, NEW r \in Requests, pc[r] = "username", UNCHANGED users,
           AfterNames(r), Faults(r)
    PROVE  AccountInv'
<1>1. call[r].kind = "CreateUser"
  BY DEF AccountInv, TypeInv, CallsAreChecked
<1>2. CASE call[r].password # TooLong /\ Goto(r, "insert")
  BY <1>2, SameTable, GotoKeeps DEF Labels
<1>3. CASE call[r].password = TooLong /\ Answer(r, "invalid", FALSE)
  <2>1. SignUpTrue(Told(r, "invalid", FALSE)) /\ LoginTrue(Told(r, "invalid", FALSE))
    BY <1>1, <1>3 DEF Told, SignUpTrue, LoginTrue
  <2> QED
    BY <1>3, <2>1, SameTable, AnswerKeeps DEF Statuses
<1> QED
  BY <1>2, <1>3 DEF AfterNames

LEMMA LookupNameKeeps ==
    ASSUME AccountInv, NEW r \in Requests, LookupName(r)
    PROVE  AccountInv'
<1>1. pc[r] = "username" /\ UNCHANGED users /\ call[r].kind = "CreateUser"
  BY DEF LookupName, AccountInv, TypeInv, CallsAreChecked
<1>2. CASE WithName(call[r].name) # {} /\ Answer(r, "taken", FALSE) /\ Sound(r)
  <2>1. SignUpTrue(Told(r, "taken", FALSE)) /\ LoginTrue(Told(r, "taken", FALSE))
    BY <1>1, <1>2 DEF Told, SignUpTrue, LoginTrue, WithName, Registered
  <2> QED
    BY <1>1, <1>2, <2>1, SameTable, AnswerKeeps DEF Faults, Statuses
<1> QED
  BY <1>1, <1>2, AfterNamesKeeps DEF LookupName, Faults

(***************************************************************************)
(* The insert, whose unique columns decide.                                *)
(***************************************************************************)
LEMMA InsertUserKeeps ==
    ASSUME AccountInv, NEW r \in Requests, InsertUser(r)
    PROVE  AccountInv'
<1> USE DEF AccountInv, TypeInv
<1> DEFINE row == [email |-> call[r].email, name |-> call[r].name,
                   password |-> call[r].password]
<1>1. pc[r] = "insert" /\ row \in UserRows /\ call[r].kind = "CreateUser"
  BY DEF InsertUser, CallsAreChecked, UserRows
<1>2. PICK a \in Accounts \ Registered :
          \/ /\ IF ColumnsFree(call[r])
                THEN Goto(r, "tokens") /\ users' = [users EXCEPT ![a] = row]
                ELSE Answer(r, "broken", FALSE) /\ UNCHANGED users
             /\ Sound(r)
          \/ /\ Answer(r, "broken", TRUE)
             /\ \/ UNCHANGED users
                \/ ColumnsFree(call[r]) /\ users' = [users EXCEPT ![a] = row]
             /\ Fault(r)
  BY DEF InsertUser
<1>3. ASSUME ColumnsFree(call[r]), users' = [users EXCEPT ![a] = row]
      PROVE  /\ Grows /\ OneAccountEach'
             /\ users' \in [Accounts -> UserRows \cup {NoAccount}]
             /\ \A c : c = call[r] => HasAccount(c)'
  <2>1. /\ Grows /\ users' \in [Accounts -> UserRows \cup {NoAccount}]
        /\ Registered' = Registered \cup {a} /\ users'[a] = row
    BY <1>1, <1>3, InsertGrows
  <2>2. \A b \in Registered : /\ users'[b] = users[b]
                              /\ users[b].email # row.email /\ users[b].name # row.name
    BY <1>3, <2>1 DEF Grows, ColumnsFree, WithEmail, WithName
  <2>3. OneAccountEach'
    BY <2>1, <2>2 DEF OneAccountEach
  <2>4. ASSUME NEW c, c = call[r]
        PROVE  HasAccount(c)'
    <3>1. a \in WithEmail(c.email)'
      BY <2>1, <2>4 DEF WithEmail
    <3>2. users'[a].password = c.password /\ users'[a].name = c.name
      BY <2>1, <2>4
    <3> QED
      BY <3>1, <3>2 DEF HasAccount
  <2> QED
    BY <2>1, <2>3, <2>4
<1>4. CASE ColumnsFree(call[r]) /\ Goto(r, "tokens") /\ users' = [users EXCEPT ![a] = row] /\ Sound(r)
  <2>1. HasAccount(call[r])'
    <3>1. PICK c : c = call[r]
      OBVIOUS
    <3>2. HasAccount(c)' /\ call'[r] = c
      BY <1>3, <1>4, <3>1 DEF Goto
    <3> QED
      BY <3>2
  <2>2. /\ Grows /\ OneAccountEach'
        /\ users' \in [Accounts -> UserRows \cup {NoAccount}]
    BY <1>3, <1>4
  <2> QED
    BY <1>1, <1>4, <2>1, <2>2, GotoKeeps DEF Faults, Labels
<1>5. CASE ~ColumnsFree(call[r]) /\ Answer(r, "broken", FALSE) /\ UNCHANGED users /\ Sound(r)
  <2>1. SignUpTrue(Told(r, "broken", FALSE)) /\ LoginTrue(Told(r, "broken", FALSE))
    BY <1>1, <1>5 DEF Told, SignUpTrue, LoginTrue, ColumnsFree, WithEmail, WithName, Registered
  <2> QED
    BY <1>1, <1>5, <2>1, SameTable, AnswerKeeps DEF Faults, Statuses
<1>6. CASE Answer(r, "broken", TRUE) /\ Fault(r)
  <2>1. SignUpTrue(Told(r, "broken", TRUE)) /\ LoginTrue(Told(r, "broken", TRUE))
    BY <1>1, <1>6 DEF Told, SignUpTrue, LoginTrue
  <2>2. /\ Grows /\ OneAccountEach'
        /\ users' \in [Accounts -> UserRows \cup {NoAccount}]
    BY <1>2, <1>3, <1>6, SameTable DEF Goto, Answer
  <2> QED
    BY <1>1, <1>6, <2>1, <2>2, AnswerKeeps DEF Faults, Statuses
<1> QED
  BY <1>2, <1>4, <1>5, <1>6

LEMMA FindUserKeeps ==
    ASSUME AccountInv, NEW r \in Requests, FindUser(r)
    PROVE  AccountInv'
<1> USE DEF AccountInv, TypeInv
<1> DEFINE found == \E a \in WithEmail(call[r].email) : Matches(a, call[r])
<1>1. pc[r] = "find" /\ UNCHANGED users /\ call[r].kind = "Login"
  BY DEF FindUser, CallsAreChecked
<1>2. found => HasAccount(call[r])
  BY <1>1 DEF HasAccount, Matches
<1>3. known[r] => found
  BY <1>1 DEF AccountsInHand, HasAccount, Matches
<1>4. CASE found /\ Goto(r, "tokens") /\ Sound(r)
  <2>1. HasAccount(call[r])'
    <3>1. PICK c : c = call[r]
      OBVIOUS
    <3>2. HasAccount(c)' /\ call'[r] = c
      BY <1>1, <1>2, <1>4, <3>1, SameGrows, GrowsKeeps DEF Goto
    <3> QED
      BY <3>2
  <2> QED
    BY <1>1, <1>4, <2>1, SameTable, GotoKeeps DEF Faults, Labels
<1>5. CASE ~found /\ Answer(r, "unknown", FALSE) /\ Sound(r)
  <2>1. SignUpTrue(Told(r, "unknown", FALSE)) /\ LoginTrue(Told(r, "unknown", FALSE))
    BY <1>1, <1>3, <1>5 DEF Told, SignUpTrue, LoginTrue
  <2> QED
    BY <1>1, <1>5, <2>1, SameTable, AnswerKeeps DEF Faults, Statuses
<1>6. CASE Answer(r, "unknown", TRUE) /\ Fault(r)
  <2>1. SignUpTrue(Told(r, "unknown", TRUE)) /\ LoginTrue(Told(r, "unknown", TRUE))
    BY <1>1 DEF Told, SignUpTrue, LoginTrue
  <2> QED
    BY <1>1, <1>6, <2>1, SameTable, AnswerKeeps DEF Faults, Statuses
<1> QED
  BY <1>4, <1>5, <1>6 DEF FindUser

LEMMA IssueTokensKeeps ==
    ASSUME AccountInv, NEW r \in Requests, IssueTokens(r)
    PROVE  AccountInv'
<1> USE DEF AccountInv, TypeInv
<1> DEFINE status == IF call[r].kind = "Login" THEN "welcome" ELSE "created"
<1>1. pc[r] = "tokens" /\ UNCHANGED users /\ HasAccount(call[r])
  BY DEF IssueTokens, AccountsInHand
<1>2. CASE Answer(r, status, FALSE) /\ Sound(r)
  <2>1. SignUpTrue(Told(r, status, FALSE)) /\ LoginTrue(Told(r, status, FALSE))
    BY <1>1 DEF Told, SignUpTrue, LoginTrue
  <2> QED
    BY <1>1, <1>2, <2>1, SameTable, AnswerKeeps DEF Faults, Statuses
<1>3. CASE Answer(r, "failed", TRUE) /\ Fault(r)
  <2>1. SignUpTrue(Told(r, "failed", TRUE)) /\ LoginTrue(Told(r, "failed", TRUE))
    BY DEF Told, SignUpTrue, LoginTrue
  <2> QED
    BY <1>1, <1>3, <2>1, SameTable, AnswerKeeps DEF Faults, Statuses
<1> QED
  BY <1>2, <1>3 DEF IssueTokens

LEMMA CrashKeeps ==
    ASSUME AccountInv, Crash
    PROVE  AccountInv'
<1> USE DEF AccountInv, TypeInv
<1>1. /\ UNCHANGED users /\ pc' = [r \in Requests |-> "idle"]
      /\ reply' = [r \in Requests |-> NoReply]
  BY DEF Crash
<1>2. TypeOK'
  BY FaultsAssumption DEF Crash, TypeOK, Labels
<1>3. CallsAreChecked' /\ AccountsInHand' /\ AnswersAreTrue'
  BY <1>1 DEF CallsAreChecked, AccountsInHand, AnswersAreTrue
<1> QED
  BY <1>1, <1>2, <1>3, SameTable

LEMMA StutterKeeps ==
    ASSUME AccountInv, UNCHANGED vars
    PROVE  AccountInv'
<1> USE DEF AccountInv, TypeInv, vars
<1>1. TypeOK' /\ CallsAreChecked' /\ OneAccountEach'
  BY SameTable DEF TypeOK, CallsAreChecked
<1>2. AccountsInHand' /\ AnswersAreTrue'
  BY SameGrows, GrowsKeeps DEF AccountsInHand, AnswersAreTrue
<1> QED
  BY <1>1, <1>2

----------------------------------------------------------------------------
LEMMA AccountInit == Init => AccountInv
<1> SUFFICES ASSUME Init PROVE AccountInv
  OBVIOUS
<1>1. TypeOK
  BY FaultsAssumption DEF Init, TypeOK, Labels
<1>2. OneAccountEach
  BY DEF Init, OneAccountEach, Registered
<1>3. CallsAreChecked /\ AccountsInHand /\ AnswersAreTrue
  BY DEF Init, CallsAreChecked, AccountsInHand, AnswersAreTrue
<1> QED
  BY <1>1, <1>2, <1>3 DEF AccountInv, TypeInv

LEMMA AccountNext == AccountInv /\ [Next]_vars => AccountInv'
BY BeginKeeps, LookupEmailKeeps, LookupNameKeeps, InsertUserKeeps, FindUserKeeps,
   IssueTokensKeeps, CrashKeeps, StutterKeeps DEF Next

LEMMA AccountAlways == Spec => []AccountInv
BY AccountInit, AccountNext, PTL DEF Spec

(***************************************************************************)
(* The variables keep their types: in particular the row a sign-up inserts *)
(* has an email, a name and the hash of a password bcrypt takes, which     *)
(* rests on the checks of UserController and on the hash made before       *)
(* Save (user_service.go:36).                                              *)
(***************************************************************************)
THEOREM AccountTypes == Spec => []TypeOK
<1>1. AccountInv => TypeOK
  BY DEF AccountInv, TypeInv
<1> QED
  BY <1>1, AccountAlways, PTL

(***************************************************************************)
(* The two lookups of a sign-up and its insert are three statements; no    *)
(* interleaving of them with other sign-ups, and no failure, gives two     *)
(* accounts one email or one name.                                         *)
(***************************************************************************)
THEOREM AccountsAreUnique == Spec => []OneAccountEach
<1>1. AccountInv => OneAccountEach
  BY DEF AccountInv
<1> QED
  BY <1>1, AccountAlways, PTL

(***************************************************************************)
(* A sign-up is told of success only if its account is there, and of an    *)
(* error, with no statement failed, only for one of the reasons it has.    *)
(***************************************************************************)
THEOREM SignUpsAreAnsweredTruly == Spec => []SignUpAnswersAreTrue
<1>1. ASSUME AccountInv, NEW r \in Requests, SignUpTrue(reply[r])
      PROVE  reply[r].call.kind = "CreateUser" =>
                /\ reply[r].status = "created" =>
                      \E a \in WithEmail(reply[r].call.email) \cap WithName(reply[r].call.name) :
                          users[a].password = reply[r].call.password
                /\ (reply[r].status # "created" /\ ~reply[r].hit) =>
                      \/ reply[r].call.password = TooLong
                      \/ WithEmail(reply[r].call.email) \cup WithName(reply[r].call.name) # {}
  BY <1>1 DEF SignUpTrue, HasAccount, WithEmail, WithName
<1>2. AccountInv => SignUpAnswersAreTrue
  BY <1>1 DEF AccountInv, AnswersAreTrue, SignUpAnswersAreTrue
<1> QED
  BY <1>2, AccountAlways, PTL

(***************************************************************************)
(* Whoever has an account gets in with its password, and nobody else does. *)
(***************************************************************************)
THEOREM LoginsAreAnsweredTruly == Spec => []LoginAnswersAreTrue
<1>1. AccountInv => LoginAnswersAreTrue
  BY DEF AccountInv, AnswersAreTrue, LoginTrue, HasAccount, LoginAnswersAreTrue
<1> QED
  BY <1>1, AccountAlways, PTL
=============================================================================
