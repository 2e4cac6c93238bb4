------------------------------ MODULE Accounts ------------------------------
(***************************************************************************)
(* Sign-up and login (service/user_service.go and the UserController), any *)
(* number of requests at a time.  Sign-up looks the email and the name up  *)
(* in two statements and inserts in a third; the unique columns of the     *)
(* users table decide between two sign-ups that both found nothing.  Both  *)
(* calls end with the commands that make a refresh token, which Sessions   *)
(* details and which are one step here.                                    *)
(*                                                                         *)
(* bcrypt is the function it is meant to be: a hash matches the password   *)
(* it was made of.  It refuses a password that is too long.                *)
(***************************************************************************)
EXTENDS Naturals

CONSTANTS
    Requests,       \* the requests that can be under way at a time
    Accounts,       \* the identifiers that can be generated
    Emails, Names,
    Passwords,      \* those that bcrypt takes
    TooLong,        \* one of more than 72 bytes
    NoText,         \* the empty text
    NoAccount, NoCall, NoReply,
    MaxFaults       \* how many statements fail and how often the server dies

ASSUME PasswordAssumption == TooLong \notin Passwords
ASSUME AccountAssumption == NoAccount \notin Accounts
ASSUME FaultsAssumption == MaxFaults \in Nat

UserRows == [email : Emails, name : Names, password : Passwords]

ASSUME RowAssumption == NoAccount \notin UserRows

Calls ==
    [kind : {"CreateUser", "Login"},
     email : Emails \cup {NoText}, name : Names \cup {NoText},
     password : Passwords \cup {TooLong, NoText}]

Statuses == {"created", "welcome", "invalid", "taken", "broken", "unknown", "failed"}
Replies == [call : Calls, status : Statuses, hit : BOOLEAN, known : BOOLEAN]

VARIABLES
    users,          \* the users table
    call, pc,
    hit,            \* history: a statement of the request failed
    known,          \* history: the account a login wants was there when it began
    reply,          \* how the last call ended
    faults

vars == <<users, call, pc, hit, known, reply, faults>>

Labels == {"idle", "email", "username", "insert", "find", "tokens"}

----------------------------------------------------------------------------
Registered == {a \in Accounts : users[a] # NoAccount}

WithEmail(e) == {a \in Registered : users[a].email = e}
WithName(n) == {a \in Registered : users[a].name = n}

\* Mutant: no unique columns.
ColumnsFreeAlways(c) == TRUE

\* The unique columns email and username.
ColumnsFree(c) == WithEmail(c.email) = {} /\ WithName(c.name) = {}

\* Mutant: the password is not compared.
MatchesAny(a, c) == TRUE

\* bcrypt.CompareHashAndPassword.
Matches(a, c) == users[a].password = c.password

Goto(r, label) ==
    /\ pc' = [pc EXCEPT ![r] = label]
    /\ UNCHANGED <<call, known, reply>>

Answer(r, status, failed) ==
    /\ pc' = [pc EXCEPT ![r] = "idle"]
    /\ call' = [call EXCEPT ![r] = NoCall]
    /\ reply' = [reply EXCEPT ![r] = [call |-> call[r], status |-> status,
                                      hit |-> hit[r] \/ failed, known |-> known[r]]]
    /\ known' = [known EXCEPT ![r] = FALSE]

Sound(r) == hit' = [hit EXCEPT ![r] = hit[r] /\ pc'[r] # "idle"] /\ UNCHANGED faults

Fault(r) ==
    /\ faults < MaxFaults
    /\ faults' = faults + 1
    /\ hit' = [hit EXCEPT ![r] = pc'[r] # "idle"]

----------------------------------------------------------------------------
Init ==
    /\ users = [a \in Accounts |-> NoAccount]
    /\ call = [r \in Requests |-> NoCall]
    /\ pc = [r \in Requests |-> "idle"]
    /\ hit = [r \in Requests |-> FALSE]
    /\ known = [r \in Requests |-> FALSE]
    /\ reply = [r \in Requests |-> NoReply]
    /\ faults = 0

\* A login takes no name.  A call with an empty field is refused at once and
\* changes nothing.
Begin(r, c) ==
    /\ pc[r] = "idle"
    /\ c.kind = "Login" => c.name = NoText
    /\ c.kind = "CreateUser" => c.name # NoText
    /\ c.email # NoText /\ c.password # NoText
    /\ call' = [call EXCEPT ![r] = c]
    /\ pc' = [pc EXCEPT ![r] = IF c.kind = "Login" THEN "find" ELSE "email"]
    /\ known' = [known EXCEPT ![r] = /\ c.kind = "Login"
                                     /\ \E a \in WithEmail(c.email) : Matches(a, c)]
    /\ reply' = [reply EXCEPT ![r] = NoReply]
    /\ UNCHANGED <<users, hit, faults>>

\* Mutant: a lookup that finds nothing refuses.
EmailTakenNot(r) == WithEmail(call[r].email) = {}

EmailTaken(r) == WithEmail(call[r].email) # {}

\* A lookup that fails counts as one that finds nothing (err == nil alone
\* refuses).
LookupEmail(r) ==
    /\ pc[r] = "email"
    /\ \/ /\ IF EmailTaken(r) THEN Answer(r, "taken", FALSE) ELSE Goto(r, "username")
          /\ Sound(r)
       \/ Goto(r, "username") /\ Fault(r)
    /\ UNCHANGED users

\* Mutant: a password that cannot be hashed is stored as it is.
AfterNamesAny(r) == Goto(r, "insert")

\* The password is hashed before the insert.
AfterNames(r) ==
    IF call[r].password = TooLong THEN Answer(r, "invalid", FALSE) ELSE Goto(r, "insert")

LookupName(r) ==
    /\ pc[r] = "username"
    /\ \/ /\ IF WithName(call[r].name) # {} THEN Answer(r, "taken", FALSE) ELSE AfterNames(r)
          /\ Sound(r)
       \/ AfterNames(r) /\ Fault(r)
    /\ UNCHANGED users

\* A statement whose answer is lost may have inserted the row.
InsertUser(r) ==
    /\ pc[r] = "insert"
    /\ \E a \in Accounts \ Registered :
          LET row == [email |-> call[r].email, name |-> call[r].name,
                      password |-> call[r].password] IN
          \/ /\ IF ColumnsFree(call[r])
                THEN Goto(r, "tokens") /\ users' = [users EXCEPT ![a] = row]
                ELSE Answer(r, "broken", FALSE) /\ UNCHANGED users
             /\ Sound(r)
          \/ /\ Answer(r, "broken", TRUE)
             /\ \/ UNCHANGED users
                \/ ColumnsFree(call[r]) /\ users' = [users EXCEPT ![a] = row]
             /\ Fault(r)

\* A failing lookup and a wrong password give one answer.
FindUser(r) ==
    /\ pc[r] = "find"
    /\ \/ /\ IF \E a \in WithEmail(call[r].email) : Matches(a, call[r])
             THEN Goto(r, "tokens") ELSE Answer(r, "unknown", FALSE)
          /\ Sound(r)
       \/ Answer(r, "unknown", TRUE) /\ Fault(r)
    /\ UNCHANGED users

\* The access token, and the Redis commands of the refresh token.  If they
\* fail the account stays.
IssueTokens(r) ==
    /\ pc[r] = "tokens"
    /\ \/ /\ Answer(r, IF call[r].kind = "Login" THEN "welcome" ELSE "created", FALSE)
          /\ Sound(r)
       \/ Answer(r, "failed", TRUE) /\ Fault(r)
    /\ UNCHANGED users

Crash ==
    /\ faults < MaxFaults
    /\ \E r \in Requests : pc[r] # "idle"
    /\ pc' = [r \in Requests |-> "idle"]
    /\ call' = [r \in Requests |-> NoCall]
    /\ hit' = [r \in Requests |-> FALSE]
    /\ known' = [r \in Requests |-> FALSE]
    /\ reply' = [r \in Requests |-> NoReply]
    /\ faults' = faults + 1
    /\ UNCHANGED users

Next ==
    \/ \E r \in Requests, c \in Calls : Begin(r, c)
    \/ \E r \in Requests : \/ LookupEmail(r) \/ LookupName(r) \/ InsertUser(r)
                           \/ FindUser(r) \/ IssueTokens(r)
    \/ Crash

Spec == Init /\ [][Next]_vars

----------------------------------------------------------------------------
TypeOK ==
    /\ users \in [Accounts -> UserRows \cup {NoAccount}]
    /\ call \in [Requests -> Calls \cup {NoCall}]
    /\ pc \in [Requests -> Labels]
    /\ hit \in [Requests -> BOOLEAN]
    /\ known \in [Requests -> BOOLEAN]
    /\ reply \in [Requests -> Replies \cup {NoReply}]
    /\ faults \in 0 .. MaxFaults

(***************************************************************************)
(* An email and a name belong to one account, though two sign-ups may both *)
(* have found them free (user_service.go:28-34), and a lookup that fails   *)
(* counts as free.                                                         *)
(***************************************************************************)
OneAccountEach ==
    \A a, b \in Registered :
        users[a].email = users[b].email \/ users[a].name = users[b].name => a = b

(***************************************************************************)
(* A sign-up none of whose statements failed is told of an error only if   *)
(* another account has its email or its name, or its password is too long; *)
(* and one that is told of success has its account.                        *)
(***************************************************************************)
SignUpAnswersAreTrue ==
    \A r \in Requests :
        LET c == reply[r].call IN
        (reply[r] # NoReply /\ c.kind = "CreateUser") =>
            /\ reply[r].status = "created" =>
                  \E a \in WithEmail(c.email) \cap WithName(c.name) :
                      users[a].password = c.password
            /\ (reply[r].status # "created" /\ ~reply[r].hit) =>
                  \/ c.password = TooLong
                  \/ WithEmail(c.email) \cup WithName(c.name) # {}

(***************************************************************************)
(* Whoever has an account gets in with its password: a login none of whose *)
(* statements failed is refused only if there was no such account when it  *)
(* began.  So does the one whose sign-up stored the account and then ended *)
(* with an error, and nobody with another password.                        *)
(***************************************************************************)
LoginAnswersAreTrue ==
    \A r \in Requests :
        (reply[r] # NoReply /\ reply[r].call.kind = "Login") =>
            /\ reply[r].known /\ ~reply[r].hit => reply[r].status = "welcome"
            /\ reply[r].status = "welcome" =>
                  \E a \in WithEmail(reply[r].call.email) :
                      users[a].password = reply[r].call.password
=============================================================================
