------------------------------ MODULE Sessions ------------------------------
(***************************************************************************)
(* The refresh tokens of backend/auth/jwt.go as Redis keeps them, and the  *)
(* handlers of backend/controller/user_controller.go that issue, rotate    *)
(* and revoke them.  A session has a key with its token and an entry in    *)
(* its user's set of sessions, the index; every Redis command is atomic,   *)
(* and the handlers run several with nothing that joins them.              *)
(*                                                                         *)
(* Every key that has a time to live has the same one, seven days, so keys *)
(* expire in the order in which they were given it.                        *)
(***************************************************************************)
EXTENDS Naturals

CONSTANTS
    Users,          \* the accounts
    Sids,           \* the session identifiers that can be generated
    Requests,       \* the requests that can be under way at a time
    NoUser, NoSid,  \* nobody, no session
    MaxFaults       \* how many commands fail and how often the server dies

ASSUME NobodyAssumption == NoUser \notin Users /\ NoSid \notin Sids
ASSUME KeysAssumption == Users \cap Sids = {}
ASSUME FaultsAssumption == MaxFaults \in Nat

VARIABLES
    tokens,         \* the sessions whose refresh_token key exists
    index,          \* user_sessions: the sessions of a user
    timed,          \* the keys with a time to live; a user stands for the set
    sooner,         \* the keys that expire before a key
    owner,          \* whose a session is; NoUser before it is generated
    held,           \* the sessions whose token some client was sent
    op, user,       \* what a request does, and for whom
    pc,             \* the command it runs next
    old, new,       \* the session it presents, the session it issues
    todo,           \* the sessions a logout has yet to delete
    reply,          \* how the last call ended
    faults,         \* commands failed and crashes so far
    before,         \* history: live sessions clients held as a logout began
    exposed,        \* history: sessions the index may not cover, see below
    parent,         \* history: the session that one was rotated from
    contested       \* history: sessions that two refreshes found valid

Keys == Sids \cup Users

life == <<timed, sooner>>
redis == <<tokens, index, life>>
calls == <<op, user, old, new, todo, before>>
history == <<exposed, parent, contested>>
vars == <<redis, owner, held, calls, pc, reply, faults, history>>

----------------------------------------------------------------------------
(* The Redis commands. *)

\* A key gets the full time to live: it is the last to expire.
GiveTime(k) ==
    /\ timed' = timed \cup {k}
    /\ sooner' = [x \in Keys |-> IF x = k THEN timed \ {k} ELSE sooner[x] \ {k}]

\* A key is deleted, and its time to live with it.
EndTime(k) ==
    /\ timed' = timed \ {k}
    /\ sooner' = [x \in Keys |-> IF x = k THEN {} ELSE sooner[x] \ {k}]

\* SET refresh_token:<user>:<session> with a time to live.
StoreToken(s) ==
    /\ tokens' = tokens \cup {s}
    /\ GiveTime(s)
    /\ UNCHANGED index

\* DEL of the same key.
DeleteToken(s) ==
    /\ tokens' = tokens \ {s}
    /\ EndTime(s)
    /\ UNCHANGED index

\* SADD user_sessions:<user>: a new set has no time to live.
AddToIndex(u, s) ==
    /\ index' = [index EXCEPT ![u] = @ \cup {s}]
    /\ UNCHANGED <<tokens, life>>

\* SREM: a set that becomes empty is deleted.
RemoveFromIndex(u, s) ==
    /\ index' = [index EXCEPT ![u] = @ \ {s}]
    /\ \/ index[u] \ {s} = {} /\ EndTime(u)
       \/ index[u] \ {s} # {} /\ UNCHANGED life
    /\ UNCHANGED tokens

\* Mutant of RenewIndex: EXPIRE NX, which leaves a time to live alone.
RenewIndexOnce(u) ==
    /\ IF index[u] = {} \/ u \in timed THEN UNCHANGED life ELSE GiveTime(u)
    /\ UNCHANGED <<tokens, index>>

\* EXPIRE: nothing, if there is no set.
RenewIndex(u) ==
    /\ \/ index[u] = {} /\ UNCHANGED life
       \/ index[u] # {} /\ GiveTime(u)
    /\ UNCHANGED <<tokens, index>>

\* DEL of the set.
DeleteIndex(u) ==
    /\ index' = [index EXCEPT ![u] = {}]
    /\ EndTime(u)
    /\ UNCHANGED tokens

----------------------------------------------------------------------------
(* The requests. *)

Goto(r, label) ==
    /\ pc' = [pc EXCEPT ![r] = label]
    /\ UNCHANGED <<calls, reply, held>>

Finish(r, status) ==
    /\ pc' = [pc EXCEPT ![r] = "idle"]
    /\ op' = [op EXCEPT ![r] = "none"]
    /\ user' = [user EXCEPT ![r] = NoUser]
    /\ old' = [old EXCEPT ![r] = NoSid]
    /\ new' = [new EXCEPT ![r] = NoSid]
    /\ todo' = [todo EXCEPT ![r] = {}]
    /\ before' = [before EXCEPT ![r] = {}]
    /\ reply' = [reply EXCEPT ![r] = status]

Refuse(r) == Finish(r, "error") /\ UNCHANGED held

\* The answer carries the new token; the client may be gone.
Deliver(r) ==
    /\ Finish(r, "ok")
    /\ held' \in {held, held \cup {new[r]}}

\* A command fails: before it took effect, or after, when the answer of
\* Redis is lost.
Fails == faults < MaxFaults /\ faults' = faults + 1
Works == UNCHANGED faults

\* generateSessionID: an identifier that nobody has had.  Which one is
\* settled when the call begins; nothing sees it before SET.
Fresh(s) == owner[s] = NoUser /\ \A q \in Requests : new[q] # s

Init ==
    /\ tokens = {} /\ index = [u \in Users |-> {}]
    /\ timed = {} /\ sooner = [k \in Keys |-> {}]
    /\ owner = [s \in Sids |-> NoUser]
    /\ held = {}
    /\ op = [r \in Requests |-> "none"]
    /\ user = [r \in Requests |-> NoUser]
    /\ pc = [r \in Requests |-> "idle"]
    /\ old = [r \in Requests |-> NoSid]
    /\ new = [r \in Requests |-> NoSid]
    /\ todo = [r \in Requests |-> {}]
    /\ before = [r \in Requests |-> {}]
    /\ reply = [r \in Requests |-> "none"]
    /\ faults = 0
    /\ exposed = {} /\ contested = {}
    /\ parent = [s \in Sids |-> NoSid]

Begin(r, o, u, label) ==
    /\ pc[r] = "idle"
    /\ op' = [op EXCEPT ![r] = o]
    /\ user' = [user EXCEPT ![r] = u]
    /\ pc' = [pc EXCEPT ![r] = label]
    /\ reply' = [reply EXCEPT ![r] = "none"]
    /\ UNCHANGED <<redis, owner, held, todo, faults, history>>

\* CreateUser and Login, once the user is known.
BeginLogin(r) ==
    \E u \in Users, s \in Sids :
        /\ Fresh(s)
        /\ Begin(r, "login", u, "Set")
        /\ new' = [new EXCEPT ![r] = s]
        /\ UNCHANGED <<old, before>>

\* RefreshToken: a client presents a token it was sent.
BeginRefresh(r) ==
    \E s \in held, t \in Sids :
        /\ Fresh(t)
        /\ Begin(r, "refresh", owner[s], "Get")
        /\ old' = [old EXCEPT ![r] = s]
        /\ new' = [new EXCEPT ![r] = t]
        /\ UNCHANGED before

\* Logout, with an access token: it is checked without Redis, so it serves
\* for as long as it lives, whatever became of the session it came with.
BeginLogout(r) ==
    \E u \in Users :
        /\ Begin(r, "logout", u, "Members")
        /\ before' = [before EXCEPT ![r] = {s \in tokens \cap held : owner[s] = u}]
        /\ UNCHANGED <<old, new>>

----------------------------------------------------------------------------
(* RotateRefreshToken, before it generates: ValidateRefreshToken and       *)
(* RevokeRefreshToken.                                                     *)

\* Mutant of Validate: the claims are read and Redis is not asked.
ValidateClaimsOnly(r) ==
    /\ pc[r] = "Get"
    /\ Works /\ Goto(r, "Revoke")
    /\ UNCHANGED <<redis, owner, history>>

Validate(r) ==
    /\ pc[r] = "Get"
    /\ \/ Works /\ old[r] \in tokens /\ Goto(r, "Revoke")
       \/ Works /\ old[r] \notin tokens /\ Refuse(r)
       \/ Fails /\ Refuse(r)
    /\ contested' = IF \E q \in Requests : pc[q] = "Revoke" /\ old[q] = old[r]
                    THEN contested \cup {old[r]} ELSE contested
    /\ UNCHANGED <<redis, owner, exposed, parent>>

RevokeOld(r) ==
    /\ pc[r] = "Revoke"
    /\ \/ Works /\ DeleteToken(old[r]) /\ Goto(r, "Unindex")
       \/ Fails /\ (DeleteToken(old[r]) \/ UNCHANGED redis) /\ Refuse(r)
    /\ UNCHANGED <<owner, history>>

\* A failure is ignored.
UnindexOld(r) ==
    /\ pc[r] = "Unindex"
    /\ \/ Works /\ RemoveFromIndex(user[r], old[r])
       \/ Fails /\ (RemoveFromIndex(user[r], old[r]) \/ UNCHANGED redis)
    /\ Goto(r, "Set")
    /\ UNCHANGED <<owner, history>>

----------------------------------------------------------------------------
(* GenerateRefreshToken. *)

\* The logouts that have read the index of a user and not yet deleted it.
Revoking(u) == {q \in Requests : pc[q] \in {"DelKeys", "DelSet"} /\ user[q] = u}

SetToken(r) ==
    /\ pc[r] = "Set"
    /\ owner' = [owner EXCEPT ![new[r]] = user[r]]
    /\ parent' = [parent EXCEPT ![new[r]] = old[r]]
    /\ \/ Works /\ StoreToken(new[r]) /\ Goto(r, "Index") /\ UNCHANGED exposed
       \/ /\ Fails /\ (StoreToken(new[r]) \/ UNCHANGED redis)
          /\ Refuse(r)
          /\ exposed' = exposed \cup {new[r]}
    /\ UNCHANGED contested

\* Mutant of IndexNew: the session presented is added, not the one issued.
IndexNewOld(r) ==
    /\ pc[r] = "Index"
    /\ Works /\ AddToIndex(user[r], old[r]) /\ Goto(r, "Expire")
    /\ UNCHANGED <<owner, history>>

IndexNew(r) ==
    /\ pc[r] = "Index"
    /\ \/ /\ Works /\ AddToIndex(user[r], new[r])
          /\ exposed' = IF Revoking(user[r]) = {} THEN exposed ELSE exposed \cup {new[r]}
          /\ Goto(r, "Expire")
       \/ /\ Fails /\ (AddToIndex(user[r], new[r]) \/ UNCHANGED redis)
          /\ exposed' = exposed \cup {new[r]}
          /\ Goto(r, "Undo")
    /\ UNCHANGED <<owner, parent, contested>>

\* The clean-up after a failed SADD, whose own failure is ignored.
UndoSet(r) ==
    /\ pc[r] = "Undo"
    /\ \/ Works /\ DeleteToken(new[r])
       \/ Fails /\ (DeleteToken(new[r]) \/ UNCHANGED redis)
    /\ Refuse(r)
    /\ UNCHANGED <<owner, history>>

\* A failure is ignored; a login is answered now, a refresh looks its user
\* up first.
ExpireIndex(r) ==
    /\ pc[r] = "Expire"
    /\ \/ Works /\ RenewIndex(user[r]) /\ UNCHANGED exposed
       \/ /\ Fails /\ (RenewIndex(user[r]) \/ UNCHANGED redis)
          /\ exposed' = exposed \cup {new[r]}
    /\ \/ op[r] = "login" /\ Deliver(r)
       \/ op[r] = "refresh" /\ Goto(r, "User")
    /\ UNCHANGED <<owner, parent, contested>>

\* RefreshToken's GetUserByID, after the old token is gone.
GetUser(r) ==
    /\ pc[r] = "User"
    /\ \/ Works /\ Deliver(r)
       \/ Fails /\ Refuse(r)
    /\ UNCHANGED <<redis, owner, history>>

----------------------------------------------------------------------------
(* RevokeAllUserRefreshTokens. *)

ReadIndex(r) ==
    /\ pc[r] = "Members"
    /\ \/ /\ Works
          /\ todo' = [todo EXCEPT ![r] = index[user[r]]]
          /\ pc' = [pc EXCEPT ![r] = IF index[user[r]] = {} THEN "DelSet" ELSE "DelKeys"]
          /\ UNCHANGED <<op, user, old, new, before, reply, held>>
       \/ Fails /\ Refuse(r)
    /\ UNCHANGED <<redis, owner, history>>

\* Mutant of DeleteOne: a failure ends the loop.
DeleteOneBreaks(r) ==
    /\ pc[r] = "DelKeys"
    /\ \E s \in todo[r] :
        /\ todo' = [todo EXCEPT ![r] = @ \ {s}]
        /\ \/ /\ Works /\ DeleteToken(s) /\ UNCHANGED exposed
              /\ pc' = [pc EXCEPT ![r] = IF todo[r] = {s} THEN "DelSet" ELSE "DelKeys"]
           \/ /\ Fails /\ UNCHANGED redis /\ exposed' = exposed \cup {s}
              /\ pc' = [pc EXCEPT ![r] = "DelSet"]
    /\ UNCHANGED <<op, user, old, new, before, reply, held, owner, parent, contested>>

\* One session; a failure is passed over.
DeleteOne(r) ==
    /\ pc[r] = "DelKeys"
    /\ \E s \in todo[r] :
        /\ \/ Works /\ DeleteToken(s) /\ UNCHANGED exposed
           \/ /\ Fails /\ (DeleteToken(s) \/ UNCHANGED redis)
              /\ exposed' = exposed \cup {s}
        /\ todo' = [todo EXCEPT ![r] = @ \ {s}]
        /\ pc' = [pc EXCEPT ![r] = IF todo[r] = {s} THEN "DelSet" ELSE "DelKeys"]
    /\ UNCHANGED <<op, user, old, new, before, reply, held, owner, parent, contested>>

DeleteSet(r) ==
    /\ pc[r] = "DelSet"
    /\ \/ Works /\ DeleteIndex(user[r]) /\ Finish(r, "ok")
       \/ Fails /\ (DeleteIndex(user[r]) \/ UNCHANGED redis) /\ Finish(r, "error")
    /\ UNCHANGED <<owner, held, history>>

----------------------------------------------------------------------------
(* What happens by itself. *)

\* The sessions in the index whose EXPIRE is still to come.
Unrenewed(u) == {new[r] : r \in {q \in Requests : pc[q] = "Expire" /\ user[q] = u}}

KeyExpires ==
    /\ \E k \in timed :
        /\ sooner[k] = {}
        /\ \/ k \in Sids /\ DeleteToken(k) /\ UNCHANGED exposed
           \/ k \in Users /\ DeleteIndex(k) /\ exposed' = exposed \cup Unrenewed(k)
    /\ UNCHANGED <<owner, held, calls, pc, reply, faults, parent, contested>>

\* The server dies; Redis stays.  A session it was issuing may lack its
\* entry or its index its new time to live.
Crash ==
    /\ Fails
    /\ exposed' = exposed \cup
          {new[r] : r \in {q \in Requests : pc[q] \in {"Index", "Undo", "Expire"}}}
    /\ pc' = [r \in Requests |-> "idle"]
    /\ op' = [r \in Requests |-> "none"]
    /\ user' = [r \in Requests |-> NoUser]
    /\ old' = [r \in Requests |-> NoSid]
    /\ new' = [r \in Requests |-> NoSid]
    /\ todo' = [r \in Requests |-> {}]
    /\ before' = [r \in Requests |-> {}]
    /\ reply' = [r \in Requests |-> IF pc[r] = "idle" THEN reply[r] ELSE "error"]
    /\ UNCHANGED <<redis, owner, held, parent, contested>>

Step(r) ==
    \/ Validate(r) \/ RevokeOld(r) \/ UnindexOld(r)
    \/ SetToken(r) \/ IndexNew(r) \/ UndoSet(r) \/ ExpireIndex(r) \/ GetUser(r)
    \/ ReadIndex(r) \/ DeleteOne(r) \/ DeleteSet(r)

Next ==
    \/ \E r \in Requests : BeginLogin(r) \/ BeginRefresh(r) \/ BeginLogout(r) \/ Step(r)
    \/ KeyExpires
    \/ Crash

Spec == Init /\ [][Next]_vars

----------------------------------------------------------------------------
TypeOK ==
    /\ tokens \subseteq Sids /\ held \subseteq Sids
    /\ index \in [Users -> SUBSET Sids]
    /\ timed \subseteq Keys /\ sooner \in [Keys -> SUBSET timed]
    /\ owner \in [Sids -> Users \cup {NoUser}]
    /\ op \in [Requests -> {"none", "login", "refresh", "logout"}]
    /\ user \in [Requests -> Users \cup {NoUser}]
    /\ pc \in [Requests -> {"idle", "Get", "Revoke", "Unindex", "Set", "Index", "Undo",
                            "Expire", "User", "Members", "DelKeys", "DelSet"}]
    /\ old \in [Requests -> Sids \cup {NoSid}]
    /\ new \in [Requests -> Sids \cup {NoSid}]
    /\ todo \in [Requests -> SUBSET Sids] /\ before \in [Requests -> SUBSET Sids]
    /\ reply \in [Requests -> {"none", "ok", "error"}]
    /\ faults \in 0..MaxFaults
    /\ exposed \subseteq Sids /\ contested \subseteq Sids
    /\ parent \in [Sids -> Sids \cup {NoSid}]

\* A session whose key is stored and whose entry is not added yet.
Pending(s) == \E r \in Requests : pc[r] = "Index" /\ new[r] = s

(***************************************************************************)
(* The index covers the sessions: a token that can be refreshed is in its  *)
(* user's set, where a logout will find it, unless the session is exposed: *)
(* it was added while a logout was between its SMEMBERS and its DEL of the *)
(* set, or while the set's time to live ran out between SADD and EXPIRE,   *)
(* or a command on it failed and the failure was ignored (jwt.go:120, 124, *)
(* 216), or the server died over it.                                       *)
(***************************************************************************)
IndexCoversTokens ==
    \A s \in tokens : s \in index[owner[s]] \/ s \in exposed \/ Pending(s)

(***************************************************************************)
(* A logout that succeeds leaves the user no session but exposed ones and  *)
(* those whose login or refresh it overlaps before their SADD.             *)
(***************************************************************************)
LogoutLeavesOnlyExposed ==
    [][\A r \in Requests :
          pc[r] = "DelSet" /\ reply'[r] = "ok" =>
              \A s \in tokens' : owner[s] = user[r] => s \in exposed \/ Pending(s)]_vars

(***************************************************************************)
(* A refresh token is exchanged once: two sessions come from the same one  *)
(* only if two refreshes had both found it valid before either deleted it. *)
(***************************************************************************)
TwinsNeedOverlap ==
    \A s, t \in Sids : parent[s] = parent[t] /\ parent[s] # NoSid =>
        s = t \/ parent[s] \in contested

(***************************************************************************)
(* "Revoke all refresh tokens for this user" (user_controller.go:163): when*)
(* a logout succeeds, no session whose token a client held when it began   *)
(* is left.                                                                *)
(***************************************************************************)
LogoutRevokesAll ==
    [][\A r \in Requests :
          pc[r] = "DelSet" /\ reply'[r] = "ok" => before[r] \cap tokens' = {}]_vars
=============================================================================
