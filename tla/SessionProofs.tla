--------------------------- MODULE SessionProofs ---------------------------
(***************************************************************************)
(* Proofs about Sessions, for any number of users, sessions and concurrent *)
(* requests.                                                               *)
(***************************************************************************)
EXTENDS Sessions, TLAPS

Issuing == {"Get", "Revoke", "Unindex", "Set", "Index", "Undo", "Expire", "User"}
BeforeSet == {"Get", "Revoke", "Unindex", "Set"}

(***************************************************************************)
(* What a request knows at each of its commands.                           *)
(***************************************************************************)
RequestInv ==
    \A r \in Requests :
        /\ pc[r] = "idle" => old[r] = NoSid /\ new[r] = NoSid
        /\ pc[r] # "idle" => user[r] \in Users /\ reply[r] = "none"
        /\ pc[r] \in Issuing => new[r] \in Sids
        /\ pc[r] \in BeforeSet => owner[new[r]] = NoUser
        /\ pc[r] \in Issuing \ BeforeSet => owner[new[r]] = user[r]
        /\ pc[r] \in {"Get", "Revoke", "Unindex"} => old[r] \in Sids
        /\ pc[r] = "DelSet" => todo[r] = {}
        /\ \A q \in Requests : q # r /\ new[q] = new[r] => new[r] = NoSid

(***************************************************************************)
(* A session that was not generated yet is nowhere.                        *)
(***************************************************************************)
FreshInv ==
    \A s \in Sids : owner[s] = NoUser =>
        /\ s \notin tokens /\ s \notin held
        /\ \A u \in Users : s \notin index[u]
        /\ \A t \in Sids : parent[t] # s
        /\ \A r \in Requests : old[r] # s

Base == TypeOK /\ RequestInv /\ FreshInv

(***************************************************************************)
(* The types in three parts: Redis, the requests, the rest.                *)
(***************************************************************************)
RedisTypes ==
    /\ tokens \subseteq Sids
    /\ index \in [Users -> SUBSET Sids]
    /\ timed \subseteq Keys /\ sooner \in [Keys -> SUBSET timed]

CallTypes ==
    /\ op \in [Requests -> {"none", "login", "refresh", "logout"}]
    /\ user \in [Requests -> Users \cup {NoUser}]
    /\ pc \in [Requests -> Issuing \cup {"idle", "Members", "DelKeys", "DelSet"}]
    /\ old \in [Requests -> Sids \cup {NoSid}]
    /\ new \in [Requests -> Sids \cup {NoSid}]
    /\ todo \in [Requests -> SUBSET Sids] /\ before \in [Requests -> SUBSET Sids]
    /\ reply \in [Requests -> {"none", "ok", "error"}]

OtherTypes ==
    /\ held \subseteq Sids
    /\ owner \in [Sids -> Users \cup {NoUser}]
    /\ faults \in 0..MaxFaults
    /\ exposed \subseteq Sids /\ contested \subseteq Sids
    /\ parent \in [Sids -> Sids \cup {NoSid}]

----------------------------------------------------------------------------
LEMMA BaseInit == Init => Base
BY NobodyAssumption, FaultsAssumption
   DEF Init, Base, TypeOK, RequestInv, FreshInv, Issuing, BeforeSet

LEMMA TypeParts == TypeOK <=> RedisTypes /\ CallTypes /\ OtherTypes
<1>1. Issuing \cup {"idle", "Members", "DelKeys", "DelSet"} =
        {"idle", "Get", "Revoke", "Unindex", "Set", "Index", "Undo",
         "Expire", "User", "Members", "DelKeys", "DelSet"}
  BY DEF Issuing
<1> QED
  BY <1>1 DEF TypeOK, RedisTypes, CallTypes, OtherTypes

LEMMA TypePartsNext == RedisTypes' /\ CallTypes' /\ OtherTypes' => TypeOK'
BY TypeParts, PTL

(***************************************************************************)
(* What the commands and the ends of a command do to the types.            *)
(***************************************************************************)
LEMMA TimeTypes ==
    ASSUME RedisTypes, NEW k \in Keys, GiveTime(k) \/ EndTime(k)
    PROVE  timed' \subseteq Keys /\ sooner' \in [Keys -> SUBSET timed']
BY DEF RedisTypes, GiveTime, EndTime

LEMMA CommandTypes ==
    ASSUME RedisTypes, NEW u \in Users, NEW s \in Sids,
           \/ StoreToken(s) \/ DeleteToken(s) \/ AddToIndex(u, s)
           \/ RemoveFromIndex(u, s) \/ RenewIndex(u) \/ DeleteIndex(u)
    PROVE  RedisTypes'
<1>1. s \in Keys /\ u \in Keys
  BY DEF Keys
<1>2. tokens' \subseteq Sids /\ index' \in [Users -> SUBSET Sids]
  BY DEF RedisTypes, StoreToken, DeleteToken, AddToIndex, RemoveFromIndex,
         RenewIndex, DeleteIndex
<1>3. GiveTime(s) \/ EndTime(s) \/ GiveTime(u) \/ EndTime(u) \/ UNCHANGED life
  BY DEF StoreToken, DeleteToken, AddToIndex, RemoveFromIndex, RenewIndex, DeleteIndex
<1>4. CASE UNCHANGED life
  BY <1>2, <1>4 DEF life, RedisTypes
<1> QED
  BY <1>1, <1>2, <1>3, <1>4, TimeTypes DEF RedisTypes

LEMMA SameRedis ==
    ASSUME RedisTypes, UNCHANGED redis
    PROVE  RedisTypes'
BY DEF RedisTypes, redis, life

LEMMA GotoTypes ==
    ASSUME CallTypes, NEW r \in Requests,
           NEW label \in Issuing \cup {"DelKeys", "DelSet"}, Goto(r, label)
    PROVE  CallTypes' /\ UNCHANGED held
BY DEF CallTypes, Goto, calls

LEMMA FinishTypes ==
    ASSUME CallTypes, NEW r \in Requests, NEW status \in {"ok", "error"}, Finish(r, status)
    PROVE  CallTypes'
BY DEF CallTypes, Finish

(***************************************************************************)
(* Types once more, for a step of a request: it runs one Redis command at  *)
(* most, and goes on or answers.                                           *)
(***************************************************************************)
Command(u, s) ==
    \/ StoreToken(s) \/ DeleteToken(s) \/ AddToIndex(u, s)
    \/ RemoveFromIndex(u, s) \/ RenewIndex(u) \/ DeleteIndex(u)
    \/ UNCHANGED redis

LEMMA StepTypes ==
    ASSUME TypeOK, NEW r \in Requests,
           (\E u \in Users, s \in Sids : Command(u, s)) \/ UNCHANGED redis,
           \/ \E label \in Issuing \cup {"DelKeys", "DelSet"} : Goto(r, label)
           \/ \E status \in {"ok", "error"} : Finish(r, status),
           held' \subseteq Sids,
           UNCHANGED faults \/ Fails,
           (owner \in [Sids -> Users \cup {NoUser}])',
           exposed' \subseteq Sids, contested' \subseteq Sids,
           (parent \in [Sids -> Sids \cup {NoSid}])'
    PROVE  TypeOK'
<1>1. RedisTypes /\ CallTypes /\ OtherTypes
  BY TypeParts
<1>2. RedisTypes'
  BY <1>1, CommandTypes, SameRedis DEF Command
<1>3. CallTypes'
  BY <1>1, GotoTypes, FinishTypes
<1>4. faults' \in 0..MaxFaults
  BY <1>1, FaultsAssumption DEF OtherTypes, Fails
<1> QED
  <2>1. OtherTypes'
    BY <1>4 DEF OtherTypes
  <2> QED
    BY <1>2, <1>3, <2>1, TypePartsNext

LEMMA TypeValidate ==
    ASSUME Base, NEW r \in Requests, Validate(r)
    PROVE  TypeOK'
<1>1. old[r] \in Sids /\ user[r] \in Users
  BY DEF Base, RequestInv, Validate
<1>2. \/ \E label \in Issuing \cup {"DelKeys", "DelSet"} : Goto(r, label)
      \/ \E status \in {"ok", "error"} : Finish(r, status)
  BY DEF Validate, Refuse, Issuing
<1>3. UNCHANGED redis
  BY DEF Validate
<1>4. held' \subseteq Sids
  BY <1>1 DEF Base, TypeOK, Validate, Refuse, Goto
<1>5. /\ (owner \in [Sids -> Users \cup {NoUser}])'
      /\ exposed' \subseteq Sids /\ contested' \subseteq Sids
      /\ (parent \in [Sids -> Sids \cup {NoSid}])'
  BY <1>1 DEF Base, TypeOK, Validate, history
<1>6. UNCHANGED faults \/ Fails
  BY DEF Validate, Works
<1> QED
  BY <1>2, <1>3, <1>4, <1>5, <1>6, StepTypes DEF Base

LEMMA TypeRevokeOld ==
    ASSUME Base, NEW r \in Requests, RevokeOld(r)
    PROVE  TypeOK'
<1>1. old[r] \in Sids /\ user[r] \in Users
  BY DEF Base, RequestInv, RevokeOld
<1>2. \/ \E label \in Issuing \cup {"DelKeys", "DelSet"} : Goto(r, label)
      \/ \E status \in {"ok", "error"} : Finish(r, status)
  BY DEF RevokeOld, Refuse, Issuing
<1>3. \E u \in Users, s \in Sids : Command(u, s)
  BY <1>1 DEF RevokeOld, Command
<1>4. held' \subseteq Sids
  BY <1>1 DEF Base, TypeOK, RevokeOld, Refuse, Goto
<1>5. /\ (owner \in [Sids -> Users \cup {NoUser}])'
      /\ exposed' \subseteq Sids /\ contested' \subseteq Sids
      /\ (parent \in [Sids -> Sids \cup {NoSid}])'
  BY <1>1 DEF Base, TypeOK, RevokeOld, history
<1>6. UNCHANGED faults \/ Fails
  BY DEF RevokeOld, Works
<1> QED
  BY <1>2, <1>3, <1>4, <1>5, <1>6, StepTypes DEF Base

LEMMA TypeUnindexOld ==
    ASSUME Base, NEW r \in Requests, UnindexOld(r)
    PROVE  TypeOK'
<1>1. old[r] \in Sids /\ user[r] \in Users
  BY DEF Base, RequestInv, UnindexOld
<1>2. \/ \E label \in Issuing \cup {"DelKeys", "DelSet"} : Goto(r, label)
      \/ \E status \in {"ok", "error"} : Finish(r, status)
  BY DEF UnindexOld, Issuing
<1>3. \E u \in Users, s \in Sids : Command(u, s)
  BY <1>1 DEF UnindexOld, Command
<1>4. held' \subseteq Sids
  BY <1>1 DEF Base, TypeOK, UnindexOld, Goto
<1>5. /\ (owner \in [Sids -> Users \cup {NoUser}])'
      /\ exposed' \subseteq Sids /\ contested' \subseteq Sids
      /\ (parent \in [Sids -> Sids \cup {NoSid}])'
  BY <1>1 DEF Base, TypeOK, UnindexOld, history
<1>6. UNCHANGED faults \/ Fails
  BY DEF UnindexOld, Works
<1> QED
  BY <1>2, <1>3, <1>4, <1>5, <1>6, StepTypes DEF Base

LEMMA TypeSetToken ==
    ASSUME Base, NEW r \in Requests, SetToken(r)
    PROVE  TypeOK'
<1>1. new[r] \in Sids /\ user[r] \in Users
  BY DEF Base, RequestInv, SetToken, Issuing
<1>2. \/ \E label \in Issuing \cup {"DelKeys", "DelSet"} : Goto(r, label)
      \/ \E status \in {"ok", "error"} : Finish(r, status)
  BY DEF SetToken, Refuse, Issuing
<1>3. \E u \in Users, s \in Sids : Command(u, s)
  BY <1>1 DEF SetToken, Command
<1>4. held' \subseteq Sids
  BY <1>1 DEF Base, TypeOK, SetToken, Refuse, Goto
<1>5. /\ (owner \in [Sids -> Users \cup {NoUser}])'
      /\ exposed' \subseteq Sids /\ contested' \subseteq Sids
      /\ (parent \in [Sids -> Sids \cup {NoSid}])'
  BY <1>1 DEF Base, TypeOK, SetToken, history
<1>6. UNCHANGED faults \/ Fails
  BY DEF SetToken, Works
<1> QED
  BY <1>2, <1>3, <1>4, <1>5, <1>6, StepTypes DEF Base

LEMMA TypeIndexNew ==
    ASSUME Base, NEW r \in Requests, IndexNew(r)
    PROVE  TypeOK'
<1>1. new[r] \in Sids /\ user[r] \in Users
  BY DEF Base, RequestInv, IndexNew, Issuing
<1>2. \/ \E label \in Issuing \cup {"DelKeys", "DelSet"} : Goto(r, label)
      \/ \E status \in {"ok", "error"} : Finish(r, status)
  BY DEF IndexNew, Refuse, Issuing
<1>3. \E u \in Users, s \in Sids : Command(u, s)
  BY <1>1 DEF IndexNew, Command
<1>4. held' \subseteq Sids
  BY <1>1 DEF Base, TypeOK, IndexNew, Refuse, Goto
<1>5. /\ (owner \in [Sids -> Users \cup {NoUser}])'
      /\ exposed' \subseteq Sids /\ contested' \subseteq Sids
      /\ (parent \in [Sids -> Sids \cup {NoSid}])'
  BY <1>1 DEF Base, TypeOK, IndexNew, history
<1>6. UNCHANGED faults \/ Fails
  BY DEF IndexNew, Works
<1> QED
  BY <1>2, <1>3, <1>4, <1>5, <1>6, StepTypes DEF Base

LEMMA TypeUndoSet ==
    ASSUME Base, NEW r \in Requests, UndoSet(r)
    PROVE  TypeOK'
<1>1. new[r] \in Sids /\ user[r] \in Users
  BY DEF Base, RequestInv, UndoSet, Issuing
<1>2. \/ \E label \in Issuing \cup {"DelKeys", "DelSet"} : Goto(r, label)
      \/ \E status \in {"ok", "error"} : Finish(r, status)
  BY DEF UndoSet, Refuse, Issuing
<1>3. \E u \in Users, s \in Sids : Command(u, s)
  BY <1>1 DEF UndoSet, Command
<1>4. held' \subseteq Sids
  BY <1>1 DEF Base, TypeOK, UndoSet, Refuse, Goto
<1>5. /\ (owner \in [Sids -> Users \cup {NoUser}])'
      /\ exposed' \subseteq Sids /\ contested' \subseteq Sids
      /\ (parent \in [Sids -> Sids \cup {NoSid}])'
  BY <1>1 DEF Base, TypeOK, UndoSet, history
<1>6. UNCHANGED faults \/ Fails
  BY DEF UndoSet, Works
<1> QED
  BY <1>2, <1>3, <1>4, <1>5, <1>6, StepTypes DEF Base

LEMMA TypeExpireIndex ==
    ASSUME Base, NEW r \in Requests, ExpireIndex(r)
    PROVE  TypeOK'
<1>1. new[r] \in Sids /\ user[r] \in Users
  BY DEF Base, RequestInv, ExpireIndex, Issuing
<1>2. \/ \E label \in Issuing \cup {"DelKeys", "DelSet"} : Goto(r, label)
      \/ \E status \in {"ok", "error"} : Finish(r, status)
  BY DEF ExpireIndex, Deliver, Issuing
<1>3. \E u \in Users, s \in Sids : Command(u, s)
  BY <1>1 DEF ExpireIndex, Command
<1>4. held' \subseteq Sids
  BY <1>1 DEF Base, TypeOK, ExpireIndex, Deliver, Goto
<1>5. /\ (owner \in [Sids -> Users \cup {NoUser}])'
      /\ exposed' \subseteq Sids /\ contested' \subseteq Sids
      /\ (parent \in [Sids -> Sids \cup {NoSid}])'
  BY <1>1 DEF Base, TypeOK, ExpireIndex, history
<1>6. UNCHANGED faults \/ Fails
  BY DEF ExpireIndex, Works
<1> QED
  BY <1>2, <1>3, <1>4, <1>5, <1>6, StepTypes DEF Base

LEMMA TypeGetUser ==
    ASSUME Base, NEW r \in Requests, GetUser(r)
    PROVE  TypeOK'
<1>1. new[r] \in Sids /\ user[r] \in Users
  BY DEF Base, RequestInv, GetUser, Issuing
<1>2. \/ \E label \in Issuing \cup {"DelKeys", "DelSet"} : Goto(r, label)
      \/ \E status \in {"ok", "error"} : Finish(r, status)
  BY DEF GetUser, Refuse, Deliver, Issuing
<1>3. UNCHANGED redis
  BY DEF GetUser
<1>4. held' \subseteq Sids
  BY <1>1 DEF Base, TypeOK, GetUser, Refuse, Deliver, Goto
<1>5. /\ (owner \in [Sids -> Users \cup {NoUser}])'
      /\ exposed' \subseteq Sids /\ contested' \subseteq Sids
      /\ (parent \in [Sids -> Sids \cup {NoSid}])'
  BY <1>1 DEF Base, TypeOK, GetUser, history
<1>6. UNCHANGED faults \/ Fails
  BY DEF GetUser, Works
<1> QED
  BY <1>2, <1>3, <1>4, <1>5, <1>6, StepTypes DEF Base

LEMMA TypeBegin ==
    ASSUME Base, NEW r \in Requests, BeginLogin(r) \/ BeginRefresh(r) \/ BeginLogout(r)
    PROVE  TypeOK'
BY DEF Base, TypeOK, BeginLogin, BeginRefresh, BeginLogout, Begin, redis, life, history

LEMMA TypeReadIndex ==
    ASSUME Base, NEW r \in Requests, ReadIndex(r)
    PROVE  TypeOK'
<1>1. user[r] \in Users
  BY DEF Base, RequestInv, ReadIndex
<1>2. CASE Fails /\ Refuse(r)
  <2>1. UNCHANGED <<redis, owner, held, exposed, parent, contested>>
    BY <1>2 DEF ReadIndex, Refuse, history
  <2> QED
    BY <1>2, <2>1, StepTypes DEF Base, TypeOK, Refuse
<1>3. CASE /\ Works
           /\ todo' = [todo EXCEPT ![r] = index[user[r]]]
           /\ pc' = [pc EXCEPT ![r] = IF index[user[r]] = {} THEN "DelSet" ELSE "DelKeys"]
           /\ UNCHANGED <<op, user, old, new, before, reply, held>>
  BY <1>1, <1>3 DEF Base, TypeOK, ReadIndex, redis, life, history, Works
<1> QED
  BY <1>2, <1>3 DEF ReadIndex

LEMMA TypeDeleteOne ==
    ASSUME Base, NEW r \in Requests, DeleteOne(r)
    PROVE  TypeOK'
<1>1. PICK s \in todo[r] :
        /\ \/ Works /\ DeleteToken(s) /\ UNCHANGED exposed
           \/ /\ Fails /\ (DeleteToken(s) \/ UNCHANGED redis)
              /\ exposed' = exposed \cup {s}
        /\ todo' = [todo EXCEPT ![r] = @ \ {s}]
        /\ pc' = [pc EXCEPT ![r] = IF todo[r] = {s} THEN "DelSet" ELSE "DelKeys"]
  BY DEF DeleteOne
<1>2. s \in Sids /\ user[r] \in Users
  BY DEF Base, TypeOK, RequestInv, DeleteOne
<1>3. RedisTypes /\ CallTypes /\ OtherTypes
  BY TypeParts DEF Base
<1>4. RedisTypes'
  BY <1>1, <1>2, <1>3, CommandTypes, SameRedis
<1>5. CallTypes'
  BY <1>1, <1>3 DEF CallTypes, DeleteOne
<1>6. OtherTypes'
  BY <1>1, <1>2, <1>3, FaultsAssumption DEF OtherTypes, DeleteOne, Works, Fails
<1> QED
  BY <1>4, <1>5, <1>6, TypePartsNext

LEMMA TypeDeleteSet ==
    ASSUME Base, NEW r \in Requests, DeleteSet(r)
    PROVE  TypeOK'
<1>1. user[r] \in Users
  BY DEF Base, RequestInv, DeleteSet
<1>2. \E status \in {"ok", "error"} : Finish(r, status)
  BY DEF DeleteSet
<1>3. RedisTypes /\ CallTypes /\ OtherTypes
  BY TypeParts DEF Base
<1>4. RedisTypes'
  BY <1>1, <1>3, SameRedis, TimeTypes DEF DeleteSet, DeleteIndex, RedisTypes, Keys
<1>5. CallTypes'
  BY <1>2, <1>3, FinishTypes
<1>6. OtherTypes'
  BY <1>3, FaultsAssumption DEF OtherTypes, DeleteSet, Works, Fails, history
<1> QED
  BY <1>4, <1>5, <1>6, TypePartsNext

LEMMA TypeKeyExpires ==
    ASSUME Base, KeyExpires
    PROVE  TypeOK'
<1>1. PICK k \in timed :
        \/ k \in Sids /\ DeleteToken(k) /\ UNCHANGED exposed
        \/ k \in Users /\ DeleteIndex(k) /\ exposed' = exposed \cup Unrenewed(k)
  BY DEF KeyExpires
<1>2. RedisTypes /\ CallTypes /\ OtherTypes
  BY TypeParts DEF Base
<1>3. RedisTypes'
  BY <1>1, <1>2, TimeTypes DEF DeleteToken, DeleteIndex, RedisTypes, Keys
<1>4. exposed' \subseteq Sids
  BY <1>1, <1>2 DEF Unrenewed, OtherTypes, CallTypes, Base, RequestInv, Issuing
<1>5. CallTypes'
  BY <1>2 DEF CallTypes, KeyExpires, calls
<1>6. OtherTypes'
  BY <1>2, <1>4 DEF OtherTypes, KeyExpires
<1> QED
  BY <1>3, <1>5, <1>6, TypePartsNext

LEMMA TypeCrash ==
    ASSUME Base, Crash
    PROVE  TypeOK'
<1>1. RedisTypes /\ CallTypes /\ OtherTypes
  BY TypeParts DEF Base
<1>2. exposed' \subseteq Sids
  BY <1>1 DEF Crash, OtherTypes, CallTypes, Base, RequestInv, Issuing
<1>3. RedisTypes'
  BY <1>1, SameRedis DEF Crash
<1>4. CallTypes'
  BY <1>1 DEF CallTypes, Crash
<1>5. OtherTypes'
  BY <1>1, <1>2, FaultsAssumption DEF OtherTypes, Crash, Fails
<1> QED
  BY <1>3, <1>4, <1>5, TypePartsNext

----------------------------------------------------------------------------
(* What requests know, and that fresh sessions are nowhere.                *)

LEMMA BaseValidate ==
    ASSUME Base, NEW r \in Requests, Validate(r)
    PROVE  Base'
<1> USE NobodyAssumption
<1>1. TypeOK'
  BY TypeValidate
<1>2. RequestInv'
  BY <1>1 DEF Base, TypeOK, RequestInv, FreshInv, Validate, Goto, Refuse, Finish, calls, redis, Issuing, BeforeSet
<1>3. FreshInv'
  BY <1>1 DEF Base, TypeOK, RequestInv, FreshInv, Validate, Goto, Refuse, Finish, calls, redis, Goto, Refuse, Finish, calls, redis, Issuing, BeforeSet
<1> QED
  BY <1>1, <1>2, <1>3 DEF Base

LEMMA BaseRevokeOld ==
    ASSUME Base, NEW r \in Requests, RevokeOld(r)
    PROVE  Base'
<1> USE NobodyAssumption
<1>1. TypeOK'
  BY TypeRevokeOld
<1>2. RequestInv'
  BY <1>1 DEF Base, TypeOK, RequestInv, FreshInv, RevokeOld, Goto, Refuse, Finish, calls, redis, history, Issuing, BeforeSet
<1>3. FreshInv'
  BY <1>1 DEF Base, TypeOK, RequestInv, FreshInv, RevokeOld, Goto, Refuse, Finish, calls, redis, history, DeleteToken, Issuing, BeforeSet
<1> QED
  BY <1>1, <1>2, <1>3 DEF Base

LEMMA BaseUnindexOld ==
    ASSUME Base, NEW r \in Requests, UnindexOld(r)
    PROVE  Base'
<1> USE NobodyAssumption
<1>1. TypeOK'
  BY TypeUnindexOld
<1>2. RequestInv'
  BY <1>1 DEF Base, TypeOK, RequestInv, FreshInv, UnindexOld, Goto, calls, history, Issuing, BeforeSet
<1>3. FreshInv'
  BY <1>1 DEF Base, TypeOK, RequestInv, FreshInv, UnindexOld, Goto, calls, history, RemoveFromIndex, redis, Issuing, BeforeSet
<1> QED
  BY <1>1, <1>2, <1>3 DEF Base

LEMMA BaseSetToken ==
    ASSUME Base, NEW r \in Requests, SetToken(r)
    PROVE  Base'
<1> USE NobodyAssumption
<1>1. TypeOK'
  BY TypeSetToken
<1>2. RequestInv'
  BY <1>1 DEF Base, TypeOK, RequestInv, FreshInv, SetToken, Goto, Refuse, Finish, calls, history, Issuing, BeforeSet
<1>3. FreshInv'
  BY <1>1 DEF Base, TypeOK, RequestInv, FreshInv, SetToken, Goto, Refuse, Finish, calls, history, StoreToken, redis, Issuing, BeforeSet
<1> QED
  BY <1>1, <1>2, <1>3 DEF Base

LEMMA BaseIndexNew ==
    ASSUME Base, NEW r \in Requests, IndexNew(r)
    PROVE  Base'
<1> USE NobodyAssumption
<1>1. TypeOK'
  BY TypeIndexNew
<1>2. RequestInv'
  BY <1>1 DEF Base, TypeOK, RequestInv, FreshInv, IndexNew, Goto, calls, history, Issuing, BeforeSet
<1>3. FreshInv'
  BY <1>1 DEF Base, TypeOK, RequestInv, FreshInv, IndexNew, Goto, calls, history, AddToIndex, redis, Issuing, BeforeSet
<1> QED
  BY <1>1, <1>2, <1>3 DEF Base

LEMMA BaseUndoSet ==
    ASSUME Base, NEW r \in Requests, UndoSet(r)
    PROVE  Base'
<1> USE NobodyAssumption
<1>1. TypeOK'
  BY TypeUndoSet
<1>2. RequestInv'
  BY <1>1 DEF Base, TypeOK, RequestInv, FreshInv, UndoSet, Refuse, Finish, history, Issuing, BeforeSet
<1>3. FreshInv'
  BY <1>1 DEF Base, TypeOK, RequestInv, FreshInv, UndoSet, Refuse, Finish, history, DeleteToken, redis, Issuing, BeforeSet
<1> QED
  BY <1>1, <1>2, <1>3 DEF Base

LEMMA BaseExpireIndex ==
    ASSUME Base, NEW r \in Requests, ExpireIndex(r)
    PROVE  Base'
<1> USE NobodyAssumption
<1>1. TypeOK'
  BY TypeExpireIndex
<1>2. RequestInv'
  BY <1>1 DEF Base, TypeOK, RequestInv, FreshInv, ExpireIndex, Goto, Deliver, Finish, calls, history, Issuing, BeforeSet
<1>3. FreshInv'
  BY <1>1 DEF Base, TypeOK, RequestInv, FreshInv, ExpireIndex, Goto, Deliver, Finish, calls, history, RenewIndex, redis, Issuing, BeforeSet
<1> QED
  BY <1>1, <1>2, <1>3 DEF Base

LEMMA BaseGetUser ==
    ASSUME Base, NEW r \in Requests, GetUser(r)
    PROVE  Base'
<1> USE NobodyAssumption
<1>1. TypeOK'
  BY TypeGetUser
<1>2. RequestInv'
  BY <1>1 DEF Base, TypeOK, RequestInv, FreshInv, GetUser, Deliver, Refuse, Finish, history, Issuing, BeforeSet
<1>3. FreshInv'
  BY <1>1 DEF Base, TypeOK, RequestInv, FreshInv, GetUser, Deliver, Refuse, Finish, history, redis, Issuing, BeforeSet
<1> QED
  BY <1>1, <1>2, <1>3 DEF Base

LEMMA BaseReadIndex ==
    ASSUME Base, NEW r \in Requests, ReadIndex(r)
    PROVE  Base'
<1> USE NobodyAssumption
<1>1. TypeOK'
  BY TypeReadIndex
<1>2. RequestInv'
  BY <1>1 DEF Base, TypeOK, RequestInv, FreshInv, ReadIndex, Refuse, Finish, history, Issuing, BeforeSet
<1>3. FreshInv'
  BY <1>1 DEF Base, TypeOK, RequestInv, FreshInv, ReadIndex, Refuse, Finish, history, redis, Issuing, BeforeSet
<1> QED
  BY <1>1, <1>2, <1>3 DEF Base

LEMMA BaseDeleteOne ==
    ASSUME Base, NEW r \in Requests, DeleteOne(r)
    PROVE  Base'
<1> USE NobodyAssumption
<1>1. TypeOK'
  BY TypeDeleteOne
<1>2. RequestInv'
  BY <1>1 DEF Base, TypeOK, RequestInv, FreshInv, DeleteOne, history, Issuing, BeforeSet
<1>3. FreshInv'
  BY <1>1 DEF Base, TypeOK, RequestInv, FreshInv, DeleteOne, history, DeleteToken, redis, Issuing, BeforeSet
<1> QED
  BY <1>1, <1>2, <1>3 DEF Base

LEMMA BaseDeleteSet ==
    ASSUME Base, NEW r \in Requests, DeleteSet(r)
    PROVE  Base'
<1> USE NobodyAssumption
<1>1. TypeOK'
  BY TypeDeleteSet
<1>2. RequestInv'
  BY <1>1 DEF Base, TypeOK, RequestInv, FreshInv, DeleteSet, Finish, history, Issuing, BeforeSet
<1>3. FreshInv'
  BY <1>1 DEF Base, TypeOK, RequestInv, FreshInv, DeleteSet, Finish, history, DeleteIndex, redis, Issuing, BeforeSet
<1> QED
  BY <1>1, <1>2, <1>3 DEF Base

LEMMA BaseBegin ==
    ASSUME Base, NEW r \in Requests, BeginLogin(r) \/ BeginRefresh(r) \/ BeginLogout(r)
    PROVE  Base'
<1> USE NobodyAssumption DEF Base
<1>1. TypeOK'
  BY TypeBegin
<1>2. RequestInv'
  BY <1>1 DEF TypeOK, RequestInv, FreshInv, BeginLogin, BeginRefresh, BeginLogout, Begin,
         Fresh, Issuing, BeforeSet
<1>3. FreshInv'
  BY DEF TypeOK, RequestInv, FreshInv, BeginLogin, BeginRefresh, BeginLogout, Begin,
         Fresh, redis, history
<1> QED
  BY <1>1, <1>2, <1>3

LEMMA BaseKeyExpires ==
    ASSUME Base, KeyExpires
    PROVE  Base'
<1>1. TypeOK'
  BY TypeKeyExpires
<1>2. RequestInv'
  BY DEF Base, RequestInv, KeyExpires, calls
<1>3. tokens' \subseteq tokens /\ \A u \in Users : index'[u] \subseteq index[u]
  BY DEF Base, TypeOK, KeyExpires, DeleteToken, DeleteIndex
<1>4. FreshInv'
  BY <1>3 DEF Base, FreshInv, KeyExpires, calls
<1> QED
  BY <1>1, <1>2, <1>4 DEF Base

LEMMA BaseCrash ==
    ASSUME Base, Crash
    PROVE  Base'
<1>1. TypeOK'
  BY TypeCrash
<1>2. RequestInv'
  BY DEF Base, RequestInv, Crash, Issuing, BeforeSet
<1>3. FreshInv'
  BY NobodyAssumption DEF Base, FreshInv, Crash, redis
<1> QED
  BY <1>1, <1>2, <1>3 DEF Base

LEMMA BaseNext == Base /\ [Next]_vars => Base'
<1> SUFFICES ASSUME Base, [Next]_vars PROVE Base'
  OBVIOUS
<1>1. CASE UNCHANGED vars
  BY <1>1 DEF Base, TypeOK, RequestInv, FreshInv, vars, redis, life, calls, history
<1>2. ASSUME NEW r \in Requests, BeginLogin(r) \/ BeginRefresh(r) \/ BeginLogout(r)
      PROVE  Base'
  BY <1>2, BaseBegin
<1>3. ASSUME NEW r \in Requests, Step(r)
      PROVE  Base'
  BY <1>3, BaseValidate, BaseRevokeOld, BaseUnindexOld, BaseSetToken, BaseIndexNew,
     BaseUndoSet, BaseExpireIndex, BaseGetUser, BaseReadIndex, BaseDeleteOne,
     BaseDeleteSet DEF Step
<1> QED
  BY <1>1, <1>2, <1>3, BaseKeyExpires, BaseCrash DEF Next

LEMMA BaseAlways == Spec => []Base
<1>1. Init => Base
  BY BaseInit
<1>2. Base /\ [Next]_vars => Base'
  BY BaseNext
<1> QED
  BY <1>1, <1>2, PTL DEF Spec

(***************************************************************************)
(* Every variable of the sessions keeps its type: in particular no request *)
(* writes to the index of nobody, nor stores or lists a session that was   *)
(* not generated.                                                          *)
(***************************************************************************)
THEOREM SessionTypes == Spec => []TypeOK
<1>1. Base => TypeOK
  BY DEF Base
<1> QED
  BY <1>1, BaseAlways, PTL

----------------------------------------------------------------------------
(***************************************************************************)
(* A refresh token is exchanged once.  The invariant follows a token from  *)
(* the refresh that finds it valid to the session made of it: from its     *)
(* revocation on nobody finds it valid again, and what found it valid      *)
(* before is contested.                                                    *)
(***************************************************************************)
Swapping(r) == pc[r] \in {"Revoke", "Unindex", "Set"} /\ old[r] # NoSid

TwinInv ==
    /\ TwinsNeedOverlap
    /\ \A r \in Requests : Swapping(r) /\ pc[r] # "Revoke" => old[r] \notin tokens
    /\ \A s \in Sids : parent[s] \notin tokens
    /\ \A r, q \in Requests :
          Swapping(r) /\ Swapping(q) /\ r # q /\ old[r] = old[q] => old[r] \in contested
    /\ \A r \in Requests, s \in Sids :
          Swapping(r) /\ parent[s] = old[r] => old[r] \in contested

(***************************************************************************)
(* A step that neither finds a token valid nor stores one.                 *)
(***************************************************************************)
LEMMA TwinQuiet ==
    ASSUME TwinInv, tokens' \subseteq tokens, UNCHANGED <<parent, contested>>,
           \A r \in Requests : Swapping(r)' =>
                /\ Swapping(r) /\ old'[r] = old[r]
                /\ pc'[r] # "Revoke" /\ pc[r] = "Revoke" => old[r] \notin tokens'
    PROVE  TwinInv'
<1> USE DEF TwinInv
<1>1. TwinsNeedOverlap'
  BY DEF TwinsNeedOverlap
<1>2. \A r \in Requests : (Swapping(r) /\ pc[r] # "Revoke" => old[r] \notin tokens)'
  BY DEF Swapping
<1> QED
  BY <1>1, <1>2

LEMMA TwinValidate ==
    ASSUME Base, TwinInv, NEW r \in Requests, Validate(r)
    PROVE  TwinInv'
<1> USE DEF TwinInv
<1>1. /\ UNCHANGED <<tokens, parent>> /\ contested \subseteq contested'
      /\ \A q \in Requests \ {r} : Swapping(q)' = Swapping(q) /\ old'[q] = old[q] /\ pc'[q] = pc[q]
  BY DEF Base, TypeOK, Validate, Goto, Refuse, Finish, calls, redis, Swapping
<1>2. CASE ~Swapping(r)'
  BY <1>1, <1>2 DEF TwinsNeedOverlap, Base, TypeOK
<1>3. CASE Swapping(r)'
  <2>1. pc'[r] = "Revoke" /\ old'[r] = old[r] /\ old[r] \in tokens
    BY <1>3 DEF Swapping, Base, TypeOK, Validate, Goto, Refuse, Finish, calls
  <2>2. \A q \in Requests \ {r} : Swapping(q) /\ old[q] = old[r] => old[r] \in contested'
    BY <2>1 DEF Validate, Swapping
  <2> QED
    BY <1>1, <2>1, <2>2 DEF TwinsNeedOverlap
<1> QED
  BY <1>2, <1>3

LEMMA TwinSetToken ==
    ASSUME Base, TwinInv, NEW r \in Requests, SetToken(r)
    PROVE  TwinInv'
<1> USE NobodyAssumption DEF TwinInv
<1>1. /\ new[r] \in Sids /\ owner[new[r]] = NoUser
      /\ new[r] # old[r] /\ old[r] \in Sids \cup {NoSid}
  BY DEF Base, TypeOK, RequestInv, FreshInv, SetToken, Issuing, BeforeSet
<1>2. /\ tokens' \subseteq tokens \cup {new[r]} /\ UNCHANGED contested
      /\ parent' = [parent EXCEPT ![new[r]] = old[r]]
      /\ ~Swapping(r)'
      /\ \A q \in Requests \ {r} : Swapping(q)' = Swapping(q) /\ old'[q] = old[q] /\ pc'[q] = pc[q]
  BY DEF Base, TypeOK, SetToken, Goto, Refuse, Finish, calls, redis, StoreToken, Swapping
<1>3. /\ \A q \in Requests : old[q] # new[r]
      /\ \A s \in Sids : parent[s] # new[r]
  BY <1>1 DEF Base, FreshInv
<1>4. old[r] \in contested \/ old[r] = NoSid \/ \A s \in Sids : parent[s] # old[r]
  BY DEF Swapping, SetToken
<1>5. old[r] = NoSid \/ old[r] \notin tokens'
  BY <1>1, <1>2 DEF Swapping, SetToken
<1>6. TwinsNeedOverlap'
  BY <1>1, <1>2, <1>4 DEF TwinsNeedOverlap, Base, TypeOK
<1>7. \A s \in Sids : parent'[s] \notin tokens'
  <2> SUFFICES ASSUME NEW s \in Sids PROVE parent'[s] \notin tokens'
    OBVIOUS
  <2>1. tokens' \subseteq Sids
    BY <1>1, <1>2 DEF Base, TypeOK
  <2>2. CASE s = new[r]
    BY <1>1, <1>2, <1>5, <2>1, <2>2 DEF Base, TypeOK
  <2>3. CASE s # new[r]
    BY <1>2, <1>3, <2>3 DEF Base, TypeOK
  <2> QED
    BY <2>2, <2>3
<1>8. \A q \in Requests : (Swapping(q) /\ pc[q] # "Revoke" => old[q] \notin tokens)'
  BY <1>2, <1>3
<1>9. \A q \in Requests, s \in Sids :
          (Swapping(q) /\ parent[s] = old[q] => old[q] \in contested)'
  <2> SUFFICES ASSUME NEW q \in Requests, NEW s \in Sids, Swapping(q)', parent'[s] = old'[q]
               PROVE  old'[q] \in contested'
    OBVIOUS
  <2>1. q # r /\ Swapping(q) /\ old'[q] = old[q]
    BY <1>2
  <2>2. CASE s = new[r]
    BY <1>1, <1>2, <2>1, <2>2 DEF Base, TypeOK, Swapping, SetToken
  <2>3. CASE s # new[r]
    BY <1>2, <2>1, <2>3 DEF Base, TypeOK
  <2> QED
    BY <2>2, <2>3
<1> QED
  BY <1>2, <1>6, <1>7, <1>8, <1>9

LEMMA TwinSteps ==
    ASSUME Base, TwinInv, NEW r \in Requests, Step(r), ~Validate(r), ~SetToken(r)
    PROVE  TwinInv'
<1>1. CASE RevokeOld(r)
  BY <1>1, TwinQuiet DEF Base, TypeOK, RevokeOld, Goto, Refuse, Finish, calls, redis, history, DeleteToken, Swapping
<1>2. CASE UnindexOld(r)
  BY <1>2, TwinQuiet DEF Base, TypeOK, UnindexOld, Goto, calls, history, RemoveFromIndex, redis, Swapping
<1>3. CASE IndexNew(r)
  BY <1>3, TwinQuiet DEF Base, TypeOK, IndexNew, Goto, calls, AddToIndex, redis, Swapping
<1>4. CASE UndoSet(r)
  BY <1>4, TwinQuiet DEF Base, TypeOK, UndoSet, Refuse, Finish, history, DeleteToken, redis, Swapping
<1>5. CASE ExpireIndex(r)
  BY <1>5, TwinQuiet DEF Base, TypeOK, ExpireIndex, Goto, Deliver, Finish, calls, RenewIndex, redis, Swapping
<1>6. CASE GetUser(r)
  BY <1>6, TwinQuiet DEF Base, TypeOK, GetUser, Deliver, Refuse, Finish, history, redis, Swapping
<1>7. CASE ReadIndex(r)
  BY <1>7, TwinQuiet DEF Base, TypeOK, ReadIndex, Refuse, Finish, history, redis, Swapping
<1>8. CASE DeleteOne(r)
  BY <1>8, TwinQuiet DEF Base, TypeOK, DeleteOne, DeleteToken, redis, Swapping
<1>9. CASE DeleteSet(r)
  BY <1>9, TwinQuiet DEF Base, TypeOK, DeleteSet, Finish, history, DeleteIndex, redis, Swapping
<1> QED
  BY <1>1, <1>2, <1>3, <1>4, <1>5, <1>6, <1>7, <1>8, <1>9 DEF Step

LEMMA TwinOthers ==
    ASSUME Base, TwinInv,
           \/ \E r \in Requests : BeginLogin(r) \/ BeginRefresh(r) \/ BeginLogout(r)
           \/ KeyExpires \/ Crash \/ UNCHANGED vars
    PROVE  TwinInv'
<1>1. CASE \E r \in Requests : BeginLogin(r)
  <2>1. PICK r \in Requests : BeginLogin(r)
    BY <1>1
  <2>2. old[r] = NoSid
    BY <2>1 DEF Base, RequestInv, BeginLogin, Begin
  <2> QED
    BY <2>1, <2>2, TwinQuiet DEF Base, TypeOK, BeginLogin, Begin, redis, history, Swapping
<1>2. CASE \E r \in Requests : BeginRefresh(r) \/ BeginLogout(r)
  BY <1>2, TwinQuiet
  DEF Base, TypeOK, BeginRefresh, BeginLogout, Begin, redis, history, Swapping
<1>3. CASE KeyExpires
  BY <1>3, TwinQuiet DEF KeyExpires, DeleteToken, DeleteIndex, calls, Swapping
<1>4. CASE Crash
  BY <1>4, TwinQuiet DEF Crash, redis, Swapping
<1>5. CASE UNCHANGED vars
  BY <1>5, TwinQuiet DEF vars, redis, calls, history, Swapping
<1> QED
  BY <1>1, <1>2, <1>3, <1>4, <1>5

LEMMA TwinNext == Base /\ TwinInv /\ [Next]_vars => TwinInv'
<1> SUFFICES ASSUME Base, TwinInv, [Next]_vars PROVE TwinInv'
  OBVIOUS
<1>1. ASSUME NEW r \in Requests, Step(r) PROVE TwinInv'
  BY <1>1, TwinValidate, TwinSetToken, TwinSteps
<1> QED
  BY <1>1, TwinOthers DEF Next

LEMMA TwinAlways == Spec => []TwinInv
<1>1. Init => TwinInv
  BY NobodyAssumption DEF Init, TwinInv, TwinsNeedOverlap, Swapping
<1>2. Base /\ TwinInv /\ [Next]_vars => TwinInv'
  BY TwinNext
<1> QED
  BY <1>1, <1>2, BaseAlways, PTL DEF Spec

(***************************************************************************)
(* RotateRefreshToken makes two sessions of one token only if two          *)
(* refreshes had both run ValidateRefreshToken on it before either ran     *)
(* RevokeRefreshToken, whatever fails, expires or is logged out meanwhile. *)
(***************************************************************************)
THEOREM TokensAreExchangedOnce == Spec => []TwinsNeedOverlap
<1>1. TwinInv => TwinsNeedOverlap
  BY DEF TwinInv
<1> QED
  BY <1>1, TwinAlways, PTL

----------------------------------------------------------------------------
(***************************************************************************)
(* The index of a user's sessions covers the tokens; and what a logout     *)
(* therefore leaves.                                                       *)
(***************************************************************************)
\* An index holds sessions of its user.
IndexOwners == \A u \in Users : \A s \in index[u] : owner[s] = u

\* A logout that has read the index knows what is in it, or what came in
\* since is exposed.
LogoutsKnow ==
    \A r \in Requests : pc[r] \in {"DelKeys", "DelSet"} =>
        \A s \in index[user[r]] \cap tokens : s \in todo[r] \/ s \in exposed

\* An index outlives the tokens in it, once its time to live is renewed.
Renewing(s) == \E r \in Requests : pc[r] = "Expire" /\ new[r] = s

IndexOutlives ==
    \A u \in Users \cap timed : \A s \in index[u] \cap tokens :
        s \in sooner[u] \/ s \in exposed \/ Renewing(s)

CoverInv ==
    /\ IndexCoversTokens
    /\ IndexOwners
    /\ LogoutsKnow
    /\ tokens \subseteq timed
    /\ IndexOutlives

Before == Base /\ TwinInv /\ CoverInv

----------------------------------------------------------------------------
(***************************************************************************)
(* A step that adds no token, leaves the indexes alone, and moves nobody   *)
(* out of the commands between SET and EXPIRE or into those of a logout    *)
(* between SMEMBERS and DEL.                                               *)
(***************************************************************************)
Keeps(label) ==
    \A r \in Requests :
        pc[r] = label => pc'[r] = label /\ new'[r] = new[r]

LEMMA CoverQuiet ==
    ASSUME CoverInv, tokens' \subseteq tokens, UNCHANGED <<index, owner, exposed>>,
           Keeps("Index"), Keeps("Expire"),
           tokens' \subseteq timed', timed' \subseteq timed,
           \A u \in Users : sooner[u] \cap tokens' \subseteq sooner'[u],
           \A r \in Requests : pc'[r] \in {"DelKeys", "DelSet"} =>
                pc[r] = pc'[r] /\ user'[r] = user[r] /\ todo'[r] = todo[r]
    PROVE  CoverInv'
<1> USE DEF CoverInv, Keeps
<1>1. IndexOwners'
  BY DEF IndexOwners
<1>2. IndexCoversTokens'
  BY DEF IndexCoversTokens, Pending
<1>3. LogoutsKnow'
  BY DEF LogoutsKnow
<1>4. IndexOutlives'
  BY DEF IndexOutlives, Renewing
<1> QED
  BY <1>1, <1>2, <1>3, <1>4

LEMMA CoverBegin ==
    ASSUME Before, NEW r \in Requests, BeginLogin(r) \/ BeginRefresh(r) \/ BeginLogout(r)
    PROVE  CoverInv'
<1>1. /\ UNCHANGED <<tokens, index, timed, sooner, owner, exposed, todo>>
      /\ pc[r] = "idle" /\ pc'[r] \in {"Set", "Get", "Members"}
      /\ \A q \in Requests \ {r} :
            pc'[q] = pc[q] /\ new'[q] = new[q] /\ user'[q] = user[q]
  BY DEF Before, Base, TypeOK, BeginLogin, BeginRefresh, BeginLogout, Begin, redis, life,
         history
<1> QED
  BY <1>1, CoverQuiet DEF Before, CoverInv, Keeps

LEMMA DeletedToken ==
    ASSUME CoverInv, NEW s \in Sids, DeleteToken(s)
    PROVE  /\ tokens' \subseteq tokens /\ UNCHANGED index
           /\ tokens' \subseteq timed' /\ timed' \subseteq timed
           /\ \A u \in Users : sooner[u] \cap tokens' \subseteq sooner'[u]
BY KeysAssumption DEF CoverInv, DeleteToken, EndTime, Keys

LEMMA CoverValidate ==
    ASSUME Before, NEW r \in Requests, Validate(r)
    PROVE  CoverInv'
<1>1. /\ UNCHANGED <<tokens, index, timed, sooner, owner, exposed>>
      /\ pc[r] = "Get" /\ pc'[r] \in {"Revoke", "idle"}
      /\ \A q \in Requests \ {r} :
            pc'[q] = pc[q] /\ new'[q] = new[q] /\ user'[q] = user[q] /\ todo'[q] = todo[q]
  BY DEF Before, Base, TypeOK, Validate, Goto, Refuse, Finish, calls, redis, life
<1> QED
  BY <1>1, CoverQuiet DEF Before, CoverInv, Keeps

LEMMA CoverRevokeOld ==
    ASSUME Before, NEW r \in Requests, RevokeOld(r)
    PROVE  CoverInv'
<1>1. old[r] \in Sids
  BY DEF Before, Base, RequestInv, RevokeOld
<1>2. /\ UNCHANGED <<owner, exposed>>
      /\ pc[r] = "Revoke" /\ pc'[r] \in {"Unindex", "idle"}
      /\ \A q \in Requests \ {r} :
            pc'[q] = pc[q] /\ new'[q] = new[q] /\ user'[q] = user[q] /\ todo'[q] = todo[q]
  BY DEF Before, Base, TypeOK, RevokeOld, Goto, Refuse, Finish, calls, history
<1>3. DeleteToken(old[r]) \/ UNCHANGED <<tokens, index, timed, sooner>>
  BY DEF RevokeOld, redis, life
<1> QED
  BY <1>1, <1>2, <1>3, DeletedToken, CoverQuiet DEF Before, CoverInv, Keeps

LEMMA CoverUnindexOld ==
    ASSUME Before, NEW r \in Requests, UnindexOld(r)
    PROVE  CoverInv'
<1>1. old[r] \in Sids /\ user[r] \in Users /\ old[r] \notin tokens
  BY NobodyAssumption DEF Before, Base, RequestInv, TwinInv, Swapping, UnindexOld
<1>2. /\ UNCHANGED <<tokens, owner, exposed, new, user, todo>>
      /\ pc' = [pc EXCEPT ![r] = "Set"] /\ pc[r] = "Unindex"
  BY DEF UnindexOld, Goto, calls, history, RemoveFromIndex, redis
<1>3. CASE UNCHANGED redis
  <2>1. UNCHANGED <<index, timed, sooner>>
    BY <1>3 DEF redis, life
  <2>2. \A q \in Requests : pc'[q] = pc[q] \/ (q = r /\ pc'[q] = "Set")
    BY <1>2 DEF Before, Base, TypeOK
  <2> QED
    BY <1>2, <2>1, <2>2, CoverQuiet DEF Before, CoverInv, Keeps
<1>4. CASE RemoveFromIndex(user[r], old[r])
  <2>1. /\ \A u \in Users : index'[u] \subseteq index[u] /\ index[u] \ {old[r]} \subseteq index'[u]
        /\ timed' \subseteq timed /\ timed \cap Sids \subseteq timed'
        /\ \A u \in Users : sooner[u] \cap Sids \subseteq sooner'[u] \/ u \notin timed'
    BY <1>1, <1>4, KeysAssumption
    DEF Before, Base, TypeOK, RemoveFromIndex, EndTime, life, Keys
  <2>2. tokens \subseteq Sids /\ \A q \in Requests : pc'[q] = pc[q] \/ (q = r /\ pc'[q] = "Set")
    BY <1>2 DEF Before, Base, TypeOK
  <2>3. IndexOwners'
    BY <1>2, <2>1 DEF Before, CoverInv, IndexOwners
  <2>4. IndexCoversTokens'
    <3> SUFFICES ASSUME NEW s \in tokens, s \notin exposed, ~Pending(s)'
                 PROVE  s \in index'[owner[s]]
      BY <1>2 DEF IndexCoversTokens
    <3>1. ~Pending(s)
      BY <1>2, <2>2 DEF Pending
    <3>2. s \in index[owner[s]]
      BY <3>1 DEF Before, CoverInv, IndexCoversTokens
    <3>3. owner[s] \in Users
      BY <2>2 DEF Before, Base, TypeOK, FreshInv
    <3> QED
      BY <1>1, <2>1, <3>2, <3>3
  <2>5. LogoutsKnow'
    <3>1. \A q \in Requests : pc'[q] \in {"DelKeys", "DelSet"} =>
            user[q] \in Users /\ pc[q] = pc'[q]
      BY <1>2, <2>2 DEF Before, Base, RequestInv
    <3> QED
      BY <1>2, <2>1, <3>1 DEF Before, CoverInv, LogoutsKnow
  <2>6. IndexOutlives'
    BY <1>2, <2>1, <2>2 DEF Before, CoverInv, IndexOutlives, Renewing
  <2>7. (tokens \subseteq timed)'
    BY <1>2, <2>1, <2>2 DEF Before, CoverInv
  <2> QED
    BY <2>3, <2>4, <2>5, <2>6, <2>7 DEF CoverInv
<1> QED
  BY <1>3, <1>4 DEF UnindexOld

LEMMA CoverSetToken ==
    ASSUME Before, NEW r \in Requests, SetToken(r)
    PROVE  CoverInv'
<1> USE NobodyAssumption, KeysAssumption
    DEF Before, Base, TypeOK, RequestInv, FreshInv, Issuing, BeforeSet, CoverInv, Keys,
        SetToken, Goto, Refuse, Finish, calls, redis, life, StoreToken, GiveTime
<1>1. IndexOwners'
  BY DEF IndexOwners
<1>2. IndexCoversTokens'
  BY DEF IndexOwners, LogoutsKnow, IndexCoversTokens, Pending, TwinInv, Swapping
<1>3. LogoutsKnow'
  BY DEF LogoutsKnow, Revoking
<1>4. (tokens \subseteq timed)'
  OBVIOUS
<1>5. IndexOutlives'
  BY DEF IndexOwners, IndexOutlives, Renewing
<1> QED
  BY <1>1, <1>2, <1>3, <1>4, <1>5

LEMMA CoverIndexNew ==
    ASSUME Before, NEW r \in Requests, IndexNew(r)
    PROVE  CoverInv'
<1> USE NobodyAssumption, KeysAssumption
    DEF Before, Base, TypeOK, RequestInv, FreshInv, Issuing, BeforeSet, CoverInv, Keys,
        IndexNew, Goto, calls, AddToIndex, redis, life
<1>1. IndexOwners'
  BY DEF IndexOwners
<1>2. IndexCoversTokens'
  BY DEF IndexOwners, LogoutsKnow, IndexCoversTokens, Pending, TwinInv, Swapping
<1>3. LogoutsKnow'
  BY DEF LogoutsKnow, Revoking
<1>4. (tokens \subseteq timed)'
  OBVIOUS
<1>5. IndexOutlives'
  BY DEF IndexOwners, IndexOutlives, Renewing
<1> QED
  BY <1>1, <1>2, <1>3, <1>4, <1>5

LEMMA CoverUndoSet ==
    ASSUME Before, NEW r \in Requests, UndoSet(r)
    PROVE  CoverInv'
<1>1. new[r] \in Sids
  BY DEF Before, Base, RequestInv, Issuing, UndoSet
<1>2. /\ UNCHANGED <<owner, exposed>>
      /\ pc[r] = "Undo" /\ pc'[r] = "idle"
      /\ \A q \in Requests \ {r} :
            pc'[q] = pc[q] /\ new'[q] = new[q] /\ user'[q] = user[q] /\ todo'[q] = todo[q]
  BY DEF Before, Base, TypeOK, UndoSet, Refuse, Finish, history
<1>3. DeleteToken(new[r]) \/ UNCHANGED <<tokens, index, timed, sooner>>
  BY DEF UndoSet, redis, life
<1> QED
  BY <1>1, <1>2, <1>3, DeletedToken, CoverQuiet DEF Before, CoverInv, Keeps

LEMMA CoverExpireIndex ==
    ASSUME Before, NEW r \in Requests, ExpireIndex(r)
    PROVE  CoverInv'
<1> USE NobodyAssumption, KeysAssumption
    DEF Before, Base, TypeOK, RequestInv, FreshInv, Issuing, BeforeSet, CoverInv, Keys,
        ExpireIndex, Goto, Deliver, Finish, calls, RenewIndex, GiveTime, redis, life
<1>1. IndexOwners'
  BY DEF IndexOwners
<1>2. IndexCoversTokens'
  BY DEF IndexOwners, LogoutsKnow, IndexCoversTokens, Pending, TwinInv, Swapping
<1>3. LogoutsKnow'
  BY DEF LogoutsKnow, Revoking
<1>4. (tokens \subseteq timed)'
  OBVIOUS
<1>5. IndexOutlives'
  BY DEF IndexOwners, IndexOutlives, Renewing
<1> QED
  BY <1>1, <1>2, <1>3, <1>4, <1>5

LEMMA CoverGetUser ==
    ASSUME Before, NEW r \in Requests, GetUser(r)
    PROVE  CoverInv'
<1>1. /\ UNCHANGED <<tokens, index, timed, sooner, owner, exposed>>
      /\ pc[r] = "User" /\ pc'[r] = "idle"
      /\ \A q \in Requests \ {r} :
            pc'[q] = pc[q] /\ new'[q] = new[q] /\ user'[q] = user[q] /\ todo'[q] = todo[q]
  BY DEF Before, Base, TypeOK, GetUser, Deliver, Refuse, Finish, history, redis, life
<1> QED
  BY <1>1, CoverQuiet DEF Before, CoverInv, Keeps

LEMMA CoverReadIndex ==
    ASSUME Before, NEW r \in Requests, ReadIndex(r)
    PROVE  CoverInv'
<1> USE NobodyAssumption, KeysAssumption
    DEF Before, Base, TypeOK, RequestInv, FreshInv, Issuing, BeforeSet, CoverInv, Keys,
        ReadIndex, Refuse, Finish, history, redis, life
<1>1. IndexOwners'
  BY DEF IndexOwners
<1>2. IndexCoversTokens'
  BY DEF IndexOwners, LogoutsKnow, IndexCoversTokens, Pending, TwinInv, Swapping
<1>3. LogoutsKnow'
  BY DEF LogoutsKnow, Revoking
<1>4. (tokens \subseteq timed)'
  OBVIOUS
<1>5. IndexOutlives'
  BY DEF IndexOwners, IndexOutlives, Renewing
<1> QED
  BY <1>1, <1>2, <1>3, <1>4, <1>5

LEMMA CoverDeleteOne ==
    ASSUME Before, NEW r \in Requests, DeleteOne(r)
    PROVE  CoverInv'
<1> USE NobodyAssumption, KeysAssumption
    DEF Before, Base, TypeOK, RequestInv, FreshInv, Issuing, BeforeSet, CoverInv, Keys,
        DeleteOne, DeleteToken, EndTime, redis, life
<1>1. IndexOwners'
  BY DEF IndexOwners
<1>2. IndexCoversTokens'
  BY DEF IndexOwners, LogoutsKnow, IndexCoversTokens, Pending, TwinInv, Swapping
<1>3. LogoutsKnow'
  BY DEF LogoutsKnow, Revoking
<1>4. (tokens \subseteq timed)'
  OBVIOUS
<1>5. IndexOutlives'
  BY DEF IndexOwners, IndexOutlives, Renewing
<1> QED
  BY <1>1, <1>2, <1>3, <1>4, <1>5

(***************************************************************************)
(* DEL of an index: by a logout that has been through it, or because its   *)
(* time to live is over.  Either way it held tokens that are exposed only. *)
(***************************************************************************)
LEMMA DeletedIndex ==
    ASSUME Before, NEW u \in Users, DeleteIndex(u),
           exposed \subseteq exposed', UNCHANGED owner,
           \A s \in index[u] \cap tokens : s \in exposed',
           \A q \in Requests :
              \/ pc'[q] = pc[q] /\ new'[q] = new[q] /\ user'[q] = user[q] /\ todo'[q] = todo[q]
              \/ pc[q] = "DelSet" /\ pc'[q] = "idle"
    PROVE  CoverInv'
<1>1. /\ index' = [index EXCEPT ![u] = {}] /\ tokens' = tokens
      /\ timed' = timed \ {u} /\ sooner' = [x \in Keys |-> IF x = u THEN {} ELSE sooner[x] \ {u}]
  BY DEF DeleteIndex, EndTime
<1>2. index'[u] = {} /\ \A v \in Users \ {u} : index'[v] = index[v]
  BY <1>1 DEF Before, Base, TypeOK
<1>3. u \notin tokens /\ u \notin Sids
  BY KeysAssumption DEF Before, Base, TypeOK
<1>4. (tokens \subseteq timed)'
  BY <1>1, <1>3 DEF Before, CoverInv
<1>5. IndexOwners'
  BY <1>2 DEF Before, CoverInv, IndexOwners
<1>6. \A s : Pending(s) => Pending(s)'
  BY DEF Pending
<1>7. IndexCoversTokens'
  <2> SUFFICES ASSUME NEW s \in tokens, s \notin exposed', ~Pending(s)
               PROVE  s \in index'[owner[s]]
    BY <1>1, <1>6 DEF IndexCoversTokens
  <2>1. s \in index[owner[s]]
    BY DEF Before, CoverInv, IndexCoversTokens
  <2>2. owner[s] \in Users
    BY DEF Before, Base, TypeOK, FreshInv
  <2>3. owner[s] # u
    BY <2>1
  <2> QED
    BY <1>2, <2>1, <2>2, <2>3
<1>8. LogoutsKnow'
  <2> SUFFICES ASSUME NEW q \in Requests, pc'[q] \in {"DelKeys", "DelSet"},
                      NEW s \in index'[user'[q]] \cap tokens
               PROVE  s \in todo'[q] \/ s \in exposed'
    BY <1>1 DEF LogoutsKnow
  <2>1. pc'[q] = pc[q] /\ user'[q] = user[q] /\ todo'[q] = todo[q] /\ user[q] \in Users
    BY DEF Before, Base, RequestInv
  <2>2. s \in index[user[q]]
    BY <1>2, <2>1
  <2> QED
    BY <2>1, <2>2 DEF Before, CoverInv, LogoutsKnow
<1>9. IndexOutlives'
  <2> SUFFICES ASSUME NEW v \in Users, v \in timed', NEW s \in index'[v] \cap tokens,
                      s \notin exposed', ~Renewing(s)'
               PROVE  s \in sooner'[v]
    BY <1>1 DEF IndexOutlives
  <2>1. v # u /\ v \in timed /\ s \in index[v]
    BY <1>1, <1>2
  <2>2. ~Renewing(s)
    BY DEF Renewing
  <2>3. s \in sooner[v]
    BY <2>1, <2>2 DEF Before, CoverInv, IndexOutlives
  <2> QED
    BY <1>1, <1>3, <2>1, <2>3 DEF Keys
<1> QED
  BY <1>4, <1>5, <1>7, <1>8, <1>9 DEF CoverInv

LEMMA CoverDeleteSet ==
    ASSUME Before, NEW r \in Requests, DeleteSet(r)
    PROVE  CoverInv'
<1>1. user[r] \in Users /\ pc[r] = "DelSet" /\ todo[r] = {}
  BY DEF Before, Base, RequestInv, DeleteSet
<1>2. /\ UNCHANGED <<owner, exposed>> /\ pc'[r] = "idle"
      /\ \A q \in Requests \ {r} :
            pc'[q] = pc[q] /\ new'[q] = new[q] /\ user'[q] = user[q] /\ todo'[q] = todo[q]
  BY DEF Before, Base, TypeOK, DeleteSet, Finish, history
<1>3. CASE DeleteIndex(user[r])
  <2>1. \A s \in index[user[r]] \cap tokens : s \in exposed
    BY <1>1 DEF Before, CoverInv, LogoutsKnow
  <2> QED
    BY <1>1, <1>2, <1>3, <2>1, DeletedIndex
<1>4. CASE UNCHANGED redis
  BY <1>1, <1>2, <1>4, CoverQuiet DEF Before, CoverInv, Keeps, redis, life
<1> QED
  BY <1>3, <1>4 DEF DeleteSet

LEMMA CoverKeyExpires ==
    ASSUME Before, KeyExpires
    PROVE  CoverInv'
<1>1. UNCHANGED <<owner, pc, new, user, todo>>
  BY DEF KeyExpires, calls
<1>2. PICK k \in timed :
        /\ sooner[k] = {}
        /\ \/ k \in Sids /\ DeleteToken(k) /\ UNCHANGED exposed
           \/ k \in Users /\ DeleteIndex(k) /\ exposed' = exposed \cup Unrenewed(k)
  BY DEF KeyExpires
<1>3. CASE k \in Sids /\ DeleteToken(k) /\ UNCHANGED exposed
  BY <1>1, <1>3, DeletedToken, CoverQuiet DEF Before, CoverInv, Keeps
<1>4. CASE k \in Users /\ DeleteIndex(k) /\ exposed' = exposed \cup Unrenewed(k)
  <2> SUFFICES ASSUME NEW s \in index[k] \cap tokens
               PROVE  s \in exposed'
    BY <1>1, <1>4, DeletedIndex
  <2>1. s \in exposed \/ Renewing(s)
    BY <1>2, <1>4 DEF Before, CoverInv, IndexOutlives
  <2>2. owner[s] = k
    BY <1>4 DEF Before, CoverInv, IndexOwners
  <2> QED
    BY <1>4, <2>1, <2>2 DEF Unrenewed, Renewing, Before, Base, RequestInv, Issuing, BeforeSet
<1> QED
  BY <1>2, <1>3, <1>4

LEMMA CoverCrash ==
    ASSUME Before, Crash
    PROVE  CoverInv'
<1>1. /\ UNCHANGED <<tokens, index, timed, sooner, owner>>
      /\ \A r \in Requests : pc'[r] = "idle"
      /\ exposed' = exposed \cup
            {new[r] : r \in {q \in Requests : pc[q] \in {"Index", "Undo", "Expire"}}}
  BY DEF Crash, redis, life
<1>2. IndexCoversTokens'
  BY <1>1 DEF Before, CoverInv, IndexCoversTokens, Pending
<1>3. IndexOwners' /\ LogoutsKnow' /\ (tokens \subseteq timed)'
  BY <1>1 DEF Before, CoverInv, IndexOwners, LogoutsKnow
<1>4. IndexOutlives'
  BY <1>1 DEF Before, CoverInv, IndexOutlives, Renewing
<1> QED
  BY <1>2, <1>3, <1>4 DEF CoverInv

LEMMA CoverInit == Init => CoverInv
BY DEF Init, CoverInv, IndexCoversTokens, IndexOwners, LogoutsKnow, IndexOutlives

LEMMA CoverNext ==
    ASSUME Before, [Next]_vars
    PROVE  CoverInv'
<1>1. CASE UNCHANGED vars
  BY <1>1, CoverQuiet DEF Before, CoverInv, Keeps, vars, redis, life, calls, history
<1>2. ASSUME NEW r \in Requests, BeginLogin(r) \/ BeginRefresh(r) \/ BeginLogout(r)
      PROVE  CoverInv'
  BY <1>2, CoverBegin
<1>3. ASSUME NEW r \in Requests, Step(r)
      PROVE  CoverInv'
  BY <1>3, CoverValidate, CoverRevokeOld, CoverUnindexOld, CoverSetToken, CoverIndexNew,
     CoverUndoSet, CoverExpireIndex, CoverGetUser, CoverReadIndex, CoverDeleteOne,
     CoverDeleteSet DEF Step
<1> QED
  BY <1>1, <1>2, <1>3, CoverKeyExpires, CoverCrash DEF Next

LEMMA CoverAlways == Spec => []Before
<1>1. Init => CoverInv
  BY CoverInit
<1>2. Base /\ TwinInv /\ CoverInv /\ [Next]_vars => CoverInv'
  BY CoverNext DEF Before
<1> QED
  BY <1>1, <1>2, BaseAlways, TwinAlways, PTL DEF Spec, Before

(***************************************************************************)
(* Whatever logins, refreshes, logouts, expiries, failures and crashes     *)
(* come between its two commands, GenerateRefreshToken leaves no token     *)
(* that a logout will not find, but those the model calls exposed.         *)
(***************************************************************************)
THEOREM IndexCovers == Spec => []IndexCoversTokens
<1>1. Before => IndexCoversTokens
  BY DEF Before, CoverInv
<1> QED
  BY <1>1, CoverAlways, PTL

(***************************************************************************)
(* RevokeAllUserRefreshTokens, when it succeeds, leaves its user only      *)
(* exposed sessions and those of which the SADD is still to come.          *)
(***************************************************************************)
THEOREM LogoutLeaves == Spec => LogoutLeavesOnlyExposed
<1> DEFINE Left == \A r \in Requests :
                      pc[r] = "DelSet" /\ reply'[r] = "ok" =>
                          \A s \in tokens' : owner[s] = user[r] => s \in exposed \/ Pending(s)
<1>1. Before /\ [Next]_vars => Left
  <2> SUFFICES ASSUME Before, [Next]_vars, NEW r \in Requests,
                      pc[r] = "DelSet", reply'[r] = "ok"
               PROVE  \A s \in tokens' : owner[s] = user[r] => s \in exposed \/ Pending(s)
    OBVIOUS
  <2>1. user[r] \in Users /\ todo[r] = {} /\ reply[r] = "none"
    BY DEF Before, Base, RequestInv
  <2>2. DeleteSet(r)
    <3>1. ~ UNCHANGED reply
      BY <2>1
    <3>2. ~ UNCHANGED vars /\ ~KeyExpires
      BY <3>1 DEF vars, calls, KeyExpires
    <3>3. ~Crash
      BY DEF Crash
    <3>4. PICK q \in Requests : BeginLogin(q) \/ BeginRefresh(q) \/ BeginLogout(q) \/ Step(q)
      BY <3>2, <3>3 DEF Next
    <3>5. CASE q = r
      BY <3>4, <3>5
      DEF Step, BeginLogin, BeginRefresh, BeginLogout, Begin, Validate, RevokeOld, UnindexOld,
          SetToken, IndexNew, UndoSet, ExpireIndex, GetUser, ReadIndex, DeleteOne
    <3>6. CASE q # r
      <4>1. reply'[r] = reply[r]
        BY <3>4, <3>6
        DEF Before, Base, TypeOK, Step, BeginLogin, BeginRefresh, BeginLogout, Begin,
            Validate, RevokeOld, UnindexOld, SetToken, IndexNew, UndoSet, ExpireIndex,
            GetUser, ReadIndex, DeleteOne, DeleteSet, Goto, Refuse, Deliver, Finish
      <4> QED
        BY <2>1, <4>1
    <3> QED
      BY <3>5, <3>6
  <2>3. tokens' \subseteq tokens
    BY <2>2 DEF DeleteSet, DeleteIndex, redis
  <2>4. \A s \in index[user[r]] \cap tokens : s \in exposed
    BY <2>1 DEF Before, CoverInv, LogoutsKnow
  <2> QED
    BY <2>3, <2>4 DEF Before, CoverInv, IndexCoversTokens
<1> QED
  BY <1>1, CoverAlways, PTL DEF Spec, LogoutLeavesOnlyExposed
=============================================================================
