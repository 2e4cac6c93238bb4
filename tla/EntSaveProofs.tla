---------------------------- MODULE EntSaveProofs ----------------------------
(***************************************************************************)
(* Proofs about the builders of the ent client, for any sets of builders,  *)
(* offers, identifiers and words, any tables to begin with, and any number *)
(* of calls, saves and mishaps.                                            *)
(***************************************************************************)
EXTENDS EntSave, FiniteSetTheorems, TLAPS

(***************************************************************************)
(* The schema, entity by entity.                                           *)
(***************************************************************************)
LEMMA ColumnFacts ==
    /\ Columns("Poll") = {"title", "description", "options", "owner_id",
                          "created_at", "updated_at"}
    /\ Columns("User") = {"email", "username", "password", "created_at", "updated_at"}
    /\ Columns("Vote") = {"user_id", "poll_id", "option", "created_at"}
    /\ Kind["Poll"]["title"] = "text" /\ Kind["Poll"]["description"] = "note"
    /\ Kind["Poll"]["options"] = "list" /\ Kind["Poll"]["owner_id"] = "ref"
    /\ Kind["Poll"]["created_at"] = "time" /\ Kind["Poll"]["updated_at"] = "time"
    /\ Kind["User"]["email"] = "key" /\ Kind["User"]["username"] = "key"
    /\ Kind["User"]["password"] = "text"
    /\ Kind["User"]["created_at"] = "time" /\ Kind["User"]["updated_at"] = "time"
    /\ Kind["Vote"]["user_id"] = "ref" /\ Kind["Vote"]["poll_id"] = "ref"
    /\ Kind["Vote"]["option"] = "text" /\ Kind["Vote"]["created_at"] = "time"
BY DEF Columns, Kind, PollColumns, UserColumns, VoteColumns

LEMMA EdgeFacts ==
    /\ DOMAIN One["Poll"] = {"owner"} /\ One["Poll"]["owner"] = "owner_id"
    /\ DOMAIN One["User"] = {}
    /\ DOMAIN One["Vote"] = {"user", "poll"}
    /\ One["Vote"]["user"] = "user_id" /\ One["Vote"]["poll"] = "poll_id"
    /\ DOMAIN Many["Poll"] = {"votes"}
    /\ Many["Poll"]["votes"] = [type |-> "Vote", column |-> "poll_id"]
    /\ DOMAIN Many["User"] = {"polls", "votes"}
    /\ Many["User"]["polls"] = [type |-> "Poll", column |-> "user_polls"]
    /\ Many["User"]["votes"] = [type |-> "Vote", column |-> "user_id"]
    /\ DOMAIN Many["Vote"] = {}
BY DEF One, PollOne, VoteOne, NoEdges, Many, PollMany, UserMany

LEMMA TableFacts ==
    /\ TableColumns["Poll"] = Columns("Poll") \cup {"user_polls"}
    /\ TableColumns["User"] = Columns("User")
    /\ TableColumns["Vote"] = Columns("Vote")
    /\ Nullable["Poll"] = {"description", "user_polls"}
    /\ Nullable["User"] = {} /\ Nullable["Vote"] = {}
    /\ SetNullOnDelete["Poll"] = {"user_polls"}
    /\ SetNullOnDelete["User"] = {} /\ SetNullOnDelete["Vote"] = {}
BY DEF TableColumns, Nullable, SetNullOnDelete, Columns, Kind

(***************************************************************************)
(* What the proofs need of it: where the columns of each kind are, and     *)
(* that the column of an edge to many is one of another entity, of no text *)
(* and no list.                                                            *)
(***************************************************************************)
Texted == {"text", "key", "note"}

LEMMA KindFacts ==
    ASSUME NEW type \in Types, NEW c \in Columns(type)
    PROVE  /\ Kind[type][c] \in Texted \cup {"list", "ref", "time"}
           /\ Kind[type][c] = "list" <=> type = "Poll" /\ c = "options"
           /\ Kind[type][c] = "note" <=> type = "Poll" /\ c = "description"
           /\ Kind[type][c] = "time" <=> c \in {"created_at", "updated_at"}
           /\ Kind[type][c] = "ref" <=> \E e \in DOMAIN One[type] : One[type][e] = c
           /\ c \in TableColumns[type]
BY ColumnFacts, EdgeFacts, TableFacts DEF Types, Texted

LEMMA OneFacts ==
    ASSUME NEW type \in Types, NEW e \in DOMAIN One[type]
    PROVE  /\ One[type][e] \in Columns(type) /\ Kind[type][One[type][e]] = "ref"
           /\ One[type][e] \notin Nullable[type]
           /\ \A f \in DOMAIN One[type] : One[type][f] = One[type][e] => f = e
BY ColumnFacts, EdgeFacts, TableFacts DEF Types

LEMMA ManyFacts ==
    ASSUME NEW type \in Types, NEW e \in DOMAIN Many[type]
    PROVE  /\ Many[type][e].type \in Types \ {type}
           /\ Many[type][e].column \in TableColumns[Many[type][e].type]
           /\ Many[type][e].column \in Columns(Many[type][e].type) =>
                 Kind[Many[type][e].type][Many[type][e].column] = "ref"
           /\ Many[type][e] = [type |-> Many[type][e].type, column |-> Many[type][e].column]
           /\ \A f \in DOMAIN Many[type] : Many[type][f] = Many[type][e] => f = e
BY ColumnFacts, EdgeFacts, TableFacts DEF Types

----------------------------------------------------------------------------
(***************************************************************************)
(* What a mutation and its history look like, and how they agree: the      *)
(* columns one by one, the list's tail, the edges.                         *)
(***************************************************************************)
Operations == {"Create", "Update", "UpdateOne", "Delete", "DeleteOne"}

WellFormed(m) ==
    /\ DOMAIN m = {"type", "op", "id", "value", "tail", "marked", "unset", "emptied",
                   "added", "removed", "where", "old", "done"}
    /\ m.type \in Types /\ m.op \in Operations
    /\ m.id \in Ids[m.type] \cup {None}
    /\ DOMAIN m.value = Columns(m.type)
    /\ \A c \in OfKind(m.type, Texted) : m.value[c] \in Texts \cup {None}
    /\ m.marked \subseteq Columns(m.type) /\ m.unset \subseteq DOMAIN One[m.type]
    /\ m.emptied \subseteq DOMAIN Many[m.type]
    /\ DOMAIN m.added = DOMAIN Many[m.type] /\ DOMAIN m.removed = DOMAIN Many[m.type]
    /\ \A e \in DOMAIN Many[m.type] :
          /\ m.added[e] # None => m.added[e] \subseteq Ids[Many[m.type][e].type]
          /\ m.removed[e] # None => m.removed[e] \subseteq Ids[Many[m.type][e].type]
    /\ m.done \in BOOLEAN
    /\ m.op = "Create" => m.unset = {} /\ m.marked = {}

SaidFormed(s, type) ==
    /\ DOMAIN s = {"field", "tail", "empty", "late", "plus", "minus"}
    /\ DOMAIN s.field = Columns(type) /\ s.tail \in Seq({Item})
    /\ \A c \in OfKind(type, {"list"}) : s.field[c] \in Seq({Item}) \cup {None}
    /\ DOMAIN s.plus = DOMAIN Many[type] /\ DOMAIN s.minus = DOMAIN Many[type]

FieldAgrees(m, s, c) ==
    LET kind == Kind[m.type][c] IN
    /\ kind \in {"text", "key"} => m.value[c] = s.field[c]
    /\ kind = "note" =>
          s.field[c] = IF m.value[c] # None THEN m.value[c]
                       ELSE IF c \in m.marked THEN Null ELSE None
    /\ kind = "ref" => m.value[c] = s.field[c] \/ \E e \in m.unset : One[m.type][e] = c
    /\ kind = "list" => \/ m.value[c] = s.field[c]
                        \/ m.op = "Create" /\ s.field[c] = None /\ m.value[c] = << >>
    /\ kind = "time" => m.value[c] = s.field[c]

TailAgrees(m, s) == m.tail = s.tail /\ (m.op = "Create" => m.tail = << >>)

EdgeAgrees(m, s, e) ==
    /\ e \in m.emptied <=> e \in s.empty
    /\ e \notin s.late => Listed(m.added[e]) = s.plus[e]
    /\ e \notin s.late \cup s.empty =>
          s.minus[e] \subseteq Listed(m.removed[e])
              /\ Listed(m.removed[e]) \subseteq s.minus[e] \cup s.plus[e]

Agrees(m, s) ==
    /\ \A c \in Columns(m.type) : FieldAgrees(m, s, c)
    /\ TailAgrees(m, s)
    /\ \A e \in DOMAIN Many[m.type] : EdgeAgrees(m, s, e)

----------------------------------------------------------------------------
LEMMA CallKinds ==
    ASSUME NEW m, m.type \in Types, m.op \in Operations, NEW call \in CallsOf(m)
    PROVE  \/ call[1] \in {"set", "reset"} /\ call[2] \in Columns(m.type)
           \/ call[1] = "append" /\ call[2] = "options" /\ m.type = "Poll" /\ m.op # "Create"
           \/ call[1] = "clear" /\ call[2] = "description" /\ m.type = "Poll" /\ m.op # "Create"
           \/ call[1] = "unset" /\ call[2] \in DOMAIN One[m.type] /\ m.op # "Create"
           \/ call[1] = "reset one" /\ call[2] \in DOMAIN One[m.type]
           \/ call[1] \in {"add", "remove", "empty", "reset many"} /\ call[2] \in DOMAIN Many[m.type]
           \/ call[1] = "id" /\ m.op = "Create"
           \/ call[1] = "where" /\ m.op # "Create"
<1>1. \A type, x : x \in Resets(type) =>
        \/ x[1] = "reset" /\ x[2] \in Columns(type)
        \/ x[1] = "reset one" /\ x[2] \in DOMAIN One[type]
        \/ x[1] = "reset many" /\ x[2] \in DOMAIN Many[type]
  BY DEF Resets
<1>2. \A type, x : x \in Sets(type) => x[1] = "set" /\ x[2] \in Columns(type)
  BY DEF Sets
<1>3. \A verbs, edges, x : x \in Fluent(verbs, edges) => x[1] \in verbs /\ x[2] \in edges
  BY DEF Fluent
<1>4. CASE m.op \in {"Delete", "DeleteOne"}
  <2>1. call[1] = "where"
    BY <1>4 DEF CallsOf, DeleteCalls
  <2> QED
    BY <1>4, <2>1
<1>5. CASE call \in Resets(m.type)
  BY <1>1, <1>5
<1>6. CASE m.op = "Create" /\ call \notin Resets(m.type)
  <2>1. call \in [Poll |-> PollCreateCalls, User |-> UserCreateCalls,
                  Vote |-> VoteCreateCalls][m.type]
    BY <1>6 DEF CallsOf
  <2>2. \/ call[1] = "set" /\ call[2] \in Columns(m.type)
        \/ call[1] = "id"
        \/ call[1] = "add" /\ call[2] \in DOMAIN Many[m.type]
    <3>1. CASE m.type = "Poll"
      <4>1. \/ call \in Sets("Poll") \/ call = <<"id", "id">> \/ call = <<"add", "votes">>
        BY <2>1, <3>1 DEF PollCreateCalls
      <4>2. \/ call[1] = "set" /\ call[2] \in Columns("Poll")
            \/ call[1] = "id"
            \/ call[1] = "add" /\ call[2] = "votes"
        BY <1>2, <4>1
      <4> QED
        BY <3>1, <4>2, EdgeFacts
    <3>2. CASE m.type = "User"
      <4>1. \/ call \in Sets("User") \/ call = <<"id", "id">>
            \/ call \in Fluent({"add"}, {"polls", "votes"})
        BY <2>1, <3>2 DEF UserCreateCalls
      <4>2. \/ call[1] = "set" /\ call[2] \in Columns("User")
            \/ call[1] = "id"
            \/ call[1] \in {"add"} /\ call[2] \in {"polls", "votes"}
        BY <1>2, <1>3, <4>1
      <4> QED
        BY <3>2, <4>2, EdgeFacts
    <3>3. CASE m.type = "Vote"
      <4>1. call \in Sets("Vote") \/ call = <<"id", "id">>
        BY <2>1, <3>3 DEF VoteCreateCalls
      <4>2. \/ call[1] = "set" /\ call[2] \in Columns("Vote")
            \/ call[1] = "id"
        BY <1>2, <4>1
      <4> QED
        BY <3>3, <4>2
    <3> QED
      BY <3>1, <3>2, <3>3 DEF Types
  <2> QED
    BY <1>6, <2>2
<1>7. CASE m.op \in {"Update", "UpdateOne"} /\ call \notin Resets(m.type)
  <2>1. CASE m.type = "Poll"
    <3>1. call \in PollUpdateCalls
      BY <1>7, <2>1 DEF CallsOf, PollUpdateOneCalls
    <3>2. \/ call[1] = "set" /\ call[2] \in Columns("Poll")
          \/ call[1] \in {"add", "remove", "empty"} /\ call[2] = "votes"
          \/ call[1] = "where"
          \/ call[1] = "clear" /\ call[2] = "description"
          \/ call[1] = "append" /\ call[2] = "options"
          \/ call[1] = "unset" /\ call[2] = "owner"
      <4>1. \/ call \in Sets("Poll") \/ call \in Fluent({"add", "remove", "empty"}, {"votes"})
            \/ call = <<"where", "id">> \/ call = <<"clear", "description">>
            \/ call = <<"append", "options">> \/ call = <<"unset", "owner">>
        BY <3>1 DEF PollUpdateCalls
      <4>2. call \in Sets("Poll") => call[1] = "set" /\ call[2] \in Columns("Poll")
        BY <1>2
      <4>3. call \in Fluent({"add", "remove", "empty"}, {"votes"}) =>
                call[1] \in {"add", "remove", "empty"} /\ call[2] = "votes"
        BY <1>3
      <4>4. /\ call = <<"where", "id">> => call[1] = "where"
            /\ call = <<"clear", "description">> => call[1] = "clear" /\ call[2] = "description"
            /\ call = <<"append", "options">> => call[1] = "append" /\ call[2] = "options"
            /\ call = <<"unset", "owner">> => call[1] = "unset" /\ call[2] = "owner"
        OBVIOUS
      <4> QED
        BY <4>1, <4>2, <4>3, <4>4
    <3> QED
      BY <1>7, <2>1, <3>2, EdgeFacts
  <2>2. CASE m.type = "User"
    <3>1. call \in UserUpdateCalls
      BY <1>7, <2>2 DEF CallsOf, UserUpdateOneCalls
    <3>2. \/ call[1] = "set" /\ call[2] \in Columns("User")
          \/ call[1] \in {"add", "remove", "empty"} /\ call[2] \in {"polls", "votes"}
          \/ call[1] = "where"
      BY <1>2, <1>3, <3>1 DEF UserUpdateCalls
    <3> QED
      BY <1>7, <2>2, <3>2, EdgeFacts
  <2>3. CASE m.type = "Vote"
    <3>1. call \in VoteUpdateCalls
      BY <1>7, <2>3 DEF CallsOf, VoteUpdateOneCalls
    <3>2. \/ call[1] = "set" /\ call[2] \in Columns("Vote")
          \/ call[1] = "unset" /\ call[2] \in {"user", "poll"}
          \/ call[1] = "where"
      BY <1>2, <1>3, <3>1 DEF VoteUpdateCalls
    <3> QED
      BY <1>7, <2>3, <3>2, EdgeFacts
  <2> QED
    BY <2>1, <2>2, <2>3 DEF Types
<1> QED
  BY <1>4, <1>5, <1>6, <1>7 DEF Operations

(***************************************************************************)
(* A value that is set is not None, and is of the kind of its column.      *)
(***************************************************************************)
LEMMA ValueFacts ==
    ASSUME NEW type \in Types, NEW c \in Columns(type), NEW v \in Values(type, c)
    PROVE  /\ v # None
           /\ Kind[type][c] \in Texted => v \in Texts
           /\ Kind[type][c] = "list" => v \in Seq({Item})
<1>1. CASE Kind[type][c] \in Texted
  BY <1>1, NoneAssumption DEF Values, Texted, Texts
<1>2. CASE Kind[type][c] = "list"
  <2>1. v \in {<< >>, <<Item>>}
    BY <1>2 DEF Values
  <2>2. << >> \in Seq({Item}) /\ <<Item>> \in Seq({Item})
    OBVIOUS
  <2> QED
    BY <1>2, <2>1, <2>2, NoneAssumption DEF Texted
<1>3. CASE Kind[type][c] = "ref"
  <2>1. v \in Ids[ForeignKeys[type][c]]
    BY <1>3 DEF Values
  <2>2. ForeignKeys[type][c] \in Types
    BY <1>3, KindFacts, EdgeFacts DEF ForeignKeys, Types
  <2> QED
    BY <1>3, <2>1, <2>2, IdsAssumption DEF Texted
<1>4. CASE Kind[type][c] = "time"
  BY <1>4, NoneAssumption DEF Values, Texted, Then
<1> QED
  BY <1>1, <1>2, <1>3, <1>4, KindFacts

(***************************************************************************)
(* What every call leaves alone, and that a mutation stays a mutation.     *)
(***************************************************************************)
LEMMA ChangedKeeps ==
    ASSUME NEW m, WellFormed(m), NEW call \in CallsOf(m), NEW v \in Arguments(m, call)
    PROVE  LET n == Changed(m, call, v) IN
           /\ WellFormed(n)
           /\ n.type = m.type /\ n.op = m.op /\ n.old = m.old /\ n.done = m.done
           /\ call[1] # "id" => n.id = m.id
<1> DEFINE n == Changed(m, call, v)
<1> USE DEF WellFormed
<1>1. CASE call[1] = "set"
  <2>1. call[2] \in Columns(m.type) /\ n = SetField(m, call[2], v) /\ v \in Values(m.type, call[2])
    BY <1>1, CallKinds DEF Changed, Arguments
  <2> QED
    BY <2>1, <1>1, ValueFacts DEF SetField, OfKind
<1>2. CASE call[1] = "append"
  <2>1. n = AppendField(m, v)
    BY <1>2 DEF Changed
  <2> QED
    BY <2>1, <1>2 DEF AppendField
<1>3. CASE call[1] = "clear"
  <2>1. call[2] = "description" /\ m.type = "Poll" /\ m.op # "Create" /\ n = ClearField(m, call[2])
    BY <1>3, CallKinds DEF Changed
  <2> QED
    BY <2>1, <1>3, ColumnFacts DEF ClearField, OfKind
<1>4. CASE call[1] = "reset"
  <2>1. call[2] \in Columns(m.type) /\ n = ResetField(m, call[2])
    BY <1>4, CallKinds DEF Changed
  <2> QED
    BY <2>1, <1>4 DEF ResetField, OfKind
<1>5. CASE call[1] = "unset"
  <2>1. call[2] \in DOMAIN One[m.type] /\ n = ClearOne(m, call[2]) /\ m.op # "Create"
    BY <1>5, CallKinds DEF Changed
  <2> QED
    BY <2>1, <1>5, OneFacts DEF ClearOne
<1>6. CASE call[1] = "reset one"
  <2>1. call[2] \in DOMAIN One[m.type] /\ n = ResetOne(m, call[2])
    BY <1>6, CallKinds DEF Changed
  <2> QED
    BY <2>1, <1>6 DEF ResetOne, OfKind
<1>7. CASE call[1] = "add"
  <2>1. /\ call[2] \in DOMAIN Many[m.type] /\ v \in Ids[Many[m.type][call[2]].type]
        /\ n = AddIDs(m, call[2], {v})
    BY <1>7, CallKinds DEF Changed, Arguments
  <2> QED
    BY <2>1, <1>7 DEF AddIDs, Listed, OfKind
<1>8. CASE call[1] = "remove"
  <2>1. /\ call[2] \in DOMAIN Many[m.type] /\ v \in Ids[Many[m.type][call[2]].type]
        /\ n = RemoveIDs(m, call[2], {v})
    BY <1>8, CallKinds DEF Changed, Arguments
  <2> QED
    BY <2>1, <1>8 DEF RemoveIDs, Listed, OfKind
<1>9. CASE call[1] = "empty"
  <2>1. call[2] \in DOMAIN Many[m.type] /\ n = ClearMany(m, call[2])
    BY <1>9, CallKinds DEF Changed
  <2> QED
    BY <2>1, <1>9 DEF ClearMany, OfKind
<1>10. CASE call[1] = "reset many"
  <2>1. call[2] \in DOMAIN Many[m.type] /\ n = ResetMany(m, call[2])
    BY <1>10, CallKinds DEF Changed
  <2>2. /\ n.added = [m.added EXCEPT ![call[2]] = None]
        /\ n.removed = [m.removed EXCEPT ![call[2]] = None]
        /\ n.emptied = m.emptied \ {call[2]}
        /\ DOMAIN n = DOMAIN m /\ n.type = m.type /\ n.op = m.op /\ n.id = m.id
        /\ n.value = m.value /\ n.marked = m.marked /\ n.unset = m.unset
        /\ n.old = m.old /\ n.done = m.done
    BY <2>1 DEF ResetMany
  <2> QED
    BY <2>2, <1>10 DEF OfKind
<1>11. CASE call[1] = "id"
  <2>1. n = [m EXCEPT !.id = v] /\ v \in Ids[m.type]
    BY <1>11 DEF Changed, Arguments
  <2> QED
    BY <2>1, <1>11
<1>12. CASE call[1] = "where"
  <2>1. n = Where(m, {v})
    BY <1>12 DEF Changed
  <2> QED
    BY <2>1, <1>12 DEF Where
<1> QED
  BY <1>1, <1>2, <1>3, <1>4, <1>5, <1>6, <1>7, <1>8, <1>9, <1>10, <1>11, <1>12,
     CallKinds

LEMMA ListedFacts ==
    /\ \A type \in Types : \A X : X \subseteq Ids[type] => Listed(X) = X
    /\ Listed(None) = {}
<1>1. ASSUME NEW type \in Types, NEW X, X \subseteq Ids[type]
      PROVE  X # None
  <2>1. X \in SUBSET Ids[type]
    BY <1>1
  <2> QED
    BY <2>1, IdsAssumption
<1> QED
  BY <1>1 DEF Listed

(***************************************************************************)
(* A call does to the history what it does to the mutation.                *)
(***************************************************************************)
LEMMA AskedAgrees ==
    ASSUME NEW m, WellFormed(m), NEW s, SaidFormed(s, m.type), Agrees(m, s),
           NEW call \in CallsOf(m), NEW v \in Arguments(m, call)
    PROVE  LET n == Changed(m, call, v)
               t == Asked(s, m.type, call, v) IN
           SaidFormed(t, n.type) /\ Agrees(n, t)
<1> DEFINE n == Changed(m, call, v)
           t == Asked(s, m.type, call, v)
<1> USE DEF WellFormed, SaidFormed
<1>0. << >> \in Seq({Item})
  OBVIOUS
<1>1. CASE call[1] = "set"
  <2>1. call[2] \in Columns(m.type) /\ n = SetField(m, call[2], v) /\ v \in Values(m.type, call[2])
    BY <1>1, CallKinds DEF Changed, Arguments
  <2>2. t = [s EXCEPT !.field[call[2]] = v,
                      !.tail = IF Kind[m.type][call[2]] = "list" THEN << >> ELSE @]
    BY <1>1 DEF Asked
  <2>3. SaidFormed(t, m.type) /\ n.type = m.type
    BY <1>0, <2>1, <2>2, ValueFacts DEF SetField, OfKind
  <2>4. \A c \in Columns(m.type) : FieldAgrees(n, t, c)
    BY <2>1, <2>2, ValueFacts DEF SetField, FieldAgrees, Agrees
  <2>5. TailAgrees(n, t)
    BY <2>1, <2>2 DEF SetField, TailAgrees, Agrees
  <2>6. \A e \in DOMAIN Many[m.type] : EdgeAgrees(n, t, e)
    BY <2>1, <2>2 DEF SetField, EdgeAgrees, Agrees
  <2> QED
    BY <2>3, <2>4, <2>5, <2>6 DEF Agrees
<1>2. CASE call[1] = "append"
  <2>1. n = AppendField(m, v) /\ v = <<Item>> /\ m.op # "Create"
    BY <1>2, CallKinds DEF Changed, Arguments
  <2>2. t = [s EXCEPT !.tail = @ \o v]
    BY <1>2 DEF Asked
  <2>3. SaidFormed(t, m.type) /\ n.type = m.type
    <3>1. s.tail \o <<Item>> \in Seq({Item})
      OBVIOUS
    <3> QED
      BY <2>1, <2>2, <3>1 DEF AppendField
  <2>4. \A c \in Columns(m.type) : FieldAgrees(n, t, c)
    <3>1. /\ n.value = m.value /\ n.marked = m.marked /\ n.unset = m.unset
          /\ n.type = m.type /\ n.op = m.op /\ t.field = s.field
      BY <2>1, <2>2 DEF AppendField
    <3> QED
      BY <3>1 DEF FieldAgrees, Agrees
  <2>5. TailAgrees(n, t)
    BY <2>1, <2>2 DEF AppendField, TailAgrees, Agrees
  <2>6. \A e \in DOMAIN Many[m.type] : EdgeAgrees(n, t, e)
    BY <2>1, <2>2 DEF AppendField, EdgeAgrees, Agrees
  <2> QED
    BY <2>3, <2>4, <2>5, <2>6 DEF Agrees
<1>3. CASE call[1] = "clear"
  <2>1. call[2] \in Columns(m.type) /\ Kind[m.type][call[2]] = "note" /\ n = ClearField(m, call[2])
    BY <1>3, CallKinds, ColumnFacts DEF Changed
  <2>2. t = [s EXCEPT !.field[call[2]] = Null]
    BY <1>3 DEF Asked
  <2>3. SaidFormed(t, m.type) /\ n.type = m.type
    BY <2>1, <2>2 DEF ClearField, OfKind
  <2>4. \A c \in Columns(m.type) : FieldAgrees(n, t, c)
    BY <2>1, <2>2 DEF ClearField, FieldAgrees, Agrees
  <2>5. TailAgrees(n, t)
    BY <2>1, <2>2 DEF ClearField, TailAgrees, Agrees
  <2>6. \A e \in DOMAIN Many[m.type] : EdgeAgrees(n, t, e)
    BY <2>1, <2>2 DEF ClearField, EdgeAgrees, Agrees
  <2> QED
    BY <2>3, <2>4, <2>5, <2>6 DEF Agrees
<1>4. CASE call[1] = "reset"
  <2>1. call[2] \in Columns(m.type) /\ n = ResetField(m, call[2])
    BY <1>4, CallKinds DEF Changed
  <2>2. t = [s EXCEPT !.field[call[2]] = None,
                      !.tail = IF Kind[m.type][call[2]] = "list" THEN << >> ELSE @]
    BY <1>4 DEF Asked
  <2>3. SaidFormed(t, m.type) /\ n.type = m.type
    BY <1>0, <2>1, <2>2 DEF ResetField, OfKind
  <2>4. \A c \in Columns(m.type) : FieldAgrees(n, t, c)
    BY <2>1, <2>2 DEF ResetField, FieldAgrees, Agrees
  <2>5. TailAgrees(n, t)
    BY <2>1, <2>2 DEF ResetField, TailAgrees, Agrees
  <2>6. \A e \in DOMAIN Many[m.type] : EdgeAgrees(n, t, e)
    BY <2>1, <2>2 DEF ResetField, EdgeAgrees, Agrees
  <2> QED
    BY <2>3, <2>4, <2>5, <2>6 DEF Agrees
<1>5. CASE call[1] = "unset"
  <2>1. call[2] \in DOMAIN One[m.type] /\ n = ClearOne(m, call[2])
    BY <1>5, CallKinds DEF Changed
  <2>2. t = [s EXCEPT !.field[One[m.type][call[2]]] = Null]
    BY <1>5 DEF Asked
  <2>3. /\ One[m.type][call[2]] \in Columns(m.type)
        /\ Kind[m.type][One[m.type][call[2]]] = "ref"
    BY <2>1, OneFacts
  <2>4. SaidFormed(t, m.type) /\ n.type = m.type
    BY <2>1, <2>2, <2>3 DEF ClearOne, OfKind
  <2>5. \A c \in Columns(m.type) : FieldAgrees(n, t, c)
    BY <2>1, <2>2, <2>3 DEF ClearOne, FieldAgrees, Agrees
  <2>6. TailAgrees(n, t)
    BY <2>1, <2>2 DEF ClearOne, TailAgrees, Agrees
  <2>7. \A e \in DOMAIN Many[m.type] : EdgeAgrees(n, t, e)
    BY <2>1, <2>2 DEF ClearOne, EdgeAgrees, Agrees
  <2> QED
    BY <2>4, <2>5, <2>6, <2>7 DEF Agrees
<1>6. CASE call[1] = "reset one"
  <2>1. call[2] \in DOMAIN One[m.type] /\ n = ResetOne(m, call[2])
    BY <1>6, CallKinds DEF Changed
  <2>2. t = [s EXCEPT !.field[One[m.type][call[2]]] = None]
    BY <1>6 DEF Asked
  <2>3. /\ One[m.type][call[2]] \in Columns(m.type)
        /\ Kind[m.type][One[m.type][call[2]]] = "ref"
    BY <2>1, OneFacts
  <2>4. SaidFormed(t, m.type) /\ n.type = m.type
    BY <2>1, <2>2, <2>3 DEF ResetOne, OfKind
  <2>5. \A c \in Columns(m.type) : FieldAgrees(n, t, c)
    BY <2>1, <2>2, <2>3 DEF ResetOne, FieldAgrees, Agrees
  <2>6. TailAgrees(n, t)
    BY <2>1, <2>2 DEF ResetOne, TailAgrees, Agrees
  <2>7. \A e \in DOMAIN Many[m.type] : EdgeAgrees(n, t, e)
    BY <2>1, <2>2 DEF ResetOne, EdgeAgrees, Agrees
  <2> QED
    BY <2>4, <2>5, <2>6, <2>7 DEF Agrees
<1>7. CASE call[1] = "add"
  <2>1. /\ call[2] \in DOMAIN Many[m.type] /\ v \in Ids[Many[m.type][call[2]].type]
        /\ n = AddIDs(m, call[2], {v})
    BY <1>7, CallKinds DEF Changed, Arguments
  <2>2. t = [s EXCEPT !.plus[call[2]] = @ \cup {v}, !.minus[call[2]] = @ \ {v}]
    BY <1>7 DEF Asked
  <2>3. SaidFormed(t, m.type) /\ n.type = m.type
    BY <2>1, <2>2 DEF AddIDs, OfKind
  <2>4. \A c \in Columns(m.type) : FieldAgrees(n, t, c)
    BY <2>1, <2>2 DEF AddIDs, FieldAgrees, Agrees
  <2>5. TailAgrees(n, t)
    BY <2>1, <2>2 DEF AddIDs, TailAgrees, Agrees
  <2>6. ASSUME NEW e \in DOMAIN Many[m.type]
        PROVE  EdgeAgrees(n, t, e)
    <3>1. EdgeAgrees(m, s, e)
      BY DEF Agrees
    <3>2. /\ n.emptied = m.emptied /\ t.empty = s.empty /\ t.late = s.late
          /\ n.removed = m.removed
      BY <2>1, <2>2 DEF AddIDs
    <3>3. CASE e # call[2]
      <4>1. n.added[e] = m.added[e] /\ t.plus[e] = s.plus[e] /\ t.minus[e] = s.minus[e]
        BY <2>1, <2>2, <3>3 DEF AddIDs
      <4> QED
        BY <3>1, <3>2, <4>1 DEF EdgeAgrees
    <3>4. CASE e = call[2]
      <4>1. /\ n.added[e] = Listed(m.added[e]) \cup {v}
            /\ t.plus[e] = s.plus[e] \cup {v} /\ t.minus[e] = s.minus[e] \ {v}
        BY <2>1, <2>2, <3>4 DEF AddIDs
      <4>2. Listed(m.added[e]) \cup {v} \subseteq Ids[Many[m.type][e].type]
        BY <2>1, <3>4 DEF Listed
      <4>3. Listed(n.added[e]) = Listed(m.added[e]) \cup {v}
        <5>1. Many[m.type][e].type \in Types
          BY ManyFacts
        <5>2. Listed(Listed(m.added[e]) \cup {v}) = Listed(m.added[e]) \cup {v}
          BY <4>2, <5>1, ListedFacts
        <5> QED
          BY <4>1, <5>2
      <4> QED
        BY <3>1, <3>2, <4>1, <4>3 DEF EdgeAgrees
    <3> QED
      BY <3>3, <3>4
  <2> QED
    BY <2>3, <2>4, <2>5, <2>6 DEF Agrees
<1>8. CASE call[1] = "remove"
  <2>1. /\ call[2] \in DOMAIN Many[m.type] /\ v \in Ids[Many[m.type][call[2]].type]
        /\ n = RemoveIDs(m, call[2], {v})
    BY <1>8, CallKinds DEF Changed, Arguments
  <2>2. t = [s EXCEPT !.plus[call[2]] = @ \ {v}, !.minus[call[2]] = @ \cup {v}]
    BY <1>8 DEF Asked
  <2>3. SaidFormed(t, m.type) /\ n.type = m.type
    BY <2>1, <2>2 DEF RemoveIDs, OfKind
  <2>4. \A c \in Columns(m.type) : FieldAgrees(n, t, c)
    BY <2>1, <2>2 DEF RemoveIDs, FieldAgrees, Agrees
  <2>5. TailAgrees(n, t)
    BY <2>1, <2>2 DEF RemoveIDs, TailAgrees, Agrees
  <2>6. ASSUME NEW e \in DOMAIN Many[m.type]
        PROVE  EdgeAgrees(n, t, e)
    <3>1. EdgeAgrees(m, s, e)
      BY DEF Agrees
    <3>2. n.emptied = m.emptied /\ t.empty = s.empty /\ t.late = s.late
      BY <2>1, <2>2 DEF RemoveIDs
    <3>3. CASE e # call[2]
      <4>1. /\ n.added[e] = m.added[e] /\ n.removed[e] = m.removed[e]
            /\ t.plus[e] = s.plus[e] /\ t.minus[e] = s.minus[e]
        BY <2>1, <2>2, <3>3 DEF RemoveIDs
      <4> QED
        BY <3>1, <3>2, <4>1 DEF EdgeAgrees
    <3>4. CASE e = call[2]
      <4>0. Many[m.type][e].type \in Types
        BY ManyFacts
      <4>1. /\ n.added[e] = IF m.added[e] = None THEN None ELSE m.added[e] \ {v}
            /\ n.removed[e] = Listed(m.removed[e]) \cup {v}
            /\ t.plus[e] = s.plus[e] \ {v} /\ t.minus[e] = s.minus[e] \cup {v}
        <5>1. /\ n.added = [m.added EXCEPT ![e] = IF @ = None THEN None ELSE @ \ {v}]
              /\ n.removed = [m.removed EXCEPT ![e] = Listed(@) \cup {v}]
          BY <2>1, <3>4 DEF RemoveIDs
        <5>2. /\ t.plus = [s.plus EXCEPT ![e] = @ \ {v}]
              /\ t.minus = [s.minus EXCEPT ![e] = @ \cup {v}]
          BY <2>2, <3>4
        <5> QED
          BY <5>1, <5>2
      <4>2. /\ Listed(m.removed[e]) \cup {v} \subseteq Ids[Many[m.type][e].type]
            /\ m.added[e] # None => m.added[e] \ {v} \subseteq Ids[Many[m.type][e].type]
        BY <2>1, <3>4 DEF Listed
      <4>3. Listed(n.removed[e]) = Listed(m.removed[e]) \cup {v}
        <5>1. Listed(Listed(m.removed[e]) \cup {v}) = Listed(m.removed[e]) \cup {v}
          BY <4>0, <4>2, ListedFacts
        <5> QED
          BY <4>1, <5>1
      <4>4. Listed(n.added[e]) = Listed(m.added[e]) \ {v}
        <5>1. CASE m.added[e] = None
          BY <4>1, <5>1, ListedFacts
        <5>2. CASE m.added[e] # None
          <6>1. /\ Listed(m.added[e] \ {v}) = m.added[e] \ {v}
                /\ Listed(m.added[e]) = m.added[e]
            BY <4>0, <4>2, <5>2, ListedFacts DEF Listed
          <6> QED
            BY <4>1, <5>2, <6>1
        <5> QED
          BY <5>1, <5>2
      <4> QED
        BY <3>1, <3>2, <4>1, <4>3, <4>4 DEF EdgeAgrees
    <3> QED
      BY <3>3, <3>4
  <2> QED
    BY <2>3, <2>4, <2>5, <2>6 DEF Agrees
<1>9. CASE call[1] = "empty"
  <2>1. call[2] \in DOMAIN Many[m.type] /\ n = ClearMany(m, call[2])
    BY <1>9, CallKinds DEF Changed
  <2>2. t = [s EXCEPT !.late = IF s.plus[call[2]] = {} THEN @ ELSE @ \cup {call[2]},
                      !.empty = @ \cup {call[2]}, !.plus[call[2]] = {}, !.minus[call[2]] = {}]
    BY <1>9 DEF Asked
  <2>3. SaidFormed(t, m.type) /\ n.type = m.type
    BY <2>1, <2>2 DEF ClearMany, OfKind
  <2>4. \A c \in Columns(m.type) : FieldAgrees(n, t, c)
    BY <2>1, <2>2 DEF ClearMany, FieldAgrees, Agrees
  <2>5. TailAgrees(n, t)
    BY <2>1, <2>2 DEF ClearMany, TailAgrees, Agrees
  <2>6. ASSUME NEW e \in DOMAIN Many[m.type]
        PROVE  EdgeAgrees(n, t, e)
    <3>1. EdgeAgrees(m, s, e)
      BY DEF Agrees
    <3>2. /\ n.added = m.added /\ n.removed = m.removed
          /\ n.emptied = m.emptied \cup {call[2]} /\ t.empty = s.empty \cup {call[2]}
      BY <2>1, <2>2 DEF ClearMany
    <3>3. IF e = call[2] THEN t.plus[e] = {} /\ (e \notin t.late => e \notin s.late /\ s.plus[e] = {})
                         ELSE /\ t.plus[e] = s.plus[e] /\ t.minus[e] = s.minus[e]
                              /\ e \in t.late <=> e \in s.late
      BY <2>1, <2>2
    <3> QED
      BY <3>1, <3>2, <3>3 DEF EdgeAgrees
  <2> QED
    BY <2>3, <2>4, <2>5, <2>6 DEF Agrees
<1>10. CASE call[1] = "reset many"
  <2>1. call[2] \in DOMAIN Many[m.type] /\ n = ResetMany(m, call[2])
    BY <1>10, CallKinds DEF Changed
  <2>2. t = [s EXCEPT !.late = @ \ {call[2]}, !.empty = @ \ {call[2]},
                      !.plus[call[2]] = {}, !.minus[call[2]] = {}]
    BY <1>10 DEF Asked
  <2>3. SaidFormed(t, m.type) /\ n.type = m.type
    BY <2>1, <2>2 DEF ResetMany, OfKind
  <2>4. \A c \in Columns(m.type) : FieldAgrees(n, t, c)
    BY <2>1, <2>2 DEF ResetMany, FieldAgrees, Agrees
  <2>5. TailAgrees(n, t)
    BY <2>1, <2>2 DEF ResetMany, TailAgrees, Agrees
  <2>6. ASSUME NEW e \in DOMAIN Many[m.type]
        PROVE  EdgeAgrees(n, t, e)
    <3>1. EdgeAgrees(m, s, e)
      BY DEF Agrees
    <3> QED
      BY <2>1, <2>2, <3>1 DEF ResetMany, EdgeAgrees, Listed
  <2> QED
    BY <2>3, <2>4, <2>5, <2>6 DEF Agrees
<1>11. CASE call[1] \in {"id", "where"}
  <2>1. t = s
    BY <1>11 DEF Asked
  <2>2. n = [m EXCEPT !.id = v] \/ n = Where(m, {v})
    BY <1>11 DEF Changed
  <2>3. /\ n.type = m.type /\ n.op = m.op /\ n.value = m.value /\ n.tail = m.tail
        /\ n.marked = m.marked /\ n.unset = m.unset /\ n.emptied = m.emptied
        /\ n.added = m.added /\ n.removed = m.removed
    BY <2>2 DEF Where
  <2> QED
    BY <2>1, <2>3 DEF Agrees, FieldAgrees, TailAgrees, EdgeAgrees
<1> QED
  BY <1>1, <1>2, <1>3, <1>4, <1>5, <1>6, <1>7, <1>8, <1>9, <1>10, <1>11, CallKinds

----------------------------------------------------------------------------
(***************************************************************************)
(* The inductive invariant.  The tables have complete rows of the right    *)
(* kinds; every mutation agrees with its history; an answer that came back *)
(* good has set done; and what a builder has made since it was given an    *)
(* identifier is the row of that identifier.                               *)
(***************************************************************************)
RowOK(type, row) ==
    /\ DOMAIN row = TableColumns[type]
    /\ \A c \in OfKind(type, Texted) : row[c] \in Texts \cup {Null}
    /\ \A c \in OfKind(type, {"text", "key"}) : row[c] # Empty
    /\ \A c \in OfKind(type, {"list"}) : row[c] \in Seq({Item})

TableOK(t) ==
    /\ DOMAIN t = Types
    /\ \A type \in Types : \A id \in Rows(t, type) :
          id \in Ids[type] /\ RowOK(type, t[type][id])

BuilderOK(m, s) ==
    /\ WellFormed(m) /\ <<m.type, m.op>> \in Offers
    /\ SaidFormed(s, m.type) /\ Agrees(m, s)

BuildersOK ==
    /\ DOMAIN made \subseteq Builders /\ DOMAIN said = DOMAIN made
    /\ \A b \in DOMAIN made : BuilderOK(made[b], said[b])

SavedIsDone == \A b \in Builders : out[b] = "saved" => b \in DOMAIN made /\ made[b].done

BornOnce ==
    /\ DOMAIN born = Builders
    /\ \A b \in Builders : born[b] # {} =>
          b \in DOMAIN made /\ made[b].id # None /\ born[b] = {made[b].id}

CountsOK ==
    /\ out \in [Builders -> {"none", "saved", "invalid", "refused", "lost"}]
    /\ applied \in [Builders -> 0 .. steps]
    /\ steps \in 0 .. MaxSteps
    /\ mishaps \in 0 .. MaxMishaps

\* While a bulk is being saved: its two builders are there, with the
\* identifiers and the times of its defaults, and those before the one whose
\* mutator is next are checked.
BulkOK ==
    /\ bulk \in Seq(Builders) /\ turn \in 0 .. 2
    /\ turn # 0 =>
          /\ \A b \in Builders : applied[b] + 1 <= steps
          /\ \A a, b : bulk = <<a, b>> =>
                /\ a # b /\ a \in DOMAIN made /\ b \in DOMAIN made
                /\ made[a].type = made[b].type
                /\ \A c \in {a, b} : made[c].op = "Create" /\ made[c].id # None
                /\ turn = 2 => CreateCheck(made[a])

EntInv == TableOK(table) /\ BuildersOK /\ SavedIsDone /\ BornOnce /\ CountsOK /\ BulkOK

----------------------------------------------------------------------------
(***************************************************************************)
(* The times that a save gives, and what remains of a history with them.   *)
(***************************************************************************)
LEMMA StampedFacts ==
    ASSUME NEW type \in Types, NEW op
    PROVE  /\ Stamped(type, op) \subseteq Columns(type)
           /\ \A c \in Columns(type) :
                 c \in Stamped(type, op)
                     <=> Kind[type][c] = "time" /\ (op = "Create" \/ c = "updated_at")
BY KindFacts DEF Stamped, OfKind

LEMMA DatedFacts ==
    ASSUME NEW type \in Types, NEW s, SaidFormed(s, type), NEW op, NEW now,
           NEW t, t = Dated(s, type, op, now)
    PROVE  /\ SaidFormed(t, type)
           /\ t.tail = s.tail /\ t.empty = s.empty /\ t.late = s.late
           /\ t.plus = s.plus /\ t.minus = s.minus
           /\ \A c \in Columns(type) :
                 t.field[c] = IF c \in Stamped(type, op) /\ s.field[c] = None
                              THEN now ELSE s.field[c]
<1>1. /\ DOMAIN t = DOMAIN s /\ DOMAIN t.field = Columns(type)
      /\ t.tail = s.tail /\ t.empty = s.empty /\ t.late = s.late
      /\ t.plus = s.plus /\ t.minus = s.minus
      /\ \A c \in Columns(type) :
            t.field[c] = IF c \in Stamped(type, op) /\ s.field[c] = None
                         THEN now ELSE s.field[c]
  BY DEF Dated, SaidFormed
<1>2. \A c \in OfKind(type, {"list"}) : t.field[c] = s.field[c]
  BY <1>1, StampedFacts DEF OfKind
<1> QED
  BY <1>1, <1>2 DEF SaidFormed

(***************************************************************************)
(* Defaults fill in a list, which the history allows for, and the times    *)
(* that it notes.                                                          *)
(***************************************************************************)
LEMMA DefaultKeeps ==
    ASSUME NEW m, WellFormed(m), NEW values, NEW now \in Nat,
           DOMAIN values \subseteq {"options", "created_at", "updated_at"},
           m.op # "Create" => "options" \notin DOMAIN values,
           \A c \in Columns(m.type) \ {"options"} :
              c \in DOMAIN values <=> c \in Stamped(m.type, m.op),
           \A c \in DOMAIN values : c = "options" => values[c] = << >>,
           \A c \in DOMAIN values : c # "options" => values[c] = now
    PROVE  LET n == Default(m, values) IN
           /\ WellFormed(n)
           /\ n.type = m.type /\ n.op = m.op /\ n.id = m.id
           /\ n.where = m.where /\ n.old = m.old /\ n.done = m.done
           /\ \A c \in Columns(m.type) \cap DOMAIN values : n.value[c] # None
           /\ \A s : SaidFormed(s, m.type) /\ Agrees(m, s) =>
                 Agrees(n, Dated(s, m.type, m.op, now))
<1> DEFINE n == Default(m, values)
<1> USE DEF WellFormed
<1>1. /\ DOMAIN n = DOMAIN m /\ n.type = m.type /\ n.op = m.op /\ n.id = m.id
      /\ n.where = m.where /\ n.old = m.old /\ n.done = m.done
      /\ n.tail = m.tail /\ n.marked = m.marked /\ n.unset = m.unset
      /\ n.emptied = m.emptied /\ n.added = m.added /\ n.removed = m.removed
      /\ DOMAIN n.value = DOMAIN m.value
  BY DEF Default
<1>2. \A c \in Columns(m.type) :
          n.value[c] = IF c \in DOMAIN values /\ m.value[c] = None THEN values[c] ELSE m.value[c]
  BY DEF Default
<1>3. /\ \A c \in Columns(m.type) : c = "options" <=> Kind[m.type][c] = "list"
      /\ \A c \in DOMAIN values : c \in Columns(m.type) =>
            Kind[m.type][c] \in {"list", "time"}
  BY ColumnFacts DEF Types
<1>4. WellFormed(n)
  <2>1. \A c \in OfKind(m.type, Texted) : n.value[c] = m.value[c]
    BY <1>2, <1>3 DEF OfKind, Texted
  <2> QED
    BY <1>1, <2>1
<1>5. \A c \in Columns(m.type) \cap DOMAIN values : n.value[c] # None
  BY <1>2, NoneAssumption
<1> HIDE DEF n
<1>6. ASSUME NEW s, SaidFormed(s, m.type), Agrees(m, s)
      PROVE  Agrees(n, Dated(s, m.type, m.op, now))
  <2>0. PICK t : t = Dated(s, m.type, m.op, now)
    OBVIOUS
  <2>1. /\ t.tail = s.tail /\ t.empty = s.empty /\ t.late = s.late
        /\ t.plus = s.plus /\ t.minus = s.minus
        /\ \A c \in Columns(m.type) :
              t.field[c] = IF c \in Stamped(m.type, m.op) /\ s.field[c] = None
                           THEN now ELSE s.field[c]
    BY <1>6, <2>0, DatedFacts
  <2>2. ASSUME NEW c \in Columns(m.type)
        PROVE  FieldAgrees(n, t, c)
    <3>1. FieldAgrees(m, s, c)
      BY <1>6 DEF Agrees
    <3>2. CASE Kind[m.type][c] = "time"
      <4>1. m.value[c] = s.field[c]
        BY <3>1, <3>2 DEF FieldAgrees
      <4>2. n.value[c] = t.field[c]
        BY <1>2, <1>3, <2>1, <3>2, <4>1
      <4> QED
        BY <1>1, <3>2, <4>2 DEF FieldAgrees
    <3>3. CASE Kind[m.type][c] = "list"
      <4>1. t.field[c] = s.field[c]
        BY <2>1, <3>3, StampedFacts
      <4>2. \/ n.value[c] = m.value[c]
            \/ m.value[c] = None /\ n.value[c] = << >> /\ m.op = "Create"
        BY <1>2, <1>3, <3>3
      <4> QED
        BY <1>1, <3>1, <3>3, <4>1, <4>2, NoneAssumption DEF FieldAgrees
    <3>4. CASE Kind[m.type][c] \notin {"time", "list"}
      <4>1. t.field[c] = s.field[c] /\ n.value[c] = m.value[c]
        BY <1>2, <1>3, <2>1, <3>4, StampedFacts
      <4> QED
        BY <1>1, <3>1, <4>1, <3>4 DEF FieldAgrees
    <3> QED
      BY <3>2, <3>3, <3>4
  <2>3. TailAgrees(n, t) /\ \A e \in DOMAIN Many[m.type] : EdgeAgrees(n, t, e)
    BY <1>1, <1>6, <2>1 DEF Agrees, TailAgrees, EdgeAgrees
  <2> QED
    BY <1>1, <2>0, <2>2, <2>3 DEF Agrees
<1> QED
  BY <1>1, <1>4, <1>5, <1>6 DEF n

LEMMA CreateDefaultsKeep ==
    ASSUME NEW m, WellFormed(m), m.op = "Create", NEW id \in Ids[m.type], NEW now \in Nat
    PROVE  LET n == CreateDefaults(m, id, now) IN
           /\ WellFormed(n)
           /\ n.type = m.type /\ n.op = m.op
           /\ n.id = (IF m.id = None THEN id ELSE m.id) /\ n.id # None
           /\ n.old = m.old /\ n.done = m.done
           /\ \A s : SaidFormed(s, m.type) /\ Agrees(m, s) =>
                 Agrees(n, Dated(s, m.type, m.op, now))
<1> DEFINE n == CreateDefaults(m, id, now)
<1>0. m.type \in Types /\ id # None
  BY IdsAssumption DEF WellFormed
<1>1. PICK values :
        /\ DOMAIN values \subseteq {"options", "created_at", "updated_at"}
        /\ \A c \in Columns(m.type) \ {"options"} :
              c \in DOMAIN values <=> c \in Stamped(m.type, m.op)
        /\ \A c \in DOMAIN values : c = "options" => values[c] = << >>
        /\ \A c \in DOMAIN values : c # "options" => values[c] = now
        /\ n = WithId(Default(m, values), id)
  <2>1. CASE m.type = "Poll"
    <3> DEFINE w == [options |-> << >>, created_at |-> now, updated_at |-> now]
    <3>1. /\ DOMAIN w = {"options", "created_at", "updated_at"}
          /\ \A c \in DOMAIN w : c = "options" => w[c] = << >>
          /\ \A c \in DOMAIN w : c # "options" => w[c] = now
      OBVIOUS
    <3>2. n = WithId(Default(m, w), id)
      BY <2>1 DEF CreateDefaults, PollCreateDefaults
    <3> HIDE DEF w
    <3>3. \A c \in Columns(m.type) \ {"options"} :
              c \in DOMAIN w <=> c \in Stamped(m.type, m.op)
      BY <1>0, <3>1, <2>1, StampedFacts, KindFacts
    <3> QED
      BY <3>1, <3>2, <3>3
  <2>2. CASE m.type = "User"
    <3> DEFINE w == [created_at |-> now, updated_at |-> now]
    <3>1. /\ DOMAIN w = {"created_at", "updated_at"}
          /\ \A c \in DOMAIN w : w[c] = now
      OBVIOUS
    <3>2. n = WithId(Default(m, w), id)
      BY <2>2 DEF CreateDefaults, UserCreateDefaults
    <3> HIDE DEF w
    <3>3. \A c \in Columns(m.type) \ {"options"} :
              c \in DOMAIN w <=> c \in Stamped(m.type, m.op)
      BY <1>0, <3>1, <2>2, StampedFacts, KindFacts
    <3> QED
      BY <3>1, <3>2, <3>3
  <2>3. CASE m.type = "Vote"
    <3> DEFINE w == [created_at |-> now]
    <3>1. DOMAIN w = {"created_at"} /\ \A c \in DOMAIN w : w[c] = now
      OBVIOUS
    <3>2. n = WithId(Default(m, w), id)
      BY <2>3 DEF CreateDefaults, VoteCreateDefaults
    <3> HIDE DEF w
    <3>3. \A c \in Columns(m.type) \ {"options"} :
              c \in DOMAIN w <=> c \in Stamped(m.type, m.op)
      BY <1>0, <3>1, <2>3, StampedFacts, KindFacts, ColumnFacts
    <3> QED
      BY <3>1, <3>2, <3>3
  <2> QED
    BY <1>0, <2>1, <2>2, <2>3 DEF Types
<1> DEFINE d == Default(m, values)
<1>2. /\ WellFormed(d)
      /\ d.type = m.type /\ d.op = m.op /\ d.id = m.id /\ d.old = m.old /\ d.done = m.done
      /\ \A s : SaidFormed(s, m.type) /\ Agrees(m, s) =>
            Agrees(d, Dated(s, m.type, m.op, now))
  BY <1>1, DefaultKeeps
<1> HIDE DEF d
<1>3. n = WithId(d, id)
  BY <1>1 DEF d
<1>4. /\ DOMAIN n = DOMAIN d /\ n.type = d.type /\ n.op = d.op
      /\ n.id = IF d.id = None THEN id ELSE d.id
      /\ n.value = d.value /\ n.tail = d.tail /\ n.marked = d.marked /\ n.unset = d.unset
      /\ n.emptied = d.emptied /\ n.added = d.added /\ n.removed = d.removed
      /\ n.where = d.where /\ n.old = d.old /\ n.done = d.done
  BY <1>2, <1>3 DEF WithId, WellFormed
<1>5. WellFormed(n)
  BY <1>2, <1>4 DEF WellFormed, OfKind
<1> HIDE DEF n
<1>6. ASSUME NEW s, SaidFormed(s, m.type), Agrees(m, s)
      PROVE  Agrees(n, Dated(s, m.type, m.op, now))
  <2>0. PICK t : t = Dated(s, m.type, m.op, now)
    OBVIOUS
  <2>1. Agrees(d, t)
    BY <1>2, <1>6, <2>0
  <2> QED
    BY <1>4, <2>0, <2>1 DEF Agrees, FieldAgrees, TailAgrees, EdgeAgrees
<1> QED
  BY <1>0, <1>2, <1>4, <1>5, <1>6 DEF n

LEMMA UpdateDefaultsKeep ==
    ASSUME NEW m, WellFormed(m), m.op # "Create", NEW now \in Nat
    PROVE  LET n == UpdateDefaults(m, now) IN
           /\ WellFormed(n)
           /\ n.type = m.type /\ n.op = m.op /\ n.id = m.id
           /\ n.where = m.where /\ n.old = m.old /\ n.done = m.done
           /\ \A c \in Columns(m.type) : c = "updated_at" => n.value[c] # None
           /\ \A s : SaidFormed(s, m.type) /\ Agrees(m, s) =>
                 Agrees(n, Dated(s, m.type, m.op, now))
<1>0. m.type \in Types
  BY DEF WellFormed
<1>1. CASE m.type = "Vote"
  <2>1. UpdateDefaults(m, now) = m /\ "updated_at" \notin Columns(m.type)
    BY <1>1, ColumnFacts DEF UpdateDefaults
  <2>2. ASSUME NEW s, SaidFormed(s, m.type), Agrees(m, s)
        PROVE  Agrees(m, Dated(s, m.type, m.op, now))
    <3>0. PICK t : t = Dated(s, m.type, m.op, now)
      OBVIOUS
    <3>1. Stamped(m.type, m.op) = {}
      BY <1>0, <2>1, StampedFacts
    <3>2. /\ t.tail = s.tail /\ t.empty = s.empty /\ t.late = s.late
          /\ t.plus = s.plus /\ t.minus = s.minus
          /\ \A c \in Columns(m.type) : t.field[c] = s.field[c]
      BY <1>0, <2>2, <3>0, <3>1, DatedFacts
    <3> QED
      BY <2>2, <3>0, <3>2 DEF Agrees, FieldAgrees, TailAgrees, EdgeAgrees
  <2> QED
    BY <2>1, <2>2
<1>2. CASE m.type # "Vote"
  <2> DEFINE w == [updated_at |-> now]
  <2>1. DOMAIN w = {"updated_at"} /\ \A c \in DOMAIN w : w[c] = now
    OBVIOUS
  <2>2. UpdateDefaults(m, now) = Default(m, w)
    BY <1>2 DEF UpdateDefaults
  <2> HIDE DEF w
  <2>3. \A c \in Columns(m.type) \ {"options"} :
            c \in DOMAIN w <=> c \in Stamped(m.type, m.op)
    BY <1>0, <2>1, StampedFacts, KindFacts
  <2> QED
    BY <2>1, <2>2, <2>3, DefaultKeeps
<1> QED
  BY <1>1, <1>2

----------------------------------------------------------------------------
(***************************************************************************)
(* The statements: what is set of the columns, and what of the edges.      *)
(***************************************************************************)
LEMMA InsertFacts ==
    ASSUME NEW m, WellFormed(m)
    PROVE  /\ InsertOf(m).set = [c \in {d \in Columns(m.type) : IsSet(m, d)} |-> m.value[c]]
           /\ InsertOf(m).in = [e \in DOMAIN Many[m.type] |-> Listed(m.added[e])]
<1>1. CASE m.type = "Poll"
  <2>1. {"title", "description", "options", "created_at", "updated_at"}
            \cup {One["Poll"][e] : e \in {"owner"}} = Columns("Poll")
    BY ColumnFacts, EdgeFacts
  <2> QED
    BY <1>1, <2>1, EdgeFacts DEF InsertOf, PollInsert, Insert, Writes
<1>2. CASE m.type = "User"
  <2>1. {"email", "username", "password", "created_at", "updated_at"}
            \cup {One["User"][e] : e \in {}} = Columns("User")
    BY ColumnFacts
  <2> QED
    BY <1>2, <2>1, EdgeFacts DEF InsertOf, UserInsert, Insert, Writes
<1>3. CASE m.type = "Vote"
  <2>1. {"option", "created_at"} \cup {One["Vote"][e] : e \in {"user", "poll"}} = Columns("Vote")
    BY ColumnFacts, EdgeFacts
  <2> QED
    BY <1>3, <2>1, EdgeFacts DEF InsertOf, VoteInsert, Insert, Writes
<1> QED
  BY <1>1, <1>2, <1>3 DEF WellFormed, Types

LEMMA ChangeFacts ==
    ASSUME NEW m, WellFormed(m), m.op \in {"Update", "UpdateOne"}
    PROVE  LET s == ChangeOf(m) IN
           /\ s.set = [c \in {d \in Columns(m.type) : IsSet(m, d)} |-> m.value[c]]
           /\ s.null = {c \in OfKind(m.type, {"note"}) : c \in m.marked}
                           \cup {One[m.type][e] : e \in m.unset}
           /\ s.append = [c \in {l \in OfKind(m.type, {"list"}) : m.tail # << >>} |-> m.tail]
           /\ s.all = m.emptied
           /\ s.out = [e \in DOMAIN Many[m.type] |->
                          IF e \in m.emptied THEN {} ELSE Listed(m.removed[e])]
           /\ s.in = [e \in DOMAIN Many[m.type] |-> Listed(m.added[e])]
<1>1. CASE m.type = "Poll"
  <2>1. ChangeOf(m) = Change(m, {"title", "description", "options", "created_at", "updated_at"},
                             {"description"}, {"options"}, {"owner"}, {"votes"})
    BY <1>1 DEF ChangeOf, PollChange, PollOneChange
  <2>2. {"title", "description", "options", "created_at", "updated_at"}
            \cup {One["Poll"][e] : e \in {"owner"}} = Columns("Poll")
    BY ColumnFacts, EdgeFacts
  <2>3. OfKind("Poll", {"note"}) = {"description"} /\ OfKind("Poll", {"list"}) = {"options"}
    BY ColumnFacts DEF OfKind
  <2>4. {"owner"} \cap m.unset = m.unset /\ {"votes"} \cap m.emptied = m.emptied
    BY <1>1, EdgeFacts DEF WellFormed
  <2> QED
    BY <1>1, <2>1, <2>2, <2>3, <2>4, EdgeFacts DEF Change, Writes, FieldCleared
<1>2. CASE m.type = "User"
  <2>1. ChangeOf(m) = Change(m, {"email", "username", "password", "created_at", "updated_at"},
                             {}, {}, {}, {"polls", "votes"})
    BY <1>2 DEF ChangeOf, UserChange, UserOneChange
  <2>2. {"email", "username", "password", "created_at", "updated_at"}
            \cup {One["User"][e] : e \in {}} = Columns("User")
    BY ColumnFacts
  <2>3. OfKind("User", {"note"}) = {} /\ OfKind("User", {"list"}) = {}
    BY ColumnFacts DEF OfKind
  <2>4. {} \cap m.unset = m.unset /\ {"polls", "votes"} \cap m.emptied = m.emptied
    BY <1>2, EdgeFacts DEF WellFormed
  <2> QED
    BY <1>2, <2>1, <2>2, <2>3, <2>4, EdgeFacts DEF Change, Writes, FieldCleared
<1>3. CASE m.type = "Vote"
  <2>1. ChangeOf(m) = Change(m, {"option", "created_at"}, {}, {}, {"user", "poll"}, {})
    BY <1>3 DEF ChangeOf, VoteChange, VoteOneChange
  <2>2. {"option", "created_at"} \cup {One["Vote"][e] : e \in {"user", "poll"}} = Columns("Vote")
    BY ColumnFacts, EdgeFacts
  <2>3. OfKind("Vote", {"note"}) = {} /\ OfKind("Vote", {"list"}) = {}
    BY ColumnFacts DEF OfKind
  <2>4. {"user", "poll"} \cap m.unset = m.unset /\ {} \cap m.emptied = m.emptied
    BY <1>3, EdgeFacts DEF WellFormed
  <2> QED
    BY <1>3, <2>1, <2>2, <2>3, <2>4, EdgeFacts DEF Change, Writes, FieldCleared
<1> QED
  BY <1>1, <1>2, <1>3 DEF WellFormed, Types

LEMMA CreateCheckFacts ==
    ASSUME NEW m, WellFormed(m), CreateCheck(m)
    PROVE  /\ \A c \in Columns(m.type) : Kind[m.type][c] # "note" => IsSet(m, c)
           /\ \A c \in OfKind(m.type, {"text", "key"}) : m.value[c] # Empty
<1>1. CASE m.type = "Poll"
  BY <1>1, ColumnFacts DEF CreateCheck, PollCreateCheck, Required, Worded, OfKind
<1>2. CASE m.type = "User"
  BY <1>2, ColumnFacts DEF CreateCheck, UserCreateCheck, Required, Worded, OfKind
<1>3. CASE m.type = "Vote"
  BY <1>3, ColumnFacts DEF CreateCheck, VoteCreateCheck, Required, Worded, OfKind
<1> QED
  BY <1>1, <1>2, <1>3 DEF WellFormed, Types

LEMMA UpdateCheckFacts ==
    ASSUME NEW m, WellFormed(m), UpdateCheck(m)
    PROVE  /\ \A c \in OfKind(m.type, {"text", "key"}) : m.value[c] # Empty
           /\ \A e \in m.unset : ~IsSet(m, One[m.type][e])
<1>1. CASE m.type = "Poll"
  BY <1>1, ColumnFacts, EdgeFacts
     DEF UpdateCheck, PollUpdateCheck, NotReplaced, Worded, OfKind, WellFormed
<1>2. CASE m.type = "User"
  BY <1>2, ColumnFacts, EdgeFacts DEF UpdateCheck, UserUpdateCheck, Worded, OfKind, WellFormed
<1>3. CASE m.type = "Vote"
  BY <1>3, ColumnFacts, EdgeFacts
     DEF UpdateCheck, VoteUpdateCheck, NotReplaced, Worded, OfKind, WellFormed
<1> QED
  BY <1>1, <1>2, <1>3 DEF WellFormed, Types

(***************************************************************************)
(* Putting rows on edges, or taking them off, changes the edge columns of  *)
(* other tables alone.                                                     *)
(***************************************************************************)
EdgesOnly(t, u, type) ==
    /\ DOMAIN u = Types
    /\ \A other \in Types : Rows(u, other) = Rows(t, other)
    /\ \A other \in Types : \A r \in Rows(t, other) : DOMAIN u[other][r] = TableColumns[other]
    /\ \A other \in Types : \A r \in Rows(t, other), c \in TableColumns[other] :
          (other = type \/ (c \in Columns(other) /\ Kind[other][c] # "ref"))
              => u[other][r][c] = t[other][r][c]

EdgesMoved(t, u, type, ids, s) ==
    \A e \in DOMAIN Many[type] : \A r \in Rows(t, Many[type][e].type) :
        u[Many[type][e].type][r][Many[type][e].column] =
            IF r \in s.in[e] THEN CHOOSE id \in ids : TRUE
            ELSE IF r \in TakenOff(t, type, e, ids, s) THEN Null
            ELSE t[Many[type][e].type][r][Many[type][e].column]

LEMMA LinksFacts ==
    ASSUME NEW t, NEW type \in Types, NEW ids, NEW s, DOMAIN s.in = DOMAIN Many[type],
           NEW u, u = Links(t, type, ids, s)
    PROVE  /\ EdgesOnly(t, u, type)
           /\ EdgesMoved(t, u, type, ids, s)
<1> DEFINE After(e, r, now) ==
               IF r \in s.in[e] THEN CHOOSE id \in ids : TRUE
               ELSE IF r \in TakenOff(t, type, e, ids, s) THEN Null ELSE now
           Of(other, c) == {e \in DOMAIN s.in : Many[type][e] = [type |-> other, column |-> c]}
<1>1. u = [other \in Types |-> [r \in Rows(t, other) |-> [c \in TableColumns[other] |->
            IF Of(other, c) = {} THEN t[other][r][c]
            ELSE After(CHOOSE e \in Of(other, c) : TRUE, r, t[other][r][c])]]]
  BY DEF Links
<1>2. ASSUME NEW other \in Types, NEW c \in TableColumns[other],
             other = type \/ (c \in Columns(other) /\ Kind[other][c] # "ref")
      PROVE  Of(other, c) = {}
  <2>1. ASSUME NEW e \in DOMAIN Many[type], Many[type][e] = [type |-> other, column |-> c]
        PROVE  FALSE
    <3>1. Many[type][e].type = other /\ Many[type][e].column = c
      BY <2>1
    <3> QED
      BY <1>2, <3>1, ManyFacts
  <2> QED
    BY <2>1
<1>3. ASSUME NEW e \in DOMAIN Many[type]
      PROVE  Of(Many[type][e].type, Many[type][e].column) = {e}
  <2>1. /\ Many[type][e] = [type |-> Many[type][e].type, column |-> Many[type][e].column]
        /\ \A f \in DOMAIN Many[type] : Many[type][f] = Many[type][e] => f = e
    BY ManyFacts
  <2> QED
    BY <2>1
<1> HIDE DEF Of
<1>4. \A other \in Types : \A r \in Rows(t, other), c \in TableColumns[other] :
          Of(other, c) = {} => u[other][r][c] = t[other][r][c]
  BY <1>1
<1>5. ASSUME NEW e \in DOMAIN Many[type], NEW r \in Rows(t, Many[type][e].type)
      PROVE  u[Many[type][e].type][r][Many[type][e].column] =
                 After(e, r, t[Many[type][e].type][r][Many[type][e].column])
  <2> DEFINE T == Many[type][e].type
             col == Many[type][e].column
  <2>1. T \in Types /\ col \in TableColumns[T] /\ r \in Rows(t, T)
    BY ManyFacts
  <2>2. (CHOOSE f \in {e} : TRUE) = e /\ {e} # {}
    OBVIOUS
  <2>3. Of(T, col) = {e}
    BY <1>3
  <2> HIDE DEF T, col, After
  <2>4. u[T][r][col] = IF Of(T, col) = {} THEN t[T][r][col]
                       ELSE After(CHOOSE f \in Of(T, col) : TRUE, r, t[T][r][col])
    <3>1. u[T][r] = [c \in TableColumns[T] |->
                        IF Of(T, c) = {} THEN t[T][r][c]
                        ELSE After(CHOOSE f \in Of(T, c) : TRUE, r, t[T][r][c])]
      <4>1. u[T] = [x \in Rows(t, T) |-> [c \in TableColumns[T] |->
                        IF Of(T, c) = {} THEN t[T][x][c]
                        ELSE After(CHOOSE f \in Of(T, c) : TRUE, x, t[T][x][c])]]
        BY <1>1, <2>1, Zenon
      <4> QED
        BY <2>1, <4>1, Zenon
    <3> QED
      BY <2>1, <3>1, Zenon
  <2>5. u[T][r][col] = After(e, r, t[T][r][col])
    BY <2>2, <2>3, <2>4
  <2> QED
    BY <2>5 DEF T, col
<1>6. /\ DOMAIN u = Types
      /\ \A other \in Types : DOMAIN u[other] = Rows(t, other)
      /\ \A other \in Types : \A r \in Rows(t, other) : DOMAIN u[other][r] = TableColumns[other]
  BY <1>1
<1>7. \A other \in Types : \A r \in Rows(t, other), c \in TableColumns[other] :
          (other = type \/ (c \in Columns(other) /\ Kind[other][c] # "ref"))
              => u[other][r][c] = t[other][r][c]
  BY <1>2, <1>4
<1>8. \A other \in Types : Rows(u, other) = Rows(t, other)
  BY <1>6 DEF Rows
<1> QED
  BY <1>5, <1>6, <1>7, <1>8 DEF EdgesOnly, EdgesMoved

(***************************************************************************)
(* So it keeps the tables as they should be.                               *)
(***************************************************************************)
LEMMA LinksKeep ==
    ASSUME NEW t, TableOK(t), NEW type \in Types, NEW u, EdgesOnly(t, u, type)
    PROVE  TableOK(u)
<1>1. /\ DOMAIN u = Types
      /\ \A other \in Types : Rows(u, other) = Rows(t, other)
      /\ \A other \in Types : \A r \in Rows(t, other) :
            DOMAIN u[other][r] = TableColumns[other]
      /\ \A other \in Types : \A r \in Rows(t, other), c \in TableColumns[other] :
            (other = type \/ (c \in Columns(other) /\ Kind[other][c] # "ref"))
                => u[other][r][c] = t[other][r][c]
  BY DEF EdgesOnly
<1>2. ASSUME NEW other \in Types, NEW r \in Rows(t, other)
      PROVE  r \in Ids[other] /\ RowOK(other, u[other][r])
  <2>1. r \in Ids[other] /\ RowOK(other, t[other][r])
    BY DEF TableOK
  <2>2. ASSUME NEW c \in OfKind(other, Texted \cup {"list"})
        PROVE  u[other][r][c] = t[other][r][c]
    <3>1. c \in Columns(other) /\ c \in TableColumns[other] /\ Kind[other][c] # "ref"
      BY KindFacts DEF OfKind, Texted
    <3> QED
      BY <1>1, <3>1
  <2>3. \A c : \/ c \in OfKind(other, Texted)
               \/ c \in OfKind(other, {"text", "key"})
               \/ c \in OfKind(other, {"list"})
            => c \in OfKind(other, Texted \cup {"list"})
    BY DEF OfKind, Texted
  <2> QED
    BY <1>1, <2>1, <2>2, <2>3 DEF RowOK
<1> QED
  BY <1>1, <1>2 DEF TableOK

----------------------------------------------------------------------------
(***************************************************************************)
(* The lists of a mutation that agrees with its history.                   *)
(***************************************************************************)
ListsOK(m) ==
    /\ m.tail \in Seq({Item})
    /\ \A c \in OfKind(m.type, {"list"}) : m.value[c] \in Seq({Item}) \cup {None}

LEMMA ListsAreOK ==
    ASSUME NEW m, WellFormed(m), NEW s, SaidFormed(s, m.type), Agrees(m, s)
    PROVE  ListsOK(m)
<1>1. m.tail \in Seq({Item})
  BY DEF SaidFormed, Agrees, TailAgrees
<1>2. ASSUME NEW c \in OfKind(m.type, {"list"})
      PROVE  m.value[c] \in Seq({Item}) \cup {None}
  <2>1. << >> \in Seq({Item})
    OBVIOUS
  <2>2. c \in Columns(m.type) /\ Kind[m.type][c] = "list"
    BY DEF OfKind
  <2> QED
    BY <2>1, <2>2 DEF SaidFormed, Agrees, FieldAgrees
<1> QED
  BY <1>1, <1>2 DEF ListsOK

(***************************************************************************)
(* An INSERT makes one row, of the columns that are set, and keeps the     *)
(* other rows of the table.                                                *)
(***************************************************************************)
LEMMA InsertedFacts ==
    ASSUME NEW m, WellFormed(m), ListsOK(m), m.id # None, CreateCheck(m),
           NEW t, TableOK(t), NEW u \in Inserted(t, m)
    PROVE  /\ TableOK(u)
           /\ m.id \notin Rows(t, m.type)
           /\ Rows(u, m.type) = Rows(t, m.type) \cup {m.id}
           /\ \A c \in Columns(m.type) :
                 u[m.type][m.id][c] = IF IsSet(m, c) THEN m.value[c] ELSE Null
           /\ \A r \in Rows(t, m.type), c \in TableColumns[m.type] :
                 u[m.type][r][c] = t[m.type][r][c]
<1> DEFINE s == InsertOf(m)
           row == [c \in TableColumns[m.type] |-> IF c \in DOMAIN s.set THEN s.set[c] ELSE Null]
           full == [t EXCEPT ![m.type] = Put(@, m.id, row)]
           edges == [in |-> s.in, all |-> {}, out |-> [e \in DOMAIN s.in |-> {}]]
<1>1. u = Links(full, m.type, {m.id}, edges) /\ m.id \notin Rows(t, m.type)
  BY DEF Inserted
<1>2. m.type \in Types /\ m.id \in Ids[m.type]
  BY DEF WellFormed
<1>3. DOMAIN edges.in = DOMAIN Many[m.type]
  BY InsertFacts
<1>4. /\ DOMAIN row = TableColumns[m.type]
      /\ \A c \in Columns(m.type) :
            c \in TableColumns[m.type] /\ row[c] = IF IsSet(m, c) THEN m.value[c] ELSE Null
  <2>1. s.set = [c \in {d \in Columns(m.type) : IsSet(m, d)} |-> m.value[c]]
    BY InsertFacts
  <2>2. \A c \in Columns(m.type) : c \in TableColumns[m.type]
    BY <1>2, KindFacts
  <2> HIDE DEF s
  <2> QED
    BY <2>1, <2>2
<1>5. /\ DOMAIN full = Types
      /\ \A other \in Types \ {m.type} : full[other] = t[other]
      /\ Rows(full, m.type) = Rows(t, m.type) \cup {m.id}
      /\ full[m.type][m.id] = row
      /\ \A r \in Rows(t, m.type) : full[m.type][r] = t[m.type][r]
  BY <1>1, <1>2 DEF TableOK, Put, Rows
<1> HIDE DEF s, row, full, edges
<1>6. RowOK(m.type, row)
  <2>1. \A c \in OfKind(m.type, Texted) : row[c] \in Texts \cup {Null}
    BY <1>4 DEF OfKind, WellFormed, IsSet
  <2>2. ASSUME NEW c \in OfKind(m.type, {"text", "key"})
        PROVE  row[c] # Empty
    BY <1>4, CreateCheckFacts DEF OfKind
  <2>3. ASSUME NEW c \in OfKind(m.type, {"list"})
        PROVE  row[c] \in Seq({Item})
    BY <1>4, CreateCheckFacts DEF OfKind, ListsOK, IsSet
  <2> QED
    BY <1>4, <2>1, <2>2, <2>3 DEF RowOK
<1>7. TableOK(full)
  <2>1. ASSUME NEW other \in Types, NEW r \in Rows(full, other)
        PROVE  r \in Ids[other] /\ RowOK(other, full[other][r])
    <3>1. CASE other = m.type /\ r = m.id
      BY <1>2, <1>5, <1>6, <3>1
    <3>2. CASE other # m.type \/ r # m.id
      BY <1>5, <3>2 DEF TableOK, Rows
    <3> QED
      BY <3>1, <3>2
  <2> QED
    BY <1>5, <2>1 DEF TableOK
<1>0. EdgesOnly(full, u, m.type)
  BY <1>1, <1>2, <1>3, LinksFacts
<1>8. TableOK(u)
  BY <1>0, <1>2, <1>7, LinksKeep
<1>9. /\ Rows(u, m.type) = Rows(full, m.type)
      /\ \A r \in Rows(full, m.type), c \in TableColumns[m.type] :
            u[m.type][r][c] = full[m.type][r][c]
  BY <1>0, <1>2 DEF EdgesOnly
<1>10. m.type \in Types /\ m.id \in Rows(full, m.type)
  BY <1>2, <1>5
<1>11. ASSUME NEW c \in Columns(m.type)
       PROVE  u[m.type][m.id][c] = IF IsSet(m, c) THEN m.value[c] ELSE Null
  BY <1>4, <1>5, <1>9, <1>10, KindFacts
<1>12. ASSUME NEW r \in Rows(t, m.type), NEW c \in TableColumns[m.type]
       PROVE  u[m.type][r][c] = t[m.type][r][c]
  BY <1>5, <1>9
<1> QED
  BY <1>1, <1>5, <1>8, <1>9, <1>11, <1>12

(***************************************************************************)
(* What an UPDATE does to a row, column by column.                         *)
(***************************************************************************)
RowChange(m, row, stored, new) ==
    /\ \A c \in OfKind(m.type, {"list"}) :
          new[c] = (IF IsSet(m, c) /\ (m.tail = << >> \/ ~stored)
                    THEN m.value[c] ELSE row[c]) \o m.tail
    /\ \A c \in OfKind(m.type, Texted \cup {"ref", "time"}) :
          new[c] = IF IsSet(m, c) THEN m.value[c]
                   ELSE IF \/ Kind[m.type][c] = "note" /\ c \in m.marked
                           \/ \E e \in m.unset : One[m.type][e] = c
                   THEN Null ELSE row[c]

LEMMA RewrittenFacts ==
    ASSUME NEW m, WellFormed(m), ListsOK(m), m.op \in {"Update", "UpdateOne"}, UpdateCheck(m),
           NEW row, RowOK(m.type, row), NEW stored \in BOOLEAN,
           NEW new, new = Rewritten(row, ChangeOf(m), stored)
    PROVE  RowOK(m.type, new) /\ RowChange(m, row, stored, new)
<1> DEFINE s == ChangeOf(m)
<1>0. m.type \in Types
  BY DEF WellFormed
<1>1. /\ s.set = [c \in {d \in Columns(m.type) : IsSet(m, d)} |-> m.value[c]]
      /\ s.null = {c \in OfKind(m.type, {"note"}) : c \in m.marked}
                      \cup {One[m.type][e] : e \in m.unset}
      /\ s.append = [c \in {l \in OfKind(m.type, {"list"}) : m.tail # << >>} |-> m.tail]
  BY ChangeFacts
<1>2. new = Rewritten(row, s, stored)
  OBVIOUS
<1> HIDE DEF s
<1>3. /\ DOMAIN new = TableColumns[m.type]
      /\ \A c \in Columns(m.type) :
            /\ c \in DOMAIN s.append => new[c] =
                  (IF c \in DOMAIN s.set /\ ~stored THEN s.set[c] ELSE row[c]) \o s.append[c]
            /\ (c \notin DOMAIN s.append /\ c \in DOMAIN s.set) => new[c] = s.set[c]
            /\ (c \notin DOMAIN s.append /\ c \notin DOMAIN s.set /\ c \in s.null) =>
                  new[c] = Null
            /\ (c \notin DOMAIN s.append /\ c \notin DOMAIN s.set /\ c \notin s.null) =>
                  new[c] = row[c]
  <2>1. DOMAIN row = TableColumns[m.type] /\ \A c \in Columns(m.type) : c \in DOMAIN row
    BY <1>0, KindFacts DEF RowOK
  <2>2. DOMAIN new = DOMAIN row
    BY <1>2 DEF Rewritten
  <2>3. \A c \in DOMAIN row : new[c] =
            IF c \in DOMAIN s.append
            THEN (IF c \in DOMAIN s.set /\ ~stored THEN s.set[c] ELSE row[c]) \o s.append[c]
            ELSE IF c \in DOMAIN s.set THEN s.set[c]
            ELSE IF c \in s.null THEN Null ELSE row[c]
    BY <1>2, Zenon DEF Rewritten
  <2> QED
    BY <2>1, <2>2, <2>3
<1>4. ASSUME NEW c \in OfKind(m.type, {"list"})
      PROVE  new[c] = (IF IsSet(m, c) /\ (m.tail = << >> \/ ~stored)
                       THEN m.value[c] ELSE row[c]) \o m.tail
  <2>1. c \in Columns(m.type) /\ Kind[m.type][c] = "list"
    BY DEF OfKind
  <2>2. c \notin s.null
    BY <1>0, <1>1, <2>1, OneFacts DEF OfKind, WellFormed
  <2>3. /\ m.tail \in Seq({Item}) /\ row[c] \in Seq({Item})
        /\ IsSet(m, c) => m.value[c] \in Seq({Item})
    BY DEF ListsOK, RowOK, IsSet
  <2>4. CASE m.tail = << >>
    <3>1. \A l \in Seq({Item}) : l \o << >> = l
      OBVIOUS
    <3>2. new[c] = IF IsSet(m, c) THEN m.value[c] ELSE row[c]
      BY <1>1, <1>3, <2>1, <2>2, <2>4
    <3> QED
      BY <2>3, <2>4, <3>1, <3>2
  <2>5. CASE m.tail # << >>
    <3>1. c \in DOMAIN s.append /\ s.append[c] = m.tail
      BY <1>1, <2>5
    <3>2. /\ c \in DOMAIN s.set <=> IsSet(m, c)
          /\ IsSet(m, c) => s.set[c] = m.value[c]
      BY <1>1, <2>1
    <3>3. new[c] = (IF c \in DOMAIN s.set /\ ~stored THEN s.set[c] ELSE row[c]) \o m.tail
      BY <1>3, <2>1, <3>1
    <3> QED
      BY <2>5, <3>2, <3>3
  <2> QED
    BY <2>4, <2>5
<1>5. ASSUME NEW c \in OfKind(m.type, Texted \cup {"ref", "time"})
      PROVE  new[c] = IF IsSet(m, c) THEN m.value[c]
                      ELSE IF \/ Kind[m.type][c] = "note" /\ c \in m.marked
                              \/ \E e \in m.unset : One[m.type][e] = c
                      THEN Null ELSE row[c]
  <2>1. c \in Columns(m.type) /\ Kind[m.type][c] # "list"
    BY DEF OfKind, Texted
  <2>2. c \notin DOMAIN s.append
    BY <1>1, <2>1 DEF OfKind
  <2>3. c \in s.null <=> \/ Kind[m.type][c] = "note" /\ c \in m.marked
                         \/ \E e \in m.unset : One[m.type][e] = c
    BY <1>1, <2>1 DEF OfKind
  <2>4. /\ c \in DOMAIN s.set <=> IsSet(m, c)
        /\ IsSet(m, c) => s.set[c] = m.value[c]
    BY <1>1, <2>1
  <2> QED
    BY <1>3, <2>1, <2>2, <2>3, <2>4
<1>6. ASSUME NEW c \in OfKind(m.type, Texted)
      PROVE  new[c] \in Texts \cup {Null}
  <2>1. c \in OfKind(m.type, Texted \cup {"ref", "time"})
    BY DEF OfKind
  <2> QED
    BY <1>5, <2>1 DEF WellFormed, RowOK, IsSet
<1>7. ASSUME NEW c \in OfKind(m.type, {"text", "key"})
      PROVE  new[c] # Empty
  <2>1. /\ c \in OfKind(m.type, Texted \cup {"ref", "time"})
        /\ c \in Columns(m.type) /\ Kind[m.type][c] \notin {"note", "ref"}
    BY DEF OfKind, Texted
  <2>2. \A e \in m.unset : One[m.type][e] # c
    BY <1>0, <2>1, OneFacts DEF WellFormed
  <2>3. new[c] = IF IsSet(m, c) THEN m.value[c] ELSE row[c]
    BY <1>5, <2>1, <2>2
  <2> QED
    BY <2>3, UpdateCheckFacts DEF RowOK
<1>8. ASSUME NEW c \in OfKind(m.type, {"list"})
      PROVE  new[c] \in Seq({Item})
  <2>1. /\ m.tail \in Seq({Item}) /\ row[c] \in Seq({Item})
        /\ IsSet(m, c) => m.value[c] \in Seq({Item})
    BY DEF ListsOK, RowOK, IsSet
  <2>2. \A k, l \in Seq({Item}) : k \o l \in Seq({Item})
    OBVIOUS
  <2> QED
    BY <1>4, <2>1, <2>2
<1> QED
  BY <1>3, <1>4, <1>5, <1>6, <1>7, <1>8 DEF RowOK, RowChange

(***************************************************************************)
(* An UPDATE rewrites the rows selected, and then moves rows of other      *)
(* tables between the edges of the one it may give them to.                *)
(***************************************************************************)
Rewrite(t, m, stored) ==
    [t EXCEPT ![m.type] = [r \in DOMAIN @ |-> IF r \in Selected(t, m)
                                              THEN Rewritten(@[r], ChangeOf(m), stored)
                                              ELSE @[r]]]

LEMMA UpdatedFacts ==
    ASSUME NEW m, WellFormed(m), ListsOK(m), m.op \in {"Update", "UpdateOne"}, UpdateCheck(m),
           NEW t, TableOK(t), NEW u \in Updated(t, m)
    PROVE  /\ TableOK(u)
           /\ \A other \in Types : Rows(u, other) = Rows(t, other)
           /\ \A r \in Rows(t, m.type) \ Selected(t, m), c \in TableColumns[m.type] :
                 u[m.type][r][c] = t[m.type][r][c]
           /\ Selected(t, m) # {} => Legal(u) /\ CanLink(t, m.type, Selected(t, m), ChangeOf(m))
           /\ \E stored \in BOOLEAN : \A r \in Selected(t, m) :
                 \A c \in TableColumns[m.type] :
                    u[m.type][r][c] = Rewritten(t[m.type][r], ChangeOf(m), stored)[c]
<1> DEFINE ids == Selected(t, m)
           s == ChangeOf(m)
<1>0. m.type \in Types /\ ids \subseteq Rows(t, m.type)
  BY DEF WellFormed, Selected
<1>1. CASE ids = {}
  <2>1. u = t
    BY <1>1 DEF Updated
  <2> QED
    BY <1>1, <2>1
<1>2. CASE ids # {}
  <2>1. PICK stored \in BOOLEAN :
            u = Links(Rewrite(t, m, stored), m.type, ids, s)
    BY <1>2 DEF Updated, Rewrite
  <2>2. CanLink(t, m.type, ids, s) /\ Legal(u)
    BY <1>2 DEF Updated
  <2>3. PICK full : full = Rewrite(t, m, stored)
    OBVIOUS
  <2>4. /\ DOMAIN full = Types
        /\ \A other \in Types \ {m.type} : full[other] = t[other]
        /\ DOMAIN full[m.type] = DOMAIN t[m.type]
        /\ \A r \in DOMAIN t[m.type] :
              full[m.type][r] = IF r \in ids THEN Rewritten(t[m.type][r], s, stored)
                                ELSE t[m.type][r]
    BY <1>0, <2>3 DEF Rewrite, TableOK
  <2>5. EdgesOnly(full, u, m.type)
    <3>1. DOMAIN s.in = DOMAIN Many[m.type]
      <4>1. s.in = [e \in DOMAIN Many[m.type] |-> Listed(m.added[e])]
        BY ChangeFacts
      <4> QED
        BY <4>1
    <3> QED
      BY <1>0, <2>1, <2>3, <3>1, LinksFacts
  <2>6. TableOK(full)
    <3>1. ASSUME NEW other \in Types, NEW r \in DOMAIN full[other]
          PROVE  r \in Ids[other] /\ RowOK(other, full[other][r])
      <4>1. CASE other # m.type
        BY <2>4, <4>1 DEF TableOK, Rows
      <4>2. CASE other = m.type
        <5>1. r \in Ids[m.type] /\ RowOK(m.type, t[m.type][r])
          BY <2>4, <4>2 DEF TableOK, Rows
        <5> HIDE DEF s
        <5>2. RowOK(m.type, Rewritten(t[m.type][r], s, stored))
          BY <5>1, RewrittenFacts DEF s
        <5> QED
          BY <2>4, <4>2, <5>1, <5>2
      <4> QED
        BY <4>1, <4>2
    <3> QED
      BY <2>4, <3>1 DEF TableOK, Rows
  <2>7. TableOK(u)
    BY <1>0, <2>5, <2>6, LinksKeep
  <2>8. /\ \A other \in Types : Rows(u, other) = Rows(full, other)
        /\ \A r \in Rows(full, m.type), c \in TableColumns[m.type] :
              u[m.type][r][c] = full[m.type][r][c]
    BY <1>0, <2>5 DEF EdgesOnly
  <2>9. \A other \in Types : Rows(full, other) = Rows(t, other)
    BY <2>4 DEF Rows
  <2> HIDE DEF s, ids
  <2>10. \A r \in Rows(t, m.type) \ ids, c \in TableColumns[m.type] :
             u[m.type][r][c] = t[m.type][r][c]
    BY <1>0, <2>4, <2>8, <2>9 DEF Rows
  <2>11. \A r \in ids : \A c \in TableColumns[m.type] :
             u[m.type][r][c] = Rewritten(t[m.type][r], s, stored)[c]
    BY <1>0, <2>4, <2>8, <2>9 DEF Rows
  <2> QED
    BY <2>1, <2>2, <2>7, <2>8, <2>9, <2>10, <2>11 DEF s, ids
<1> QED
  BY <1>1, <1>2

----------------------------------------------------------------------------
(***************************************************************************)
(* What a DELETE, and what others do, leave of the tables.                 *)
(***************************************************************************)
LEMMA RemovedFacts ==
    ASSUME NEW t, TableOK(t), NEW type \in Types, NEW ids, NEW u \in Removed(t, type, ids)
    PROVE  TableOK(u)
<1>1. u = [other \in Types |->
             [r \in Rows(t, other) \ (IF other = type THEN ids ELSE {}) |->
                [c \in DOMAIN t[other][r] |->
                    IF /\ c \in SetNullOnDelete[other]
                       /\ ForeignKeys[other][c] = type /\ t[other][r][c] \in ids
                    THEN Null ELSE t[other][r][c]]]]
  BY DEF Removed
<1>2. DOMAIN u = Types
  BY <1>1
<1>3. ASSUME NEW other \in Types, NEW r \in Rows(u, other)
      PROVE  r \in Ids[other] /\ RowOK(other, u[other][r])
  <2>1. /\ r \in Rows(t, other)
        /\ u[other][r] = [c \in DOMAIN t[other][r] |->
                             IF /\ c \in SetNullOnDelete[other]
                                /\ ForeignKeys[other][c] = type /\ t[other][r][c] \in ids
                             THEN Null ELSE t[other][r][c]]
    BY <1>1 DEF Rows
  <2>2. r \in Ids[other] /\ RowOK(other, t[other][r])
    BY <2>1 DEF TableOK
  <2>3. \A c \in Columns(other) : c \in TableColumns[other] /\ c \notin SetNullOnDelete[other]
    BY ColumnFacts, TableFacts, KindFacts DEF Types
  <2>4. /\ DOMAIN u[other][r] = TableColumns[other]
        /\ \A c \in Columns(other) : u[other][r][c] = t[other][r][c]
    BY <2>1, <2>2, <2>3 DEF RowOK
  <2> QED
    BY <2>2, <2>4 DEF RowOK, OfKind
<1> QED
  BY <1>2, <1>3 DEF TableOK

LEMMA OthersFacts ==
    ASSUME TableOK(table), Others
    PROVE  TableOK(table)'
<1>0. PICK type \in Types : \E id \in Rows(table, type) :
          \/ \E c \in Columns(type) : \E v \in Values(type, c) \ {Empty} :
                table' = [table EXCEPT ![type][id][c] = v]
          \/ table' \in Removed(table, type, {id})
  BY DEF Others
<1>1. PICK id \in Rows(table, type) :
          \/ \E c \in Columns(type) : \E v \in Values(type, c) \ {Empty} :
                table' = [table EXCEPT ![type][id][c] = v]
          \/ table' \in Removed(table, type, {id})
  BY <1>0
<1>2. ASSUME NEW c \in Columns(type), NEW v \in Values(type, c) \ {Empty},
             table' = [table EXCEPT ![type][id][c] = v]
      PROVE  TableOK(table')
  <2> DEFINE row == [table[type][id] EXCEPT ![c] = v]
  <2>1. /\ id \in Ids[type] /\ RowOK(type, table[type][id])
        /\ DOMAIN table = Types
    BY DEF TableOK
  <2>2. RowOK(type, row)
    <3>1. /\ DOMAIN row = DOMAIN table[type][id]
          /\ c \in TableColumns[type]
          /\ \A d \in TableColumns[type] : row[d] = IF d = c THEN v ELSE table[type][id][d]
      BY <2>1, KindFacts DEF RowOK
    <3>2. /\ c \in OfKind(type, Texted) => v \in Texts
          /\ c \in OfKind(type, {"list"}) => v \in Seq({Item})
          /\ v # Empty
      BY ValueFacts DEF OfKind
    <3>3. \A d \in Columns(type) : d \in TableColumns[type]
      BY KindFacts
    <3> HIDE DEF row
    <3> QED
      BY <2>1, <3>1, <3>2, <3>3 DEF RowOK, OfKind
  <2>3. table' = [table EXCEPT ![type] = [table[type] EXCEPT ![id] = row]]
    BY <1>2
  <2>4. /\ DOMAIN table' = Types
        /\ \A other \in Types \ {type} : table'[other] = table[other]
        /\ DOMAIN table'[type] = DOMAIN table[type]
        /\ \A r \in DOMAIN table[type] : table'[type][r] = IF r = id THEN row ELSE table[type][r]
    <3> HIDE DEF row
    <3> QED
      BY <2>1, <2>3 DEF Rows
  <2> HIDE DEF row
  <2> QED
    BY <2>1, <2>2, <2>4 DEF TableOK, Rows
<1>3. ASSUME table' \in Removed(table, type, {id})
      PROVE  TableOK(table')
  BY <1>3, RemovedFacts
<1>4. TableOK(table')
  BY <1>1, <1>2, <1>3
<1> QED
  BY <1>4 DEF TableOK, Rows

----------------------------------------------------------------------------
(***************************************************************************)
(* How a save ends for the builders bs that it saves as ms, if the tables  *)
(* it may leave are results.                                               *)
(***************************************************************************)
Outcome(bs, ms, results) ==
    /\ DOMAIN made' = DOMAIN made /\ out' = [b \in Builders |-> out'[b]]
    /\ \A b \in DOMAIN made \ bs : made'[b] = made[b]
    /\ \A b \in Builders \ bs : out'[b] = out[b]
    /\ \A b \in bs :
          /\ made'[b] = ms[b] \/ made'[b] = [ms[b] EXCEPT !.done = TRUE]
          /\ out'[b] \in {"saved", "invalid", "refused", "lost"}
          /\ out'[b] = "saved" => made'[b] = [ms[b] EXCEPT !.done = TRUE]
    /\ NoEffect \/ Effect(bs, ms, results)
    /\ mishaps' \in 0 .. MaxMishaps

LEMMA ExecuteOutcome ==
    ASSUME DOMAIN made \subseteq Builders, mishaps \in 0 .. MaxMishaps,
           NEW bs, bs \subseteq DOMAIN made, NEW ms, DOMAIN ms = bs, NEW results, NEW clash,
           Execute(bs, ms, results, clash)
    PROVE  Outcome(bs, ms, results)
<1>0. DOMAIN Done(ms) = bs /\ \A b \in bs : Done(ms)[b] = [ms[b] EXCEPT !.done = TRUE]
  BY DEF Done
<1>1. mishaps' \in 0 .. MaxMishaps
  BY BoundsAssumption DEF Execute, Sound, Mishap
<1>2. CASE Effect(bs, ms, results) /\ Ends(bs, "saved", Done(ms))
  BY <1>0, <1>1, <1>2 DEF Outcome, Ends
<1>3. CASE NoEffect /\ Ends(bs, "refused", ms)
  BY <1>1, <1>3 DEF Outcome, Ends
<1>4. CASE Effect(bs, ms, results) /\ Ends(bs, "lost", ms)
  BY <1>1, <1>4 DEF Outcome, Ends
<1> QED
  BY <1>2, <1>3, <1>4 DEF Execute

LEMMA InvalidOutcome ==
    ASSUME DOMAIN made \subseteq Builders, mishaps \in 0 .. MaxMishaps,
           NEW bs, bs \subseteq DOMAIN made, NEW ms,
           \/ Invalid(bs, ms)
           \/ NoEffect /\ Ends(bs, "refused", ms) /\ Sound
    PROVE  Outcome(bs, ms, {})
BY DEF Invalid, Sound, Outcome, Ends

(***************************************************************************)
(* What b's mutation is when it is saved, for the defaults are in it, and  *)
(* its history has the times.                                              *)
(***************************************************************************)
SavedAs(b, m) ==
    /\ BuilderOK(m, said'[b])
    /\ said'[b] \in {said[b], Dated(said[b], made[b].type, made[b].op, Now)}
    /\ m.type = made[b].type /\ m.op = made[b].op /\ m.old = made[b].old
    /\ made[b].id # None => m.id = made[b].id

\* A save is a step, and tells nothing about the builders it does not save.
SaveSteps(bs) ==
    /\ DOMAIN said' = DOMAIN said /\ \A c \in DOMAIN said \ bs : said'[c] = said[c]
    /\ steps' \in steps .. MaxSteps /\ \A c \in Builders : applied[c] + 1 <= steps'
    /\ bulk' \in Seq(Builders) /\ turn' = 0

LEMMA OneSaveSteps ==
    ASSUME EntInv, NEW b \in DOMAIN made, turn = 0, UNCHANGED <<bulk, turn>>, Step,
           \/ UNCHANGED said
           \/ said' = [said EXCEPT ![b] = Dated(@, made[b].type, made[b].op, Now)]
    PROVE  /\ SaveSteps({b})
           /\ \/ UNCHANGED said
              \/ said'[b] = Dated(said[b], made[b].type, made[b].op, Now)
<1>1. /\ DOMAIN said = DOMAIN made /\ steps \in 0 .. MaxSteps /\ bulk \in Seq(Builders)
      /\ applied \in [Builders -> 0 .. steps]
  BY DEF EntInv, BuildersOK, CountsOK, BulkOK
<1>2. steps' = steps + 1 /\ steps < MaxSteps
  BY DEF Step
<1>3. steps' \in steps .. MaxSteps /\ \A c \in Builders : applied[c] + 1 <= steps'
  BY <1>1, <1>2, BoundsAssumption
<1>4. /\ DOMAIN said' = DOMAIN said /\ \A c \in DOMAIN said \ {b} : said'[c] = said[c]
      /\ \/ UNCHANGED said
         \/ said'[b] = Dated(said[b], made[b].type, made[b].op, Now)
  BY <1>1
<1> QED
  BY <1>1, <1>3, <1>4 DEF SaveSteps

LEMMA NowFacts ==
    ASSUME EntInv
    PROVE  Now \in Nat /\ Now # None
BY NoneAssumption, BoundsAssumption DEF EntInv, CountsOK, Now

(***************************************************************************)
(* What the calls want of a column is the same with the times and without. *)
(***************************************************************************)
LEMMA WantedStays ==
    ASSUME EntInv, NEW b \in DOMAIN made, NEW m, SavedAs(b, m),
           m.op \in {"Create", "Update", "UpdateOne"}
    PROVE  /\ SaidFormed(said'[b], m.type) /\ SaidFormed(said[b], m.type)
           /\ \A c \in Columns(m.type) : \A was :
                 Wanted(said'[b], m.op, m.type, c, was) = Wanted(said[b], m.op, m.type, c, was)
           /\ \A c \in Columns(m.type) :
                 Kind[m.type][c] = "list" => said'[b].field[c] = said[b].field[c]
           /\ said'[b].tail = said[b].tail /\ said'[b].empty = said[b].empty
           /\ said'[b].late = said[b].late /\ said'[b].plus = said[b].plus
           /\ said'[b].minus = said[b].minus
<1>1. PICK s : s = said[b]
  OBVIOUS
<1>2. PICK t : t = said'[b]
  OBVIOUS
<1>3. /\ m.type \in Types /\ m.type = made[b].type /\ m.op = made[b].op
      /\ SaidFormed(s, m.type) /\ t \in {s, Dated(s, m.type, m.op, Now)}
  BY <1>1, <1>2 DEF EntInv, BuildersOK, BuilderOK, WellFormed, SavedAs
<1>4. CASE t = s
  BY <1>1, <1>2, <1>3, <1>4
<1>5. CASE t = Dated(s, m.type, m.op, Now)
  <2>1. /\ SaidFormed(t, m.type)
        /\ t.tail = s.tail /\ t.empty = s.empty /\ t.late = s.late
        /\ t.plus = s.plus /\ t.minus = s.minus
        /\ \A c \in Columns(m.type) :
              t.field[c] = IF c \in Stamped(m.type, m.op) /\ s.field[c] = None
                           THEN Now ELSE s.field[c]
    BY <1>3, <1>5, DatedFacts
  <2>2. ASSUME NEW c \in Columns(m.type), NEW was
        PROVE  Wanted(t, m.op, m.type, c, was) = Wanted(s, m.op, m.type, c, was)
    <3>1. CASE c \in Stamped(m.type, m.op) /\ s.field[c] = None
      <4>1. t.field[c] = Now
        BY <2>1, <3>1
      <4>2. Kind[m.type][c] = "time" /\ (m.op = "Create" \/ c = "updated_at")
        BY <1>3, <3>1, StampedFacts
      <4>3. Wanted(t, m.op, m.type, c, was) = Now
        BY <4>1, <4>2, NowFacts DEF Wanted
      <4>4. Wanted(s, m.op, m.type, c, was) = Now
        BY <3>1, <4>2 DEF Wanted
      <4> QED
        BY <4>3, <4>4
    <3>2. CASE ~(c \in Stamped(m.type, m.op) /\ s.field[c] = None)
      <4>1. t.field[c] = s.field[c]
        BY <2>1, <3>2
      <4> QED
        BY <2>1, <4>1 DEF Wanted
    <3> QED
      BY <3>1, <3>2
  <2>3. \A c \in Columns(m.type) : Kind[m.type][c] = "list" => t.field[c] = s.field[c]
    BY <1>3, <2>1, StampedFacts
  <2> QED
    BY <1>1, <1>2, <1>3, <2>1, <2>2, <2>3
<1> QED
  BY <1>3, <1>4, <1>5

LEMMA SaveCreateFacts ==
    ASSUME EntInv, NEW b \in DOMAIN made, turn = 0, UNCHANGED <<bulk, turn>>, SaveCreate(b)
    PROVE  \E m : /\ SavedAs(b, m) /\ m.op = "Create" /\ m.id # None
                  /\ Outcome({b}, [c \in {b} |-> m],
                             IF CreateCheck(m) THEN Inserted(table, m) ELSE {})
                  /\ SaveSteps({b})
<1>1. BuilderOK(made[b], said[b]) /\ DOMAIN made \subseteq Builders /\ mishaps \in 0 .. MaxMishaps
  BY DEF EntInv, BuildersOK, CountsOK
<1>2. PICK id \in Drawn(made[b]) :
          LET m == CreateDefaults(made[b], id, Now) IN
          IF CreateCheck(m) THEN Execute({b}, [c \in {b} |-> m], Inserted(table, m), FALSE)
                            ELSE Invalid({b}, [c \in {b} |-> m])
  BY DEF SaveCreate
<1>3. id \in Ids[made[b].type]
  BY <1>1 DEF Drawn, BuilderOK, WellFormed
<1> DEFINE m == CreateDefaults(made[b], id, Now)
<1>4. /\ made[b].op = "Create" /\ DOMAIN said = DOMAIN made
      /\ said' = [said EXCEPT ![b] = Dated(said[b], made[b].type, made[b].op, Now)]
      /\ SaveSteps({b})
  BY OneSaveSteps DEF SaveCreate, EntInv, BuildersOK
<1>5. /\ WellFormed(m)
      /\ m.type = made[b].type /\ m.op = made[b].op /\ m.old = made[b].old
      /\ m.id = (IF made[b].id = None THEN id ELSE made[b].id) /\ m.id # None
      /\ Agrees(m, said'[b]) /\ SaidFormed(said'[b], made[b].type)
      /\ said'[b] = Dated(said[b], made[b].type, made[b].op, Now)
  <2>1. said'[b] = Dated(said[b], made[b].type, made[b].op, Now)
    BY <1>4
  <2>2. SaidFormed(said'[b], made[b].type)
    BY <1>1, <2>1, DatedFacts DEF BuilderOK, WellFormed
  <2> QED
    BY <1>1, <1>3, <1>4, <2>1, <2>2, NowFacts, CreateDefaultsKeep DEF BuilderOK
<1>6. Outcome({b}, [c \in {b} |-> m], IF CreateCheck(m) THEN Inserted(table, m) ELSE {})
  <2>1. DOMAIN [c \in {b} |-> m] = {b}
    OBVIOUS
  <2>2. CASE CreateCheck(m)
    <3>1. Execute({b}, [c \in {b} |-> m], Inserted(table, m), FALSE)
      BY <1>2, <2>2
    <3> HIDE DEF m
    <3> QED
      BY <1>1, <2>1, <2>2, <3>1, ExecuteOutcome
  <2>3. CASE ~CreateCheck(m)
    <3>1. Invalid({b}, [c \in {b} |-> m])
      BY <1>2, <2>3
    <3> HIDE DEF m
    <3> QED
      BY <1>1, <2>1, <2>3, <3>1, InvalidOutcome
  <2> QED
    BY <2>2, <2>3
<1>7. SavedAs(b, m)
  BY <1>1, <1>5 DEF SavedAs, BuilderOK
<1> HIDE DEF m
<1> QED
  BY <1>4, <1>5, <1>6, <1>7

LEMMA SaveUpdateFacts ==
    ASSUME EntInv, NEW b \in DOMAIN made, turn = 0, UNCHANGED <<bulk, turn>>, SaveUpdate(b)
    PROVE  \E m : /\ SavedAs(b, m) /\ m.op \in {"Update", "UpdateOne"}
                  /\ m.where = made[b].where /\ m.id = made[b].id
                  /\ \A c \in Columns(m.type) : c = "updated_at" => m.value[c] # None
                  /\ Outcome({b}, [c \in {b} |-> m],
                             IF UpdateCheck(m) THEN Updated(table, m) ELSE {})
                  /\ SaveSteps({b})
<1> DEFINE m == UpdateDefaults(made[b], Now)
<1>1. BuilderOK(made[b], said[b]) /\ DOMAIN made \subseteq Builders /\ mishaps \in 0 .. MaxMishaps
  BY DEF EntInv, BuildersOK, CountsOK
<1>2. /\ IF UpdateCheck(m)
         THEN Execute({b}, [c \in {b} |-> m], Updated(table, m), Clash(ChangeOf(m)))
         ELSE Invalid({b}, [c \in {b} |-> m])
      /\ made[b].op \in {"Update", "UpdateOne"}
      /\ said' = [said EXCEPT ![b] = Dated(said[b], made[b].type, made[b].op, Now)]
      /\ SaveSteps({b}) /\ DOMAIN said = DOMAIN made
  BY OneSaveSteps DEF SaveUpdate, EntInv, BuildersOK
<1>3. /\ WellFormed(m)
      /\ m.type = made[b].type /\ m.op = made[b].op /\ m.id = made[b].id
      /\ m.where = made[b].where /\ m.old = made[b].old
      /\ \A c \in Columns(m.type) : c = "updated_at" => m.value[c] # None
      /\ Agrees(m, said'[b]) /\ SaidFormed(said'[b], made[b].type)
      /\ said'[b] = Dated(said[b], made[b].type, made[b].op, Now)
  <2>1. said'[b] = Dated(said[b], made[b].type, made[b].op, Now)
    BY <1>2
  <2>2. SaidFormed(said'[b], made[b].type)
    BY <1>1, <2>1, DatedFacts DEF BuilderOK, WellFormed
  <2> QED
    BY <1>1, <1>2, <2>1, <2>2, NowFacts, UpdateDefaultsKeep DEF BuilderOK
<1> HIDE DEF m
<1>4. Outcome({b}, [c \in {b} |-> m], IF UpdateCheck(m) THEN Updated(table, m) ELSE {})
  <2>1. DOMAIN [c \in {b} |-> m] = {b}
    OBVIOUS
  <2>2. CASE UpdateCheck(m)
    BY <1>1, <1>2, <2>1, <2>2, ExecuteOutcome
  <2>3. CASE ~UpdateCheck(m)
    BY <1>1, <1>2, <2>1, <2>3, InvalidOutcome
  <2> QED
    BY <2>2, <2>3
<1>5. SavedAs(b, m)
  BY <1>1, <1>3 DEF SavedAs, BuilderOK
<1> QED
  BY <1>2, <1>3, <1>4, <1>5

(***************************************************************************)
(* To be done changes nothing that a mutation and its history agree on.    *)
(***************************************************************************)
LEMMA DoneKeeps ==
    ASSUME NEW m, NEW s, BuilderOK(m, s), NEW n, n = [m EXCEPT !.done = TRUE]
    PROVE  /\ BuilderOK(n, s) /\ n.done
           /\ n.type = m.type /\ n.op = m.op /\ n.id = m.id
           /\ n.where = m.where /\ n.old = m.old
<1>1. /\ DOMAIN n = DOMAIN m /\ n.type = m.type /\ n.op = m.op /\ n.id = m.id
      /\ n.value = m.value /\ n.tail = m.tail /\ n.marked = m.marked /\ n.unset = m.unset
      /\ n.emptied = m.emptied /\ n.added = m.added /\ n.removed = m.removed
      /\ n.where = m.where /\ n.old = m.old /\ n.done = TRUE
  BY DEF BuilderOK, WellFormed
<1>2. WellFormed(n)
  BY <1>1 DEF BuilderOK, WellFormed, OfKind
<1>3. Agrees(n, s)
  BY <1>1 DEF BuilderOK, Agrees, FieldAgrees, TailAgrees, EdgeAgrees
<1> QED
  BY <1>1, <1>2, <1>3 DEF BuilderOK

LEMMA ExecDeleteFacts ==
    ASSUME EntInv, NEW b \in DOMAIN made, turn = 0, UNCHANGED <<bulk, turn>>, ExecDelete(b)
    PROVE  \E m : /\ SavedAs(b, m) /\ m.op \in {"Delete", "DeleteOne"}
                  /\ Outcome({b}, [c \in {b} |-> m],
                             Removed(table, made[b].type, Selected(table, made[b])))
                  /\ SaveSteps({b})
<1> DEFINE m == [made[b] EXCEPT !.done = TRUE]
           results == Removed(table, made[b].type, Selected(table, made[b]))
<1>1. BuilderOK(made[b], said[b]) /\ DOMAIN made \subseteq Builders /\ mishaps \in 0 .. MaxMishaps
  BY DEF EntInv, BuildersOK, CountsOK
<1>2. Done([c \in {b} |-> made[b]]) = [c \in {b} |-> m]
  BY DEF Done
<1>3. /\ \/ NoEffect /\ Ends({b}, "refused", [c \in {b} |-> m]) /\ Sound
         \/ Execute({b}, [c \in {b} |-> m], results, FALSE)
      /\ made[b].op \in {"Delete", "DeleteOne"}
      /\ said' = said /\ SaveSteps({b})
  BY <1>2, OneSaveSteps DEF ExecDelete
<1>4. SavedAs(b, m) /\ m.op = made[b].op
  <2>1. \A n : n = m => BuilderOK(n, said[b])
    BY <1>1, DoneKeeps
  <2> QED
    BY <1>1, <1>3, <2>1, DoneKeeps DEF SavedAs, BuilderOK, WellFormed
<1> HIDE DEF m, results
<1>5. DOMAIN [c \in {b} |-> m] = {b}
  OBVIOUS
<1>6. CASE Execute({b}, [c \in {b} |-> m], results, FALSE)
  <2>1. Outcome({b}, [c \in {b} |-> m], results)
    BY <1>1, <1>5, <1>6, ExecuteOutcome
  <2> QED
    BY <1>3, <1>4, <2>1 DEF results
<1>7. CASE NoEffect /\ Ends({b}, "refused", [c \in {b} |-> m]) /\ Sound
  <2>1. Outcome({b}, [c \in {b} |-> m], {})
    BY <1>1, <1>5, <1>7, InvalidOutcome
  <2>2. Outcome({b}, [c \in {b} |-> m], results)
    BY <1>7, <2>1 DEF Outcome
  <2> QED
    BY <1>3, <1>4, <2>2 DEF results
<1> QED
  BY <1>3, <1>6, <1>7

(***************************************************************************)
(* A bulk draws the defaults of its two builders first.                    *)
(***************************************************************************)
LEMMA SaveBulkFacts ==
    ASSUME EntInv, NEW a \in DOMAIN made, NEW b \in DOMAIN made, SaveBulk(a, b)
    PROVE  /\ a # b /\ made[a].type = made[b].type /\ turn = 0
           /\ bulk' = <<a, b>> /\ turn' = 1 /\ steps' = steps + 1 /\ steps < MaxSteps
           /\ UNCHANGED <<table, out, applied, born, mishaps>>
           /\ DOMAIN made' = DOMAIN made /\ DOMAIN said' = DOMAIN made
           /\ \A c \in DOMAIN made \ {a, b} : made'[c] = made[c] /\ said'[c] = said[c]
           /\ \A c \in {a, b} :
                 /\ made[c].op = "Create" /\ BuilderOK(made'[c], said'[c])
                 /\ made'[c].type = made[c].type /\ made'[c].op = made[c].op
                 /\ made'[c].old = made[c].old /\ made'[c].done = made[c].done
                 /\ made'[c].id # None /\ (made[c].id # None => made'[c].id = made[c].id)
<1>1. /\ \A c \in DOMAIN made : BuilderOK(made[c], said[c])
      /\ DOMAIN made \subseteq Builders /\ DOMAIN said = DOMAIN made
  BY DEF EntInv, BuildersOK
<1>2. /\ a # b /\ made[a].op = "Create" /\ made[b].op = "Create" /\ made[a].type = made[b].type
      /\ said' = [said EXCEPT ![a] = Dated(said[a], made[a].type, "Create", Now),
                              ![b] = Dated(said[b], made[b].type, "Create", Now)]
      /\ turn = 0 /\ bulk' = <<a, b>> /\ turn' = 1 /\ steps' = steps + 1 /\ steps < MaxSteps
      /\ UNCHANGED <<table, out, applied, born, mishaps>>
  BY DEF SaveBulk, Step
<1>3. PICK i \in Drawn(made[a]), j \in Drawn(made[b]) :
          made' = [made EXCEPT ![a] = CreateDefaults(made[a], i, Now),
                               ![b] = CreateDefaults(made[b], j, Now)]
  BY <1>2 DEF SaveBulk
<1>4. /\ DOMAIN made' = DOMAIN made /\ DOMAIN said' = DOMAIN made
      /\ \A c \in DOMAIN made \ {a, b} : made'[c] = made[c] /\ said'[c] = said[c]
      /\ made'[a] = CreateDefaults(made[a], i, Now)
      /\ made'[b] = CreateDefaults(made[b], j, Now)
      /\ said'[a] = Dated(said[a], made[a].type, "Create", Now)
      /\ said'[b] = Dated(said[b], made[b].type, "Create", Now)
  BY <1>1, <1>2, <1>3
<1>5. ASSUME NEW c \in {a, b}
      PROVE  /\ made[c].op = "Create" /\ BuilderOK(made'[c], said'[c])
             /\ made'[c].type = made[c].type /\ made'[c].op = made[c].op
             /\ made'[c].old = made[c].old /\ made'[c].done = made[c].done
             /\ made'[c].id # None /\ (made[c].id # None => made'[c].id = made[c].id)
  <2>0. /\ BuilderOK(made[c], said[c]) /\ made[c].op = "Create"
        /\ WellFormed(made[c]) /\ SaidFormed(said[c], made[c].type) /\ Agrees(made[c], said[c])
        /\ made[c].type \in Types /\ <<made[c].type, made[c].op>> \in Offers
    BY <1>1, <1>2 DEF BuilderOK, WellFormed
  <2>1. PICK k \in Drawn(made[c]) : made'[c] = CreateDefaults(made[c], k, Now)
    BY <1>4
  <2>2. k \in Ids[made[c].type]
    BY <2>0, <2>1 DEF Drawn, WellFormed
  <2>3. said'[c] = Dated(said[c], made[c].type, "Create", Now)
    BY <1>4
  <2>4. SaidFormed(said'[c], made[c].type)
    BY <2>0, <2>3, DatedFacts
  <2>5. /\ WellFormed(made'[c])
        /\ made'[c].type = made[c].type /\ made'[c].op = made[c].op
        /\ made'[c].id = (IF made[c].id = None THEN k ELSE made[c].id) /\ made'[c].id # None
        /\ made'[c].old = made[c].old /\ made'[c].done = made[c].done
        /\ Agrees(made'[c], said'[c])
    BY <2>0, <2>1, <2>2, <2>3, NowFacts, CreateDefaultsKeep
  <2> QED
    BY <2>0, <2>4, <2>5 DEF BuilderOK
<1> QED
  BY <1>2, <1>4, <1>5

(***************************************************************************)
(* A mutator passes the turn on, or it ends the bulk: with the rows of     *)
(* both if both are checked, the second inserted beside the first.         *)
(***************************************************************************)
PassesOn(a, b) ==
    /\ turn = 1 /\ turn' = 2 /\ bulk = <<a, b>> /\ CreateCheck(made[a])
    /\ UNCHANGED <<table, made, said, out, applied, born, bulk, steps, mishaps>>

BulkEnds(a, b) == Mutate(a, b) /\ turn' = 0

Pair(a, b) == [c \in {a, b} |-> made[c]]

BulkResults(a, b) ==
    IF CreateCheck(made[a]) /\ CreateCheck(made[b]) THEN Batch(table, made[a], made[b]) ELSE {}

LEMMA MutateCases ==
    ASSUME NEW a, NEW b, Mutate(a, b)
    PROVE  PassesOn(a, b) \/ BulkEnds(a, b)
BY DEF Mutate, PassesOn, BulkEnds

LEMMA BulkEndFacts ==
    ASSUME EntInv, NEW a \in DOMAIN made, NEW b \in DOMAIN made, BulkEnds(a, b)
    PROVE  /\ \A c \in {a, b} : /\ SavedAs(c, made[c]) /\ made[c].op = "Create"
                                /\ made[c].id # None
           /\ a # b /\ made[a].type = made[b].type
           /\ turn # 0 /\ bulk = <<a, b>>
           /\ Outcome({a, b}, Pair(a, b), BulkResults(a, b))
           /\ SaveSteps({a, b})
           /\ \A c \in {a, b} : made'[c] # made[c] => table' \in BulkResults(a, b)
<1>1. /\ \A c \in DOMAIN made : BuilderOK(made[c], said[c])
      /\ DOMAIN made \subseteq Builders /\ mishaps \in 0 .. MaxMishaps
      /\ steps \in 0 .. MaxSteps
  BY DEF EntInv, BuildersOK, CountsOK
<1>2. /\ turn # 0 /\ bulk = <<a, b>> /\ UNCHANGED <<said, steps>> /\ turn' = 0 /\ bulk' = << >>
      /\ \/ /\ CreateCheck(made[IF turn = 1 THEN a ELSE b]) /\ turn = 2
            /\ Execute({a, b}, Pair(a, b), Batch(table, made[a], made[b]), FALSE)
         \/ ~CreateCheck(made[IF turn = 1 THEN a ELSE b]) /\ Invalid({a, b}, Pair(a, b))
  <2>1. Mutate(a, b) /\ turn' # 2
    BY DEF BulkEnds
  <2> QED
    BY <2>1, Zenon DEF Mutate, BulkEnds, Pair
<1>3. /\ a # b /\ made[a].type = made[b].type
      /\ \A c \in {a, b} : made[c].op = "Create" /\ made[c].id # None
      /\ turn = 2 => CreateCheck(made[a])
      /\ turn \in {1, 2} /\ \A c \in Builders : applied[c] + 1 <= steps
  BY <1>2 DEF EntInv, BulkOK
<1> DEFINE ms == Pair(a, b)
           results == BulkResults(a, b)
<1>4. \/ /\ CreateCheck(made[a]) /\ CreateCheck(made[b])
         /\ Execute({a, b}, ms, Batch(table, made[a], made[b]), FALSE)
      \/ ~(CreateCheck(made[a]) /\ CreateCheck(made[b])) /\ Invalid({a, b}, ms)
  <2> DEFINE c == IF turn = 1 THEN a ELSE b
  <2>1. CASE turn = 1
    <3>1. c = a
      BY <2>1
    <3>2. ~CreateCheck(made[c]) /\ Invalid({a, b}, ms)
      BY <1>2, <2>1
    <3> HIDE DEF c
    <3> QED
      BY <3>1, <3>2
  <2>2. CASE turn = 2
    <3>1. c = b
      BY <2>2
    <3>2. \/ /\ CreateCheck(made[c])
             /\ Execute({a, b}, ms, Batch(table, made[a], made[b]), FALSE)
          \/ ~CreateCheck(made[c]) /\ Invalid({a, b}, ms)
      BY <1>2, <2>2
    <3> HIDE DEF c
    <3> QED
      BY <1>3, <2>2, <3>1, <3>2
  <2> QED
    BY <1>3, <2>1, <2>2
<1>5. DOMAIN ms = {a, b} /\ \A c \in {a, b} : ms[c] = made[c]
  BY DEF Pair
<1> HIDE DEF ms
<1>6. Outcome({a, b}, ms, results)
  <2>1. CASE CreateCheck(made[a]) /\ CreateCheck(made[b])
    BY <1>1, <1>4, <1>5, <2>1, ExecuteOutcome DEF BulkResults
  <2>2. CASE ~(CreateCheck(made[a]) /\ CreateCheck(made[b]))
    BY <1>1, <1>4, <1>5, <2>2, InvalidOutcome DEF BulkResults
  <2> QED
    BY <2>1, <2>2
<1>7. SaveSteps({a, b})
  <2>1. << >> \in Seq(Builders)
    OBVIOUS
  <2> QED
    BY <1>1, <1>2, <1>3, <2>1, BoundsAssumption DEF SaveSteps
<1>8. \A c \in {a, b} : SavedAs(c, made[c])
  BY <1>1, <1>2 DEF SavedAs
<1>9. ASSUME NEW c \in {a, b}, made'[c] # made[c]
      PROVE  table' \in results
  <2>1. Ends({a, b}, "saved", Done(ms)) \/ \E r : Ends({a, b}, r, ms)
    BY <1>4 DEF Execute, Invalid
  <2>2. ASSUME NEW r, Ends({a, b}, r, ms) PROVE FALSE
    <3>1. made'[c] = ms[c]
      BY <2>2 DEF Ends
    <3> QED
      BY <1>5, <1>9, <3>1
  <2> QED
    BY <1>4, <2>2 DEF Execute, Invalid, Effect, BulkResults
<1> QED
  BY <1>2, <1>3, <1>6, <1>7, <1>8, <1>9 DEF ms

----------------------------------------------------------------------------
(***************************************************************************)
(* The invariant, action by action.  A save first, whichever it is.        *)
(***************************************************************************)
LEMMA SaveKeeps ==
    ASSUME EntInv, NEW bs, SaveSteps(bs), bs \subseteq DOMAIN made, NEW ms, NEW results, Outcome(bs, ms, results),
           \A b \in bs : SavedAs(b, ms[b]) /\ (ms[b].op = "Create" => ms[b].id # None),
           \A u \in results : TableOK(u)
    PROVE  EntInv'
<1>1. /\ TableOK(table) /\ DOMAIN made \subseteq Builders /\ DOMAIN said = DOMAIN made
      /\ \A b \in DOMAIN made : BuilderOK(made[b], said[b])
      /\ DOMAIN made' = DOMAIN made
      /\ NoEffect \/ Effect(bs, ms, results)
  BY DEF EntInv, BuildersOK, Outcome
<1>2. TableOK(table)'
  BY <1>1 DEF NoEffect, Effect
<1>3. \A b \in DOMAIN made \ bs : made'[b] = made[b]
  BY DEF Outcome
<1>4. ASSUME NEW b \in bs
      PROVE  /\ BuilderOK(made'[b], said'[b])
             /\ made'[b].id = ms[b].id /\ made'[b].op = ms[b].op
             /\ out'[b] = "saved" => made'[b].done
  <2>1. BuilderOK(ms[b], said'[b])
    BY DEF SavedAs
  <2>2. CASE made'[b] = ms[b] /\ out'[b] # "saved"
    BY <2>1, <2>2
  <2>3. CASE made'[b] = [ms[b] EXCEPT !.done = TRUE]
    BY <2>1, <2>3, DoneKeeps
  <2> QED
    BY <2>2, <2>3 DEF Outcome
<1>5. BuildersOK'
  <2>1. DOMAIN said' = DOMAIN made /\ \A b \in DOMAIN made \ bs : said'[b] = said[b]
    BY <1>1 DEF SaveSteps
  <2>2. \A b \in DOMAIN made : BuilderOK(made'[b], said'[b])
    BY <1>1, <1>3, <1>4, <2>1
  <2> QED
    BY <1>1, <2>1, <2>2 DEF BuildersOK
<1>6. SavedIsDone'
  <2>1. ASSUME NEW b \in Builders, out'[b] = "saved"
        PROVE  b \in DOMAIN made /\ made'[b].done
    <3>1. CASE b \in bs
      BY <1>4, <2>1, <3>1
    <3>2. CASE b \notin bs
      <4>1. out[b] = "saved"
        BY <2>1, <3>2 DEF Outcome
      <4>2. b \in DOMAIN made /\ made[b].done
        BY <4>1 DEF EntInv, SavedIsDone
      <4> QED
        BY <1>3, <3>2, <4>2
    <3> QED
      BY <3>1, <3>2
  <2> QED
    BY <1>1, <2>1 DEF SavedIsDone
<1>7. BornOnce'
  <2>0. /\ DOMAIN born = Builders
        /\ \A b \in Builders : born[b] # {} =>
              b \in DOMAIN made /\ made[b].id # None /\ born[b] = {made[b].id}
    BY DEF EntInv, BornOnce
  <2>1. DOMAIN born' = Builders
    BY <1>1, <2>0 DEF NoEffect, Effect
  <2>2. ASSUME NEW b \in Builders, born'[b] # {}
        PROVE  b \in DOMAIN made /\ made'[b].id # None /\ born'[b] = {made'[b].id}
    <3>1. \/ born'[b] = born[b]
          \/ b \in bs /\ ms[b].op = "Create" /\ born'[b] = born[b] \cup {ms[b].id}
      <4>1. CASE NoEffect
        BY <4>1 DEF NoEffect
      <4>2. CASE Effect(bs, ms, results)
        <5>1. born'[b] = born[b] \cup {ms[c].id : c \in {d \in bs \cap {b} : ms[d].op = "Create"}}
          BY <4>2 DEF Effect
        <5>2. CASE b \in bs /\ ms[b].op = "Create"
          <6>1. {d \in bs \cap {b} : ms[d].op = "Create"} = {b}
            BY <5>2
          <6> QED
            BY <5>1, <5>2, <6>1
        <5>3. CASE ~(b \in bs /\ ms[b].op = "Create")
          <6>1. {d \in bs \cap {b} : ms[d].op = "Create"} = {}
            BY <5>3
          <6> QED
            BY <5>1, <6>1
        <5> QED
          BY <5>2, <5>3
      <4> QED
        BY <1>1, <4>1, <4>2
    <3>2. CASE b \notin bs
      BY <1>3, <2>0, <2>2, <3>1, <3>2
    <3>3. CASE b \in bs
      <4>1. made[b].id # None => ms[b].id = made[b].id
        BY <3>3 DEF SavedAs
      <4>2. ms[b].op = "Create" => ms[b].id # None
        BY <3>3
      <4>3. made'[b].id = ms[b].id
        BY <1>4, <3>3
      <4> QED
        BY <2>0, <2>2, <3>1, <3>3, <4>1, <4>2, <4>3
    <3> QED
      BY <3>2, <3>3
  <2> QED
    BY <1>1, <2>1, <2>2 DEF BornOnce
<1>8. CountsOK'
  <2>0. /\ out \in [Builders -> {"none", "saved", "invalid", "refused", "lost"}]
        /\ applied \in [Builders -> 0 .. steps] /\ steps \in 0 .. MaxSteps
    BY DEF EntInv, CountsOK
  <2>1. steps' \in 0 .. MaxSteps /\ mishaps' \in 0 .. MaxMishaps
    BY <2>0, BoundsAssumption DEF Outcome, SaveSteps
  <2>2. applied' \in [Builders -> 0 .. steps']
    <3>0. steps' \in steps .. MaxSteps /\ \A b \in Builders : applied[b] + 1 <= steps'
      BY DEF SaveSteps
    <3>1. CASE NoEffect
      BY <2>0, <3>0, <3>1, BoundsAssumption DEF NoEffect
    <3>2. CASE Effect(bs, ms, results)
      BY <2>0, <3>0, <3>2, BoundsAssumption DEF Effect
    <3> QED
      BY <1>1, <3>1, <3>2
  <2>3. out' \in [Builders -> {"none", "saved", "invalid", "refused", "lost"}]
    <3>2. \A b \in Builders : out'[b] \in {"none", "saved", "invalid", "refused", "lost"}
      BY <2>0 DEF Outcome
    <3>3. out' = [b \in Builders |-> out'[b]]
      BY DEF Outcome
    <3> QED
      BY <3>2, <3>3
  <2> QED
    BY <2>1, <2>2, <2>3 DEF CountsOK
<1>9. BulkOK'
  BY DEF SaveSteps, BulkOK
<1> QED
  BY <1>2, <1>5, <1>6, <1>7, <1>8, <1>9 DEF EntInv

LEMMA AsideKeeps ==
    ASSUME NEW m, NEW s, BuilderOK(m, s), NEW n,
           /\ DOMAIN n = DOMAIN m /\ n.type = m.type /\ n.op = m.op /\ n.id = m.id
           /\ n.value = m.value /\ n.tail = m.tail /\ n.marked = m.marked /\ n.unset = m.unset
           /\ n.emptied = m.emptied /\ n.added = m.added /\ n.removed = m.removed
           /\ n.done = m.done
    PROVE  BuilderOK(n, s)
<1>1. WellFormed(n)
  BY DEF BuilderOK, WellFormed, OfKind
<1>2. Agrees(n, s)
  BY DEF BuilderOK, Agrees, FieldAgrees, TailAgrees, EdgeAgrees
<1> QED
  BY <1>1, <1>2 DEF BuilderOK

LEMMA MutationFacts ==
    ASSUME NEW type, NEW op, <<type, op>> \in Offers, NEW id \in Ids[type] \cup {None},
           NEW m, m = Mutation(type, op, id)
    PROVE  BuilderOK(m, Nothing(type)) /\ m.op = op /\ m.type = type
<1>1. type \in Types /\ op \in Operations
  BY OffersAssumption DEF Operations
<1>2. /\ DOMAIN m = {"type", "op", "id", "value", "tail", "marked", "unset", "emptied",
                     "added", "removed", "where", "old", "done"}
      /\ m.type = type /\ m.op = op /\ m.id = id
      /\ m.value = [c \in Columns(type) |-> None] /\ m.tail = << >>
      /\ m.marked = {} /\ m.unset = {} /\ m.emptied = {}
      /\ m.added = [e \in DOMAIN Many[type] |-> None]
      /\ m.removed = [e \in DOMAIN Many[type] |-> None]
      /\ m.done = FALSE
  BY DEF Mutation
<1>3. WellFormed(m)
  BY <1>1, <1>2 DEF WellFormed, OfKind
<1> DEFINE s == Nothing(type)
<1>4. /\ DOMAIN s = {"field", "tail", "empty", "late", "plus", "minus"}
      /\ s.field = [c \in Columns(type) |-> None] /\ s.tail = << >>
      /\ s.empty = {} /\ s.late = {}
      /\ s.plus = [e \in DOMAIN Many[type] |-> {}] /\ s.minus = [e \in DOMAIN Many[type] |-> {}]
  BY DEF Nothing
<1> HIDE DEF s
<1>5. SaidFormed(s, type)
  <2>1. << >> \in Seq({Item})
    OBVIOUS
  <2> QED
    BY <1>4, <2>1 DEF SaidFormed, OfKind
<1>6. Agrees(m, s)
  <2>1. \A c \in Columns(type) : FieldAgrees(m, s, c)
    BY <1>2, <1>4 DEF FieldAgrees
  <2>2. TailAgrees(m, s)
    BY <1>2, <1>4 DEF TailAgrees
  <2>3. \A e \in DOMAIN Many[type] : EdgeAgrees(m, s, e)
    BY <1>2, <1>4 DEF EdgeAgrees, Listed
  <2> QED
    BY <1>2, <2>1, <2>2, <2>3 DEF Agrees
<1> QED
  BY <1>2, <1>3, <1>5, <1>6 DEF BuilderOK, s

LEMMA FreshFacts ==
    ASSUME TableOK(table), NEW type, NEW op, <<type, op>> \in Offers, NEW m \in Fresh(type, op)
    PROVE  BuilderOK(m, Nothing(type))
<1>1. PICK id \in Ids[type] \cup {None} :
          \/ m = Mutation(type, op, id)
          \/ m = Where(Mutation(type, op, id), {id})
          \/ m = [Mutation(type, op, id) EXCEPT !.old = table[type][id]]
  <2>1. type \in Types
    BY OffersAssumption
  <2>2. \A id \in Rows(table, type) : id \in Ids[type]
    BY <2>1 DEF TableOK
  <2>3. CASE op = "UpdateOne"
    <3>1. \/ m \in {Mutation(type, op, id) : id \in Ids[type]}
          \/ m \in {[Mutation(type, op, id) EXCEPT !.old = table[type][id]] :
                        id \in Rows(table, type)}
      BY <2>3 DEF Fresh
    <3> QED
      BY <2>2, <3>1
  <2>4. CASE op = "DeleteOne"
    BY <2>4 DEF Fresh
  <2>5. CASE op \notin {"UpdateOne", "DeleteOne"}
    BY <2>5 DEF Fresh
  <2> QED
    BY <2>3, <2>4, <2>5
<1>2. PICK k : k = Mutation(type, op, id)
  OBVIOUS
<1>3. BuilderOK(k, Nothing(type))
  BY <1>2, MutationFacts
<1>4. CASE m = Where(k, {id})
  BY <1>3, <1>4, AsideKeeps DEF Where, BuilderOK, WellFormed
<1>5. CASE m = [k EXCEPT !.old = table[type][id]]
  BY <1>3, <1>5, AsideKeeps DEF BuilderOK, WellFormed
<1> QED
  BY <1>1, <1>2, <1>3, <1>4, <1>5

LEMMA BeginKeeps ==
    ASSUME EntInv, NEW b \in Builders, NEW offer \in Offers, Begin(b, offer[1], offer[2])
    PROVE  EntInv'
<1> DEFINE type == offer[1]
           op == offer[2]
<1>1. <<type, op>> \in Offers
  BY OffersAssumption
<1>2. PICK m \in Fresh(type, op) : made' = Put(made, b, m)
  BY DEF Begin
<1>3. /\ b \notin DOMAIN made /\ said' = Put(said, b, Nothing(type))
      /\ turn = 0 /\ UNCHANGED <<table, out, applied, born, bulk, turn, steps, mishaps>>
  BY DEF Begin
<1>4. BuilderOK(m, Nothing(type))
  BY <1>1, FreshFacts DEF EntInv
<1> HIDE DEF type, op
<1>5. /\ DOMAIN made' = DOMAIN made \cup {b} /\ DOMAIN said' = DOMAIN said \cup {b}
      /\ made'[b] = m /\ said'[b] = Nothing(type)
      /\ \A c \in DOMAIN made : made'[c] = made[c]
      /\ \A c \in DOMAIN said : said'[c] = said[c]
  BY <1>2, <1>3, DOMAIN said = DOMAIN made DEF EntInv, BuildersOK, Put
<1>6. BuildersOK'
  BY <1>4, <1>5 DEF EntInv, BuildersOK
<1>7. SavedIsDone' /\ BornOnce'
  BY <1>3, <1>5 DEF EntInv, SavedIsDone, BornOnce
<1>8. TableOK(table)' /\ CountsOK' /\ BulkOK'
  BY <1>3 DEF EntInv, CountsOK, BulkOK
<1> QED
  BY <1>6, <1>7, <1>8 DEF EntInv

(***************************************************************************)
(* A builder that is called keeps to its history, and forgets nothing but  *)
(* the rows made under another identifier.                                 *)
(***************************************************************************)
LEMMA TurnKeeps ==
    ASSUME EntInv, NEW b \in DOMAIN made, NEW m, NEW s, BuilderOK(m, s),
           made' = [made EXCEPT ![b] = m],
           \/ said' = [said EXCEPT ![b] = s]
           \/ s = said[b] /\ UNCHANGED said,
           m.done = made[b].done,
           \/ UNCHANGED out
           \/ out' = [out EXCEPT ![b] = "none"],
           \/ m.id = made[b].id /\ UNCHANGED born
           \/ m.id = made[b].id /\ born' = [born EXCEPT ![b] = born[b]]
           \/ born' = [born EXCEPT ![b] = {}],
           turn = 0, UNCHANGED <<table, applied, bulk, turn>>, mishaps' \in 0 .. MaxMishaps,
           \/ UNCHANGED steps
           \/ steps < MaxSteps /\ steps' = steps + 1
    PROVE  EntInv'
<1>1. /\ DOMAIN made' = DOMAIN made /\ DOMAIN said' = DOMAIN made
      /\ made'[b] = m /\ said'[b] = s
      /\ \A c \in DOMAIN made \ {b} : made'[c] = made[c] /\ said'[c] = said[c]
      /\ b \in Builders
  BY DEF EntInv, BuildersOK
<1>2. BuildersOK'
  BY <1>1 DEF EntInv, BuildersOK
<1>3. \A c \in Builders : out'[c] = out[c] \/ out'[c] = "none"
  BY DEF EntInv, CountsOK
<1>4. SavedIsDone'
  BY <1>1, <1>3 DEF EntInv, SavedIsDone
<1>5. BornOnce'
  <2>1. CASE m.id = made[b].id /\ UNCHANGED born
    BY <1>1, <2>1 DEF EntInv, BornOnce
  <2>2. CASE born' = [born EXCEPT ![b] = {}]
    BY <1>1, <2>2 DEF EntInv, BornOnce
  <2>3. CASE m.id = made[b].id /\ born' = [born EXCEPT ![b] = born[b]]
    BY <1>1, <2>3 DEF EntInv, BornOnce
  <2> QED
    BY <2>1, <2>2, <2>3
<1>6. CountsOK'
  <2>1. steps' \in 0 .. MaxSteps /\ mishaps' \in 0 .. MaxMishaps
    BY BoundsAssumption DEF EntInv, CountsOK
  <2>2. applied' \in [Builders -> 0 .. steps']
    BY BoundsAssumption DEF EntInv, CountsOK
  <2>3. out' \in [Builders -> {"none", "saved", "invalid", "refused", "lost"}]
    BY DEF EntInv, CountsOK
  <2> QED
    BY <2>1, <2>2, <2>3 DEF CountsOK
<1>7. TableOK(table)' /\ BulkOK'
  BY DEF EntInv, BulkOK
<1> QED
  BY <1>2, <1>4, <1>5, <1>6, <1>7 DEF EntInv

LEMMA CallKeeps ==
    ASSUME EntInv, NEW b \in DOMAIN made, NEW call \in CallsOf(made[b]),
           NEW v \in Arguments(made[b], call), Call(b, call, v),
           turn = 0, UNCHANGED <<bulk, turn>>
    PROVE  EntInv'
<1> DEFINE m == Changed(made[b], call, v)
           s == Asked(said[b], made[b].type, call, v)
<1>1. BuilderOK(made[b], said[b])
  BY DEF EntInv, BuildersOK
<1>2. /\ WellFormed(m) /\ m.type = made[b].type /\ m.op = made[b].op /\ m.done = made[b].done
      /\ call[1] # "id" => m.id = made[b].id
  BY <1>1, ChangedKeeps DEF BuilderOK
<1>3. SaidFormed(s, m.type) /\ Agrees(m, s)
  BY <1>1, AskedAgrees DEF BuilderOK
<1> HIDE DEF m, s
<1>4. BuilderOK(m, s)
  BY <1>1, <1>2, <1>3 DEF BuilderOK
<1>5. /\ made' = [made EXCEPT ![b] = m] /\ said' = [said EXCEPT ![b] = s]
      /\ out' = [out EXCEPT ![b] = "none"]
      /\ UNCHANGED <<table, applied>> /\ steps < MaxSteps /\ steps' = steps + 1
      /\ mishaps' \in 0 .. MaxMishaps
  BY DEF Call, Step, m, s, EntInv, CountsOK
<1>6. \/ m.id = made[b].id /\ born' = [born EXCEPT ![b] = born[b]]
      \/ born' = [born EXCEPT ![b] = {}]
  BY <1>2 DEF Call
<1> QED
  BY <1>2, <1>4, <1>5, <1>6, TurnKeeps

LEMMA ChainedFacts ==
    ASSUME NEW m, NEW s, BuilderOK(m, s), m.op = "Create", NEW values \in Chains[m.type],
           NEW n, n = [m EXCEPT !.value = [c \in DOMAIN m.value |->
                          IF c \in DOMAIN values THEN values[c] ELSE m.value[c]]],
           NEW t, t = [s EXCEPT !.field = [c \in DOMAIN s.field |->
                          IF c \in DOMAIN values THEN values[c] ELSE s.field[c]]]
    PROVE  BuilderOK(n, t) /\ n.id = m.id /\ n.done = m.done /\ n.old = m.old
<1> DEFINE columns == OfKind(m.type, {"text", "key", "ref"})
<1>0. m.type \in Types /\ DOMAIN m.value = Columns(m.type) /\ DOMAIN s.field = Columns(m.type)
  BY DEF BuilderOK, WellFormed, SaidFormed
<1>1. DOMAIN values = columns /\ \A c \in columns : values[c] \in Values(m.type, c)
  BY <1>0 DEF Chains
<1>2. /\ DOMAIN n = DOMAIN m /\ n.type = m.type /\ n.op = m.op /\ n.id = m.id
      /\ DOMAIN n.value = Columns(m.type)
      /\ \A c \in Columns(m.type) :
            n.value[c] = IF c \in columns THEN values[c] ELSE m.value[c]
      /\ n.tail = m.tail /\ n.marked = m.marked /\ n.unset = m.unset
      /\ n.emptied = m.emptied /\ n.added = m.added /\ n.removed = m.removed
      /\ n.where = m.where /\ n.old = m.old /\ n.done = m.done
  BY <1>0, <1>1 DEF BuilderOK, WellFormed
<1>3. /\ DOMAIN t = DOMAIN s /\ DOMAIN t.field = Columns(m.type)
      /\ \A c \in Columns(m.type) :
            t.field[c] = IF c \in columns THEN values[c] ELSE s.field[c]
      /\ t.tail = s.tail /\ t.empty = s.empty /\ t.late = s.late
      /\ t.plus = s.plus /\ t.minus = s.minus
  BY <1>0, <1>1 DEF BuilderOK, SaidFormed
<1>4. WellFormed(n)
  <2>1. ASSUME NEW c \in OfKind(m.type, Texted)
        PROVE  n.value[c] \in Texts \cup {None}
    <3>1. c \in Columns(m.type) /\ Kind[m.type][c] \in Texted
      BY DEF OfKind
    <3>2. CASE c \in columns
      BY <1>0, <1>1, <1>2, <3>1, <3>2, ValueFacts
    <3>3. CASE c \notin columns
      BY <1>2, <3>1, <3>3 DEF BuilderOK, WellFormed
    <3> QED
      BY <3>2, <3>3
  <2> QED
    BY <1>2, <2>1 DEF BuilderOK, WellFormed
<1>5. SaidFormed(t, m.type)
  <2>1. \A c \in OfKind(m.type, {"list"}) : c \in Columns(m.type) /\ c \notin columns
    BY DEF OfKind
  <2> QED
    BY <1>3, <2>1 DEF BuilderOK, SaidFormed
<1>6. ASSUME NEW c \in Columns(m.type)
      PROVE  FieldAgrees(n, t, c)
  <2>1. CASE c \in columns
    <3>1. Kind[n.type][c] \in {"text", "key", "ref"} /\ n.value[c] = t.field[c]
      BY <1>2, <1>3, <2>1 DEF OfKind
    <3> QED
      BY <3>1 DEF FieldAgrees
  <2>2. CASE c \notin columns
    <3>1. n.value[c] = m.value[c] /\ t.field[c] = s.field[c] /\ FieldAgrees(m, s, c)
      BY <1>2, <1>3, <2>2 DEF BuilderOK, Agrees
    <3> QED
      BY <1>2, <3>1 DEF FieldAgrees
  <2> QED
    BY <2>1, <2>2
<1>7. TailAgrees(n, t) /\ \A e \in DOMAIN Many[m.type] : EdgeAgrees(n, t, e)
  BY <1>2, <1>3 DEF BuilderOK, Agrees, TailAgrees, EdgeAgrees
<1> QED
  BY <1>2, <1>4, <1>5, <1>6, <1>7 DEF BuilderOK, Agrees

LEMMA ChainKeeps ==
    ASSUME EntInv, NEW b \in DOMAIN made, Chain(b), turn = 0, UNCHANGED <<bulk, turn>>
    PROVE  EntInv'
<1>1. PICK values \in Chains[made[b].type] :
          /\ made' = [made EXCEPT ![b].value = [c \in DOMAIN @ |-> IF c \in DOMAIN values THEN values[c] ELSE @[c]]]
          /\ said' = [said EXCEPT ![b].field = [c \in DOMAIN @ |-> IF c \in DOMAIN values THEN values[c] ELSE @[c]]]
  BY DEF Chain
<1>2. PICK m : m = [made[b] EXCEPT !.value = [c \in DOMAIN made[b].value |->
                       IF c \in DOMAIN values THEN values[c] ELSE made[b].value[c]]]
  OBVIOUS
<1>3. PICK s : s = [said[b] EXCEPT !.field = [c \in DOMAIN said[b].field |->
                       IF c \in DOMAIN values THEN values[c] ELSE said[b].field[c]]]
  OBVIOUS
<1>4. BuilderOK(made[b], said[b]) /\ made[b].op = "Create"
  BY DEF EntInv, BuildersOK, Chain
<1>5. BuilderOK(m, s) /\ m.id = made[b].id /\ m.done = made[b].done
  BY <1>2, <1>3, <1>4, ChainedFacts
<1>6. made' = [made EXCEPT ![b] = m] /\ said' = [said EXCEPT ![b] = s]
  BY <1>1, <1>2, <1>3
<1>7. /\ out' = [out EXCEPT ![b] = "none"] /\ UNCHANGED <<table, applied, born>>
      /\ steps < MaxSteps /\ steps' = steps + 1 /\ mishaps' \in 0 .. MaxMishaps
  BY DEF Chain, Step, EntInv, CountsOK
<1> QED
  BY <1>5, <1>6, <1>7, TurnKeeps

LEMMA ReadOldKeeps ==
    ASSUME EntInv, NEW b \in DOMAIN made, ReadOld(b), turn = 0, UNCHANGED <<bulk, turn>>
    PROVE  EntInv'
<1>1. PICK m, old : m = [made[b] EXCEPT !.old = old] /\ made' = [made EXCEPT ![b] = m]
  BY DEF ReadOld
<1>2. BuilderOK(made[b], said[b]) /\ b \in DOMAIN said
  BY DEF EntInv, BuildersOK
<1>3. BuilderOK(m, said[b]) /\ m.id = made[b].id /\ m.done = made[b].done
  BY <1>1, <1>2, AsideKeeps DEF BuilderOK, WellFormed
<1>4. UNCHANGED <<table, said, out, applied, born, steps>>
  BY DEF ReadOld
<1>5. mishaps' \in 0 .. MaxMishaps
  BY BoundsAssumption DEF ReadOld, Sound, Mishap, EntInv, CountsOK
<1> QED
  BY <1>1, <1>3, <1>4, <1>5, TurnKeeps

LEMMA SaveCreateKeeps ==
    ASSUME EntInv, NEW b \in DOMAIN made, turn = 0, UNCHANGED <<bulk, turn>>, SaveCreate(b)
    PROVE  EntInv'
<1>1. PICK m : /\ SavedAs(b, m) /\ m.op = "Create" /\ m.id # None
               /\ Outcome({b}, [c \in {b} |-> m],
                          IF CreateCheck(m) THEN Inserted(table, m) ELSE {})
               /\ SaveSteps({b})
  BY SaveCreateFacts
<1> DEFINE results == IF CreateCheck(m) THEN Inserted(table, m) ELSE {}
<1>2. WellFormed(m) /\ ListsOK(m) /\ TableOK(table)
  BY <1>1, ListsAreOK DEF SavedAs, BuilderOK, EntInv
<1>3. \A u \in results : TableOK(u)
  BY <1>1, <1>2, InsertedFacts
<1>4. [c \in {b} |-> m][b] = m
  OBVIOUS
<1> HIDE DEF results
<1> QED
  BY <1>1, <1>3, <1>4, SaveKeeps DEF results

LEMMA SaveUpdateKeeps ==
    ASSUME EntInv, NEW b \in DOMAIN made, turn = 0, UNCHANGED <<bulk, turn>>, SaveUpdate(b)
    PROVE  EntInv'
<1>1. PICK m : /\ SavedAs(b, m) /\ m.op \in {"Update", "UpdateOne"}
               /\ Outcome({b}, [c \in {b} |-> m],
                          IF UpdateCheck(m) THEN Updated(table, m) ELSE {})
               /\ SaveSteps({b})
  BY SaveUpdateFacts
<1> DEFINE results == IF UpdateCheck(m) THEN Updated(table, m) ELSE {}
<1>2. WellFormed(m) /\ ListsOK(m) /\ TableOK(table)
  BY <1>1, ListsAreOK DEF SavedAs, BuilderOK, EntInv
<1>3. \A u \in results : TableOK(u)
  BY <1>1, <1>2, UpdatedFacts
<1>4. [c \in {b} |-> m][b] = m
  OBVIOUS
<1> HIDE DEF results
<1> QED
  BY <1>1, <1>3, <1>4, SaveKeeps DEF results

LEMMA ExecDeleteKeeps ==
    ASSUME EntInv, NEW b \in DOMAIN made, turn = 0, UNCHANGED <<bulk, turn>>, ExecDelete(b)
    PROVE  EntInv'
<1> DEFINE results == Removed(table, made[b].type, Selected(table, made[b]))
<1>1. PICK m : /\ SavedAs(b, m) /\ m.op \in {"Delete", "DeleteOne"}
               /\ Outcome({b}, [c \in {b} |-> m], results)
               /\ SaveSteps({b})
  BY ExecDeleteFacts
<1>2. made[b].type \in Types /\ TableOK(table)
  BY DEF EntInv, BuildersOK, BuilderOK, WellFormed
<1>3. \A u \in results : TableOK(u)
  BY <1>2, RemovedFacts
<1>4. [c \in {b} |-> m][b] = m
  OBVIOUS
<1> HIDE DEF results
<1> QED
  BY <1>1, <1>3, <1>4, SaveKeeps

LEMMA SaveBulkKeeps ==
    ASSUME EntInv, NEW a \in DOMAIN made, NEW b \in DOMAIN made, SaveBulk(a, b)
    PROVE  EntInv'
<1>1. /\ a # b /\ made[a].type = made[b].type /\ turn = 0
      /\ bulk' = <<a, b>> /\ turn' = 1 /\ steps' = steps + 1 /\ steps < MaxSteps
      /\ UNCHANGED <<table, out, applied, born, mishaps>>
      /\ DOMAIN made' = DOMAIN made /\ DOMAIN said' = DOMAIN made
      /\ \A c \in DOMAIN made \ {a, b} : made'[c] = made[c] /\ said'[c] = said[c]
      /\ \A c \in {a, b} :
            /\ made[c].op = "Create" /\ BuilderOK(made'[c], said'[c])
            /\ made'[c].type = made[c].type /\ made'[c].op = made[c].op
            /\ made'[c].old = made[c].old /\ made'[c].done = made[c].done
            /\ made'[c].id # None /\ (made[c].id # None => made'[c].id = made[c].id)
  BY SaveBulkFacts
<1>2. BuildersOK'
  BY <1>1 DEF EntInv, BuildersOK
<1>3. SavedIsDone'
  <2>1. \A c \in DOMAIN made : made'[c].done = made[c].done
    BY <1>1
  <2> QED
    BY <1>1, <2>1 DEF EntInv, SavedIsDone
<1>4. BornOnce'
  <2>1. \A c \in DOMAIN made : made[c].id # None => made'[c].id = made[c].id
    BY <1>1
  <2> QED
    BY <1>1, <2>1 DEF EntInv, BornOnce
<1>5. CountsOK'
  BY <1>1, BoundsAssumption DEF EntInv, CountsOK
<1>6. BulkOK'
  <2>1. <<a, b>> \in Seq(Builders)
    BY DEF EntInv, BuildersOK
  <2>2. \A c \in Builders : applied[c] + 1 <= steps'
    BY <1>1, BoundsAssumption DEF EntInv, CountsOK
  <2> QED
    BY <1>1, <2>1, <2>2 DEF BulkOK
<1>7. TableOK(table)'
  BY <1>1 DEF EntInv
<1> QED
  BY <1>2, <1>3, <1>4, <1>5, <1>6, <1>7 DEF EntInv

LEMMA BatchFacts ==
    ASSUME NEW t, TableOK(t), NEW m, NEW n, NEW u \in Batch(t, m, n), m.type = n.type,
           WellFormed(m), m.op = "Create", m.id # None, CreateCheck(m), ListsOK(m),
           WellFormed(n), n.op = "Create", n.id # None, CreateCheck(n), ListsOK(n)
    PROVE  /\ TableOK(u) /\ {m.id, n.id} \subseteq Rows(u, m.type) \ Rows(t, m.type)
           /\ m.id # n.id
<1>1. PICK w \in Inserted(t, m) : u \in Inserted(w, n)
  BY DEF Batch
<1>2. /\ TableOK(w) /\ m.id \notin Rows(t, m.type)
      /\ Rows(w, m.type) = Rows(t, m.type) \cup {m.id}
  BY <1>1, InsertedFacts
<1>3. /\ TableOK(u) /\ n.id \notin Rows(w, n.type)
      /\ Rows(u, n.type) = Rows(w, n.type) \cup {n.id}
  BY <1>1, <1>2, InsertedFacts
<1> QED
  BY <1>2, <1>3

LEMMA MutateKeeps ==
    ASSUME EntInv, NEW a \in DOMAIN made, NEW b \in DOMAIN made, Mutate(a, b)
    PROVE  EntInv'
<1>1. CASE PassesOn(a, b)
  <2>1. UNCHANGED <<table, made, said, out, applied, born, bulk, steps, mishaps>>
    BY <1>1 DEF PassesOn
  <2>2. /\ turn = 1 /\ turn' = 2 /\ bulk = <<a, b>> /\ CreateCheck(made[a])
    BY <1>1 DEF PassesOn
  <2>3. BulkOK'
    BY <2>1, <2>2 DEF EntInv, BulkOK
  <2> QED
    BY <2>1, <2>3 DEF EntInv, TableOK, Rows, BuildersOK, SavedIsDone, BornOnce, CountsOK
<1>2. CASE BulkEnds(a, b)
  <2>1. /\ \A c \in {a, b} : SavedAs(c, made[c]) /\ made[c].op = "Create" /\ made[c].id # None
        /\ made[a].type = made[b].type
        /\ Outcome({a, b}, Pair(a, b), BulkResults(a, b)) /\ SaveSteps({a, b})
    BY <1>2, BulkEndFacts
  <2>2. \A c \in {a, b} : WellFormed(made[c]) /\ ListsOK(made[c])
    BY <2>1, ListsAreOK DEF EntInv, BuildersOK, BuilderOK
  <2>3. \A u \in BulkResults(a, b) : TableOK(u)
    BY <2>1, <2>2, BatchFacts DEF BulkResults, EntInv
  <2>4. \A c \in {a, b} : Pair(a, b)[c] = made[c]
    BY DEF Pair
  <2>5. {a, b} \subseteq DOMAIN made
    OBVIOUS
  <2>6. \A c \in {a, b} : SavedAs(c, Pair(a, b)[c])
                          /\ (Pair(a, b)[c].op = "Create" => Pair(a, b)[c].id # None)
    BY <2>1, <2>4
  <2> QED
    BY <2>1, <2>3, <2>5, <2>6, SaveKeeps
<1> QED
  BY <1>1, <1>2, MutateCases

(***************************************************************************)
(* What a step may be, beside a query too: one of the builders, of others, *)
(* or a mishap that changes nothing here.                                  *)
(***************************************************************************)
EntStep ==
    \/ Next
    \/ Others
    \/ Mishap /\ UNCHANGED <<table, made, said, out, applied, born, bulk, turn, steps>>

LEMMA OthersKeep ==
    ASSUME EntInv, \/ Others
                   \/ Mishap /\ UNCHANGED <<table, made, said, out, applied, born, bulk, turn, steps>>
    PROVE  EntInv'
<1>1. UNCHANGED <<made, said, out, applied, born, bulk, turn, steps>> /\ Mishap
  BY DEF Others
<1>2. TableOK(table)'
  BY OthersFacts DEF EntInv
<1>3. mishaps' \in 0 .. MaxMishaps
  BY <1>1, BoundsAssumption DEF EntInv, CountsOK, Mishap
<1>4. BuildersOK' /\ SavedIsDone' /\ BornOnce'
  BY <1>1 DEF EntInv, BuildersOK, SavedIsDone, BornOnce
<1>5. CountsOK' /\ BulkOK'
  BY <1>1, <1>3 DEF EntInv, CountsOK, BulkOK
<1> QED
  BY <1>2, <1>4, <1>5 DEF EntInv

LEMMA InvInit == Init => EntInv
<1> SUFFICES ASSUME Init PROVE EntInv
  OBVIOUS
<1> USE DEF Init
<1>1. TableOK(table)
  <2>1. ASSUME NEW type \in Types, NEW id \in Rows(Start, type)
        PROVE  id \in Ids[type] /\ RowOK(type, Start[type][id])
    <3>1. ASSUME NEW c \in OfKind(type, Texted)
          PROVE  Start[type][id][c] \in Texts
      BY <2>1 DEF Texts, Texted
    <3> QED
      BY <3>1, StartAssumption DEF RowOK
  <2> QED
    BY <2>1, StartAssumption DEF TableOK
<1>2. BuildersOK /\ SavedIsDone /\ BornOnce
  BY DEF BuildersOK, SavedIsDone, BornOnce
<1>3. CountsOK
  BY BoundsAssumption DEF CountsOK
<1>4. BulkOK
  <2>1. << >> \in Seq(Builders)
    OBVIOUS
  <2> QED
    BY <2>1 DEF BulkOK
<1> QED
  BY <1>1, <1>2, <1>3, <1>4 DEF EntInv

LEMMA InvStep == EntInv /\ EntStep => EntInv'
<1> SUFFICES ASSUME EntInv, EntStep PROVE EntInv'
  OBVIOUS
<1>1. CASE \E b \in Builders, offer \in Offers : Begin(b, offer[1], offer[2])
  BY <1>1, BeginKeeps
<1>2. ASSUME NEW b \in Builders, Use(b)
      PROVE  EntInv'
  <2>1. b \in DOMAIN made
    BY <1>2 DEF Use
  <2>2. CASE /\ turn = 0 /\ UNCHANGED <<bulk, turn>>
             /\ \E call \in CallsOf(made[b]) : \E v \in Arguments(made[b], call) : Call(b, call, v)
    BY <2>1, <2>2, CallKeeps
  <2>3. CASE turn = 0 /\ UNCHANGED <<bulk, turn>> /\ Chain(b)
    BY <2>1, <2>3, ChainKeeps
  <2>4. CASE turn = 0 /\ UNCHANGED <<bulk, turn>> /\ ReadOld(b)
    BY <2>1, <2>4, ReadOldKeeps
  <2>5. CASE turn = 0 /\ UNCHANGED <<bulk, turn>> /\ SaveCreate(b)
    BY <2>1, <2>5, SaveCreateKeeps
  <2>6. CASE turn = 0 /\ UNCHANGED <<bulk, turn>> /\ SaveUpdate(b)
    BY <2>1, <2>6, SaveUpdateKeeps
  <2>7. CASE turn = 0 /\ UNCHANGED <<bulk, turn>> /\ ExecDelete(b)
    BY <2>1, <2>7, ExecDeleteKeeps
  <2>8. CASE \E c \in DOMAIN made : SaveBulk(b, c)
    BY <2>1, <2>8, SaveBulkKeeps
  <2>9. CASE \E c \in DOMAIN made : Mutate(b, c)
    BY <2>1, <2>9, MutateKeeps
  <2> QED
    BY <1>2, <2>2, <2>3, <2>4, <2>5, <2>6, <2>7, <2>8, <2>9 DEF Use
<1>3. CASE Elsewhere
  BY <1>3, OthersKeep DEF Elsewhere
<1>4. CASE \/ Others
           \/ Mishap /\ UNCHANGED <<table, made, said, out, applied, born, bulk, turn, steps>>
  BY <1>4, OthersKeep
<1> QED
  BY <1>1, <1>2, <1>3, <1>4 DEF EntStep, Next

LEMMA InvStutter == EntInv /\ UNCHANGED vars => EntInv'
BY DEF vars, EntInv, TableOK, Rows, BuildersOK, SavedIsDone, BornOnce, CountsOK, BulkOK

LEMMA Invariance == Spec => []EntInv
<1>1. Next => EntStep
  BY DEF EntStep
<1> QED
  BY <1>1, InvInit, InvStep, InvStutter, PTL DEF Spec

----------------------------------------------------------------------------
(***************************************************************************)
(* The invariants of the runs.                                             *)
(***************************************************************************)
LEMMA TypesFollow == EntInv => TypeOK
<1> SUFFICES ASSUME EntInv PROVE TypeOK
  OBVIOUS
<1>1. ASSUME NEW type \in Types
      PROVE  /\ Rows(table, type) \subseteq Ids[type]
             /\ \A id \in Rows(table, type) :
                   /\ DOMAIN table[type][id] = TableColumns[type]
                   /\ \A c \in OfKind(type, {"text", "key", "note"}) :
                         table[type][id][c] \in Texts \cup {Null}
  BY DEF EntInv, TableOK, RowOK, Texted
<1>2. ASSUME NEW b \in DOMAIN made
      PROVE  LET m == made[b] IN
             /\ <<m.type, m.op>> \in Offers /\ m.id \in Ids[m.type] \cup {None}
             /\ m.marked \subseteq Columns(m.type) /\ m.unset \subseteq DOMAIN One[m.type]
             /\ m.emptied \subseteq DOMAIN Many[m.type]
             /\ m.done \in BOOLEAN
             /\ \A c \in OfKind(m.type, {"text", "key", "note"}) :
                   m.value[c] \in Texts \cup {None}
  BY DEF EntInv, BuildersOK, BuilderOK, WellFormed, Texted
<1>3. applied \in [Builders -> 0 .. MaxSteps]
  BY BoundsAssumption DEF EntInv, CountsOK
<1>4. ASSUME NEW b \in Builders
      PROVE  born[b] \subseteq UNION {Ids[type] : type \in Types}
  <2>1. CASE born[b] # {}
    <3>1. /\ b \in DOMAIN made /\ made[b].id # None /\ born[b] = {made[b].id}
          /\ WellFormed(made[b])
      BY <2>1 DEF EntInv, BornOnce, BuildersOK, BuilderOK
    <3>2. made[b].type \in Types /\ made[b].id \in Ids[made[b].type]
      BY <3>1 DEF WellFormed
    <3> QED
      BY <3>1, <3>2
  <2> QED
    BY <2>1
<1> QED
  BY <1>1, <1>2, <1>3, <1>4 DEF TypeOK, EntInv, BuildersOK, CountsOK, BulkOK

LEMMA NoEmptyFollows == EntInv => NoEmptyTexts
BY DEF EntInv, TableOK, RowOK, NoEmptyTexts

LEMMA OneRowFollows == EntInv => OneRowPerBuilder
<1> SUFFICES ASSUME EntInv, NEW b \in Builders PROVE Cardinality(born[b]) <= 1
  BY DEF OneRowPerBuilder
<1>1. CASE born[b] = {}
  BY <1>1, FS_EmptySet
<1>2. CASE born[b] # {}
  <2>1. born[b] = {made[b].id}
    BY <1>2 DEF EntInv, BornOnce
  <2>2. Cardinality(born[b]) = 1
    BY <2>1, FS_Singleton
  <2> QED
    BY <2>2
<1> QED
  BY <1>1, <1>2

(***************************************************************************)
(* The tables, the mutations and the counters have their types.            *)
(***************************************************************************)
THEOREM TypesHold == Spec => []TypeOK
BY Invariance, TypesFollow, PTL

(***************************************************************************)
(* No row has an empty text but a note: neither a create nor an update     *)
(* reaches the tables past its validators (ent/poll_create.go:174,         *)
(* ent/poll_update.go:204), whatever was set before and however often it   *)
(* is saved.                                                               *)
(***************************************************************************)
THEOREM NoEmptyTextsHold == Spec => []NoEmptyTexts
BY Invariance, NoEmptyFollows, PTL

(***************************************************************************)
(* A create builder makes one row at most, however often it is saved and   *)
(* whichever answers are lost.                                             *)
(***************************************************************************)
THEOREM OneRowHolds == Spec => []OneRowPerBuilder
BY Invariance, OneRowFollows, PTL

----------------------------------------------------------------------------
(***************************************************************************)
(* The action properties.  A step saves, or it changes no count and ends   *)
(* nothing.                                                                *)
(***************************************************************************)
Quiet ==
    /\ UNCHANGED applied
    /\ \A b \in Builders : out'[b] \in {out[b], "none"}
    /\ \A b \in DOMAIN made : made'[b].old = made[b].old \/ ReadOld(b)

LEMMA TurnIsQuiet ==
    ASSUME EntInv, NEW b \in DOMAIN made, NEW m, made' = [made EXCEPT ![b] = m],
           m.old = made[b].old \/ ReadOld(b),
           UNCHANGED applied, UNCHANGED out \/ out' = [out EXCEPT ![b] = "none"]
    PROVE  Quiet
<1>1. \A c \in Builders : out'[c] \in {out[c], "none"}
  BY DEF EntInv, CountsOK
<1>2. ASSUME NEW c \in DOMAIN made
      PROVE  made'[c].old = made[c].old \/ ReadOld(c)
  <2>1. CASE c = b
    <3>1. made'[b] = m
      OBVIOUS
    <3> QED
      BY <2>1, <3>1
  <2>2. CASE c # b
    <3>1. made'[c] = made[c]
      BY <2>2
    <3> QED
      BY <3>1
  <2> QED
    BY <2>1, <2>2
<1> QED
  BY <1>1, <1>2 DEF Quiet

LEMMA StepCases ==
    ASSUME EntInv, EntStep
    PROVE  \/ Quiet
           \/ /\ turn = 0 /\ UNCHANGED <<bulk, turn>>
              /\ \E b \in DOMAIN made : SaveCreate(b) \/ SaveUpdate(b) \/ ExecDelete(b)
           \/ \E a, b \in DOMAIN made : BulkEnds(a, b)
<1>1. ASSUME NEW b \in Builders, NEW offer \in Offers, Begin(b, offer[1], offer[2])
      PROVE  Quiet
  <2>1. PICK m : made' = Put(made, b, m)
    BY <1>1 DEF Begin
  <2>2. b \notin DOMAIN made /\ UNCHANGED <<out, applied>>
    BY <1>1 DEF Begin
  <2>3. \A c \in DOMAIN made : made'[c] = made[c]
    BY <2>1, <2>2 DEF Put
  <2> QED
    BY <2>2, <2>3 DEF Quiet
<1>2. ASSUME NEW b \in DOMAIN made, NEW call \in CallsOf(made[b]),
             NEW v \in Arguments(made[b], call), Call(b, call, v)
      PROVE  Quiet
  <2>1. PICK m : m = Changed(made[b], call, v)
    OBVIOUS
  <2>2. m.old = made[b].old
    BY <2>1, ChangedKeeps DEF EntInv, BuildersOK, BuilderOK
  <2> QED
    BY <1>2, <2>1, <2>2, TurnIsQuiet DEF Call
<1>3. ASSUME NEW b \in DOMAIN made, Chain(b)
      PROVE  Quiet
  <2>1. PICK values : made' = [made EXCEPT ![b].value =
                          [c \in DOMAIN @ |-> IF c \in DOMAIN values THEN values[c] ELSE @[c]]]
    BY <1>3 DEF Chain
  <2>2. PICK m : m = [made[b] EXCEPT !.value = [c \in DOMAIN made[b].value |->
                         IF c \in DOMAIN values THEN values[c] ELSE made[b].value[c]]]
    OBVIOUS
  <2>3. made' = [made EXCEPT ![b] = m]
    BY <2>1, <2>2
  <2>4. m.old = made[b].old
    BY <2>2 DEF EntInv, BuildersOK, BuilderOK, WellFormed
  <2>5. out' = [out EXCEPT ![b] = "none"] /\ UNCHANGED applied
    BY <1>3 DEF Chain
  <2> QED
    BY <2>3, <2>4, <2>5, TurnIsQuiet
<1>4. ASSUME NEW b \in DOMAIN made, ReadOld(b)
      PROVE  Quiet
  <2>1. PICK m : made' = [made EXCEPT ![b] = m]
    BY <1>4 DEF ReadOld
  <2>2. UNCHANGED <<out, applied>>
    BY <1>4 DEF ReadOld
  <2> QED
    BY <1>4, <2>1, <2>2, TurnIsQuiet
<1>5. CASE \/ Others
           \/ Mishap /\ UNCHANGED <<table, made, said, out, applied, born, bulk, turn, steps>>
  BY <1>5 DEF Others, Quiet
<1>6. ASSUME NEW a \in DOMAIN made, NEW b \in DOMAIN made, SaveBulk(a, b)
      PROVE  Quiet
  <2>1. /\ UNCHANGED <<out, applied>>
        /\ \A c \in DOMAIN made \ {a, b} : made'[c] = made[c]
        /\ \A c \in {a, b} : made'[c].old = made[c].old
    BY <1>6, SaveBulkFacts
  <2> QED
    BY <2>1 DEF Quiet
<1>7. ASSUME NEW a \in DOMAIN made, NEW b \in DOMAIN made, Mutate(a, b)
      PROVE  Quiet \/ BulkEnds(a, b)
  <2>1. CASE PassesOn(a, b)
    BY <2>1 DEF PassesOn, Quiet
  <2> QED
    BY <1>7, <2>1, MutateCases
<1>8. ASSUME NEW b \in Builders, Use(b)
      PROVE  \/ Quiet
             \/ /\ turn = 0 /\ UNCHANGED <<bulk, turn>>
                /\ SaveCreate(b) \/ SaveUpdate(b) \/ ExecDelete(b)
             \/ \E c \in DOMAIN made : BulkEnds(b, c)
  <2>1. b \in DOMAIN made
    BY <1>8 DEF Use
  <2>2. CASE \E c \in DOMAIN made : SaveBulk(b, c) \/ Mutate(b, c)
    BY <1>6, <1>7, <2>1, <2>2
  <2>3. CASE /\ turn = 0 /\ UNCHANGED <<bulk, turn>>
             /\ \/ \E call \in CallsOf(made[b]) : \E v \in Arguments(made[b], call) : Call(b, call, v)
                \/ Chain(b)
                \/ ReadOld(b)
                \/ SaveCreate(b) \/ SaveUpdate(b) \/ ExecDelete(b)
    BY <1>2, <1>3, <1>4, <2>1, <2>3
  <2> QED
    BY <1>8, <2>2, <2>3 DEF Use
<1>9. \A b : Use(b) => b \in DOMAIN made
  BY DEF Use
<1> QED
  BY <1>1, <1>5, <1>8, <1>9 DEF EntStep, Next, Elsewhere

(***************************************************************************)
(* The count tells the builders whose save took effect.                    *)
(***************************************************************************)
Counted(bs, results) ==
    /\ \A b \in Builders : applied'[b] # applied[b] => b \in bs
    /\ (\E b \in Builders : applied'[b] # applied[b]) =>
          /\ table' \in results
          /\ \A b \in bs : applied'[b] # applied[b]
    /\ table' # table => table' \in results

SavesAs(bs, ms) ==
    \A b \in bs : /\ made'[b].type = ms[b].type /\ made'[b].op = ms[b].op
                  /\ made'[b].id = ms[b].id /\ made'[b].where = ms[b].where
                  /\ made'[b].old = made[b].old

LEMMA OutcomeFacts ==
    ASSUME EntInv, NEW bs, bs \subseteq DOMAIN made, NEW ms, NEW results,
           Outcome(bs, ms, results),
           \A b \in bs : SavedAs(b, ms[b])
    PROVE  Counted(bs, results) /\ SavesAs(bs, ms)
<1>1. /\ applied \in [Builders -> 0 .. steps] /\ steps \in Nat
      /\ DOMAIN made \subseteq Builders
  BY BoundsAssumption DEF EntInv, BuildersOK, CountsOK
<1>2. ASSUME NoEffect PROVE Counted(bs, results)
  BY <1>2 DEF NoEffect, Counted
<1>3. ASSUME Effect(bs, ms, results) PROVE Counted(bs, results)
  <2>1. \A b \in Builders : applied'[b] = applied[b] + (IF b \in bs THEN 1 ELSE 0)
    BY <1>3 DEF Effect
  <2>2. \A b \in Builders : applied[b] \in Nat
    BY <1>1
  <2>3. \A b \in Builders : applied'[b] # applied[b] <=> b \in bs
    BY <2>1, <2>2
  <2>4. table' \in results
    BY <1>3 DEF Effect
  <2> QED
    BY <1>1, <2>3, <2>4 DEF Counted
<1>4. ASSUME NEW b \in bs
      PROVE  /\ made'[b].type = ms[b].type /\ made'[b].op = ms[b].op
             /\ made'[b].id = ms[b].id /\ made'[b].where = ms[b].where
             /\ made'[b].old = made[b].old
  <2>1. BuilderOK(ms[b], said'[b]) /\ ms[b].old = made[b].old
    BY DEF SavedAs
  <2>2. \/ made'[b] = ms[b]
        \/ made'[b] = [ms[b] EXCEPT !.done = TRUE]
    BY DEF Outcome
  <2> QED
    BY <2>1, <2>2, DoneKeeps
<1>5. Counted(bs, results)
  BY <1>2, <1>3 DEF Outcome
<1> QED
  BY <1>4, <1>5 DEF SavesAs

(***************************************************************************)
(* One row, or the rows of two: what the single saves have in common.      *)
(***************************************************************************)
LEMMA SaveFacts ==
    ASSUME EntInv, NEW b \in DOMAIN made, turn = 0, UNCHANGED <<bulk, turn>>,
           SaveCreate(b) \/ SaveUpdate(b) \/ ExecDelete(b)
    PROVE  /\ \A c \in Builders \ {b} : out'[c] = out[c]
           /\ \A c \in DOMAIN made : made'[c].old = made[c].old
           /\ made[b].op \notin {"Create", "Update", "UpdateOne"} \/ ~ExecDelete(b)
<1>1. PICK m, results : SavedAs(b, m) /\ Outcome({b}, [c \in {b} |-> m], results)
  BY SaveCreateFacts, SaveUpdateFacts, ExecDeleteFacts
<1> DEFINE ms == [c \in {b} |-> m]
<1>2. ms[b] = m
  OBVIOUS
<1> HIDE DEF ms
<1>3. Outcome({b}, ms, results) /\ \A c \in {b} : SavedAs(c, ms[c])
  BY <1>1, <1>2 DEF ms
<1>4. made'[b].old = made[b].old
  BY <1>3, OutcomeFacts DEF SavesAs
<1>5. /\ \A c \in Builders \ {b} : out'[c] = out[c]
      /\ \A c \in DOMAIN made \ {b} : made'[c] = made[c]
  BY <1>3 DEF Outcome
<1>6. ExecDelete(b) => made[b].op \in {"Delete", "DeleteOne"}
  BY DEF ExecDelete
<1> QED
  BY <1>4, <1>5, <1>6

LEMMA DeleteCounts ==
    ASSUME EntInv, NEW b \in DOMAIN made, turn = 0, UNCHANGED <<bulk, turn>>,
           ExecDelete(b), NEW c \in Builders, applied'[c] # applied[c]
    PROVE  c = b
<1>1. PICK m, results : SavedAs(b, m) /\ Outcome({b}, [d \in {b} |-> m], results)
  BY ExecDeleteFacts
<1> DEFINE ms == [d \in {b} |-> m]
<1>2. ms[b] = m
  OBVIOUS
<1> HIDE DEF ms
<1>3. Outcome({b}, ms, results) /\ \A d \in {b} : SavedAs(d, ms[d])
  BY <1>1, <1>2 DEF ms
<1>4. Counted({b}, results)
  BY <1>3, OutcomeFacts
<1> QED
  BY <1>4 DEF Counted

LEMMA BulkFacts ==
    ASSUME EntInv, NEW a \in DOMAIN made, NEW b \in DOMAIN made, BulkEnds(a, b)
    PROVE  /\ \A c \in Builders \ {a, b} : out'[c] = out[c]
           /\ \A c \in DOMAIN made : made'[c].old = made[c].old
           /\ \A c \in {a, b} : /\ made'[c].id = made[c].id /\ made'[c].type = made[c].type
                                /\ made'[c].op = made[c].op
           /\ Counted({a, b}, BulkResults(a, b))
<1>1. /\ \A c \in {a, b} : SavedAs(c, made[c])
      /\ Outcome({a, b}, Pair(a, b), BulkResults(a, b))
  BY BulkEndFacts
<1>2. \A c \in {a, b} : Pair(a, b)[c] = made[c]
  BY DEF Pair
<1>3. /\ {a, b} \subseteq DOMAIN made
      /\ \A c \in {a, b} : SavedAs(c, Pair(a, b)[c])
  BY <1>1, <1>2
<1>4. Counted({a, b}, BulkResults(a, b)) /\ SavesAs({a, b}, Pair(a, b))
  BY <1>1, <1>3, OutcomeFacts
<1>5. \A c \in {a, b} : /\ made'[c].id = made[c].id /\ made'[c].type = made[c].type
                        /\ made'[c].op = made[c].op /\ made'[c].old = made[c].old
  BY <1>2, <1>4 DEF SavesAs
<1>6. /\ \A c \in Builders \ {a, b} : out'[c] = out[c]
      /\ \A c \in DOMAIN made \ {a, b} : made'[c] = made[c]
  BY <1>1 DEF Outcome
<1>7. \A c \in DOMAIN made : made'[c].old = made[c].old
  BY <1>5, <1>6
<1> QED
  BY <1>4, <1>5, <1>6, <1>7

(***************************************************************************)
(* A row that oldValue fetches.                                            *)
(***************************************************************************)
LEMMA OldStep ==
    ASSUME EntInv, EntStep, NEW b \in DOMAIN made,
           made[b].old = None, made'[b].old \notin {None, Gone}
    PROVE  applied[b] = 0 \/ out[b] # "saved"
<1>1. ReadOld(b)
  <2>1. CASE Quiet
    BY <2>1 DEF Quiet
  <2>2. ASSUME NEW c \in DOMAIN made, turn = 0, UNCHANGED <<bulk, turn>>,
               SaveCreate(c) \/ SaveUpdate(c) \/ ExecDelete(c)
        PROVE  FALSE
    BY <2>2, SaveFacts
  <2>3. ASSUME NEW c \in DOMAIN made, NEW d \in DOMAIN made, BulkEnds(c, d)
        PROVE  FALSE
    BY <2>3, BulkFacts
  <2> QED
    BY <2>1, <2>2, <2>3, StepCases
<1>2. "old" \in DOMAIN made[b] /\ b \in DOMAIN made
  <2>1. WellFormed(made[b])
    BY DEF EntInv, BuildersOK, BuilderOK
  <2> QED
    BY <2>1 DEF WellFormed
<1>3. \/ made'[b].old = OldValue(made[b])
      \/ made'[b].old = Gone
  <2>1. \/ made' = [made EXCEPT ![b] = [made[b] EXCEPT !.old = OldValue(made[b])]]
        \/ made' = [made EXCEPT ![b] = [made[b] EXCEPT !.old = Gone]]
    BY <1>1 DEF ReadOld
  <2> QED
    BY <1>2, <2>1
<1>4. ~made[b].done
  BY <1>3 DEF OldValue
<1> QED
  BY <1>4 DEF EntInv, SavedIsDone, BuildersOK

(***************************************************************************)
(* While a bulk is being saved a step is a mutator's or another client's.  *)
(***************************************************************************)
LEMMA OthersAddNone ==
    ASSUME TableOK(table), Others, NEW type \in Types
    PROVE  Rows(table', type) \subseteq Rows(table, type)
<1>1. PICK at \in Types : \E id \in Rows(table, at) :
          \/ \E c \in Columns(at) : \E v \in Values(at, c) \ {Empty} :
                table' = [table EXCEPT ![at][id][c] = v]
          \/ table' \in Removed(table, at, {id})
  BY DEF Others
<1>2. PICK id \in Rows(table, at) :
          \/ \E c, v : table' = [table EXCEPT ![at][id][c] = v]
          \/ table' \in Removed(table, at, {id})
  BY <1>1
<1>3. CASE \E c, v : table' = [table EXCEPT ![at][id][c] = v]
  <2>1. PICK c, v : table' = [table EXCEPT ![at][id][c] = v]
    BY <1>3
  <2>2. PICK rows : rows = [table[at] EXCEPT ![id] = [table[at][id] EXCEPT ![c] = v]]
    OBVIOUS
  <2>3. table' = [table EXCEPT ![at] = rows] /\ DOMAIN rows = DOMAIN table[at]
    BY <2>1, <2>2
  <2>4. DOMAIN table = Types
    BY DEF TableOK
  <2> QED
    BY <2>3, <2>4 DEF Rows
<1>4. CASE table' \in Removed(table, at, {id})
  BY <1>4 DEF Removed, Rows
<1> QED
  BY <1>2, <1>3, <1>4

LEMMA BulkStep ==
    ASSUME EntInv, EntStep, turn # 0, NEW a \in Builders, NEW b \in Builders, bulk = <<a, b>>,
           NEW type, type = made[a].type
    PROVE  /\ made[a].id \in Rows(table', type) \ Rows(table, type)
                  <=> made[b].id \in Rows(table', type) \ Rows(table, type)
           /\ \A c \in {a, b} : made'[c].done # made[c].done =>
                 {made[a].id, made[b].id} \subseteq Rows(table', type) \ Rows(table, type)
<1>1. /\ a \in DOMAIN made /\ b \in DOMAIN made /\ a # b /\ made[a].type = made[b].type
      /\ TableOK(table) /\ BuilderOK(made[a], said[a]) /\ BuilderOK(made[b], said[b])
  BY DEF EntInv, BulkOK, BuildersOK
<1>2. type \in Types
  BY <1>1 DEF BuilderOK, WellFormed
<1>3. \/ Mutate(a, b)
      \/ Others
      \/ UNCHANGED <<table, made>>
  <2>1. ASSUME NEW c, NEW d, Mutate(c, d)
        PROVE  Mutate(a, b)
    <3>1. <<c, d>> = <<a, b>>
      BY <2>1 DEF Mutate
    <3> QED
      BY <2>1, <3>1
  <2>2. ASSUME NEW c, Use(c)
        PROVE  Mutate(a, b)
    BY <2>1, <2>2 DEF Use, SaveBulk
  <2> QED
    BY <2>2 DEF EntStep, Next, Elsewhere, Begin
<1>4. CASE Others
  <2>1. Rows(table', type) \subseteq Rows(table, type) /\ made' = made
    BY <1>1, <1>2, <1>4, OthersAddNone DEF Others
  <2> QED
    BY <2>1
<1>5. CASE UNCHANGED <<table, made>>
  BY <1>5
<1>6. CASE PassesOn(a, b)
  BY <1>6 DEF PassesOn
<1>7. CASE BulkEnds(a, b)
  <2>1. /\ \A c \in {a, b} : made[c].op = "Create" /\ made[c].id # None
        /\ Outcome({a, b}, Pair(a, b), BulkResults(a, b))
        /\ \A c \in {a, b} : made'[c] # made[c] => table' \in BulkResults(a, b)
    BY <1>1, <1>7, BulkEndFacts
  <2>2. \A c \in {a, b} : WellFormed(made[c]) /\ ListsOK(made[c])
    BY <1>1, ListsAreOK DEF BuilderOK
  <2>3. ASSUME table' \in BulkResults(a, b)
        PROVE  {made[a].id, made[b].id} \subseteq Rows(table', type) \ Rows(table, type)
    <3>1. /\ CreateCheck(made[a]) /\ CreateCheck(made[b])
          /\ table' \in Batch(table, made[a], made[b])
      BY <2>3 DEF BulkResults
    <3> QED
      BY <1>1, <2>1, <2>2, <3>1, BatchFacts
  <2>4. UNCHANGED table \/ table' \in BulkResults(a, b)
    BY <2>1 DEF Outcome, NoEffect, Effect
  <2>5. CASE table' \in BulkResults(a, b)
    BY <2>3, <2>5
  <2>6. CASE table' \notin BulkResults(a, b)
    BY <2>1, <2>4, <2>6
  <2> QED
    BY <2>5, <2>6
<1> QED
  BY <1>3, <1>4, <1>5, <1>6, <1>7, MutateCases

(***************************************************************************)
(* The four action properties, of any step of the builders or of others.   *)
(***************************************************************************)
LEMMA Steps == [Next]_vars => EntStep \/ UNCHANGED vars
BY DEF EntStep

OldRight ==
    \A b \in DOMAIN made :
        (made[b].old = None /\ made'[b].old \notin {None, Gone}) =>
            applied[b] = 0 \/ out[b] # "saved"

LEMMA OldAct == EntInv /\ (EntStep \/ UNCHANGED vars) => OldRight
<1> SUFFICES ASSUME EntInv, EntStep \/ UNCHANGED vars, NEW b \in DOMAIN made,
                    made[b].old = None, made'[b].old \notin {None, Gone}
             PROVE  applied[b] = 0 \/ out[b] # "saved"
  BY DEF OldRight
<1>1. EntStep
  BY DEF vars
<1> QED
  BY <1>1, OldStep

BulkRight ==
    \A a, b \in Builders : (turn # 0 /\ bulk = <<a, b>>) =>
        LET type == made[a].type
            Made(c) == made[c].id \in Rows(table', type) \ Rows(table, type) IN
        /\ Made(a) <=> Made(b)
        /\ \A c \in {a, b} : made'[c].done # made[c].done => Made(a) /\ Made(b)

LEMMA BulkAct == EntInv /\ (EntStep \/ UNCHANGED vars) => BulkRight
<1> SUFFICES ASSUME EntInv, EntStep \/ UNCHANGED vars, NEW a \in Builders, NEW b \in Builders,
                    turn # 0, bulk = <<a, b>>, NEW type, type = made[a].type
             PROVE  /\ made[a].id \in Rows(table', type) \ Rows(table, type)
                           <=> made[b].id \in Rows(table', type) \ Rows(table, type)
                    /\ \A c \in {a, b} : made'[c].done # made[c].done =>
                          /\ made[a].id \in Rows(table', type) \ Rows(table, type)
                          /\ made[b].id \in Rows(table', type) \ Rows(table, type)
  BY DEF BulkRight
<1>1. CASE EntStep
  BY <1>1, BulkStep
<1>2. CASE UNCHANGED vars
  BY <1>2 DEF vars
<1> QED
  BY <1>1, <1>2

(***************************************************************************)
(* A row that oldValue fetches is not what an answered Save of the same    *)
(* builder wrote: done is set then (ent/poll_create.go:220) and stays, and *)
(* a done mutation is refused its old row (ent/mutation.go:87).            *)
(***************************************************************************)
THEOREM OldIsNotOwnHolds == Spec => OldIsNotOwn
BY Steps, OldAct, Invariance, PTL DEF Spec, OldIsNotOwn, OldRight

(***************************************************************************)
(* The mutators of a bulk write nothing before both builders are checked,  *)
(* whichever of them fails and whatever other clients do between two of    *)
(* them (ent/poll_create.go:304): no step makes the row of one builder     *)
(* alone, and neither builder becomes done unless both rows are made.      *)
(***************************************************************************)
THEOREM BulkIsWholeHolds == Spec => BulkIsWhole
BY Steps, BulkAct, Invariance, PTL DEF Spec, BulkIsWhole, BulkRight

----------------------------------------------------------------------------
(***************************************************************************)
(* What a create writes is what its calls ask for.                         *)
(***************************************************************************)
LEMMA InsertMeans ==
    ASSUME NEW m, WellFormed(m), m.op = "Create", CreateCheck(m),
           NEW s, SaidFormed(s, m.type), Agrees(m, s),
           NEW c \in Columns(m.type), NEW was
    PROVE  (IF IsSet(m, c) THEN m.value[c] ELSE Null) = Wanted(s, "Create", m.type, c, was)
<1>1. /\ m.type \in Types /\ FieldAgrees(m, s, c)
      /\ Kind[m.type][c] \in Texted \cup {"list", "ref", "time"}
      /\ Kind[m.type][c] # "note" => m.value[c] # None
  BY KindFacts, CreateCheckFacts DEF WellFormed, Agrees, IsSet
<1>2. CASE Kind[m.type][c] \in {"text", "key"}
  BY <1>1, <1>2 DEF FieldAgrees, Wanted, IsSet
<1>3. CASE Kind[m.type][c] = "note"
  <2>1. m.marked = {}
    BY DEF WellFormed
  <2>2. s.field[c] = IF m.value[c] # None THEN m.value[c] ELSE None
    BY <1>1, <1>3, <2>1 DEF FieldAgrees
  <2> QED
    BY <1>3, <2>2 DEF Wanted, IsSet
<1>4. CASE Kind[m.type][c] = "list"
  <2>1. s.tail = << >> /\ m.value[c] \in Seq({Item})
    BY <1>1, <1>4, ListsAreOK DEF Agrees, TailAgrees, ListsOK, OfKind
  <2>2. m.value[c] = IF s.field[c] = None THEN << >> ELSE s.field[c]
    BY <1>1, <1>4 DEF FieldAgrees
  <2>3. \A l \in Seq({Item}) : l \o << >> = l
    OBVIOUS
  <2>4. Wanted(s, "Create", m.type, c, was) = m.value[c] \o << >>
    BY <1>4, <2>1, <2>2 DEF Wanted
  <2> QED
    BY <1>1, <1>4, <2>1, <2>3, <2>4 DEF IsSet
<1>5. CASE Kind[m.type][c] = "ref"
  <2>1. m.unset = {}
    BY DEF WellFormed
  <2> QED
    BY <1>1, <1>5, <2>1 DEF FieldAgrees, Wanted, IsSet
<1>6. CASE Kind[m.type][c] = "time"
  BY <1>1, <1>6 DEF FieldAgrees, Wanted, IsSet
<1> QED
  BY <1>1, <1>2, <1>3, <1>4, <1>5, <1>6 DEF Texted

(***************************************************************************)
(* So is what an update writes, provided that the tables take it: where    *)
(* the calls leave a unique edge cleared, the NULL in its column is        *)
(* refused.                                                                *)
(***************************************************************************)
LEMMA UpdateMeans ==
    ASSUME NEW m, WellFormed(m), m.op \in {"Update", "UpdateOne"}, UpdateCheck(m),
           NEW s, SaidFormed(s, m.type), Agrees(m, s),
           NEW row, RowOK(m.type, row), NEW stored \in BOOLEAN,
           NEW new, new = Rewritten(row, ChangeOf(m), stored),
           NEW c \in Columns(m.type),
           c \notin Nullable[m.type] => new[c] # Null,
           c = "updated_at" => m.value[c] # None
    PROVE  \/ new[c] = Wanted(s, m.op, m.type, c, row[c])
           \/ Kind[m.type][c] = "list" /\ s.tail # << >> /\ s.field[c] # None
<1>0. ListsOK(m)
  BY ListsAreOK
<1>1. /\ m.type \in Types /\ FieldAgrees(m, s, c)
      /\ Kind[m.type][c] \in Texted \cup {"list", "ref", "time"}
      /\ Kind[m.type][c] = "time" <=> c \in {"created_at", "updated_at"}
  BY KindFacts DEF WellFormed, Agrees
<1>7. RowChange(m, row, stored, new)
  BY <1>0, RewrittenFacts
<1>2. CASE Kind[m.type][c] = "list"
  <2>0. c \in OfKind(m.type, {"list"})
    BY <1>2 DEF OfKind
  <2>1. new[c] = (IF IsSet(m, c) /\ (m.tail = << >> \/ ~stored)
                  THEN m.value[c] ELSE row[c]) \o m.tail
    BY <1>7, <2>0 DEF RowChange
  <2>2. m.tail = s.tail /\ m.value[c] = s.field[c]
    BY <1>1, <1>2 DEF Agrees, TailAgrees, FieldAgrees
  <2>3. Wanted(s, m.op, m.type, c, row[c])
            = (IF s.field[c] = None THEN row[c] ELSE s.field[c]) \o s.tail
    BY <1>1, <1>2 DEF Wanted
  <2> QED
    BY <1>2, <2>1, <2>2, <2>3 DEF IsSet
<1>3. CASE Kind[m.type][c] # "list"
  <2>0. c \in OfKind(m.type, Texted \cup {"ref", "time"})
    BY <1>1, <1>3 DEF OfKind
  <2>1. new[c] = IF IsSet(m, c) THEN m.value[c]
                 ELSE IF \/ Kind[m.type][c] = "note" /\ c \in m.marked
                         \/ \E e \in m.unset : One[m.type][e] = c
                 THEN Null ELSE row[c]
    BY <1>7, <2>0 DEF RowChange
  <2>2. Wanted(s, m.op, m.type, c, row[c])
            = IF s.field[c] # None THEN s.field[c]
              ELSE IF c = "updated_at" THEN Now ELSE row[c]
    BY <1>3 DEF Wanted
  <2>3. \A e \in m.unset : One[m.type][e] = c =>
            Kind[m.type][c] = "ref" /\ c \notin Nullable[m.type] /\ ~IsSet(m, c)
    BY <1>1, OneFacts, UpdateCheckFacts DEF WellFormed
  <2>4. ~ \E e \in m.unset : One[m.type][e] = c
    BY <2>1, <2>3
  <2>5. CASE Kind[m.type][c] \in {"text", "key", "ref"}
    BY <1>1, <2>1, <2>2, <2>4, <2>5 DEF FieldAgrees, IsSet
  <2>6. CASE Kind[m.type][c] = "note"
    BY <1>1, <2>1, <2>2, <2>4, <2>6, NoneAssumption DEF FieldAgrees, IsSet
  <2>7. CASE Kind[m.type][c] = "time"
    BY <1>1, <2>1, <2>2, <2>4, <2>7, NoneAssumption DEF FieldAgrees, IsSet
  <2> QED
    BY <1>1, <1>3, <2>5, <2>6, <2>7 DEF Texted
<1> QED
  BY <1>2, <1>3

(***************************************************************************)
(* What it is for b's save to mean its calls.                              *)
(***************************************************************************)
SaveMeans(b) ==
    LET m == made'[b]
        s == said[b]
        ids == IF m.op = "Create" THEN {m.id} ELSE Selected(table, m) IN
    \A id \in Rows(table', m.type), c \in Columns(m.type) :
        LET was == IF id \in Rows(table, m.type) THEN table[m.type][id][c] ELSE Null
            now == table'[m.type][id][c] IN
        IF id \in ids
        THEN \/ now = Wanted(s, m.op, m.type, c, was)
             \/ Kind[m.type][c] = "list" /\ s.tail # << >> /\ s.field[c] # None
        ELSE Cardinality({d \in Builders : Saves(d)}) = 1 => now = was

LEMMA CreateMeans ==
    ASSUME EntInv, NEW b \in DOMAIN made, turn = 0, UNCHANGED <<bulk, turn>>, SaveCreate(b),
           \E c \in Builders : applied'[c] # applied[c]
    PROVE  SaveMeans(b) /\ \A c \in Builders : applied'[c] # applied[c] => c = b
<1>1. PICK m :
          /\ SavedAs(b, m) /\ m.op = "Create" /\ m.id # None
          /\ Outcome({b}, [c \in {b} |-> m],
                     IF CreateCheck(m) THEN Inserted(table, m) ELSE {})
  BY SaveCreateFacts
<1> DEFINE ms == [c \in {b} |-> m]
           results == IF CreateCheck(m) THEN Inserted(table, m) ELSE {}
<1>2. ms[b] = m /\ Outcome({b}, ms, results)
  BY <1>1
<1>3. WellFormed(m) /\ SaidFormed(said'[b], m.type) /\ Agrees(m, said'[b]) /\ TableOK(table)
  BY <1>1 DEF SavedAs, BuilderOK, EntInv
<1> HIDE DEF ms, results
<1>4. \A c \in {b} : SavedAs(c, ms[c])
  BY <1>1, <1>2
<1>5. /\ \A c \in Builders : applied'[c] # applied[c] => c \in {b}
      /\ table' \in results
      /\ \A c \in {b} : made'[c].type = ms[c].type /\ made'[c].op = ms[c].op
                        /\ made'[c].id = ms[c].id
  <2>1. Counted({b}, results) /\ SavesAs({b}, ms)
    BY <1>2, <1>4, OutcomeFacts
  <2> QED
    BY <2>1 DEF Counted, SavesAs
<1>6. made'[b].type = m.type /\ made'[b].op = "Create" /\ made'[b].id = m.id
  BY <1>1, <1>2, <1>5
<1>7. CreateCheck(m) /\ table' \in Inserted(table, m)
  BY <1>5 DEF results
<1>8. /\ Rows(table', m.type) = Rows(table, m.type) \cup {m.id}
      /\ \A c \in Columns(m.type) :
            table'[m.type][m.id][c] = IF IsSet(m, c) THEN m.value[c] ELSE Null
      /\ \A r \in Rows(table, m.type), c \in TableColumns[m.type] :
            table'[m.type][r][c] = table[m.type][r][c]
  BY <1>1, <1>3, <1>7, ListsAreOK, InsertedFacts
<1>9. ASSUME NEW c \in Columns(m.type), NEW was
      PROVE  table'[m.type][m.id][c] = Wanted(said[b], "Create", m.type, c, was)
  <2>1. (IF IsSet(m, c) THEN m.value[c] ELSE Null)
            = Wanted(said'[b], "Create", m.type, c, was)
    BY <1>1, <1>3, <1>7, InsertMeans
  <2>2. Wanted(said'[b], m.op, m.type, c, was) = Wanted(said[b], m.op, m.type, c, was)
    BY <1>1, WantedStays
  <2> QED
    BY <1>1, <1>8, <2>1, <2>2
<1>10. \A c \in Columns(m.type) : c \in TableColumns[m.type]
  BY <1>3, KindFacts DEF WellFormed
<1>11. SaveMeans(b)
  BY <1>6, <1>8, <1>9, <1>10 DEF SaveMeans
<1> QED
  BY <1>5, <1>11

LEMMA SelectedFacts ==
    ASSUME NEW t, NEW m, NEW n,
           n.type = m.type, n.op = m.op, n.id = m.id, n.where = m.where
    PROVE  Selected(t, n) = Selected(t, m)
BY DEF Selected

(***************************************************************************)
(* What an update that takes effect has gone through.                      *)
(***************************************************************************)
UpdateSaved(b, m) ==
    /\ SavedAs(b, m) /\ m.op \in {"Update", "UpdateOne"}
    /\ m.where = made[b].where /\ m.id = made[b].id
    /\ \A c \in Columns(m.type) : c = "updated_at" => m.value[c] # None
    /\ WellFormed(m) /\ SaidFormed(said'[b], m.type) /\ Agrees(m, said'[b])
    /\ TableOK(table) /\ UpdateCheck(m) /\ table' \in Updated(table, m)
    /\ made'[b].type = m.type /\ made'[b].op = m.op /\ made'[b].id = m.id
    /\ made'[b].where = m.where

LEMMA UpdateSaves ==
    ASSUME EntInv, NEW b \in DOMAIN made, turn = 0, UNCHANGED <<bulk, turn>>, SaveUpdate(b),
           \E c \in Builders : applied'[c] # applied[c]
    PROVE  /\ \E m : UpdateSaved(b, m)
           /\ \A c \in Builders : applied'[c] # applied[c] => c = b
<1>1. PICK m :
          /\ SavedAs(b, m) /\ m.op \in {"Update", "UpdateOne"}
          /\ m.where = made[b].where /\ m.id = made[b].id
          /\ \A c \in Columns(m.type) : c = "updated_at" => m.value[c] # None
          /\ Outcome({b}, [c \in {b} |-> m],
                     IF UpdateCheck(m) THEN Updated(table, m) ELSE {})
  BY SaveUpdateFacts
<1> DEFINE ms == [c \in {b} |-> m]
           results == IF UpdateCheck(m) THEN Updated(table, m) ELSE {}
<1>2. ms[b] = m /\ Outcome({b}, ms, results)
  BY <1>1
<1>3. WellFormed(m) /\ SaidFormed(said'[b], m.type) /\ Agrees(m, said'[b]) /\ TableOK(table)
  BY <1>1 DEF SavedAs, BuilderOK, EntInv
<1> HIDE DEF ms, results
<1>4. \A c \in {b} : SavedAs(c, ms[c])
  BY <1>1, <1>2
<1>5. /\ \A c \in Builders : applied'[c] # applied[c] => c \in {b}
      /\ table' \in results
      /\ \A c \in {b} : made'[c].type = ms[c].type /\ made'[c].op = ms[c].op
                        /\ made'[c].id = ms[c].id /\ made'[c].where = ms[c].where
  <2>1. Counted({b}, results) /\ SavesAs({b}, ms)
    BY <1>2, <1>4, OutcomeFacts
  <2> QED
    BY <2>1 DEF Counted, SavesAs
<1>6. /\ made'[b].type = m.type /\ made'[b].op = m.op /\ made'[b].id = m.id
      /\ made'[b].where = m.where
  BY <1>2, <1>5
<1>7. UpdateCheck(m) /\ table' \in Updated(table, m)
  BY <1>5 DEF results
<1> QED
  BY <1>1, <1>3, <1>5, <1>6, <1>7 DEF UpdateSaved

LEMMA UpdateMeansCalls ==
    ASSUME EntInv, NEW b \in DOMAIN made, NEW m, UpdateSaved(b, m)
    PROVE  SaveMeans(b)
<1> DEFINE ids == Selected(table, m)
<1>1. /\ WellFormed(m) /\ SaidFormed(said'[b], m.type) /\ Agrees(m, said'[b])
      /\ m.op \in {"Update", "UpdateOne"} /\ UpdateCheck(m)
      /\ TableOK(table) /\ table' \in Updated(table, m)
      /\ \A c \in Columns(m.type) : c = "updated_at" => m.value[c] # None
      /\ made'[b].type = m.type /\ made'[b].op = m.op /\ made'[b].id = m.id
      /\ made'[b].where = m.where
  BY DEF UpdateSaved
<1>2. m.type \in Types /\ ListsOK(m) /\ ids \subseteq Rows(table, m.type)
  BY <1>1, ListsAreOK DEF WellFormed, Selected
<1>3. Selected(table, made'[b]) = ids /\ made'[b].op # "Create"
  BY <1>1, SelectedFacts
<1> HIDE DEF ids
<1>4. /\ Rows(table', m.type) = Rows(table, m.type)
      /\ \A r \in Rows(table, m.type) \ ids, c \in TableColumns[m.type] :
            table'[m.type][r][c] = table[m.type][r][c]
      /\ ids # {} => Legal(table')
  BY <1>1, <1>2, UpdatedFacts DEF ids
<1>5. PICK stored \in BOOLEAN : \A r \in ids : \A c \in TableColumns[m.type] :
          table'[m.type][r][c] = Rewritten(table[m.type][r], ChangeOf(m), stored)[c]
  BY <1>1, <1>2, UpdatedFacts DEF ids
<1>6. \A c \in Columns(m.type) : c \in TableColumns[m.type]
  BY <1>2, KindFacts
<1>7. ASSUME NEW r \in ids, NEW c \in Columns(m.type)
      PROVE  \/ table'[m.type][r][c] = Wanted(said[b], m.op, m.type, c, table[m.type][r][c])
             \/ Kind[m.type][c] = "list" /\ said[b].tail # << >> /\ said[b].field[c] # None
  <2>1. PICK new : new = Rewritten(table[m.type][r], ChangeOf(m), stored)
    OBVIOUS
  <2>2. table'[m.type][r][c] = new[c] /\ r \in Rows(table, m.type) /\ r \in Rows(table', m.type)
    BY <1>2, <1>4, <1>5, <1>6, <2>1
  <2>3. RowOK(m.type, table[m.type][r])
    BY <1>1, <1>2, <2>2 DEF TableOK
  <2>4. c \notin Nullable[m.type] => new[c] # Null
    BY <1>2, <1>4, <1>6, <2>2 DEF Legal
  <2>5. \/ new[c] = Wanted(said'[b], m.op, m.type, c, table[m.type][r][c])
        \/ Kind[m.type][c] = "list" /\ said'[b].tail # << >> /\ said'[b].field[c] # None
    BY <1>1, <2>1, <2>3, <2>4, UpdateMeans
  <2>6. /\ \A was : Wanted(said'[b], m.op, m.type, c, was) = Wanted(said[b], m.op, m.type, c, was)
        /\ Kind[m.type][c] = "list" => said'[b].field[c] = said[b].field[c]
        /\ said'[b].tail = said[b].tail
    BY <1>1, WantedStays DEF UpdateSaved
  <2> QED
    BY <2>2, <2>5, <2>6
<1>8. ASSUME NEW r \in Rows(table, m.type) \ ids, NEW c \in Columns(m.type)
      PROVE  table'[m.type][r][c] = table[m.type][r][c]
  BY <1>4, <1>6
<1> QED
  BY <1>1, <1>2, <1>3, <1>4, <1>7, <1>8 DEF SaveMeans

(***************************************************************************)
(* Each row of a bulk that takes effect means the calls of its builder.    *)
(***************************************************************************)
LEMMA BulkMeans ==
    ASSUME EntInv, NEW a \in DOMAIN made, NEW b \in DOMAIN made, BulkEnds(a, b),
           \E c \in Builders : applied'[c] # applied[c]
    PROVE  \A c \in Builders : Saves(c) => SaveMeans(c)
<1>0. PICK m, n : m = made[a] /\ n = made[b]
  OBVIOUS
<1>1. /\ SavedAs(a, m) /\ m.op = "Create" /\ m.id # None
      /\ SavedAs(b, n) /\ n.op = "Create" /\ n.id # None
      /\ a # b /\ m.type = n.type
      /\ made'[a].id = m.id /\ made'[a].type = m.type /\ made'[a].op = m.op
      /\ made'[b].id = n.id /\ made'[b].type = n.type /\ made'[b].op = n.op
  BY <1>0, BulkEndFacts, BulkFacts
<1>2. said' = said
  BY DEF BulkEnds, Mutate
<1>3. /\ WellFormed(m) /\ SaidFormed(said[a], m.type) /\ Agrees(m, said[a])
      /\ WellFormed(n) /\ SaidFormed(said[b], n.type) /\ Agrees(n, said[b])
      /\ TableOK(table) /\ made[a].op = "Create" /\ made[b].op = "Create"
      /\ DOMAIN made \subseteq Builders
  BY <1>0, <1>1, <1>2 DEF SavedAs, BuilderOK, EntInv, BuildersOK
<1>4. m.type \in Types /\ ListsOK(m) /\ ListsOK(n)
  BY <1>3, ListsAreOK DEF WellFormed
<1>5. /\ \A c \in Builders : applied'[c] # applied[c] => c \in {a, b}
      /\ table' \in BulkResults(a, b)
      /\ applied'[a] # applied[a] /\ applied'[b] # applied[b]
  BY BulkFacts DEF Counted
<1>6. CreateCheck(m) /\ CreateCheck(n) /\ table' \in Batch(table, m, n)
  BY <1>0, <1>5 DEF BulkResults
<1>7. PICK w \in Inserted(table, m) : table' \in Inserted(w, n)
  BY <1>6 DEF Batch
<1>8. /\ TableOK(w) /\ Rows(w, m.type) = Rows(table, m.type) \cup {m.id}
      /\ m.id \notin Rows(table, m.type)
      /\ \A c \in Columns(m.type) : w[m.type][m.id][c] = IF IsSet(m, c) THEN m.value[c] ELSE Null
      /\ \A r \in Rows(table, m.type), c \in TableColumns[m.type] :
            w[m.type][r][c] = table[m.type][r][c]
  BY <1>1, <1>3, <1>4, <1>6, <1>7, InsertedFacts
<1>9. /\ Rows(table', n.type) = Rows(w, n.type) \cup {n.id}
      /\ n.id \notin Rows(w, n.type)
      /\ \A c \in Columns(n.type) :
            table'[n.type][n.id][c] = IF IsSet(n, c) THEN n.value[c] ELSE Null
      /\ \A r \in Rows(w, n.type), c \in TableColumns[n.type] :
            table'[n.type][r][c] = w[n.type][r][c]
  BY <1>1, <1>3, <1>4, <1>6, <1>7, <1>8, InsertedFacts
<1>10. \A c \in Columns(m.type) : c \in TableColumns[m.type]
  BY <1>4, KindFacts
<1>11. ASSUME NEW c \in Columns(m.type), NEW was
       PROVE  /\ table'[m.type][m.id][c] = Wanted(said[a], "Create", m.type, c, was)
              /\ table'[m.type][n.id][c] = Wanted(said[b], "Create", m.type, c, was)
  <2>1. (IF IsSet(m, c) THEN m.value[c] ELSE Null)
            = Wanted(said[a], "Create", m.type, c, was)
    BY <1>1, <1>3, <1>6, InsertMeans
  <2>2. (IF IsSet(n, c) THEN n.value[c] ELSE Null)
            = Wanted(said[b], "Create", n.type, c, was)
    BY <1>1, <1>3, <1>6, InsertMeans
  <2>3. table'[m.type][m.id][c] = w[m.type][m.id][c]
    BY <1>1, <1>8, <1>9, <1>10
  <2> QED
    BY <1>1, <1>8, <1>9, <2>1, <2>2, <2>3
<1>12. Cardinality({d \in Builders : Saves(d)}) # 1
  <2>1. {d \in Builders : Saves(d)} = {a, b}
    BY <1>3, <1>5 DEF Saves
  <2>2. Cardinality({a}) = 1 /\ IsFiniteSet({a})
    BY FS_Singleton
  <2>3. {a} \cup {b} = {a, b} /\ b \notin {a}
    BY <1>1
  <2>4. Cardinality({a} \cup {b}) = 2
    BY <2>2, <2>3, FS_AddElement
  <2> QED
    BY <2>1, <2>3, <2>4
<1>13. SaveMeans(a)
  BY <1>1, <1>11, <1>12 DEF SaveMeans
<1>14. SaveMeans(b)
  BY <1>1, <1>11, <1>12 DEF SaveMeans
<1> QED
  BY <1>5, <1>13, <1>14 DEF Saves

LEMMA SavesStep ==
    ASSUME EntInv, EntStep
    PROVE  \A b \in Builders : Saves(b) => SaveMeans(b)
<1> SUFFICES ASSUME NEW b \in Builders, Saves(b) PROVE SaveMeans(b)
  OBVIOUS
<1>1. applied'[b] # applied[b] /\ made[b].op \in {"Create", "Update", "UpdateOne"}
  BY DEF Saves
<1>2. ~Quiet
  BY <1>1 DEF Quiet
<1>3. ASSUME NEW c \in DOMAIN made, SaveCreate(c), turn = 0, UNCHANGED <<bulk, turn>>
      PROVE  SaveMeans(b)
  BY <1>1, <1>3, CreateMeans
<1>4. ASSUME NEW c \in DOMAIN made, SaveUpdate(c), turn = 0, UNCHANGED <<bulk, turn>>
      PROVE  SaveMeans(b)
  <2>1. (\E m : UpdateSaved(c, m)) /\ b = c
    BY <1>1, <1>4, UpdateSaves
  <2> QED
    BY <2>1, UpdateMeansCalls
<1>5. ASSUME NEW c \in DOMAIN made, ExecDelete(c), turn = 0, UNCHANGED <<bulk, turn>>
      PROVE  FALSE
  <2>1. b = c
    BY <1>1, <1>5, DeleteCounts
  <2> QED
    BY <1>1, <1>5, <2>1, SaveFacts
<1>6. ASSUME NEW c \in DOMAIN made, NEW d \in DOMAIN made, BulkEnds(c, d)
      PROVE  SaveMeans(b)
  BY <1>1, <1>6, BulkMeans
<1> QED
  BY <1>2, <1>3, <1>4, <1>5, <1>6, StepCases

SavesRight ==
    \A b \in Builders : Saves(b) =>
        LET m == made'[b]
            s == said[b]
            ids == IF m.op = "Create" THEN {m.id} ELSE Selected(table, m) IN
        \A id \in Rows(table', m.type), c \in Columns(m.type) :
            LET was == IF id \in Rows(table, m.type) THEN table[m.type][id][c] ELSE Null
                now == table'[m.type][id][c] IN
            IF id \in ids
            THEN \/ now = Wanted(s, m.op, m.type, c, was)
                 \/ Kind[m.type][c] = "list" /\ s.tail # << >> /\ s.field[c] # None
            ELSE Cardinality({d \in Builders : Saves(d)}) = 1 => now = was

LEMMA SavesAct == EntInv /\ (EntStep \/ UNCHANGED vars) => SavesRight
<1> SUFFICES ASSUME EntInv, EntStep \/ UNCHANGED vars, NEW b \in Builders, Saves(b)
             PROVE  SaveMeans(b)
  BY Zenon DEF SavesRight, SaveMeans
<1>1. EntStep
  BY DEF vars, Saves
<1> QED
  BY <1>1, SavesStep

(***************************************************************************)
(* A save that takes effect writes what the calls ask for, the last one on *)
(* a column deciding, and nothing else: defaults, checks, statement and    *)
(* tables taken together (ent/poll_create.go:201, ent/poll_update.go:216,  *)
(* ent/mutation.go), for any order and number of calls and saves.  A time  *)
(* that no call sets is that of the first save since the column was last   *)
(* reset, be it this one (ent/poll_update.go:196).                         *)
(***************************************************************************)
THEOREM SavesMeanTheCallsHold == Spec => SavesMeanTheCalls
BY Steps, SavesAct, Invariance, PTL DEF Spec, SavesMeanTheCalls, SavesRight

----------------------------------------------------------------------------
(***************************************************************************)
(* What an update leaves in the column of an edge.                         *)
(***************************************************************************)
LEMMA UpdatedEdges ==
    ASSUME NEW m, WellFormed(m), m.op \in {"Update", "UpdateOne"},
           NEW t, TableOK(t), NEW u \in Updated(t, m), Selected(t, m) # {},
           NEW e \in DOMAIN Many[m.type],
           NEW T, T = Many[m.type][e].type, NEW col, col = Many[m.type][e].column,
           NEW r \in Rows(t, T)
    PROVE  u[T][r][col] =
               IF r \in ChangeOf(m).in[e] THEN CHOOSE id \in Selected(t, m) : TRUE
               ELSE IF r \in TakenOff(t, m.type, e, Selected(t, m), ChangeOf(m)) THEN Null
               ELSE t[T][r][col]
<1> DEFINE ids == Selected(t, m)
           s == ChangeOf(m)
<1>1. PICK stored \in BOOLEAN : u = Links(Rewrite(t, m, stored), m.type, ids, s)
  BY DEF Updated, Rewrite
<1>2. PICK full : full = Rewrite(t, m, stored)
  OBVIOUS
<1>3. m.type \in Types /\ T \in Types \ {m.type}
  BY ManyFacts DEF WellFormed
<1>4. full[T] = t[T]
  BY <1>2, <1>3 DEF Rewrite, TableOK
<1>5. DOMAIN s.in = DOMAIN Many[m.type]
  <2>1. s.in = [f \in DOMAIN Many[m.type] |-> Listed(m.added[f])]
    BY ChangeFacts
  <2> QED
    BY <2>1
<1>6. Rows(full, T) = Rows(t, T)
  BY <1>4 DEF Rows
<1>7. TakenOff(full, m.type, e, ids, s) = TakenOff(t, m.type, e, ids, s)
  <2>1. \A id : Linked(full, m.type, e, id) = Linked(t, m.type, e, id)
    BY <1>4, <1>6 DEF Linked
  <2> QED
    BY <2>1 DEF TakenOff
<1> HIDE DEF ids, s
<1>8. u[T][r][col] = IF r \in s.in[e] THEN CHOOSE id \in ids : TRUE
                     ELSE IF r \in TakenOff(full, m.type, e, ids, s) THEN Null
                     ELSE full[T][r][col]
  <2>1. EdgesMoved(full, u, m.type, ids, s)
    BY <1>1, <1>2, <1>3, <1>5, LinksFacts
  <2> QED
    BY <1>6, <2>1 DEF EdgesMoved
<1> QED
  BY <1>4, <1>7, <1>8 DEF ids, s

(***************************************************************************)
(* So the rows on an edge are those put on it and those that were there    *)
(* and are not taken off; that is what the calls want, for they disagree   *)
(* with the statement only about rows to take off and to put on again.     *)
(***************************************************************************)
LEMMA EdgeMeans ==
    ASSUME NEW m, WellFormed(m), ListsOK(m), m.op \in {"Update", "UpdateOne"}, UpdateCheck(m),
           NEW s, Agrees(m, s),
           NEW t, TableOK(t), NEW u \in Updated(t, m),
           NEW e \in DOMAIN Many[m.type] \ s.late, NEW id \in Selected(t, m)
    PROVE  Linked(u, m.type, e, id) =
               (IF e \in s.empty THEN {} ELSE Linked(t, m.type, e, id) \ s.minus[e]) \cup s.plus[e]
<1> DEFINE ids == Selected(t, m)
           c == ChangeOf(m)
           off == TakenOff(t, m.type, e, ids, c)
<1>1. PICK T, col : T = Many[m.type][e].type /\ col = Many[m.type][e].column
  OBVIOUS
<1>2. /\ m.type \in Types /\ T \in Types /\ ids \subseteq Rows(t, m.type) /\ id \in ids
      /\ \A x \in ids : x \in Ids[m.type]
  BY <1>1, ManyFacts DEF WellFormed, Selected, TableOK
<1>3. id # Null /\ IsFiniteSet(ids)
  <2>1. IsFiniteSet(Ids[m.type]) /\ Null \notin Ids[m.type] /\ ids \subseteq Ids[m.type]
    BY <1>2, IdsAssumption
  <2> QED
    BY <1>2, <2>1, FS_Subset
<1>4. /\ c.all = m.emptied
      /\ c.out = [f \in DOMAIN Many[m.type] |->
                     IF f \in m.emptied THEN {} ELSE Listed(m.removed[f])]
      /\ c.in = [f \in DOMAIN Many[m.type] |-> Listed(m.added[f])]
  BY ChangeFacts
<1> HIDE DEF c
<1>5. /\ c.in[e] = s.plus[e]
      /\ e \in c.all <=> e \in s.empty
      /\ e \notin s.empty => /\ s.minus[e] \subseteq c.out[e]
                             /\ c.out[e] \subseteq s.minus[e] \cup s.plus[e]
  <2>1. EdgeAgrees(m, s, e)
    BY DEF Agrees
  <2> QED
    BY <1>4, <2>1 DEF EdgeAgrees
<1>6. /\ CanLink(t, m.type, ids, c) /\ e \in DOMAIN c.in
      /\ \A other \in Types : Rows(u, other) = Rows(t, other)
  BY <1>2, <1>4, UpdatedFacts DEF c
<1>7. c.in[e] # {} => ids = {id}
  <2>1. c.in[e] # {} => Cardinality(ids) = 1
    BY <1>6 DEF CanLink
  <2>2. Cardinality(ids) = 1 => \E x : ids = {x}
    BY <1>3, FS_Singleton
  <2> QED
    BY <1>2, <2>1, <2>2
<1>8. c.in[e] \subseteq Rows(t, T)
  <2>1. \A x : Linked(t, m.type, e, x) \subseteq Rows(t, T)
    BY <1>1 DEF Linked
  <2>2. off \subseteq Rows(t, T)
    BY <2>1 DEF TakenOff
  <2>3. c.in[e] \subseteq Linked(t, m.type, e, Null) \cup off
    BY <1>6 DEF CanLink
  <2> QED
    BY <2>1, <2>2, <2>3
<1>9. \A r \in Linked(t, m.type, e, id) : r \in off <=> e \in s.empty \/ r \in c.out[e]
  <2>1. off = UNION {IF e \in c.all THEN Linked(t, m.type, e, x)
                     ELSE Linked(t, m.type, e, x) \cap c.out[e] : x \in ids}
    BY DEF TakenOff
  <2>2. CASE e \in c.all
    BY <1>2, <1>5, <2>1, <2>2
  <2>3. CASE e \notin c.all
    BY <1>2, <1>5, <2>1, <2>3
  <2> QED
    BY <2>2, <2>3
<1> HIDE DEF ids, off
<1>10. ASSUME NEW r \in Rows(t, T)
       PROVE  u[T][r][col] = IF r \in c.in[e] THEN CHOOSE x \in ids : TRUE
                             ELSE IF r \in off THEN Null ELSE t[T][r][col]
  <2>1. e \in DOMAIN Many[m.type] /\ Selected(t, m) # {}
    OBVIOUS
  <2> QED
    BY <1>1, <2>1, UpdatedEdges DEF ids, off, c
<1>11. /\ Linked(u, m.type, e, id) = {r \in Rows(t, T) : u[T][r][col] = id}
       /\ Linked(t, m.type, e, id) = {r \in Rows(t, T) : t[T][r][col] = id}
  BY <1>1, <1>2, <1>6 DEF Linked
<1>12. ASSUME NEW r \in Rows(t, T)
       PROVE  u[T][r][col] = id <=> r \in c.in[e] \/ (r \notin off /\ t[T][r][col] = id)
  <2>1. CASE r \in c.in[e]
    <3>1. (CHOOSE x \in {id} : TRUE) = id
      OBVIOUS
    <3> QED
      BY <1>7, <1>10, <2>1, <3>1
  <2>2. CASE r \notin c.in[e]
    BY <1>3, <1>10, <2>2
  <2> QED
    BY <2>1, <2>2
<1>13. Linked(u, m.type, e, id) = (Linked(t, m.type, e, id) \ off) \cup c.in[e]
  BY <1>8, <1>11, <1>12
<1>14. CASE e \in s.empty
  BY <1>5, <1>9, <1>13, <1>14
<1>15. CASE e \notin s.empty
  BY <1>5, <1>9, <1>13, <1>15
<1> QED
  BY <1>14, <1>15

LEMMA LinksStep ==
    ASSUME EntInv, EntStep, NEW b \in Builders, Saves(b), made[b].op # "Create",
           NEW e \in DOMAIN Many[made[b].type] \ said[b].late,
           NEW id \in Selected(table, made[b])
    PROVE  Linked(table', made[b].type, e, id) = LinksWanted(b, e, id)
<1>1. applied'[b] # applied[b] /\ made[b].op \in {"Update", "UpdateOne"}
  BY DEF Saves
<1>2. ~Quiet
  BY <1>1 DEF Quiet
<1>3. ASSUME NEW c \in DOMAIN made, SaveCreate(c), turn = 0, UNCHANGED <<bulk, turn>>
      PROVE  FALSE
  <2>1. b = c
    BY <1>1, <1>3, CreateMeans
  <2> QED
    BY <1>1, <1>3, <2>1 DEF SaveCreate
<1>4. ASSUME NEW c \in DOMAIN made, ExecDelete(c), turn = 0, UNCHANGED <<bulk, turn>>
      PROVE  FALSE
  <2>1. b = c
    BY <1>1, <1>4, DeleteCounts
  <2> QED
    BY <1>1, <1>4, <2>1, SaveFacts
<1>5. ASSUME NEW c \in DOMAIN made, NEW d \in DOMAIN made, BulkEnds(c, d)
      PROVE  FALSE
  <2>1. b \in {c, d}
    BY <1>1, <1>5, BulkFacts DEF Counted
  <2> QED
    BY <1>1, <1>5, <2>1, BulkEndFacts
<1>6. PICK c \in DOMAIN made : SaveUpdate(c) /\ turn = 0 /\ UNCHANGED <<bulk, turn>>
  BY <1>2, <1>3, <1>4, <1>5, StepCases
<1>7. PICK m : b \in DOMAIN made /\ UpdateSaved(b, m)
  BY <1>1, <1>6, UpdateSaves
<1>8. /\ WellFormed(m) /\ SaidFormed(said'[b], m.type) /\ Agrees(m, said'[b])
      /\ m.op \in {"Update", "UpdateOne"} /\ UpdateCheck(m)
      /\ TableOK(table) /\ table' \in Updated(table, m)
      /\ m.type = made[b].type /\ m.op = made[b].op
      /\ m.where = made[b].where /\ m.id = made[b].id
  BY <1>7 DEF UpdateSaved, SavedAs
<1>9. Selected(table, made[b]) = Selected(table, m)
  BY <1>8, SelectedFacts
<1>10. /\ said'[b].empty = said[b].empty /\ said'[b].late = said[b].late
       /\ said'[b].plus = said[b].plus /\ said'[b].minus = said[b].minus
  BY <1>7, <1>8, WantedStays DEF UpdateSaved
<1>11. Linked(table', m.type, e, id) =
          (IF e \in said'[b].empty THEN {} ELSE Linked(table, m.type, e, id) \ said'[b].minus[e])
              \cup said'[b].plus[e]
  BY <1>8, <1>9, <1>10, ListsAreOK, EdgeMeans
<1> QED
  BY <1>8, <1>10, <1>11 DEF LinksWanted

LinksRight ==
    \A b \in Builders : (Saves(b) /\ made[b].op # "Create") =>
        \A e \in DOMAIN Many[made[b].type] \ said[b].late, id \in Selected(table, made[b]) :
            Linked(table', made[b].type, e, id) = LinksWanted(b, e, id)

LEMMA LinksAct == EntInv /\ (EntStep \/ UNCHANGED vars) => LinksRight
<1> SUFFICES ASSUME EntInv, EntStep \/ UNCHANGED vars, NEW b \in Builders,
                    Saves(b), made[b].op # "Create",
                    NEW e \in DOMAIN Many[made[b].type] \ said[b].late,
                    NEW id \in Selected(table, made[b])
             PROVE  Linked(table', made[b].type, e, id) = LinksWanted(b, e, id)
  BY DEF LinksRight
<1>1. EntStep
  BY DEF vars, Saves
<1> QED
  BY <1>1, LinksStep

(***************************************************************************)
(* After an update that takes effect the rows on an edge are those its     *)
(* calls ask for (ent/user_update.go:256), with as many calls of AddIDs,   *)
(* RemoveIDs, Clear and Reset as one likes.                                *)
(***************************************************************************)
THEOREM LinksMeanTheCallsHold == Spec => LinksMeanTheCalls
BY Steps, LinksAct, Invariance, PTL DEF Spec, LinksMeanTheCalls, LinksRight
=============================================================================
