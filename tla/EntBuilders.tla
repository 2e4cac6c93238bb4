----------------------------- MODULE EntBuilders -----------------------------
(***************************************************************************)
(* The builders of the ent client: which calls each of them takes, what    *)
(* its Save fills in and checks, and the statement it hands to sqlgraph    *)
(* (ent/*_create.go and ent/*_update.go).  A statement is a record:        *)
(*   set     the columns it writes, those of unique edges included         *)
(*   null    the columns it sets to NULL                                   *)
(*   append  what it appends to lists                                      *)
(*   all     the edges it empties                                          *)
(*   out, in the rows it takes off and puts on an edge                     *)
(***************************************************************************)
EXTENDS EntMutation

CONSTANT Empty          \* the empty text

Sets(type) == {"set"} \X Columns(type)
Fluent(verbs, edges) == verbs \X edges

\* The setters for pointers (SetNillableX), rows (SetOwner) and several rows
\* (AddVotes) come down to these.
PollCreateCalls == Sets("Poll") \cup {<<"id", "id">>, <<"add", "votes">>}
UserCreateCalls == Sets("User") \cup {<<"id", "id">>} \cup Fluent({"add"}, {"polls", "votes"})
VoteCreateCalls == Sets("Vote") \cup {<<"id", "id">>}

PollUpdateCalls ==
    Sets("Poll") \cup {<<"where", "id">>, <<"clear", "description">>, <<"append", "options">>}
        \cup Fluent({"add", "remove", "empty"}, {"votes"}) \cup {<<"unset", "owner">>}
PollUpdateOneCalls == PollUpdateCalls
UserUpdateCalls ==
    Sets("User") \cup {<<"where", "id">>}
        \cup Fluent({"add", "remove", "empty"}, {"polls", "votes"})
UserUpdateOneCalls == UserUpdateCalls
VoteUpdateCalls ==
    Sets("Vote") \cup {<<"where", "id">>} \cup Fluent({"unset"}, {"user", "poll"})
VoteUpdateOneCalls == VoteUpdateCalls

DeleteCalls == {<<"where", "id">>}

\* Reset is reached through Mutation().
Resets(type) ==
    ({"reset"} \X Columns(type)) \cup ({"reset one"} \X DOMAIN One[type])
        \cup ({"reset many"} \X DOMAIN Many[type])

CallsOf(m) ==
    CASE m.op \in {"Delete", "DeleteOne"} -> DeleteCalls
      [] m.op = "Create" ->
            Resets(m.type) \cup [Poll |-> PollCreateCalls, User |-> UserCreateCalls,
                                 Vote |-> VoteCreateCalls][m.type]
      [] m.op = "Update" ->
            Resets(m.type) \cup [Poll |-> PollUpdateCalls, User |-> UserUpdateCalls,
                                 Vote |-> VoteUpdateCalls][m.type]
      [] m.op = "UpdateOne" ->
            Resets(m.type) \cup [Poll |-> PollUpdateOneCalls, User |-> UserUpdateOneCalls,
                                 Vote |-> VoteUpdateOneCalls][m.type]

----------------------------------------------------------------------------
\* The columns that are not set get these values.
Default(m, values) ==
    [m EXCEPT !.value = [c \in DOMAIN @ |->
        IF c \in DOMAIN values /\ @[c] = None THEN values[c] ELSE @[c]]]

\* Mutant: every save draws an identifier.
WithNewId(m, id) == [m EXCEPT !.id = id]

\* DefaultID is drawn once: the mutation keeps it.
WithId(m, id) == [m EXCEPT !.id = IF @ = None THEN id ELSE @]

PollCreateDefaults(m, id, now) ==
    WithId(Default(m, [options |-> << >>, created_at |-> now, updated_at |-> now]), id)
UserCreateDefaults(m, id, now) ==
    WithId(Default(m, [created_at |-> now, updated_at |-> now]), id)
VoteCreateDefaults(m, id, now) == WithId(Default(m, [created_at |-> now]), id)

\* The vote has nothing to fill in.  A time that is there already stays, the
\* one that an earlier save has filled in too.
UpdateDefaults(m, now) ==
    IF m.type = "Vote" THEN m ELSE Default(m, [updated_at |-> now])

Required(m, columns) == \A c \in columns : IsSet(m, c)
Worded(m, columns) == \A c \in columns : m.value[c] # Empty

PollCreateCheck(m) ==
    /\ Required(m, {"title", "options", "owner_id", "created_at", "updated_at"})
    /\ Worded(m, {"title"})
UserCreateCheck(m) ==
    /\ Required(m, {"email", "username", "password", "created_at", "updated_at"})
    /\ Worded(m, {"email", "username", "password"})
VoteCreateCheck(m) ==
    /\ Required(m, {"user_id", "poll_id", "option", "created_at"})
    /\ Worded(m, {"option"})

\* Refused is an edge that is both cleared and set, not one that is cleared.
NotReplaced(m, edges) == \A e \in edges \cap m.unset : ~IsSet(m, One[m.type][e])

\* Mutant: the validators run on creation only.
PollUpdateCheckEdges(m) == NotReplaced(m, {"owner"})

PollUpdateCheck(m) == Worded(m, {"title"}) /\ NotReplaced(m, {"owner"})
UserUpdateCheck(m) == Worded(m, {"email", "username", "password"})
VoteUpdateCheck(m) == Worded(m, {"option"}) /\ NotReplaced(m, {"user", "poll"})

----------------------------------------------------------------------------
Writes(m, fields, edges) ==
    LET columns == {c \in fields \cup {One[m.type][e] : e \in edges} : IsSet(m, c)}
    IN [c \in columns |-> m.value[c]]

Insert(m, fields, one, many) ==
    [set |-> Writes(m, fields, one), in |-> [e \in many |-> Listed(m.added[e])]]

\* The edges to take off are left out when the edge is emptied.
Change(m, fields, notes, lists, one, many) ==
    [set |-> Writes(m, fields, one),
     null |-> {c \in notes : FieldCleared(m, c)} \cup {One[m.type][e] : e \in one \cap m.unset},
     append |-> [c \in {l \in lists : m.tail # << >>} |-> m.tail],
     all |-> many \cap m.emptied,
     out |-> [e \in many |-> IF e \in m.emptied THEN {} ELSE Listed(m.removed[e])],
     in |-> [e \in many |-> Listed(m.added[e])]]

PollInsert(m) ==
    Insert(m, {"title", "description", "options", "created_at", "updated_at"},
           {"owner"}, {"votes"})
UserInsert(m) ==
    Insert(m, {"email", "username", "password", "created_at", "updated_at"},
           {}, {"polls", "votes"})
VoteInsert(m) == Insert(m, {"option", "created_at"}, {"user", "poll"}, {})

PollChange(m) ==
    Change(m, {"title", "description", "options", "created_at", "updated_at"},
           {"description"}, {"options"}, {"owner"}, {"votes"})
PollOneChange(m) == PollChange(m)
UserChange(m) ==
    Change(m, {"email", "username", "password", "created_at", "updated_at"},
           {}, {}, {}, {"polls", "votes"})
UserOneChange(m) == UserChange(m)
VoteChange(m) == Change(m, {"option", "created_at"}, {}, {}, {"user", "poll"}, {})
VoteOneChange(m) == VoteChange(m)

CreateDefaults(m, id, now) ==
    CASE m.type = "Poll" -> PollCreateDefaults(m, id, now)
      [] m.type = "User" -> UserCreateDefaults(m, id, now)
      [] m.type = "Vote" -> VoteCreateDefaults(m, id, now)

CreateCheck(m) ==
    CASE m.type = "Poll" -> PollCreateCheck(m)
      [] m.type = "User" -> UserCreateCheck(m)
      [] m.type = "Vote" -> VoteCreateCheck(m)

UpdateCheck(m) ==
    CASE m.type = "Poll" -> PollUpdateCheck(m)
      [] m.type = "User" -> UserUpdateCheck(m)
      [] m.type = "Vote" -> VoteUpdateCheck(m)

InsertOf(m) ==
    CASE m.type = "Poll" -> PollInsert(m)
      [] m.type = "User" -> UserInsert(m)
      [] m.type = "Vote" -> VoteInsert(m)

ChangeOf(m) ==
    CASE m.type = "Poll" /\ m.op = "Update" -> PollChange(m)
      [] m.type = "Poll" /\ m.op = "UpdateOne" -> PollOneChange(m)
      [] m.type = "User" /\ m.op = "Update" -> UserChange(m)
      [] m.type = "User" /\ m.op = "UpdateOne" -> UserOneChange(m)
      [] m.type = "Vote" /\ m.op = "Update" -> VoteChange(m)
      [] m.type = "Vote" /\ m.op = "UpdateOne" -> VoteOneChange(m)
=============================================================================
