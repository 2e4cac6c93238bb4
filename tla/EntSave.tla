------------------------------- MODULE EntSave -------------------------------
(***************************************************************************)
(* Builders of the ent client at work on the three tables: any calls in    *)
(* any order, Save as often as one likes, answers that get lost, and other *)
(* clients that change the rows meanwhile.                                 *)
(*                                                                         *)
(* A Save is one statement or one transaction of sqlgraph (external): its  *)
(* effects come at once or not at all.  It takes rows off an edge before   *)
(* it puts rows on it, a row is put on an edge only from none, and a       *)
(* statement that breaks a constraint of the tables is refused.            *)
(*                                                                         *)
(* Time passes with the calls and saves, so that every Save has a time of  *)
(* its own, later than what the calls and the first rows have.             *)
(***************************************************************************)
EXTENDS EntBuilders, Naturals, FiniteSets

CONSTANTS
    Builders,
    Offers,             \* the builders made: pairs of an entity and an operation
    Ids,                \* per entity, the identifiers
    Start,              \* the tables at the beginning
    Words,              \* texts that are set, other than Empty
    Item,               \* an option of a poll
    Null,               \* SQL's NULL
    Gone,               \* oldValue's error
    MaxSteps,           \* calls and saves
    MaxMishaps          \* lost answers, failures, changes by others

VARIABLES
    table,
    made,               \* the mutation of each builder there is
    said,               \* history: what the calls, in their order, ask for, and
                        \* the times that a Save has given where they ask for none
    out,                \* how the last Save ended
    applied,            \* history: how often a Save of the builder took effect
    born,               \* history: the rows it made since it was given an identifier
    bulk,               \* the builders of the CreateBulk that is being saved
    turn,               \* whose mutator is next, 0 if there is none
    steps, mishaps

vars == <<table, made, said, out, applied, born, bulk, turn, steps, mishaps>>

\* The time that calls set and the first rows have, and that of a Save.
Then == 0
Now == steps + 1

Rows(t, type) == DOMAIN t[type]

\* The constraints of the tables.
Legal(t) ==
    \A type \in Types :
        /\ \A id \in Rows(t, type) :
              LET row == t[type][id] IN
              /\ \A c \in TableColumns[type] \ Nullable[type] : row[c] # Null
              /\ \A c \in DOMAIN ForeignKeys[type] :
                    row[c] # Null => row[c] \in Rows(t, ForeignKeys[type][c])
        /\ \A index \in UniqueIndexes[type], a, b \in Rows(t, type) :
              a # b => \E c \in index : t[type][a][c] # t[type][b][c]

\* Rows are complete and, like those the builders write, without empty texts.
ASSUME StartAssumption ==
    /\ Legal(Start) /\ DOMAIN Start = Types
    /\ \A type \in Types : \A id \in Rows(Start, type) :
          /\ id \in Ids[type] /\ DOMAIN Start[type][id] = TableColumns[type]
          /\ \A c \in OfKind(type, {"text", "key"}) : Start[type][id][c] # Empty
          /\ \A c \in OfKind(type, {"list"}) : Start[type][id][c] \in Seq({Item})
\* UUIDs, none of which is NULL or nil; nil is no value of a column.
ASSUME IdsAssumption ==
    \A type \in Types :
        /\ IsFiniteSet(Ids[type]) /\ {None, Null} \cap Ids[type] = {}
        /\ \A ids \in SUBSET Ids[type] : ids # None
ASSUME NoneAssumption ==
    None \notin Words \cup {Empty, Null} /\ None \notin Nat
        /\ None # << >> /\ None # <<Item>>
ASSUME OffersAssumption ==
    Offers \subseteq Types \X {"Create", "Update", "UpdateOne", "Delete", "DeleteOne"}
ASSUME BoundsAssumption == MaxSteps \in Nat /\ MaxMishaps \in Nat

Values(type, c) ==
    CASE Kind[type][c] \in {"text", "key", "note"} -> Words \cup {Empty}
      [] Kind[type][c] = "list" -> {<< >>, <<Item>>}
      [] Kind[type][c] = "ref" -> Ids[ForeignKeys[type][c]]
      [] Kind[type][c] = "time" -> {Then}

----------------------------------------------------------------------------
\* What a call of a builder takes, and what it does to its mutation.
Arguments(m, call) ==
    CASE call[1] = "set" -> Values(m.type, call[2])
      [] call[1] = "append" -> {<<Item>>}
      [] call[1] \in {"id", "where"} -> Ids[m.type]
      [] call[1] \in {"add", "remove"} -> Ids[Many[m.type][call[2]].type]
      [] OTHER -> {None}

Changed(m, call, v) ==
    CASE call[1] = "set" -> SetField(m, call[2], v)
      [] call[1] = "append" -> AppendField(m, v)
      [] call[1] = "clear" -> ClearField(m, call[2])
      [] call[1] = "reset" -> ResetField(m, call[2])
      [] call[1] = "unset" -> ClearOne(m, call[2])
      [] call[1] = "reset one" -> ResetOne(m, call[2])
      [] call[1] = "add" -> AddIDs(m, call[2], {v})
      [] call[1] = "remove" -> RemoveIDs(m, call[2], {v})
      [] call[1] = "empty" -> ClearMany(m, call[2])
      [] call[1] = "reset many" -> ResetMany(m, call[2])
      [] call[1] = "id" -> [m EXCEPT !.id = v]
      [] call[1] = "where" -> Where(m, {v})

\* What the calls ask for.  late: the edges emptied after rows were put on.
Nothing(type) ==
    [field |-> [c \in Columns(type) |-> None], tail |-> << >>,
     empty |-> {}, late |-> {},
     plus |-> [e \in DOMAIN Many[type] |-> {}], minus |-> [e \in DOMAIN Many[type] |-> {}]]

Asked(s, type, call, v) ==
    LET on == call[2] IN
    CASE call[1] = "set" ->
            [s EXCEPT !.field[on] = v,
                      !.tail = IF Kind[type][on] = "list" THEN << >> ELSE @]
      [] call[1] = "append" -> [s EXCEPT !.tail = @ \o v]
      [] call[1] = "clear" -> [s EXCEPT !.field[on] = Null]
      [] call[1] = "reset" ->
            [s EXCEPT !.field[on] = None,
                      !.tail = IF Kind[type][on] = "list" THEN << >> ELSE @]
      [] call[1] = "unset" -> [s EXCEPT !.field[One[type][on]] = Null]
      [] call[1] = "reset one" -> [s EXCEPT !.field[One[type][on]] = None]
      [] call[1] = "add" -> [s EXCEPT !.plus[on] = @ \cup {v}, !.minus[on] = @ \ {v}]
      [] call[1] = "remove" -> [s EXCEPT !.plus[on] = @ \ {v}, !.minus[on] = @ \cup {v}]
      [] call[1] = "empty" ->
            [s EXCEPT !.late = IF s.plus[on] = {} THEN @ ELSE @ \cup {on},
                      !.empty = @ \cup {on}, !.plus[on] = {}, !.minus[on] = {}]
      [] call[1] = "reset many" ->
            [s EXCEPT !.late = @ \ {on},
                      !.empty = @ \ {on}, !.plus[on] = {}, !.minus[on] = {}]
      [] OTHER -> s

\* The columns whose time a Save fills in, and what remains of it.
Stamped(type, op) ==
    IF op = "Create" THEN OfKind(type, {"time"}) ELSE Columns(type) \cap {"updated_at"}

Dated(s, type, op, now) ==
    [s EXCEPT !.field = [c \in DOMAIN @ |->
        IF c \in Stamped(type, op) /\ @[c] = None THEN now ELSE @[c]]]

----------------------------------------------------------------------------
Init ==
    /\ table = Start
    /\ made = [b \in {} |-> None]
    /\ said = [b \in {} |-> None]
    /\ out = [b \in Builders |-> "none"]
    /\ applied = [b \in Builders |-> 0]
    /\ born = [b \in Builders |-> {}]
    /\ bulk = << >> /\ turn = 0
    /\ steps = 0
    /\ mishaps = 0

(***************************************************************************)
(* Create, Update, UpdateOneID, UpdateOne (which is given the row),        *)
(* Delete and DeleteOneID.                                                 *)
(***************************************************************************)
Fresh(type, op) ==
    CASE op = "UpdateOne" ->
            {Mutation(type, op, id) : id \in Ids[type]}
                \cup {[Mutation(type, op, id) EXCEPT !.old = table[type][id]] :
                         id \in Rows(table, type)}
      [] op = "DeleteOne" -> {Where(Mutation(type, op, id), {id}) : id \in Ids[type]}
      [] OTHER -> {Mutation(type, op, None)}

\* At one time there is one builder, or those of one bulk; what the builders
\* of other requests do meanwhile comes from Elsewhere.
Together(type, op) ==
    \A b \in DOMAIN made : op = "Create" /\ made[b].op = "Create" /\ made[b].type = type

Begin(b, type, op) ==
    /\ turn = 0 /\ b \notin DOMAIN made
    /\ Together(type, op)
    /\ \E m \in Fresh(type, op) : made' = Put(made, b, m)
    /\ said' = Put(said, b, Nothing(type))
    /\ UNCHANGED <<table, out, applied, born, bulk, turn, steps, mishaps>>

Step == steps < MaxSteps /\ steps' = steps + 1
Sound == UNCHANGED mishaps
Mishap == mishaps < MaxMishaps /\ mishaps' = mishaps + 1

Call(b, call, v) ==
    /\ Step
    /\ made' = [made EXCEPT ![b] = Changed(made[b], call, v)]
    /\ said' = [said EXCEPT ![b] = Asked(said[b], made[b].type, call, v)]
    /\ out' = [out EXCEPT ![b] = "none"]
    /\ born' = [born EXCEPT ![b] = IF call[1] = "id" THEN {} ELSE @]
    /\ UNCHANGED <<table, applied, mishaps>>

Chains ==
    [type \in Types |->
        LET columns == OfKind(type, {"text", "key", "ref"}) IN
        {f \in [columns -> UNION {Values(type, c) : c \in columns}] :
            \A c \in columns : f[c] \in Values(type, c)}]

\* The setters a storage chains onto Create, one after the other.
Chain(b) ==
    /\ made[b].op = "Create" /\ said[b] = Nothing(made[b].type)
    /\ Step
    /\ \E values \in Chains[made[b].type] :
          /\ made' = [made EXCEPT ![b].value = [c \in DOMAIN @ |-> IF c \in DOMAIN values THEN values[c] ELSE @[c]]]
          /\ said' = [said EXCEPT ![b].field = [c \in DOMAIN @ |-> IF c \in DOMAIN values THEN values[c] ELSE @[c]]]
    /\ out' = [out EXCEPT ![b] = "none"]
    /\ UNCHANGED <<table, applied, born, mishaps>>

\* Mutant: the guard on done is missing.
OldValueAlways(m) ==
    IF m.id \in Rows(table, m.type) THEN table[m.type][m.id] ELSE Gone

\* What oldValue answers, once: the error that the read ends in stays too.
OldValue(m) ==
    IF ~m.done /\ m.id \in Rows(table, m.type) THEN table[m.type][m.id] ELSE Gone

ReadOld(b) ==
    /\ AnswersOld(made[b])
    /\ made[b].old = None
    /\ \/ made' = [made EXCEPT ![b].old = OldValue(made[b])] /\ Sound
       \/ ~made[b].done /\ made' = [made EXCEPT ![b].old = Gone] /\ Mishap
    /\ UNCHANGED <<table, said, out, applied, born, steps>>

----------------------------------------------------------------------------
\* The rows of an edge: those whose column has the identifier.
Linked(t, type, e, id) ==
    LET edge == Many[type][e] IN
    {r \in Rows(t, edge.type) : t[edge.type][r][edge.column] = id}

TakenOff(t, type, e, ids, s) ==
    UNION {IF e \in s.all THEN Linked(t, type, e, id)
           ELSE Linked(t, type, e, id) \cap s.out[e] : id \in ids}

\* Rows are taken off if their column may be NULL; they are put on the edge
\* of one row, and only if they are on none.
CanLink(t, type, ids, s) ==
    \A e \in DOMAIN s.in :
        /\ TakenOff(t, type, e, ids, s) # {} => Many[type][e].column \in Nullable[Many[type][e].type]
        /\ s.in[e] # {} => Cardinality(ids) = 1
        /\ s.in[e] \subseteq Linked(t, type, e, Null) \cup TakenOff(t, type, e, ids, s)

\* Edges are columns of different tables.
Links(t, type, ids, s) ==
    LET After(e, r, now) ==
            IF r \in s.in[e] THEN CHOOSE id \in ids : TRUE
            ELSE IF r \in TakenOff(t, type, e, ids, s) THEN Null ELSE now
        Edge(other, c) == {e \in DOMAIN s.in : Many[type][e] = [type |-> other, column |-> c]}
    IN [other \in Types |-> [r \in Rows(t, other) |-> [c \in TableColumns[other] |->
            IF Edge(other, c) = {} THEN t[other][r][c]
            ELSE After(CHOOSE e \in Edge(other, c) : TRUE, r, t[other][r][c])]]]

\* The tables a statement may leave: none when it is refused.
Inserted(t, m) ==
    LET s == InsertOf(m)
        row == [c \in TableColumns[m.type] |-> IF c \in DOMAIN s.set THEN s.set[c] ELSE Null]
        full == [t EXCEPT ![m.type] = Put(@, m.id, row)]
        edges == [in |-> s.in, all |-> {}, out |-> [e \in DOMAIN s.in |-> {}]]
    IN {u \in {Links(full, m.type, {m.id}, edges)} :
           /\ m.id \notin Rows(t, m.type)
           /\ CanLink(full, m.type, {m.id}, edges)
           /\ Legal(u)}

\* A list that is set and appended to, and a note that is set and cleared,
\* are sqlgraph's to decide.
Clash(s) == DOMAIN s.set \cap s.null # {}

Rewritten(row, s, stored) ==
    [c \in DOMAIN row |->
        IF c \in DOMAIN s.append
        THEN (IF c \in DOMAIN s.set /\ ~stored THEN s.set[c] ELSE row[c]) \o s.append[c]
        ELSE IF c \in DOMAIN s.set THEN s.set[c]
        ELSE IF c \in s.null THEN Null ELSE row[c]]

Selected(t, m) ==
    Rows(t, m.type) \cap (IF m.where = None THEN Rows(t, m.type) ELSE m.where)
        \cap (IF m.op = "UpdateOne" THEN {m.id} ELSE Rows(t, m.type))

Updated(t, m) ==
    LET s == ChangeOf(m)
        ids == Selected(t, m)
        Rewrite(stored) ==
            [t EXCEPT ![m.type] =
                [r \in DOMAIN @ |-> IF r \in ids THEN Rewritten(@[r], s, stored) ELSE @[r]]]
    IN IF ids = {} THEN (IF m.op = "UpdateOne" THEN {} ELSE {t})
       ELSE {u \in {Links(Rewrite(stored), m.type, ids, s) : stored \in BOOLEAN} :
                CanLink(t, m.type, ids, s) /\ Legal(u)}

\* What refers to a row that goes is set to NULL or forbids it.
Removed(t, type, ids) ==
    {u \in {[other \in Types |->
                [r \in Rows(t, other) \ (IF other = type THEN ids ELSE {}) |->
                    [c \in DOMAIN t[other][r] |->
                        IF /\ c \in SetNullOnDelete[other]
                           /\ ForeignKeys[other][c] = type /\ t[other][r][c] \in ids
                        THEN Null ELSE t[other][r][c]]]]} : Legal(u)}

----------------------------------------------------------------------------
Ends(bs, result, ms) ==
    /\ made' = [b \in DOMAIN made |-> IF b \in bs THEN ms[b] ELSE made[b]]
    /\ out' = [b \in Builders |-> IF b \in bs THEN result ELSE out[b]]

Effect(bs, ms, results) ==
    /\ table' \in results
    /\ applied' = [b \in Builders |-> applied[b] + (IF b \in bs THEN 1 ELSE 0)]
    /\ born' = [b \in Builders |->
                   born[b] \cup {ms[c].id : c \in {d \in bs \cap {b} : ms[d].op = "Create"}}]

NoEffect == UNCHANGED <<table, applied, born>>

Done(ms) == [b \in DOMAIN ms |-> [ms[b] EXCEPT !.done = TRUE]]

(***************************************************************************)
(* sqlSave once the checks are through: done is set when the answer is     *)
(* good, and the defaults stay in the mutation whatever it is.             *)
(***************************************************************************)
Execute(bs, ms, results, clash) ==
    \/ Effect(bs, ms, results) /\ Ends(bs, "saved", Done(ms)) /\ Sound
    \/ (results = {} \/ clash) /\ NoEffect /\ Ends(bs, "refused", ms) /\ Sound
    \/ results # {} /\ NoEffect /\ Ends(bs, "refused", ms) /\ Mishap
    \/ Effect(bs, ms, results) /\ Ends(bs, "lost", ms) /\ Mishap

Invalid(bs, ms) == NoEffect /\ Ends(bs, "invalid", ms) /\ Sound

InHand(type) == {made[b].id : b \in {c \in DOMAIN made : made[c].type = type}}

\* The mutation's identifier, or one that nobody has and DefaultID draws.
Drawn(m) == ({m.id} \ {None}) \cup (Ids[m.type] \ (Rows(table, m.type) \cup InHand(m.type)))

SaveCreate(b) ==
    /\ made[b].op = "Create"
    /\ \E id \in Drawn(made[b]) :
          LET m == CreateDefaults(made[b], id, Now) IN
          IF CreateCheck(m) THEN Execute({b}, [c \in {b} |-> m], Inserted(table, m), FALSE)
                            ELSE Invalid({b}, [c \in {b} |-> m])
    /\ said' = [said EXCEPT ![b] = Dated(@, made[b].type, made[b].op, Now)]
    /\ Step

SaveUpdate(b) ==
    /\ made[b].op \in {"Update", "UpdateOne"}
    /\ LET m == UpdateDefaults(made[b], Now) IN
       IF UpdateCheck(m)
       THEN Execute({b}, [c \in {b} |-> m], Updated(table, m), Clash(ChangeOf(m)))
       ELSE Invalid({b}, [c \in {b} |-> m])
    /\ said' = [said EXCEPT ![b] = Dated(@, made[b].type, made[b].op, Now)]
    /\ Step

\* A delete is done whatever the answer is; DeleteOne reports that there was
\* no row.
ExecDelete(b) ==
    /\ made[b].op \in {"Delete", "DeleteOne"}
    /\ LET ms == Done([c \in {b} |-> made[b]])
           ids == Selected(table, made[b])
       IN IF made[b].op = "DeleteOne" /\ ids = {}
          THEN NoEffect /\ Ends({b}, "refused", ms) /\ Sound
          ELSE Execute({b}, ms, Removed(table, made[b].type, ids), FALSE)
    /\ Step
    /\ UNCHANGED said

\* Mutant: the last mutator hands its own spec to the batch.
BatchOfLast(t, m, n) == Inserted(t, n)

\* BatchCreate of the specs of all: one INSERT.
Batch(t, m, n) == UNION {Inserted(u, n) : u \in Inserted(t, m)}

(***************************************************************************)
(* CreateBulk(a, b).Save: the defaults of both, and then their mutators,   *)
(* each called by the one before.                                          *)
(***************************************************************************)
SaveBulk(a, b) ==
    /\ turn = 0
    /\ a # b /\ made[a].op = "Create" /\ made[b].op = "Create" /\ made[a].type = made[b].type
    /\ \E i \in Drawn(made[a]), j \in Drawn(made[b]) :
          /\ made[a].id = None /\ made[b].id = None => i # j
          /\ made' = [made EXCEPT ![a] = CreateDefaults(@, i, Now),
                                  ![b] = CreateDefaults(@, j, Now)]
    /\ said' = [said EXCEPT ![a] = Dated(@, made[a].type, "Create", Now),
                            ![b] = Dated(@, made[b].type, "Create", Now)]
    /\ bulk' = <<a, b>> /\ turn' = 1
    /\ Step
    /\ UNCHANGED <<table, out, applied, born, mishaps>>

(***************************************************************************)
(* A mutator: it checks its builder and calls the next; the last one runs  *)
(* the batch.  An error is what all of them return; without one each sets  *)
(* its mutation's done.                                                    *)
(***************************************************************************)
Mutate(a, b) ==
    /\ turn # 0 /\ bulk = <<a, b>>
    /\ LET checked == CreateCheck(made[IF turn = 1 THEN a ELSE b])
           ms == [c \in {a, b} |-> made[c]] IN
       \/ /\ checked /\ turn = 1
          /\ turn' = 2 /\ UNCHANGED <<table, made, out, applied, born, bulk, mishaps>>
       \/ /\ checked /\ turn = 2
          /\ Execute({a, b}, ms, Batch(table, made[a], made[b]), FALSE)
          /\ bulk' = << >> /\ turn' = 0
       \/ ~checked /\ Invalid({a, b}, ms) /\ bulk' = << >> /\ turn' = 0
    /\ UNCHANGED <<said, steps>>

\* Another client changes a column, or deletes a row.
Others ==
    /\ Mishap
    /\ \E type \in Types : \E id \in Rows(table, type) :
          \/ \E c \in Columns(type) : \E v \in Values(type, c) \ {Empty} :
                /\ table' = [table EXCEPT ![type][id][c] = v]
                /\ Legal(table')
          \/ table' \in Removed(table, type, {id})
    /\ table' # table
    /\ UNCHANGED <<made, said, out, applied, born, bulk, turn, steps>>

\* It does when a builder has read or saved, or a bulk is being saved (before
\* that it makes no difference), and they can still tell.
Elsewhere ==
    /\ \/ turn # 0
       \/ /\ \E b \in DOMAIN made : made[b].old # None \/ out[b] # "none"
          /\ steps < MaxSteps
    /\ Others

Use(b) ==
    /\ b \in DOMAIN made
    /\ \/ /\ turn = 0 /\ UNCHANGED <<bulk, turn>>
          /\ \/ \E call \in CallsOf(made[b]) : \E v \in Arguments(made[b], call) : Call(b, call, v)
             \/ Chain(b)
             \/ ReadOld(b)
             \/ SaveCreate(b) \/ SaveUpdate(b) \/ ExecDelete(b)
       \/ \E c \in DOMAIN made : SaveBulk(b, c) \/ Mutate(b, c)

Next ==
    \/ \E b \in Builders, offer \in Offers : Begin(b, offer[1], offer[2])
    \/ \E b \in Builders : Use(b)
    \/ Elsewhere

Spec == Init /\ [][Next]_vars

----------------------------------------------------------------------------
Texts ==
    Words \cup {Empty}
        \cup UNION {{Start[type][id][c] : id \in Rows(Start, type),
                                         c \in OfKind(type, {"text", "key", "note"})} : type \in Types}

TypeOK ==
    /\ \A type \in Types :
          /\ Rows(table, type) \subseteq Ids[type]
          /\ \A id \in Rows(table, type) :
                /\ DOMAIN table[type][id] = TableColumns[type]
                /\ \A c \in OfKind(type, {"text", "key", "note"}) :
                      table[type][id][c] \in Texts \cup {Null}
    /\ DOMAIN made \subseteq Builders /\ DOMAIN said = DOMAIN made
    /\ \A b \in DOMAIN made :
          LET m == made[b] IN
          /\ <<m.type, m.op>> \in Offers /\ m.id \in Ids[m.type] \cup {None}
          /\ m.marked \subseteq Columns(m.type) /\ m.unset \subseteq DOMAIN One[m.type]
          /\ m.emptied \subseteq DOMAIN Many[m.type]
          /\ m.done \in BOOLEAN
          /\ \A c \in OfKind(m.type, {"text", "key", "note"}) :
                m.value[c] \in Texts \cup {None}
    /\ out \in [Builders -> {"none", "saved", "invalid", "refused", "lost"}]
    /\ applied \in [Builders -> 0 .. MaxSteps]
    /\ \A b \in Builders : born[b] \subseteq UNION {Ids[type] : type \in Types}
    /\ bulk \in Seq(Builders) /\ turn \in 0 .. 2
    /\ steps \in 0 .. MaxSteps
    /\ mishaps \in 0 .. MaxMishaps

(***************************************************************************)
(* Whatever the calls, no row has an empty text but a note: the tables     *)
(* would take it, so every Save must have run the validators.              *)
(***************************************************************************)
NoEmptyTexts ==
    \A type \in Types : \A id \in Rows(table, type), c \in OfKind(type, {"text", "key"}) :
        table[type][id][c] # Empty

(***************************************************************************)
(* A create builder makes one row at most, however often it is saved, when *)
(* answers are lost too: the first Save fixes the identifier.  (If another *)
(* deletes the row, the next Save makes it again; SetID asks for another.) *)
(***************************************************************************)
OneRowPerBuilder == \A b \in Builders : Cardinality(born[b]) <= 1

Saves(b) == applied'[b] # applied[b] /\ made[b].op \in {"Create", "Update", "UpdateOne"}

\* What a column is to be, of what it was.
Wanted(s, op, type, c, was) ==
    LET default == CASE Kind[type][c] = "list" -> << >>
                     [] Kind[type][c] = "time" -> Now
                     [] OTHER -> Null
        left == IF op = "Create" THEN default ELSE IF c = "updated_at" THEN Now ELSE was
        value == IF s.field[c] = None THEN left ELSE s.field[c]
    IN IF Kind[type][c] = "list" THEN value \o s.tail ELSE value

(***************************************************************************)
(* A Save that takes effect, be it the builder's first or a later one,     *)
(* writes what the calls ask for, the last one on a column deciding, and   *)
(* leaves the other columns and the other rows of its table as others may  *)
(* have made them.  A time that no call has set is that of the first Save, *)
(* be it this one or an earlier one, that failed too, until a call resets  *)
(* the column: a builder that is saved again writes an old updated_at.  A  *)
(* list both set and appended to is left out.                              *)
(***************************************************************************)
SavesMeanTheCalls ==
    [][\A b \in Builders : Saves(b) =>
          LET m == made'[b]
              s == said[b]
              ids == IF m.op = "Create" THEN {m.id} ELSE Selected(table, m) IN
          \A id \in Rows(table', m.type), c \in Columns(m.type) :
              LET was == IF id \in Rows(table, m.type) THEN table[m.type][id][c] ELSE Null
                  now == table'[m.type][id][c] IN
              IF id \in ids
              THEN \/ now = Wanted(s, m.op, m.type, c, was)
                   \/ Kind[m.type][c] = "list" /\ s.tail # << >> /\ s.field[c] # None
              ELSE Cardinality({d \in Builders : Saves(d)}) = 1 => now = was]_vars

LinksWanted(b, e, id) ==
    LET s == said[b] IN
    (IF e \in s.empty THEN {} ELSE Linked(table, made[b].type, e, id) \ s.minus[e]) \cup s.plus[e]

(***************************************************************************)
(* After an update that takes effect the rows on an edge are those the     *)
(* calls, in their order, ask for, unless the edge was emptied after rows  *)
(* had been put on it.                                                     *)
(***************************************************************************)
LinksMeanTheCalls ==
    [][\A b \in Builders : (Saves(b) /\ made[b].op # "Create") =>
          \A e \in DOMAIN Many[made[b].type] \ said[b].late, id \in Selected(table, made[b]) :
              Linked(table', made[b].type, e, id) = LinksWanted(b, e, id)]_vars

(***************************************************************************)
(* A row that oldValue fetches is not the builder's own work, unless the   *)
(* answer to it was lost.                                                  *)
(***************************************************************************)
OldIsNotOwn ==
    [][\A b \in DOMAIN made :
          (made[b].old = None /\ made'[b].old \notin {None, Gone}) =>
              applied[b] = 0 \/ out[b] # "saved"]_vars

(***************************************************************************)
(* The mutators of a bulk write nothing before all of its builders are     *)
(* checked: whichever of them fails, whatever others do between two of     *)
(* them, no step makes the row of one builder without that of the other,   *)
(* and neither becomes done unless both rows are made.                     *)
(***************************************************************************)
BulkIsWhole ==
    [][\A a, b \in Builders : (turn # 0 /\ bulk = <<a, b>>) =>
          LET type == made[a].type
              Made(c) == made[c].id \in Rows(table', type) \ Rows(table, type) IN
          /\ Made(a) <=> Made(b)
          /\ \A c \in {a, b} : made'[c].done # made[c].done => Made(a) /\ Made(b)]_vars
=============================================================================
