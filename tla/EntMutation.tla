----------------------------- MODULE EntMutation -----------------------------
(***************************************************************************)
(* A mutation of the ent client (ent/mutation.go): what the calls on a     *)
(* builder have set, cleared, added and removed so far.  One record serves *)
(* the three entities, whose mutations differ in the columns and edges of  *)
(* EntSchema alone.                                                        *)
(***************************************************************************)
EXTENDS EntSchema, Sequences

CONSTANT None           \* a nil pointer, a nil map, no row

\* value: the pointers, those of unique edges included; tail: what is
\* appended to the list; marked: clearedFields; unset, emptied: the cleared
\* flags of unique and of other edges; where: the rows the predicates hold
\* of, None when there are none; old: the row oldValue has read.
Mutation(type, op, id) ==
    [type |-> type, op |-> op, id |-> id,
     value |-> [c \in Columns(type) |-> None], tail |-> << >>, marked |-> {},
     unset |-> {}, emptied |-> {},
     added |-> [e \in DOMAIN Many[type] |-> None],
     removed |-> [e \in DOMAIN Many[type] |-> None],
     where |-> None, old |-> None, done |-> FALSE]

IsSet(m, c) == m.value[c] # None

\* Setting a field leaves the mark of a clear.
SetField(m, c, v) ==
    [m EXCEPT !.value[c] = v, !.tail = IF Kind[m.type][c] = "list" THEN << >> ELSE @]

AppendField(m, l) == [m EXCEPT !.tail = @ \o l]

ClearField(m, c) == [m EXCEPT !.value[c] = None, !.marked = @ \cup {c}]

\* Mutant: the mark of a clear outlives the reset.
ResetFieldAlone(m, c) == [m EXCEPT !.value[c] = None]

ResetField(m, c) ==
    [m EXCEPT !.value[c] = None,
              !.marked = IF Kind[m.type][c] = "note" THEN @ \ {c} ELSE @,
              !.tail = IF Kind[m.type][c] = "list" THEN << >> ELSE @]

\* Mutant: the column is flagged in place of the edge.
ClearOneColumn(m, e) ==
    [m EXCEPT !.unset = @ \cup {One[m.type][e]}, !.marked = @ \cup {One[m.type][e]}]

ClearOne(m, e) == [m EXCEPT !.unset = @ \cup {e}, !.marked = @ \cup {One[m.type][e]}]

ResetOne(m, e) == [m EXCEPT !.value[One[m.type][e]] = None, !.unset = @ \ {e}]

Listed(ids) == IF ids = None THEN {} ELSE ids

AddIDs(m, e, ids) == [m EXCEPT !.added[e] = Listed(@) \cup ids]

\* Mutant: what was added stays.
RemoveIDsAlone(m, e, ids) == [m EXCEPT !.removed[e] = Listed(@) \cup ids]

RemoveIDs(m, e, ids) ==
    [m EXCEPT !.added[e] = IF @ = None THEN None ELSE @ \ ids,
              !.removed[e] = Listed(@) \cup ids]

ClearMany(m, e) == [m EXCEPT !.emptied = @ \cup {e}]

ResetMany(m, e) ==
    [m EXCEPT !.added[e] = None, !.removed[e] = None, !.emptied = @ \ {e}]

Where(m, ids) == [m EXCEPT !.where = IF @ = None THEN ids ELSE @ \cap ids]

FieldCleared(m, c) == c \in m.marked

\* OldX answers for UpdateOne with an id only.
AnswersOld(m) == m.op = "UpdateOne" /\ m.id # None
=============================================================================
