------------------------------- MODULE EntQuery -------------------------------
(***************************************************************************)
(* The query builders of the ent client (ent/*_query.go) beside the        *)
(* builders that write.  A query with its eager loads is a tree: the       *)
(* queries it loads (WithOwner, WithVotes, ...) by the edges that lead to  *)
(* them.  Running it is one statement per query of the tree, in preorder,  *)
(* with whatever others do in between; and running it changes the tree,    *)
(* which may be run again.                                                 *)
(*                                                                         *)
(* Order and Unique are left out, so which rows a limit keeps is open.     *)
(***************************************************************************)
EXTENDS EntSave

CONSTANTS
    Picks,          \* per entity, the columns that are selected
    MaxCalls,       \* calls and runs of a query
    MaxDepth        \* how deep loads nest

ASSUME PicksAssumption == \A type \in Types : Picks[type] \subseteq Columns(type)
ASSUME CallsAssumption == MaxCalls \in Nat /\ MaxDepth \in Nat
\* No limit is not a limit.
ASSUME LimitAssumption == None \notin {1, 2}

VARIABLES
    query,          \* the tree, with the queries by their paths; empty before Ask
    asked,          \* history: the tree as the calls alone make it
    run,            \* the run under way: what it has found, what is to come
    answer,         \* what the last run returned
    runs,           \* history: runs so far
    calls

queryVars == <<query, asked, run, answer, runs, calls>>

Root == << >>
Parent(a) == SubSeq(a, 1, Len(a) - 1)
Edge(a) == a[Len(a)]

\* The two edges of an entity, in the order in which sqlAll loads them.
EdgeOrder == [Poll |-> <<"owner", "votes">>, User |-> <<"polls", "votes">>,
              Vote |-> <<"user", "poll">>]

EdgeType(type, e) ==
    IF e \in DOMAIN One[type] THEN ForeignKeys[type][One[type][e]] ELSE Many[type][e].type

\* where and keys: the rows the predicates hold of, and the values they want
\* in a column; hidden: withFKs; from: the edge the query was chained on.
New(type, from) ==
    [type |-> type, where |-> None, keys |-> None, column |-> None, limit |-> None,
     offset |-> 0, fields |-> << >>, hidden |-> {}, from |-> from]

Both(s, t) == IF s = None THEN t ELSE s \cap t

Chosen(q) == {q.fields[i] : i \in DOMAIN q.fields}

----------------------------------------------------------------------------
\* The calls.  Calling With again replaces the query of the edge.
Narrowed(tree, a, id) == [tree EXCEPT ![a].where = Both(@, {id})]
Limited(tree, a, n) == [tree EXCEPT ![a].limit = n]
Moved(tree, a, n) == [tree EXCEPT ![a].offset = n]
Picked(tree, a, c) == [tree EXCEPT ![a].fields = Append(@, c)]

With(tree, a, e) ==
    LET b == Append(a, e)
        old == {c \in DOMAIN tree : Len(c) > Len(a) /\ SubSeq(c, 1, Len(b)) = b} IN
    Put([c \in DOMAIN tree \ old |-> tree[c]], b, New(EdgeType(tree[a].type, e), None))

Calling == calls < MaxCalls /\ calls' = calls + 1 /\ answer' = None

\* A query of a table, or of the rows that an edge leads to from some rows.
Ask(type, from) ==
    /\ Root \notin DOMAIN query
    /\ DOMAIN made = {}
    /\ query' = [a \in {Root} |-> New(type, from)]
    /\ asked' = query'
    /\ UNCHANGED <<run, answer, runs, calls>>

\* A call: Where, Limit, Offset, Select or With, of any query of the tree.
Refine ==
    /\ Root \in DOMAIN query /\ run = None
    /\ Calling
    /\ \E a \in DOMAIN query : LET type == query[a].type IN
          \/ \E id \in Ids[type] : query' = Narrowed(query, a, id) /\ asked' = Narrowed(asked, a, id)
          \/ \E n \in 1 .. 2 : query' = Limited(query, a, n) /\ asked' = Limited(asked, a, n)
          \/ query' = Moved(query, a, 1) /\ asked' = Moved(asked, a, 1)
          \/ \E c \in Picks[type] : query' = Picked(query, a, c) /\ asked' = Picked(asked, a, c)
          \/ \E e \in DOMAIN One[type] \cup DOMAIN Many[type] :
                Len(a) < MaxDepth /\ query' = With(query, a, e) /\ asked' = With(asked, a, e)
    /\ UNCHANGED <<run, runs>>

----------------------------------------------------------------------------
\* The rows the path leads to.
Reached(t, q) ==
    IF q.from = None THEN Rows(t, q.type)
    ELSE LET type == q.from.type
             e == q.from.edge
             start == q.from.ids \cap Rows(t, type) IN
         IF e \in DOMAIN One[type] THEN {t[type][id][One[type][e]] : id \in start} \cap Rows(t, q.type)
         ELSE UNION {Linked(t, type, e, id) : id \in start}

Matching(t, q) ==
    {id \in Reached(t, q) :
        /\ q.where = None \/ id \in q.where
        /\ q.keys = None \/ t[q.type][id][q.column] \in q.keys}

Kept(q, n) ==
    LET rest == IF n > q.offset THEN n - q.offset ELSE 0 IN
    IF q.limit # None /\ q.limit < rest THEN q.limit ELSE rest

\* What the statement of a query may return.
Returned(t, q) ==
    {ids \in SUBSET Matching(t, q) : Cardinality(ids) = Kept(q, Cardinality(Matching(t, q)))}

\* Mutant: an edge to load does not add its column.
ReadBare(tree, a) ==
    IF tree[a].fields = << >> THEN Columns(tree[a].type) ELSE Chosen(tree[a])

\* The columns read: those selected and those that hold an edge to load.
Read(tree, a) ==
    LET q == tree[a] IN
    (IF q.fields = << >> THEN Columns(q.type)
     ELSE Chosen(q) \cup {One[q.type][e] : e \in {f \in DOMAIN One[q.type] : Append(a, f) \in DOMAIN tree}})
        \cup q.hidden

\* A column that was not read has the zero value.
Node(t, q, columns, id) ==
    [id |-> id, row |-> [c \in TableColumns[q.type] |->
                            IF c \in columns THEN t[q.type][id][c] ELSE None]]

----------------------------------------------------------------------------
\* Loading the row at the other end of a unique edge: by its identifier.
ByRow(q, nodes, column) == [q EXCEPT !.where = Both(@, {n.row[column] : n \in nodes})]

\* Mutant: the column is not selected.
ByKeyBare(q, nodes, column) ==
    [q EXCEPT !.keys = Both(@, {n.id : n \in nodes}), !.column = column]

\* Loading the rows of an edge: by the column that holds it, selected too.
ByKey(q, nodes, column) ==
    [q EXCEPT !.keys = Both(@, {n.id : n \in nodes}), !.column = column,
              !.fields = IF @ = << >> \/ column \in Chosen(q) THEN @ ELSE Append(@, column)]

PollLoad(e, q, nodes) ==
    CASE e = "owner" -> ByRow(q, nodes, "owner_id")
      [] e = "votes" -> ByKey(q, nodes, "poll_id")

\* The column of User's polls is no field of Poll: withFKs.
UserLoad(e, q, nodes) ==
    CASE e = "polls" -> [q EXCEPT !.hidden = {"user_polls"}, !.column = "user_polls",
                                  !.keys = Both(@, {n.id : n \in nodes})]
      [] e = "votes" -> ByKey(q, nodes, "user_id")

VoteLoad(e, q, nodes) ==
    CASE e = "user" -> ByRow(q, nodes, "user_id")
      [] e = "poll" -> ByRow(q, nodes, "poll_id")

Load(type, e, q, nodes) ==
    CASE type = "Poll" -> PollLoad(e, q, nodes)
      [] type = "User" -> UserLoad(e, q, nodes)
      [] type = "Vote" -> VoteLoad(e, q, nodes)

\* The nodes that are given to a node of the edge's other end.
Given(type, e, q, n, nodes) ==
    IF e \in DOMAIN One[type] THEN {m \in nodes : m.id = n.row[One[type][e]]}
    ELSE {m \in nodes : m.row[Many[type][e].column] = n.id}

----------------------------------------------------------------------------
OnlyIDs == {"IDs", "FirstID", "OnlyID", "Exist"}

\* Mutant: Only reads one row.
LimitOfOne(op) == IF op \in {"All", "IDs"} THEN None ELSE 1

\* The limit that a run sets.
LimitOf(op) ==
    CASE op \in {"All", "IDs"} -> None
      [] op \in {"First", "FirstID", "Exist"} -> 1
      [] op \in {"Only", "OnlyID"} -> 2

\* What a run does to the query for good: its limit, and the column that IDs
\* selects.
Started(tree, op) ==
    LET bounded == IF LimitOf(op) = None THEN tree ELSE Limited(tree, Root, LimitOf(op)) IN
    IF op \in OnlyIDs THEN Picked(bounded, Root, "id") ELSE bounded

\* Exist reports "missing" as FALSE.  sqlgraph refuses to scan identifiers out
\* of rows of several columns, those of an earlier selection or IDs included.
Verdict(op, q, n) ==
    IF op \in OnlyIDs /\ Len(q.fields) > 1 THEN "refused"
    ELSE IF n = 0 /\ op \notin {"All", "IDs"} THEN "missing"
    ELSE IF n > 1 /\ op \in {"Only", "OnlyID"} THEN "several"
    ELSE "found"

StartRun(op) ==
    /\ Root \in DOMAIN query /\ run = None
    /\ Calling
    /\ query' = Started(query, op)
    /\ asked' = Started(asked, op)
    /\ run' = [op |-> op, todo |-> <<Root>>, found |-> << >>]
    /\ runs' = runs + 1

Children(tree, a) ==
    LET Loaded(b) == IF b \in DOMAIN tree THEN <<b>> ELSE << >>
        order == EdgeOrder[tree[a].type] IN
    Loaded(Append(a, order[1])) \o Loaded(Append(a, order[2]))

\* Mutant: edges are loaded for no nodes.
BelowNothing(op, tree, a, nodes) ==
    IF op \in OnlyIDs THEN << >> ELSE Children(tree, a)

\* IDs loads no edges, and nothing is loaded for no nodes.
Below(op, tree, a, nodes) ==
    IF op \in OnlyIDs \/ nodes = {} THEN << >> ELSE Children(tree, a)

\* The next statement of the run.  A node that belongs to none is an error.
Statement ==
    /\ run # None /\ run.todo # << >>
    /\ LET a == Head(run.todo)
           type == query[Parent(a)].type
           above == run.found[Parent(a)]
           q == IF a = Root THEN query[a] ELSE Load(type, Edge(a), query[a], above)
           tree == [query EXCEPT ![a] = q] IN
       /\ query' = tree
       /\ \E ids \in Returned(table, q) :
             LET nodes == {Node(table, q, Read(tree, a), id) : id \in ids}
                 homeless == a # Root /\ nodes # UNION {Given(type, Edge(a), q, n, nodes) : n \in above} IN
             /\ run' = [run EXCEPT
                    !.found = Put(@, a, nodes),
                    !.todo = IF homeless THEN << >>
                             ELSE Below(run.op, tree, a, nodes) \o Tail(@)]
             /\ answer' = IF homeless
                          THEN [op |-> run.op, verdict |-> "unexpected", found |-> << >>]
                          ELSE None
    /\ UNCHANGED <<asked, runs, calls>>

Return ==
    /\ run # None /\ run.todo = << >>
    /\ run' = None
    /\ answer' = IF answer # None THEN answer
                 ELSE [op |-> run.op, found |-> run.found,
                       verdict |-> Verdict(run.op, query[Root], Cardinality(run.found[Root]))]
    /\ UNCHANGED <<query, asked, runs, calls>>

\* A query fails in any of its statements: All returns the error.
RunFails ==
    /\ run # None /\ run.todo # << >>
    /\ Mishap
    /\ run' = None
    /\ answer' = [op |-> run.op, verdict |-> "failed", found |-> << >>]
    /\ UNCHANGED <<query, asked, runs, calls>>
    /\ UNCHANGED <<table, made, said, out, applied, born, bulk, turn, steps>>

\* What others do while a query runs, or before it runs again.
Meanwhile ==
    /\ run # None \/ answer # None
    /\ Others
    /\ UNCHANGED <<query, asked, run, runs, calls>>
    /\ answer' = None

----------------------------------------------------------------------------
\* The edges to a type, from one row or from all that a query finds.
Froms(type) ==
    {None} \cup UNION {
        {[type |-> other, edge |-> e, ids |-> ids] :
            e \in {f \in DOMAIN One[other] \cup DOMAIN Many[other] : EdgeType(other, f) = type},
            ids \in {{id} : id \in Rows(table, other)} \cup {Ids[other]}} : other \in Types}

QueryInit ==
    /\ Init
    /\ query = [a \in {} |-> None] /\ asked = query /\ run = None /\ answer = None
    /\ runs = 0 /\ calls = 0

Reading ==
    \/ \E type \in Types : \E from \in Froms(type) : Ask(type, from)
    \/ Refine
    \/ \E op \in {"All", "First", "Only"} \cup OnlyIDs : StartRun(op)
    \/ Statement
    \/ Return

QueryNext ==
    \/ Root \notin DOMAIN query /\ Next /\ UNCHANGED queryVars
    \/ Reading /\ UNCHANGED vars
    \/ RunFails
    \/ Meanwhile

QuerySpec == QueryInit /\ [][QueryNext]_<<vars, queryVars>>

----------------------------------------------------------------------------
(***************************************************************************)
(* The queries of a tree belong to the edges that lead to them, and a run  *)
(* has found nodes for queries of the tree, under nodes it has found.      *)
(***************************************************************************)
TreeOK ==
    /\ DOMAIN asked = DOMAIN query
    /\ \A a \in DOMAIN query \ {Root} :
          /\ Parent(a) \in DOMAIN query
          /\ query[a].type = EdgeType(query[Parent(a)].type, Edge(a))
          /\ query[a].column \in TableColumns[query[a].type] \cup {None}
    /\ run # None =>
          \A a \in DOMAIN run.found :
              /\ a \in DOMAIN query
              /\ a # Root => run.found[Parent(a)] # {}
              /\ \A n \in run.found[a] : n.id \in Ids[query[a].type]

(***************************************************************************)
(* Whatever is selected, limited or loaded, however often the query has    *)
(* run and whatever others change between its statements, a load comes to  *)
(* no node that belongs to none: no query ends with an "unexpected         *)
(* foreign-key" (ent/poll_query.go:476,508).                               *)
(***************************************************************************)
LoadsFindTheirNodes == answer # None => answer.verdict # "unexpected"

OtherEnd(type, e, id) ==
    IF e \in DOMAIN One[type] THEN {table[type][id][One[type][e]]}
    ELSE Linked(table, type, e, id)

Unlimited(q) == q.limit = None /\ q.offset = 0

(***************************************************************************)
(* If nobody changes the tables, a query finds what its calls ask for: as  *)
(* many matching rows as the limit lets through, with the columns that are *)
(* selected, and for every edge to load, down the tree, exactly the        *)
(* matching rows at its other end, in spite of the predicates and columns  *)
(* that loading adds.  First and Only count as limits, IDs as selecting    *)
(* the identifier.  A query that runs again loads for the rows alone that  *)
(* it found each time, so it must have no limits.                          *)
(***************************************************************************)
AnswersMeanTheCalls ==
    (/\ answer # None /\ mishaps = 0 /\ answer.op \notin OnlyIDs
     /\ runs = 1 \/ \A a \in DOMAIN asked : Unlimited(asked[a])) =>
        LET found == answer.found
            IdsOf(nodes) == {n.id : n \in nodes} IN
        /\ Root \in DOMAIN found
        /\ Cardinality(found[Root]) = Kept(asked[Root], Cardinality(Matching(table, asked[Root])))
        /\ \A a \in DOMAIN found :
              /\ IdsOf(found[a]) \subseteq Matching(table, asked[a])
              /\ \A n \in found[a], c \in Columns(asked[a].type) :
                    (asked[a].fields = << >> \/ c \in Chosen(asked[a]))
                        => n.row[c] = table[asked[a].type][n.id][c]
        /\ \A a \in DOMAIN asked \ {Root} :
              (Unlimited(asked[a]) /\ Parent(a) \in DOMAIN found) =>
                  LET type == asked[Parent(a)].type IN
                  \A n \in found[Parent(a)] :
                      IdsOf(Given(type, Edge(a), asked[a], n, found[a]))
                          = Matching(table, asked[a]) \cap OtherEnd(type, Edge(a), n.id)

(***************************************************************************)
(* If nobody changes the tables, Only answers exactly if one row is left   *)
(* by the predicates and the offset, First and Exist if one or more are,   *)
(* whichever limits the calls or earlier runs have set, unless it is       *)
(* refused.                                                                *)
(***************************************************************************)
OnlyMeansOne ==
    (answer # None /\ mishaps = 0 /\ answer.op \notin {"All", "IDs"} /\ answer.verdict # "refused") =>
        LET left == Cardinality(Matching(table, asked[Root])) IN
        /\ answer.verdict = "missing" <=> left <= asked[Root].offset
        /\ answer.op \in {"Only", "OnlyID"} =>
              (answer.verdict = "found" <=> left = asked[Root].offset + 1)
=============================================================================
