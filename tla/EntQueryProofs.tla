---------------------------- MODULE EntQueryProofs ----------------------------
(***************************************************************************)
(* Proofs about the queries of the ent client, for trees of any depth,     *)
(* with any number of calls, runs and mishaps.                             *)
(***************************************************************************)
EXTENDS EntQuery, EntSaveProofs, SequenceTheorems

(***************************************************************************)
(* The inductive invariant.  The tree: its queries have their types, lie   *)
(* on edges of the query above, and want no less than what was asked.      *)
(***************************************************************************)
EdgeNames == {"owner", "votes", "polls", "user", "poll"}
EdgesOf(type) == DOMAIN One[type] \cup DOMAIN Many[type]
Names == {"id"} \cup UNION {TableColumns[type] : type \in Types}
RunOps == {"All", "First", "Only"} \cup OnlyIDs

QueryOK(q) ==
    /\ DOMAIN q = {"type", "where", "keys", "column", "limit", "offset", "fields", "hidden", "from"}
    /\ q.type \in Types
    /\ q.where # None => q.where \subseteq Ids[q.type]
    /\ q.column \in TableColumns[q.type] \cup {None}
    /\ q.limit \in {None, 1, 2} /\ q.offset \in {0, 1}
    /\ q.fields \in Seq(Names)
    /\ q.from # None =>
          /\ q.from.type \in Types /\ q.from.edge \in EdgesOf(q.from.type)
          /\ EdgeType(q.from.type, q.from.edge) = q.type

Alike(q, p) ==
    /\ q.type = p.type /\ q.limit = p.limit /\ q.offset = p.offset /\ q.from = p.from
    /\ p.keys = None
    /\ p.where # None => q.where # None /\ q.where \subseteq p.where
    /\ q.fields = << >> <=> p.fields = << >>
    /\ Chosen(p) \subseteq Chosen(q)

PathOK(tree, a) ==
    LET type == tree[Parent(a)].type
        e == Edge(a) IN
    /\ Parent(a) \in DOMAIN tree
    /\ e \in EdgesOf(type)
    /\ tree[a].type = EdgeType(type, e) /\ tree[a].from = None
    /\ tree[a].keys # None => e \in DOMAIN Many[type] /\ tree[a].column = Many[type][e].column

Trees(tree, ask) ==
    /\ DOMAIN ask = DOMAIN tree
    /\ DOMAIN tree # {} => Root \in DOMAIN tree /\ ask[Root] = tree[Root]
    /\ \A a \in DOMAIN tree :
          a \in Seq(EdgeNames) /\ QueryOK(tree[a]) /\ QueryOK(ask[a]) /\ Alike(tree[a], ask[a])
    /\ \A a \in DOMAIN tree \ {Root} : PathOK(tree, a)

(***************************************************************************)
(* The run: every query comes once, after the one above it has found       *)
(* nodes; and a node tells where the edges to load lead.                   *)
(***************************************************************************)
Under(found, a) == Parent(a) \in DOMAIN found /\ found[Parent(a)] # {}

NodeOK(tree, a, n) ==
    /\ n.id \in Ids[tree[a].type]
    /\ \A e \in DOMAIN One[tree[a].type] : Append(a, e) \in DOMAIN tree =>
          n.row[One[tree[a].type][e]] \in Ids[EdgeType(tree[a].type, e)]

RunInv ==
    run # None =>
        /\ DOMAIN run = {"op", "todo", "found"} /\ run.op \in RunOps
        /\ answer = None /\ Root \in DOMAIN query /\ runs >= 1
        /\ run.todo \in Seq(DOMAIN query) /\ DOMAIN run.found \subseteq DOMAIN query
        /\ Root \in DOMAIN run.found \/ run.todo = <<Root>>
        /\ IsInjective(run.todo)
        /\ \A a \in Range(run.todo) :
              /\ a \notin DOMAIN run.found
              /\ a # Root => Under(run.found, a)
        /\ \A a \in DOMAIN run.found :
              /\ a # Root => Under(run.found, a)
              /\ \A n \in run.found[a] : NodeOK(query, a, n)
        /\ run.op \notin {"All", "IDs"} => query[Root].limit = LimitOf(run.op)

(***************************************************************************)
(* While nobody else has changed the tables: what loading has added to a   *)
(* query keeps out no row that a row above it, if all of those are found,  *)
(* leads to; and what is found is right.                                   *)
(***************************************************************************)
IdsOf(nodes) == {n.id : n \in nodes}

Fair(tree, ask, a) ==
    LET p == tree[Parent(a)] IN
    Unlimited(p) => \A id \in Matching(table, p) :
        Matching(table, ask[a]) \cap OtherEnd(p.type, Edge(a), id) \subseteq Matching(table, tree[a])

AllFair(tree, ask) == \A a \in DOMAIN tree \ {Root} : Fair(tree, ask, a)

Right(a) ==
    LET nodes == run.found[a]
        q == query[a] IN
    /\ Cardinality(nodes) = Kept(q, Cardinality(Matching(table, q)))
    /\ IdsOf(nodes) \subseteq Matching(table, q)
    /\ Unlimited(q) => IdsOf(nodes) = Matching(table, q)
    /\ \A n \in nodes : \A c \in Read(query, a) \cap TableColumns[q.type] :
          n.row[c] = table[q.type][n.id][c]

Whole(a) ==
    LET p == query[Parent(a)]
        e == Edge(a) IN
    /\ e \in DOMAIN Many[p.type] => Many[p.type][e].column \in Read(query, a)
    /\ (Unlimited(asked[a]) /\ (runs = 1 \/ Unlimited(p))) =>
          \A n \in run.found[Parent(a)] :
              Matching(table, asked[a]) \cap OtherEnd(p.type, e, n.id) \subseteq IdsOf(run.found[a])

Complete ==
    run.op \notin OnlyIDs =>
        \A a \in DOMAIN query \ {Root} :
            Under(run.found, a) => a \in DOMAIN run.found \cup Range(run.todo)

CalmInv ==
    mishaps = 0 =>
        /\ AllFair(query, asked)
        /\ run # None =>
              /\ \A a \in DOMAIN run.found : Right(a)
              /\ \A a \in DOMAIN run.found \ {Root} : Whole(a)
              /\ Complete

FirstRun ==
    /\ runs = 0 => query = asked
    /\ run # None /\ runs = 1 =>
          \A a \in DOMAIN query : a \notin DOMAIN run.found => query[a] = asked[a]

AnswerInv ==
    answer # None =>
        /\ run = None /\ Root \in DOMAIN query
        /\ LoadsFindTheirNodes /\ AnswersMeanTheCalls /\ OnlyMeansOne

QueryInv ==
    /\ EntInv /\ Legal(table) /\ runs \in Nat
    /\ Trees(query, asked) /\ RunInv /\ CalmInv /\ FirstRun /\ AnswerInv

----------------------------------------------------------------------------
(***************************************************************************)
(* Paths.                                                                  *)
(***************************************************************************)
LEMMA AppendFacts ==
    ASSUME NEW a \in Seq(EdgeNames), NEW e \in EdgeNames
    PROVE  /\ Append(a, e) \in Seq(EdgeNames) /\ Append(a, e) # Root
           /\ Len(Append(a, e)) = Len(a) + 1
           /\ Parent(Append(a, e)) = a /\ Edge(Append(a, e)) = e
<1>1. /\ Append(a, e) \in Seq(EdgeNames) /\ Len(Append(a, e)) = Len(a) + 1
      /\ Len(a) \in Nat
      /\ Append(a, e)[Len(a) + 1] = e
      /\ \A i \in 1 .. Len(a) : Append(a, e)[i] = a[i]
  BY AppendProperties, LenProperties
<1>2. Append(a, e) # Root
  BY AppendProperties DEF Root
<1>3. Len(Append(a, e)) - 1 = Len(a)
  BY <1>1
<1>4. Parent(Append(a, e)) = SubSeq(Append(a, e), 1, Len(a))
  BY <1>3 DEF Parent
<1>5. \A i \in 1 .. Len(a) : Append(a, e)[i] \in EdgeNames
  BY <1>1, ElementOfSeq
<1>6. /\ SubSeq(Append(a, e), 1, Len(a)) \in Seq(EdgeNames)
      /\ Len(SubSeq(Append(a, e), 1, Len(a))) = IF 1 <= Len(a) THEN Len(a) - 1 + 1 ELSE 0
      /\ \A i \in 1 .. Len(a) - 1 + 1 : SubSeq(Append(a, e), 1, Len(a))[i] = Append(a, e)[1 + i - 1]
  BY <1>1, <1>5, SubSeqProperties
<1>7. SubSeq(Append(a, e), 1, Len(a)) = a
  <2>1. Len(SubSeq(Append(a, e), 1, Len(a))) = Len(a)
    BY <1>1, <1>6
  <2>2. \A i \in 1 .. Len(a) : SubSeq(Append(a, e), 1, Len(a))[i] = a[i]
    BY <1>1, <1>6
  <2> QED
    BY <1>6, <2>1, <2>2, SeqEqual
<1>8. Edge(Append(a, e)) = e
  BY <1>1 DEF Edge
<1> QED
  BY <1>1, <1>2, <1>4, <1>7, <1>8

LEMMA PathFacts ==
    ASSUME NEW a \in Seq(EdgeNames), a # Root
    PROVE  /\ Parent(a) \in Seq(EdgeNames) /\ Edge(a) \in EdgeNames
           /\ a = Append(Parent(a), Edge(a)) /\ Len(a) = Len(Parent(a)) + 1
           /\ Parent(a) # a
<1>1. PICK b \in Seq(EdgeNames), e \in EdgeNames : a = Append(b, e)
  BY SequenceEmptyOrAppend DEF Root
<1>2. Parent(a) = b /\ Edge(a) = e /\ Len(a) = Len(b) + 1
  BY <1>1, AppendFacts
<1>3. Len(b) \in Nat
  BY LenProperties
<1>4. a # b
  BY <1>2, <1>3
<1> QED
  BY <1>1, <1>2, <1>4

LEMMA RootFacts == Root \in Seq(EdgeNames) /\ Len(Root) = 0
BY DEF Root

(***************************************************************************)
(* The edges of an entity.                                                 *)
(***************************************************************************)
LEMMA OrderFacts ==
    ASSUME NEW type \in Types
    PROVE  /\ EdgesOf(type) = {EdgeOrder[type][1], EdgeOrder[type][2]}
           /\ EdgeOrder[type][1] # EdgeOrder[type][2]
           /\ EdgesOf(type) \subseteq EdgeNames
           /\ DOMAIN One[type] \cap DOMAIN Many[type] = {}
<1>1. /\ EdgeOrder["Poll"][1] = "owner" /\ EdgeOrder["Poll"][2] = "votes"
      /\ EdgeOrder["User"][1] = "polls" /\ EdgeOrder["User"][2] = "votes"
      /\ EdgeOrder["Vote"][1] = "user" /\ EdgeOrder["Vote"][2] = "poll"
  BY DEF EdgeOrder
<1> QED
  BY <1>1, EdgeFacts DEF EdgesOf, EdgeNames, Types

LEMMA EdgeTypeFacts ==
    ASSUME NEW type \in Types, NEW e \in EdgesOf(type)
    PROVE  /\ EdgeType(type, e) \in Types
           /\ e \in DOMAIN One[type] =>
                 /\ One[type][e] \in Columns(type) /\ One[type][e] \in TableColumns[type]
                 /\ One[type][e] \notin Nullable[type]
                 /\ One[type][e] \in DOMAIN ForeignKeys[type]
                 /\ EdgeType(type, e) = ForeignKeys[type][One[type][e]]
           /\ e \in DOMAIN Many[type] =>
                 /\ e \notin DOMAIN One[type]
                 /\ EdgeType(type, e) = Many[type][e].type
                 /\ Many[type][e].column \in TableColumns[EdgeType(type, e)]
<1>1. /\ DOMAIN ForeignKeys["Poll"] = {"owner_id", "user_polls"}
      /\ DOMAIN ForeignKeys["Vote"] = {"user_id", "poll_id"}
      /\ ForeignKeys["Poll"]["owner_id"] = "User"
      /\ ForeignKeys["Vote"]["user_id"] = "User" /\ ForeignKeys["Vote"]["poll_id"] = "Poll"
  BY DEF ForeignKeys
<1>2. CASE e \in DOMAIN One[type]
  <2>1. EdgeType(type, e) = ForeignKeys[type][One[type][e]]
    BY <1>2 DEF EdgeType
  <2>2. e \notin DOMAIN Many[type]
    BY <1>2, OrderFacts
  <2> QED
    BY <1>1, <1>2, <2>1, <2>2, ColumnFacts, EdgeFacts, TableFacts DEF Types
<1>3. CASE e \in DOMAIN Many[type]
  <2>1. e \notin DOMAIN One[type]
    BY <1>3, OrderFacts
  <2>2. EdgeType(type, e) = Many[type][e].type
    BY <2>1 DEF EdgeType
  <2>3. Many[type][e].type \in Types /\ Many[type][e].column \in TableColumns[Many[type][e].type]
    BY <1>3, ManyFacts
  <2> QED
    BY <2>1, <2>2, <2>3
<1> QED
  BY <1>2, <1>3 DEF EdgesOf

----------------------------------------------------------------------------
(***************************************************************************)
(* The tables keep their constraints.                                      *)
(***************************************************************************)
LEMMA LegalResults ==
    ASSUME NEW t, Legal(t)
    PROVE  /\ \A m : \A u \in Inserted(t, m) : Legal(u)
           /\ \A m : \A u \in Updated(t, m) : Legal(u)
           /\ \A type, ids : \A u \in Removed(t, type, ids) : Legal(u)
           /\ \A m, n : \A u \in Batch(t, m, n) : Legal(u)
<1>1. ASSUME NEW m, NEW u \in Inserted(t, m) PROVE Legal(u)
  BY DEF Inserted
<1>2. ASSUME NEW m, NEW u \in Updated(t, m) PROVE Legal(u)
  BY DEF Updated
<1>3. ASSUME NEW type, NEW ids, NEW u \in Removed(t, type, ids) PROVE Legal(u)
  BY DEF Removed
<1>4. ASSUME NEW m, NEW n, NEW u \in Batch(t, m, n) PROVE Legal(u)
  <2>1. PICK w \in Inserted(t, m) : u \in Inserted(w, n)
    BY DEF Batch
  <2> QED
    BY <2>1 DEF Inserted
<1> QED
  BY <1>1, <1>2, <1>3, <1>4

LEMMA OthersLegal ==
    ASSUME Legal(table), Others
    PROVE  Legal(table')
BY LegalResults DEF Others

LEMMA LegalStep ==
    ASSUME EntInv, Legal(table), EntStep
    PROVE  Legal(table')
<1>1. ASSUME NEW b \in DOMAIN made, SaveCreate(b)
      PROVE  Legal(table')
  <2>1. \E m : table' = table \/ table' \in Inserted(table, m)
    BY <1>1, LegalResults DEF SaveCreate, Execute, Invalid, NoEffect, Effect
  <2> QED
    BY <2>1, LegalResults
<1>2. ASSUME NEW b \in DOMAIN made, SaveUpdate(b)
      PROVE  Legal(table')
  <2>1. \E m : table' = table \/ table' \in Updated(table, m)
    BY <1>2, LegalResults DEF SaveUpdate, Execute, Invalid, NoEffect, Effect
  <2> QED
    BY <2>1, LegalResults
<1>3. ASSUME NEW b \in DOMAIN made, ExecDelete(b)
      PROVE  Legal(table')
  <2>1. \E type, ids : table' = table \/ table' \in Removed(table, type, ids)
    BY <1>3, LegalResults DEF ExecDelete, Execute, Invalid, NoEffect, Effect
  <2> QED
    BY <2>1, LegalResults
<1>4. ASSUME NEW a \in DOMAIN made, NEW b \in DOMAIN made, SaveBulk(a, b) \/ Mutate(a, b)
      PROVE  Legal(table')
  <2>1. CASE SaveBulk(a, b)
    BY <2>1 DEF SaveBulk
  <2>2. CASE Mutate(a, b)
    <3>1. \E m, n : table' = table \/ table' \in Batch(table, m, n)
      BY <2>2 DEF Mutate, Execute, Invalid, NoEffect, Effect
    <3> QED
      BY <3>1, LegalResults
  <2> QED
    BY <1>4, <2>1, <2>2
<1>5. ASSUME NEW b \in Builders, Use(b)
      PROVE  Legal(table')
  <2>1. b \in DOMAIN made
    BY <1>5 DEF Use
  <2>2. ASSUME NEW call \in CallsOf(made[b]), NEW v \in Arguments(made[b], call), Call(b, call, v)
        PROVE  Legal(table')
    BY <2>2 DEF Call
  <2>3. CASE Chain(b)
    BY <2>3 DEF Chain
  <2>4. CASE ReadOld(b)
    BY <2>4 DEF ReadOld
  <2>5. CASE \E c \in DOMAIN made : SaveBulk(b, c) \/ Mutate(b, c)
    BY <1>4, <2>1, <2>5
  <2>6. CASE \/ \E call \in CallsOf(made[b]) : \E v \in Arguments(made[b], call) : Call(b, call, v)
             \/ Chain(b)
             \/ ReadOld(b)
             \/ SaveCreate(b) \/ SaveUpdate(b) \/ ExecDelete(b)
    BY <1>1, <1>2, <1>3, <2>1, <2>2, <2>3, <2>4, <2>6
  <2> QED
    BY <1>5, <2>5, <2>6 DEF Use
<1>6. ASSUME NEW b \in Builders, NEW offer \in Offers, Begin(b, offer[1], offer[2])
      PROVE  Legal(table')
  BY <1>6 DEF Begin
<1> QED
  BY <1>5, <1>6, OthersLegal DEF EntStep, Next, Elsewhere

(***************************************************************************)
(* So a row leads, along a unique edge, to a row there is.                 *)
(***************************************************************************)
LEMMA RefFacts ==
    ASSUME TableOK(table), Legal(table), NEW type \in Types, NEW id \in Rows(table, type),
           NEW e \in DOMAIN One[type]
    PROVE  /\ table[type][id][One[type][e]] \in Rows(table, EdgeType(type, e))
           /\ table[type][id][One[type][e]] \in Ids[EdgeType(type, e)]
<1>1. /\ EdgeType(type, e) \in Types /\ One[type][e] \in TableColumns[type]
      /\ One[type][e] \notin Nullable[type] /\ One[type][e] \in DOMAIN ForeignKeys[type]
      /\ EdgeType(type, e) = ForeignKeys[type][One[type][e]]
  BY EdgeTypeFacts DEF EdgesOf
<1>2. table[type][id][One[type][e]] \in Rows(table, ForeignKeys[type][One[type][e]])
  BY <1>1 DEF Legal
<1> QED
  BY <1>1, <1>2 DEF TableOK

----------------------------------------------------------------------------
(***************************************************************************)
(* A new query, and a query that a call or a statement changes.            *)
(***************************************************************************)
LEMMA NewFacts ==
    ASSUME NEW type \in Types, NEW from,
           from # None => /\ from.type \in Types /\ from.edge \in EdgesOf(from.type)
                          /\ EdgeType(from.type, from.edge) = type,
           NEW q, q = New(type, from)
    PROVE  QueryOK(q) /\ Alike(q, q) /\ q.type = type /\ q.from = from /\ q.keys = None
<1>1. /\ DOMAIN q = {"type", "where", "keys", "column", "limit", "offset", "fields",
                     "hidden", "from"}
      /\ q.type = type /\ q.where = None /\ q.keys = None /\ q.column = None
      /\ q.limit = None /\ q.offset = 0 /\ q.fields = << >> /\ q.from = from
  BY DEF New
<1>2. << >> \in Seq(Names)
  OBVIOUS
<1> QED
  BY <1>1, <1>2 DEF QueryOK, Alike

LEMMA TreesChange ==
    ASSUME NEW tree, NEW ask, Trees(tree, ask), NEW b \in DOMAIN tree, NEW q, NEW p,
           QueryOK(q), QueryOK(p), Alike(q, p), q.type = tree[b].type, q.from = tree[b].from,
           b = Root => p = q,
           b # Root /\ q.keys # None =>
              /\ Edge(b) \in DOMAIN Many[tree[Parent(b)].type]
              /\ q.column = Many[tree[Parent(b)].type][Edge(b)].column,
           NEW tree2, tree2 = [tree EXCEPT ![b] = q],
           NEW ask2, ask2 = [ask EXCEPT ![b] = p]
    PROVE  Trees(tree2, ask2)
<1>1. /\ DOMAIN tree2 = DOMAIN tree /\ DOMAIN ask2 = DOMAIN tree
      /\ tree2[b] = q /\ ask2[b] = p
      /\ \A a \in DOMAIN tree \ {b} : tree2[a] = tree[a] /\ ask2[a] = ask[a]
  BY DEF Trees
<1>2. Root \in DOMAIN tree2 /\ ask2[Root] = tree2[Root]
  BY <1>1 DEF Trees
<1>3. ASSUME NEW a \in DOMAIN tree
      PROVE  /\ a \in Seq(EdgeNames) /\ QueryOK(tree2[a]) /\ QueryOK(ask2[a])
             /\ Alike(tree2[a], ask2[a])
             /\ tree2[a].type = tree[a].type /\ tree2[a].from = tree[a].from
  BY <1>1 DEF Trees
<1>4. ASSUME NEW a \in DOMAIN tree \ {Root}
      PROVE  PathOK(tree2, a)
  <2>1. PathOK(tree, a)
    BY DEF Trees
  <2>2. /\ tree2[Parent(a)].type = tree[Parent(a)].type
        /\ tree2[a].type = tree[a].type /\ tree2[a].from = tree[a].from
    BY <1>3, <2>1 DEF PathOK
  <2>3. CASE a = b
    BY <1>1, <2>1, <2>2, <2>3 DEF PathOK
  <2>4. CASE a # b
    <3>1. tree2[a] = tree[a]
      BY <1>1, <2>4
    <3> QED
      BY <1>1, <2>1, <2>2, <3>1 DEF PathOK
  <2> QED
    BY <2>3, <2>4
<1> QED
  BY <1>1, <1>2, <1>3, <1>4 DEF Trees

LEMMA MatchingFacts ==
    ASSUME NEW t, NEW q, NEW p, q.type = p.type, q.from = p.from, q.keys = p.keys,
           q.column = p.column
    PROVE  /\ Reached(t, q) = Reached(t, p)
           /\ q.where = p.where => Matching(t, q) = Matching(t, p)
<1>1. Reached(t, q) = Reached(t, p)
  BY DEF Reached
<1>2. ASSUME q.where = p.where
      PROVE  Matching(t, q) = Matching(t, p)
  BY <1>1, <1>2 DEF Matching
<1> QED
  BY <1>1, <1>2

LEMMA MatchingWhere ==
    ASSUME NEW t, NEW q, NEW p, q.type = p.type, q.from = p.from, q.keys = p.keys,
           q.column = p.column,
           NEW S, q.where # None, q.where = Both(p.where, S)
    PROVE  Matching(t, q) = Matching(t, p) \cap S
<1>1. Reached(t, q) = Reached(t, p)
  BY DEF Reached
<1> QED
  BY <1>1 DEF Matching, Both

(***************************************************************************)
(* A call does the same to the query and to what was asked.                *)
(***************************************************************************)
Refined(q, p, q2, p2) ==
    /\ QueryOK(q2) /\ QueryOK(p2) /\ Alike(q2, p2)
    /\ q2.type = q.type /\ q2.from = q.from /\ q2.keys = q.keys /\ q2.column = q.column
    /\ p = q => p2 = q2
    /\ Unlimited(q2) => Unlimited(q)
    /\ \E X : /\ Matching(table, q2) = Matching(table, q) \cap X
              /\ Matching(table, p2) = Matching(table, p) \cap X

LEMMA ChosenFacts ==
    ASSUME NEW q, q.fields \in Seq(Names), NEW c \in Names,
           NEW q2, q2.fields = Append(q.fields, c)
    PROVE  /\ q2.fields \in Seq(Names) /\ q2.fields # << >>
           /\ Chosen(q2) = Chosen(q) \cup {c}
<1>1. PICK l \in Seq(Names) : l = q.fields
  OBVIOUS
<1>2. /\ Append(l, c) \in Seq(Names) /\ Append(l, c) # << >>
      /\ Len(Append(l, c)) = Len(l) + 1 /\ Len(l) \in Nat
      /\ \A i \in 1 .. Len(l) : Append(l, c)[i] = l[i]
      /\ Append(l, c)[Len(l) + 1] = c
  BY AppendProperties, LenProperties
<1>3. DOMAIN l = 1 .. Len(l) /\ DOMAIN Append(l, c) = 1 .. Len(l) + 1
  BY <1>2, LenProperties
<1>4. {Append(l, c)[i] : i \in 1 .. Len(l) + 1} = {l[i] : i \in 1 .. Len(l)} \cup {c}
  BY <1>2
<1> QED
  BY <1>1, <1>2, <1>3, <1>4 DEF Chosen

LEMMA RefinedFacts ==
    ASSUME NEW q, NEW p, QueryOK(q), QueryOK(p), Alike(q, p)
    PROVE  /\ \A id \in Ids[q.type] :
                 Refined(q, p, [q EXCEPT !.where = Both(@, {id})], [p EXCEPT !.where = Both(@, {id})])
           /\ \A n \in {1, 2} : Refined(q, p, [q EXCEPT !.limit = n], [p EXCEPT !.limit = n])
           /\ Refined(q, p, [q EXCEPT !.offset = 1], [p EXCEPT !.offset = 1])
           /\ \A c \in Names : Refined(q, p, [q EXCEPT !.fields = Append(@, c)],
                                             [p EXCEPT !.fields = Append(@, c)])
<1>0. q.type \in Types /\ p.type = q.type /\ q.from = p.from
  BY DEF QueryOK, Alike
<1>1. ASSUME NEW id \in Ids[q.type]
      PROVE  Refined(q, p, [q EXCEPT !.where = Both(@, {id})], [p EXCEPT !.where = Both(@, {id})])
  <2>1. PICK q2, p2 : q2 = [q EXCEPT !.where = Both(@, {id})] /\ p2 = [p EXCEPT !.where = Both(@, {id})]
    OBVIOUS
  <2>2. /\ Both(q.where, {id}) \subseteq Ids[q.type] /\ Both(q.where, {id}) # None
        /\ Both(p.where, {id}) \subseteq Ids[q.type] /\ Both(p.where, {id}) # None
    <3>1. /\ Both(q.where, {id}) \subseteq Ids[q.type] /\ Both(p.where, {id}) \subseteq Ids[q.type]
      BY DEF Both
    <3> QED
      BY <1>0, <3>1, IdsAssumption
  <2>3. /\ DOMAIN q2 = DOMAIN q /\ q2.type = q.type /\ q2.from = q.from /\ q2.keys = q.keys
        /\ q2.column = q.column /\ q2.limit = q.limit /\ q2.offset = q.offset
        /\ q2.fields = q.fields /\ q2.where = Both(q.where, {id})
        /\ DOMAIN p2 = DOMAIN p /\ p2.type = p.type /\ p2.from = p.from /\ p2.keys = p.keys
        /\ p2.column = p.column /\ p2.limit = p.limit /\ p2.offset = p.offset
        /\ p2.fields = p.fields /\ p2.where = Both(p.where, {id})
    BY <2>1 DEF QueryOK
  <2>4. QueryOK(q2) /\ QueryOK(p2)
    BY <1>0, <2>2, <2>3 DEF QueryOK
  <2>5. Alike(q2, p2)
    <3>1. q2.where \subseteq p2.where
      BY <2>3 DEF Alike, Both
    <3> QED
      BY <2>2, <2>3, <3>1 DEF Alike, Chosen
  <2>6. /\ Matching(table, q2) = Matching(table, q) \cap {id}
        /\ Matching(table, p2) = Matching(table, p) \cap {id}
    BY <2>2, <2>3, MatchingWhere
  <2>7. Refined(q, p, q2, p2)
    BY <2>1, <2>3, <2>4, <2>5, <2>6 DEF Refined, Unlimited
  <2> QED
    BY <2>1, <2>7
<1>2. ASSUME NEW q2, NEW p2, QueryOK(q2), QueryOK(p2), Alike(q2, p2),
             q2.type = q.type, q2.from = q.from, q2.keys = q.keys, q2.column = q.column,
             q2.where = q.where,
             p2.type = p.type, p2.from = p.from, p2.keys = p.keys, p2.column = p.column,
             p2.where = p.where,
             p = q => p2 = q2, Unlimited(q2) => Unlimited(q)
      PROVE  Refined(q, p, q2, p2)
  <2>1. Matching(table, q2) = Matching(table, q) /\ Matching(table, p2) = Matching(table, p)
    BY <1>2, MatchingFacts
  <2>2. PICK X : X = Matching(table, q) \cup Matching(table, p)
    OBVIOUS
  <2>3. /\ Matching(table, q2) = Matching(table, q) \cap X
        /\ Matching(table, p2) = Matching(table, p) \cap X
    BY <2>1, <2>2
  <2> QED
    BY <1>2, <2>3 DEF Refined
<1>3. ASSUME NEW n \in {1, 2}
      PROVE  Refined(q, p, [q EXCEPT !.limit = n], [p EXCEPT !.limit = n])
  <2>1. PICK q2, p2 : q2 = [q EXCEPT !.limit = n] /\ p2 = [p EXCEPT !.limit = n]
    OBVIOUS
  <2>2. QueryOK(q2) /\ QueryOK(p2) /\ Alike(q2, p2) /\ ~Unlimited(q2)
    BY <2>1, LimitAssumption DEF QueryOK, Alike, Chosen, Unlimited
  <2>3. Refined(q, p, q2, p2)
    BY <1>2, <2>1, <2>2 DEF QueryOK
  <2> QED
    BY <2>1, <2>3
<1>4. Refined(q, p, [q EXCEPT !.offset = 1], [p EXCEPT !.offset = 1])
  <2>1. PICK q2, p2 : q2 = [q EXCEPT !.offset = 1] /\ p2 = [p EXCEPT !.offset = 1]
    OBVIOUS
  <2>2. QueryOK(q2) /\ QueryOK(p2) /\ Alike(q2, p2) /\ ~Unlimited(q2)
    BY <2>1 DEF QueryOK, Alike, Chosen, Unlimited
  <2>3. Refined(q, p, q2, p2)
    BY <1>2, <2>1, <2>2 DEF QueryOK
  <2> QED
    BY <2>1, <2>3
<1>5. ASSUME NEW c \in Names
      PROVE  Refined(q, p, [q EXCEPT !.fields = Append(@, c)], [p EXCEPT !.fields = Append(@, c)])
  <2>1. PICK q2, p2 : q2 = [q EXCEPT !.fields = Append(@, c)] /\ p2 = [p EXCEPT !.fields = Append(@, c)]
    OBVIOUS
  <2>2. /\ DOMAIN q2 = DOMAIN q /\ q2.type = q.type /\ q2.from = q.from /\ q2.keys = q.keys
        /\ q2.column = q.column /\ q2.limit = q.limit /\ q2.offset = q.offset
        /\ q2.where = q.where /\ q2.fields = Append(q.fields, c)
        /\ DOMAIN p2 = DOMAIN p /\ p2.type = p.type /\ p2.from = p.from /\ p2.keys = p.keys
        /\ p2.column = p.column /\ p2.limit = p.limit /\ p2.offset = p.offset
        /\ p2.where = p.where /\ p2.fields = Append(p.fields, c)
    BY <2>1 DEF QueryOK
  <2>0. q.fields \in Seq(Names) /\ p.fields \in Seq(Names)
    BY DEF QueryOK
  <2>3. /\ q2.fields \in Seq(Names) /\ p2.fields \in Seq(Names)
        /\ q2.fields # << >> /\ p2.fields # << >>
        /\ Chosen(q2) = Chosen(q) \cup {c} /\ Chosen(p2) = Chosen(p) \cup {c}
    BY <2>0, <2>2, ChosenFacts
  <2>4. QueryOK(q2) /\ QueryOK(p2)
    BY <1>0, <2>2, <2>3 DEF QueryOK
  <2>5. Alike(q2, p2)
    BY <2>2, <2>3 DEF Alike
  <2>6. Refined(q, p, q2, p2)
    BY <1>2, <2>1, <2>2, <2>4, <2>5 DEF Unlimited
  <2> QED
    BY <2>1, <2>6
<1> QED
  BY <1>1, <1>3, <1>4, <1>5

(***************************************************************************)
(* A tree in which one query changes.  The rows of the query below it only *)
(* matter less.                                                            *)
(***************************************************************************)
LEMMA FairChange ==
    ASSUME NEW tree, NEW ask, Trees(tree, ask), AllFair(tree, ask),
           NEW b \in DOMAIN tree, NEW q, NEW p,
           q.type = tree[b].type,
           Unlimited(q) => Unlimited(tree[b]),
           Matching(table, q) \subseteq Matching(table, tree[b]),
           NEW tree2, tree2 = [tree EXCEPT ![b] = q],
           NEW ask2, ask2 = [ask EXCEPT ![b] = p],
           b # Root => Fair(tree2, ask2, b)
    PROVE  AllFair(tree2, ask2)
<1>1. /\ DOMAIN tree2 = DOMAIN tree /\ DOMAIN ask2 = DOMAIN tree
      /\ tree2[b] = q /\ ask2[b] = p
      /\ \A a \in DOMAIN tree \ {b} : tree2[a] = tree[a] /\ ask2[a] = ask[a]
  BY DEF Trees
<1>2. SUFFICES ASSUME NEW a \in DOMAIN tree \ {Root}, a # b
               PROVE  Fair(tree2, ask2, a)
  BY <1>1 DEF AllFair
<1>3. Parent(a) \in DOMAIN tree /\ Fair(tree, ask, a)
  BY DEF Trees, PathOK, AllFair
<1>4. tree2[a] = tree[a] /\ ask2[a] = ask[a]
  BY <1>1, <1>2
<1>5. CASE Parent(a) = b
  BY <1>1, <1>3, <1>4, <1>5 DEF Fair
<1>6. CASE Parent(a) # b
  <2>1. tree2[Parent(a)] = tree[Parent(a)]
    BY <1>1, <1>3, <1>6
  <2> QED
    BY <1>3, <1>4, <2>1 DEF Fair
<1> QED
  BY <1>5, <1>6

LEMMA RefineFair ==
    ASSUME NEW tree, NEW ask, Trees(tree, ask), AllFair(tree, ask),
           NEW b \in DOMAIN tree, NEW q, NEW p, Refined(tree[b], ask[b], q, p),
           NEW tree2, tree2 = [tree EXCEPT ![b] = q],
           NEW ask2, ask2 = [ask EXCEPT ![b] = p]
    PROVE  AllFair(tree2, ask2)
<1>1. PICK X : /\ Matching(table, q) = Matching(table, tree[b]) \cap X
               /\ Matching(table, p) = Matching(table, ask[b]) \cap X
  BY DEF Refined
<1>2. /\ q.type = tree[b].type /\ (Unlimited(q) => Unlimited(tree[b]))
      /\ Matching(table, q) \subseteq Matching(table, tree[b])
  BY <1>1 DEF Refined
<1>3. ASSUME b # Root
      PROVE  Fair(tree2, ask2, b)
  <2>1. Parent(b) \in DOMAIN tree /\ b \in Seq(EdgeNames)
    BY <1>3 DEF Trees, PathOK
  <2>2. Parent(b) # b
    BY <1>3, <2>1, PathFacts
  <2>3. tree2[Parent(b)] = tree[Parent(b)] /\ tree2[b] = q /\ ask2[b] = p
    BY <2>1, <2>2 DEF Trees
  <2>4. Fair(tree, ask, b)
    BY <1>3 DEF AllFair
  <2> QED
    BY <1>1, <2>3, <2>4 DEF Fair
<1> QED
  BY <1>2, <1>3, FairChange

LEMMA RefineTrees ==
    ASSUME NEW tree, NEW ask, Trees(tree, ask),
           NEW b \in DOMAIN tree, NEW q, NEW p, Refined(tree[b], ask[b], q, p),
           NEW tree2, tree2 = [tree EXCEPT ![b] = q],
           NEW ask2, ask2 = [ask EXCEPT ![b] = p]
    PROVE  Trees(tree2, ask2)
<1>1. /\ QueryOK(q) /\ QueryOK(p) /\ Alike(q, p) /\ q.type = tree[b].type
      /\ q.from = tree[b].from /\ q.keys = tree[b].keys /\ q.column = tree[b].column
      /\ ask[b] = tree[b] => p = q
  BY DEF Refined
<1>2. b = Root => p = q
  BY <1>1 DEF Trees
<1>3. b # Root /\ q.keys # None =>
         /\ Edge(b) \in DOMAIN Many[tree[Parent(b)].type]
         /\ q.column = Many[tree[Parent(b)].type][Edge(b)].column
  BY <1>1 DEF Trees, PathOK
<1> QED
  BY <1>1, <1>2, <1>3, TreesChange

----------------------------------------------------------------------------
(***************************************************************************)
(* With: what was below the edge before goes, whole.                       *)
(***************************************************************************)
LEMMA PrefixFacts ==
    ASSUME NEW c \in Seq(EdgeNames), c # Root, NEW n \in Nat, n <= Len(Parent(c))
    PROVE  SubSeq(c, 1, n) = SubSeq(Parent(c), 1, n)
<1>1. PICK p, x : p = Parent(c) /\ x = Edge(c)
  OBVIOUS
<1>2. p \in Seq(EdgeNames) /\ x \in EdgeNames /\ c = Append(p, x) /\ n <= Len(p)
  BY <1>1, PathFacts
<1>3. /\ Len(p) \in Nat /\ Len(c) = Len(p) + 1
      /\ \A i \in 1 .. Len(p) : c[i] = p[i]
  BY <1>2, AppendProperties, LenProperties
<1>4. /\ \A i \in 1 .. n : p[i] \in EdgeNames
      /\ \A i \in 1 .. n : c[i] \in EdgeNames
  BY <1>2, <1>3, ElementOfSeq
<1>5. /\ SubSeq(c, 1, n) \in Seq(EdgeNames)
      /\ Len(SubSeq(c, 1, n)) = IF 1 <= n THEN n - 1 + 1 ELSE 0
      /\ \A i \in 1 .. n - 1 + 1 : SubSeq(c, 1, n)[i] = c[1 + i - 1]
  BY <1>4, SubSeqProperties
<1>6. /\ SubSeq(p, 1, n) \in Seq(EdgeNames)
      /\ Len(SubSeq(p, 1, n)) = IF 1 <= n THEN n - 1 + 1 ELSE 0
      /\ \A i \in 1 .. n - 1 + 1 : SubSeq(p, 1, n)[i] = p[1 + i - 1]
  BY <1>4, SubSeqProperties
<1>7. Len(SubSeq(c, 1, n)) = n /\ Len(SubSeq(p, 1, n)) = n
  BY <1>5, <1>6
<1>8. \A i \in 1 .. n : SubSeq(c, 1, n)[i] = SubSeq(p, 1, n)[i]
  <2>1. \A i \in 1 .. n : i \in 1 .. n - 1 + 1 /\ 1 + i - 1 = i /\ i \in 1 .. Len(p)
    BY <1>2, <1>3
  <2> QED
    BY <1>3, <1>5, <1>6, <2>1
<1>9. SubSeq(c, 1, n) = SubSeq(p, 1, n)
  BY <1>5, <1>6, <1>7, <1>8, SeqEqual
<1> QED
  BY <1>1, <1>9

OldPaths(tree, a, b) == {c \in DOMAIN tree : Len(c) > Len(a) /\ SubSeq(c, 1, Len(b)) = b}

LEMMA OldFacts ==
    ASSUME NEW tree, DOMAIN tree \subseteq Seq(EdgeNames), NEW a \in DOMAIN tree,
           NEW e \in EdgeNames, NEW b, b = Append(a, e),
           NEW c \in DOMAIN tree \ OldPaths(tree, a, b), c # Root, Parent(c) \in DOMAIN tree
    PROVE  Parent(c) \notin OldPaths(tree, a, b) /\ Parent(c) # b
<1>1. /\ a \in Seq(EdgeNames) /\ c \in Seq(EdgeNames)
      /\ b \in Seq(EdgeNames) /\ Len(b) = Len(a) + 1
      /\ Parent(c) \in Seq(EdgeNames) /\ Len(c) = Len(Parent(c)) + 1
  BY AppendFacts, PathFacts
<1>2. Len(a) \in Nat /\ Len(b) \in Nat /\ Len(c) \in Nat /\ Len(Parent(c)) \in Nat
  BY <1>1, LenProperties
<1>3. ASSUME Len(Parent(c)) > Len(a), SubSeq(Parent(c), 1, Len(b)) = b
      PROVE  FALSE
  <2>1. Len(b) <= Len(Parent(c))
    BY <1>1, <1>2, <1>3
  <2>2. SubSeq(c, 1, Len(b)) = b
    BY <1>1, <1>2, <1>3, <2>1, PrefixFacts
  <2>3. Len(c) > Len(a)
    BY <1>1, <1>2, <1>3
  <2> QED
    BY <2>2, <2>3 DEF OldPaths
<1>4. Parent(c) \notin OldPaths(tree, a, b)
  BY <1>3 DEF OldPaths
<1>5. Parent(c) # b
  <2>1. SUFFICES ASSUME Parent(c) = b
                 PROVE  FALSE
    OBVIOUS
  <2>2. Len(c) = Len(b) + 1
    BY <1>1, <2>1
  <2>3. Len(c) > Len(a) /\ Len(b) <= Len(Parent(c))
    BY <1>1, <1>2, <2>1, <2>2
  <2>4. SubSeq(c, 1, Len(b)) = SubSeq(b, 1, Len(b))
    BY <1>1, <1>2, <2>1, <2>3, PrefixFacts
  <2>5. SubSeq(b, 1, Len(b)) = b
    BY <1>1, SubSeqFull
  <2> QED
    BY <2>3, <2>4, <2>5 DEF OldPaths
<1> QED
  BY <1>4, <1>5

LEMMA WithTrees ==
    ASSUME NEW tree, NEW ask, Trees(tree, ask),
           NEW a \in DOMAIN tree, NEW e \in EdgesOf(tree[a].type),
           NEW tree2, tree2 = With(tree, a, e), NEW ask2, ask2 = With(ask, a, e)
    PROVE  /\ Trees(tree2, ask2)
           /\ AllFair(tree, ask) => AllFair(tree2, ask2)
<1>1. PICK b : b = Append(a, e)
  OBVIOUS
<1>2. PICK old : old = OldPaths(tree, a, b)
  OBVIOUS
<1>3. PICK q : q = New(EdgeType(tree[a].type, e), None)
  OBVIOUS
<1>4. /\ DOMAIN tree \subseteq Seq(EdgeNames) /\ a \in Seq(EdgeNames)
      /\ DOMAIN ask = DOMAIN tree /\ ask[a].type = tree[a].type
      /\ QueryOK(tree[a]) /\ tree[a].type \in Types
      /\ Root \in DOMAIN tree /\ ask[Root] = tree[Root]
  BY DEF Trees, Alike, QueryOK
<1>5. e \in EdgeNames /\ EdgeType(tree[a].type, e) \in Types
  BY <1>4, OrderFacts, EdgeTypeFacts
<1>6. /\ b \in Seq(EdgeNames) /\ b # Root /\ Len(b) = Len(a) + 1
      /\ Parent(b) = a /\ Edge(b) = e
  BY <1>1, <1>4, <1>5, AppendFacts
<1>7. QueryOK(q) /\ Alike(q, q) /\ q.type = EdgeType(tree[a].type, e) /\ q.from = None
      /\ q.keys = None
  BY <1>3, <1>5, NewFacts
<1>8. tree2 = Put([c \in DOMAIN tree \ old |-> tree[c]], b, q)
      /\ ask2 = Put([c \in DOMAIN tree \ old |-> ask[c]], b, q)
  BY <1>1, <1>2, <1>3, <1>4 DEF With, OldPaths
<1>9. /\ DOMAIN tree2 = (DOMAIN tree \ old) \cup {b} /\ DOMAIN ask2 = DOMAIN tree2
      /\ tree2[b] = q /\ ask2[b] = q
      /\ \A c \in DOMAIN tree \ old : c # b => tree2[c] = tree[c] /\ ask2[c] = ask[c]
  BY <1>8 DEF Put
<1>10. a \notin old /\ Root \notin old
  <2>1. Len(a) \in Nat
    BY <1>4, LenProperties
  <2> QED
    BY <1>2, <2>1, RootFacts DEF OldPaths
<1>11. Parent(b) \in DOMAIN tree2 /\ a # b /\ tree2[a] = tree[a]
  <2>1. a # b
    BY <1>4, <1>6, LenProperties
  <2> QED
    BY <1>6, <1>9, <1>10, <2>1
<1>12. ASSUME NEW c \in DOMAIN tree2, c # b
       PROVE  /\ c \in DOMAIN tree \ old /\ tree2[c] = tree[c] /\ ask2[c] = ask[c]
              /\ c # Root => /\ Parent(c) \in DOMAIN tree2 /\ PathOK(tree, c)
                             /\ tree2[Parent(c)] = tree[Parent(c)]
  <2>1. c \in DOMAIN tree \ old /\ tree2[c] = tree[c] /\ ask2[c] = ask[c]
    BY <1>9, <1>12
  <2>2. ASSUME c # Root
        PROVE  /\ Parent(c) \in DOMAIN tree2 /\ PathOK(tree, c)
               /\ tree2[Parent(c)] = tree[Parent(c)]
    <3>1. PathOK(tree, c) /\ Parent(c) \in DOMAIN tree
      BY <2>1, <2>2 DEF Trees, PathOK
    <3>2. Parent(c) \notin old /\ Parent(c) # b
      BY <1>1, <1>2, <1>4, <1>5, <2>1, <2>2, <3>1, OldFacts
    <3> QED
      BY <1>9, <3>1, <3>2
  <2> QED
    BY <2>1, <2>2
<1>13. Trees(tree2, ask2)
  <2>1. Root \in DOMAIN tree2 /\ ask2[Root] = tree2[Root]
    BY <1>4, <1>6, <1>9, <1>10
  <2>2. ASSUME NEW c \in DOMAIN tree2
        PROVE  c \in Seq(EdgeNames) /\ QueryOK(tree2[c]) /\ QueryOK(ask2[c])
               /\ Alike(tree2[c], ask2[c])
    <3>1. CASE c = b
      BY <1>6, <1>7, <1>9, <3>1
    <3>2. CASE c # b
      BY <1>12, <3>2 DEF Trees
    <3> QED
      BY <3>1, <3>2
  <2>3. ASSUME NEW c \in DOMAIN tree2 \ {Root}
        PROVE  PathOK(tree2, c)
    <3>1. CASE c = b
      BY <1>6, <1>7, <1>9, <1>11, <3>1 DEF PathOK
    <3>2. CASE c # b
      BY <1>12, <3>2 DEF PathOK
    <3> QED
      BY <3>1, <3>2
  <2> QED
    BY <1>9, <2>1, <2>2, <2>3 DEF Trees
<1>14. ASSUME AllFair(tree, ask), NEW c \in DOMAIN tree2 \ {Root}
       PROVE  Fair(tree2, ask2, c)
  <2>1. CASE c = b
    BY <1>9, <2>1 DEF Fair
  <2>2. CASE c # b
    <3>1. Fair(tree, ask, c)
      BY <1>12, <1>14, <2>2 DEF AllFair
    <3> QED
      BY <1>12, <2>2, <3>1 DEF Fair
  <2> QED
    BY <2>1, <2>2
<1> QED
  BY <1>13, <1>14 DEF AllFair

----------------------------------------------------------------------------
(***************************************************************************)
(* The actions outside a run.  None of them touches the tables.            *)
(***************************************************************************)
LEMMA NameFacts ==
    /\ \A type \in Types : Columns(type) \subseteq Names /\ TableColumns[type] \subseteq Names
    /\ "id" \in Names
<1>1. \A type \in Types : Columns(type) \subseteq TableColumns[type]
  BY TableFacts DEF Types
<1>2. ASSUME NEW type \in Types, NEW c \in TableColumns[type]
      PROVE  c \in Names
  BY Zenon DEF Names
<1>3. "id" \in Names
  BY DEF Names
<1> QED
  BY <1>1, <1>2, <1>3

LEMMA SameTables ==
    ASSUME EntInv, Legal(table), UNCHANGED vars
    PROVE  /\ EntInv' /\ Legal(table') /\ table' = table /\ mishaps' = mishaps
           /\ AllFair(query', asked') => AllFair(query, asked)'
<1>1. table' = table /\ mishaps' = mishaps
  BY DEF vars
<1>2. EntInv'
  BY InvStutter
<1>3. AllFair(query', asked') => AllFair(query, asked)'
  BY <1>1 DEF AllFair, Fair, OtherEnd
<1> QED
  BY <1>1, <1>2, <1>3

LEMMA NoRunKeeps ==
    ASSUME EntInv', Legal(table'), runs' \in Nat, Trees(query', asked'),
           run' = None, answer' = None,
           mishaps' = 0 => AllFair(query, asked)',
           runs' = 0 => query' = asked'
    PROVE  QueryInv'
BY DEF QueryInv, RunInv, CalmInv, FirstRun, AnswerInv

\* What a call may do to a tree and to what was asked.
Moves(tree, ask, tree2, ask2) ==
    /\ Trees(tree2, ask2)
    /\ AllFair(tree, ask) => AllFair(tree2, ask2)
    /\ ask = tree => ask2 = tree2

LEMMA RefinedMoves ==
    ASSUME NEW tree, NEW ask, Trees(tree, ask), NEW b \in DOMAIN tree, NEW q, NEW p,
           Refined(tree[b], ask[b], q, p),
           NEW tree2, tree2 = [tree EXCEPT ![b] = q],
           NEW ask2, ask2 = [ask EXCEPT ![b] = p]
    PROVE  Moves(tree, ask, tree2, ask2)
<1>1. Trees(tree2, ask2)
  BY RefineTrees
<1>2. AllFair(tree, ask) => AllFair(tree2, ask2)
  BY RefineFair
<1>3. ask = tree => ask2 = tree2
  BY DEF Refined
<1> QED
  BY <1>1, <1>2, <1>3 DEF Moves

LEMMA CallMoves ==
    ASSUME NEW tree, NEW ask, Trees(tree, ask), NEW a \in DOMAIN tree
    PROVE  /\ \A id \in Ids[tree[a].type] : Moves(tree, ask, Narrowed(tree, a, id), Narrowed(ask, a, id))
           /\ \A n \in {1, 2} : Moves(tree, ask, Limited(tree, a, n), Limited(ask, a, n))
           /\ Moves(tree, ask, Moved(tree, a, 1), Moved(ask, a, 1))
           /\ \A c \in Names : Moves(tree, ask, Picked(tree, a, c), Picked(ask, a, c))
           /\ \A e \in EdgesOf(tree[a].type) : Moves(tree, ask, With(tree, a, e), With(ask, a, e))
<1>1. /\ QueryOK(tree[a]) /\ QueryOK(ask[a]) /\ Alike(tree[a], ask[a])
      /\ a \in DOMAIN ask
  BY DEF Trees
<1>2. PICK q, p : q = tree[a] /\ p = ask[a]
  OBVIOUS
<1>3. /\ \A id \in Ids[q.type] :
            Refined(q, p, [q EXCEPT !.where = Both(@, {id})], [p EXCEPT !.where = Both(@, {id})])
      /\ \A n \in {1, 2} : Refined(q, p, [q EXCEPT !.limit = n], [p EXCEPT !.limit = n])
      /\ Refined(q, p, [q EXCEPT !.offset = 1], [p EXCEPT !.offset = 1])
      /\ \A c \in Names : Refined(q, p, [q EXCEPT !.fields = Append(@, c)],
                                        [p EXCEPT !.fields = Append(@, c)])
  BY <1>1, <1>2, RefinedFacts
<1>4. ASSUME NEW id \in Ids[tree[a].type]
      PROVE  Moves(tree, ask, Narrowed(tree, a, id), Narrowed(ask, a, id))
  <2>1. PICK tree2, ask2 : tree2 = Narrowed(tree, a, id) /\ ask2 = Narrowed(ask, a, id)
    OBVIOUS
  <2>2. tree2 = [tree EXCEPT ![a] = [q EXCEPT !.where = Both(@, {id})]] /\ ask2 = [ask EXCEPT ![a] = [p EXCEPT !.where = Both(@, {id})]]
    BY <1>2, <2>1 DEF Narrowed
  <2>3. PICK q2, p2 : Refined(q, p, q2, p2) /\ tree2 = [tree EXCEPT ![a] = q2] /\ ask2 = [ask EXCEPT ![a] = p2]
    BY <1>2, <1>3, <2>2
  <2>4. Moves(tree, ask, tree2, ask2)
    BY <1>2, <2>3, RefinedMoves
  <2> QED
    BY <2>1, <2>4
<1>5. ASSUME NEW n \in {1, 2}
      PROVE  Moves(tree, ask, Limited(tree, a, n), Limited(ask, a, n))
  <2>1. PICK tree2, ask2 : tree2 = Limited(tree, a, n) /\ ask2 = Limited(ask, a, n)
    OBVIOUS
  <2>2. tree2 = [tree EXCEPT ![a] = [q EXCEPT !.limit = n]] /\ ask2 = [ask EXCEPT ![a] = [p EXCEPT !.limit = n]]
    BY <1>2, <2>1 DEF Limited
  <2>3. PICK q2, p2 : Refined(q, p, q2, p2) /\ tree2 = [tree EXCEPT ![a] = q2] /\ ask2 = [ask EXCEPT ![a] = p2]
    BY <1>2, <1>3, <2>2
  <2>4. Moves(tree, ask, tree2, ask2)
    BY <1>2, <2>3, RefinedMoves
  <2> QED
    BY <2>1, <2>4
<1>6. Moves(tree, ask, Moved(tree, a, 1), Moved(ask, a, 1))
  <2>1. PICK tree2, ask2 : tree2 = Moved(tree, a, 1) /\ ask2 = Moved(ask, a, 1)
    OBVIOUS
  <2>2. tree2 = [tree EXCEPT ![a] = [q EXCEPT !.offset = 1]] /\ ask2 = [ask EXCEPT ![a] = [p EXCEPT !.offset = 1]]
    BY <1>2, <2>1 DEF Moved
  <2>3. PICK q2, p2 : Refined(q, p, q2, p2) /\ tree2 = [tree EXCEPT ![a] = q2] /\ ask2 = [ask EXCEPT ![a] = p2]
    BY <1>2, <1>3, <2>2
  <2>4. Moves(tree, ask, tree2, ask2)
    BY <1>2, <2>3, RefinedMoves
  <2> QED
    BY <2>1, <2>4
<1>7. ASSUME NEW c \in Names
      PROVE  Moves(tree, ask, Picked(tree, a, c), Picked(ask, a, c))
  <2>1. PICK tree2, ask2 : tree2 = Picked(tree, a, c) /\ ask2 = Picked(ask, a, c)
    OBVIOUS
  <2>2. tree2 = [tree EXCEPT ![a] = [q EXCEPT !.fields = Append(@, c)]] /\ ask2 = [ask EXCEPT ![a] = [p EXCEPT !.fields = Append(@, c)]]
    BY <1>2, <2>1 DEF Picked
  <2>3. PICK q2, p2 : Refined(q, p, q2, p2) /\ tree2 = [tree EXCEPT ![a] = q2] /\ ask2 = [ask EXCEPT ![a] = p2]
    BY <1>2, <1>3, <2>2
  <2>4. Moves(tree, ask, tree2, ask2)
    BY <1>2, <2>3, RefinedMoves
  <2> QED
    BY <2>1, <2>4
<1>8. ASSUME NEW e \in EdgesOf(tree[a].type)
      PROVE  Moves(tree, ask, With(tree, a, e), With(ask, a, e))
  <2>1. PICK tree2, ask2 : tree2 = With(tree, a, e) /\ ask2 = With(ask, a, e)
    OBVIOUS
  <2>2. Trees(tree2, ask2) /\ (AllFair(tree, ask) => AllFair(tree2, ask2))
    BY <2>1, WithTrees
  <2>3. ask = tree => ask2 = tree2
    BY <2>1
  <2>4. Moves(tree, ask, tree2, ask2)
    BY <2>2, <2>3 DEF Moves
  <2> QED
    BY <2>1, <2>4
<1> QED
  BY <1>4, <1>5, <1>6, <1>7, <1>8

LEMMA RefineKeeps ==
    ASSUME QueryInv, Refine, UNCHANGED vars
    PROVE  QueryInv'
<1>1. Trees(query, asked) /\ run = None
  BY DEF QueryInv, Refine
<1>2. Moves(query, asked, query', asked')
  <2>1. PICK a \in DOMAIN query :
          \/ \E id \in Ids[query[a].type] :
                query' = Narrowed(query, a, id) /\ asked' = Narrowed(asked, a, id)
          \/ \E n \in 1 .. 2 : query' = Limited(query, a, n) /\ asked' = Limited(asked, a, n)
          \/ query' = Moved(query, a, 1) /\ asked' = Moved(asked, a, 1)
          \/ \E c \in Picks[query[a].type] :
                query' = Picked(query, a, c) /\ asked' = Picked(asked, a, c)
          \/ \E e \in DOMAIN One[query[a].type] \cup DOMAIN Many[query[a].type] :
                query' = With(query, a, e) /\ asked' = With(asked, a, e)
    BY DEF Refine
  <2>2. query[a].type \in Types
    BY <1>1 DEF Trees, QueryOK
  <2>3. 1 .. 2 = {1, 2} /\ Picks[query[a].type] \subseteq Names
    BY <2>2, NameFacts, PicksAssumption
  <2>4. /\ \A id \in Ids[query[a].type] :
              Moves(query, asked, Narrowed(query, a, id), Narrowed(asked, a, id))
        /\ \A n \in {1, 2} : Moves(query, asked, Limited(query, a, n), Limited(asked, a, n))
        /\ Moves(query, asked, Moved(query, a, 1), Moved(asked, a, 1))
        /\ \A c \in Names : Moves(query, asked, Picked(query, a, c), Picked(asked, a, c))
        /\ \A e \in EdgesOf(query[a].type) :
              Moves(query, asked, With(query, a, e), With(asked, a, e))
    BY <1>1, CallMoves
  <2> QED
    BY <2>1, <2>3, <2>4 DEF EdgesOf
<1>3. answer' = None /\ run' = None /\ runs' = runs
  BY <1>1 DEF Refine, Calling
<1>4. /\ EntInv' /\ Legal(table') /\ table' = table /\ mishaps' = mishaps
      /\ AllFair(query', asked') => AllFair(query, asked)'
  BY SameTables DEF QueryInv
<1>5. /\ Trees(query', asked')
      /\ AllFair(query, asked) => AllFair(query', asked')
      /\ asked = query => asked' = query'
  BY <1>2 DEF Moves
<1>6. mishaps = 0 => AllFair(query, asked)
  BY DEF QueryInv, CalmInv
<1>7. runs \in Nat /\ (runs = 0 => query = asked)
  BY DEF QueryInv, FirstRun
<1> QED
  BY <1>3, <1>4, <1>5, <1>6, <1>7, NoRunKeeps

LEMMA LimitFacts ==
    ASSUME NEW op \in RunOps
    PROVE  /\ LimitOf(op) = None <=> op \in {"All", "IDs"}
           /\ op \in {"First", "FirstID", "Exist"} => LimitOf(op) = 1
           /\ op \in {"Only", "OnlyID"} => LimitOf(op) = 2
           /\ LimitOf(op) \in {None, 1, 2}
BY LimitAssumption DEF RunOps, OnlyIDs, LimitOf

LEMMA StartedMoves ==
    ASSUME NEW tree, NEW ask, Trees(tree, ask), Root \in DOMAIN tree, NEW op \in RunOps,
           NEW tree2, tree2 = Started(tree, op), NEW ask2, ask2 = Started(ask, op)
    PROVE  /\ Moves(tree, ask, tree2, ask2) /\ DOMAIN tree2 = DOMAIN tree
           /\ LimitOf(op) # None => tree2[Root].limit = LimitOf(op)
<1>1. PICK tree1, ask1 :
         /\ tree1 = IF LimitOf(op) = None THEN tree ELSE Limited(tree, Root, LimitOf(op))
         /\ ask1 = IF LimitOf(op) = None THEN ask ELSE Limited(ask, Root, LimitOf(op))
  OBVIOUS
<1>2. /\ tree2 = IF op \in OnlyIDs THEN Picked(tree1, Root, "id") ELSE tree1
      /\ ask2 = IF op \in OnlyIDs THEN Picked(ask1, Root, "id") ELSE ask1
  BY <1>1 DEF Started
<1>3. Moves(tree, ask, tree1, ask1)
  <2>1. CASE LimitOf(op) = None
    BY <1>1, <2>1 DEF Moves
  <2>2. CASE LimitOf(op) # None
    <3>1. LimitOf(op) \in {1, 2}
      BY <2>2, LimitFacts
    <3>2. \A n \in {1, 2} : Moves(tree, ask, Limited(tree, Root, n), Limited(ask, Root, n))
      BY CallMoves
    <3> QED
      BY <1>1, <2>2, <3>1, <3>2
  <2> QED
    BY <2>1, <2>2
<1>4. Root \in DOMAIN tree1 /\ DOMAIN tree1 = DOMAIN tree
  BY <1>1 DEF Limited
<1>5. Trees(tree1, ask1)
  BY <1>3 DEF Moves
<1>6. Moves(tree1, ask1, tree2, ask2)
  <2>1. CASE op \notin OnlyIDs
    BY <1>2, <1>5, <2>1 DEF Moves
  <2>2. CASE op \in OnlyIDs
    <3>1. \A c \in Names : Moves(tree1, ask1, Picked(tree1, Root, c), Picked(ask1, Root, c))
      BY <1>4, <1>5, CallMoves
    <3> QED
      BY <1>2, <2>2, <3>1, NameFacts
  <2> QED
    BY <2>1, <2>2
<1>7. Moves(tree, ask, tree2, ask2)
  BY <1>3, <1>6 DEF Moves
<1>8. DOMAIN tree2 = DOMAIN tree1 /\ tree2[Root].limit = tree1[Root].limit
  <2>1. QueryOK(tree1[Root])
    BY <1>4, <1>5 DEF Trees
  <2>2. CASE op \in OnlyIDs
    <3>1. tree2 = [tree1 EXCEPT ![Root] = [tree1[Root] EXCEPT !.fields = Append(@, "id")]]
      BY <1>2, <2>2 DEF Picked
    <3>2. tree2[Root] = [tree1[Root] EXCEPT !.fields = Append(@, "id")]
      BY <1>4, <3>1
    <3> QED
      BY <2>1, <3>1, <3>2 DEF QueryOK
  <2> QED
    BY <1>2, <2>2
<1>9. ASSUME LimitOf(op) # None
      PROVE  tree1[Root].limit = LimitOf(op)
  <2>1. QueryOK(tree[Root])
    BY DEF Trees
  <2>2. tree1 = [tree EXCEPT ![Root] = [tree[Root] EXCEPT !.limit = LimitOf(op)]]
    BY <1>1, <1>9 DEF Limited
  <2>3. tree1[Root] = [tree[Root] EXCEPT !.limit = LimitOf(op)]
    BY <2>2
  <2> QED
    BY <2>1, <2>3 DEF QueryOK
<1> QED
  BY <1>4, <1>7, <1>8, <1>9

LEMMA StartRunKeeps ==
    ASSUME QueryInv, NEW op \in RunOps, StartRun(op), UNCHANGED vars
    PROVE  QueryInv'
<1>1. /\ Trees(query, asked) /\ Root \in DOMAIN query /\ run = None /\ runs \in Nat
      /\ query' = Started(query, op) /\ asked' = Started(asked, op)
      /\ answer' = None /\ runs' = runs + 1
      /\ run' = [op |-> op, todo |-> <<Root>>, found |-> << >>]
  BY DEF QueryInv, StartRun, Calling
<1>2. /\ Moves(query, asked, query', asked') /\ DOMAIN query' = DOMAIN query
      /\ LimitOf(op) # None => query'[Root].limit = LimitOf(op)
  <2>1. PICK tree2, ask2 : tree2 = Started(query, op) /\ ask2 = Started(asked, op)
    OBVIOUS
  <2>2. /\ Moves(query, asked, tree2, ask2) /\ DOMAIN tree2 = DOMAIN query
        /\ LimitOf(op) # None => tree2[Root].limit = LimitOf(op)
    BY <1>1, <2>1, StartedMoves
  <2> QED
    BY <1>1, <2>1, <2>2
<1>3. /\ EntInv' /\ Legal(table') /\ table' = table /\ mishaps' = mishaps
      /\ AllFair(query', asked') => AllFair(query, asked)'
  BY SameTables DEF QueryInv
<1>4. /\ DOMAIN run' = {"op", "todo", "found"} /\ run'.op = op /\ run'.todo = <<Root>>
      /\ run'.found = << >>
  BY <1>1
<1>11. DOMAIN run'.found = {}
  BY <1>4
<1>5. /\ Trees(query', asked')
      /\ AllFair(query, asked) => AllFair(query', asked')
      /\ asked = query => asked' = query'
  BY <1>2 DEF Moves
<1>6. /\ run'.todo \in Seq(DOMAIN query') /\ IsInjective(run'.todo)
      /\ \A a \in Range(run'.todo) : a = Root
  BY <1>1, <1>2, <1>4 DEF IsInjective, Range
<1>7. RunInv'
  <2>1. op \notin {"All", "IDs"} => query'[Root].limit = LimitOf(op)
    BY <1>2, LimitFacts
  <2>2. Root \in DOMAIN query' /\ runs' >= 1
    BY <1>1, <1>2
  <2> QED
    BY <1>1, <1>4, <1>6, <1>11, <2>1, <2>2 DEF RunInv
<1>8. CalmInv'
  <2>1. mishaps' = 0 => AllFair(query, asked)'
    BY <1>3, <1>5 DEF QueryInv, CalmInv
  <2>2. \A a : a \notin DOMAIN run'.found
    BY <1>11
  <2>3. Complete'
    BY <2>2 DEF Complete, Under
  <2> QED
    BY <2>1, <2>2, <2>3 DEF CalmInv
<1>9. FirstRun'
  <2>1. runs' # 0 /\ (runs' = 1 => runs = 0)
    BY <1>1
  <2>2. runs' = 1 => query' = asked'
    BY <1>5, <2>1 DEF QueryInv, FirstRun
  <2> QED
    BY <2>1, <2>2 DEF FirstRun
<1>10. AnswerInv' /\ runs' \in Nat
  BY <1>1 DEF AnswerInv
<1> QED
  BY <1>3, <1>5, <1>7, <1>8, <1>9, <1>10 DEF QueryInv

LEMMA AskKeeps ==
    ASSUME QueryInv, NEW type \in Types, NEW from \in Froms(type), Ask(type, from), UNCHANGED vars
    PROVE  QueryInv'
<1>1. /\ DOMAIN query = {} /\ run = None /\ answer = None /\ runs \in Nat
      /\ query' = [a \in {Root} |-> New(type, from)] /\ asked' = query'
      /\ UNCHANGED <<run, answer, runs>>
  BY DEF QueryInv, RunInv, AnswerInv, Trees, Ask
<1>2. from # None => /\ from.type \in Types /\ from.edge \in EdgesOf(from.type)
                     /\ EdgeType(from.type, from.edge) = type
  <2>1. SUFFICES ASSUME from # None
                 PROVE  /\ from.type \in Types /\ from.edge \in EdgesOf(from.type)
                        /\ EdgeType(from.type, from.edge) = type
    OBVIOUS
  <2>2. PICK other \in Types : from \in
           {[type |-> other, edge |-> e, ids |-> ids] :
            e \in {f \in DOMAIN One[other] \cup DOMAIN Many[other] : EdgeType(other, f) = type},
            ids \in {{id} : id \in Rows(table, other)} \cup {Ids[other]}}
    BY <2>1 DEF Froms
  <2>3. PICK e \in {f \in DOMAIN One[other] \cup DOMAIN Many[other] : EdgeType(other, f) = type},
             ids \in {{id} : id \in Rows(table, other)} \cup {Ids[other]} :
             from = [type |-> other, edge |-> e, ids |-> ids]
    BY <2>2
  <2> QED
    BY <2>3 DEF EdgesOf
<1>3. PICK q : q = New(type, from)
  OBVIOUS
<1>4. QueryOK(q) /\ Alike(q, q)
  BY <1>2, <1>3, NewFacts
<1>5. DOMAIN query' = {Root} /\ query'[Root] = q
  BY <1>1, <1>3
<1>6. Trees(query', asked')
  BY <1>1, <1>4, <1>5, RootFacts DEF Trees
<1>7. AllFair(query, asked)'
  BY <1>5 DEF AllFair
<1>8. EntInv' /\ Legal(table')
  BY SameTables DEF QueryInv
<1> QED
  BY <1>1, <1>6, <1>7, <1>8, NoRunKeeps

(***************************************************************************)
(* The actions that change the tables or count a mishap.                   *)
(***************************************************************************)
LEMMA BuildKeeps ==
    ASSUME QueryInv, Root \notin DOMAIN query, Next, UNCHANGED queryVars
    PROVE  QueryInv'
<1>1. /\ DOMAIN query = {} /\ run = None /\ answer = None /\ runs \in Nat
      /\ query' = query /\ asked' = asked /\ run' = run /\ answer' = answer /\ runs' = runs
      /\ Trees(query, asked)
  BY DEF QueryInv, RunInv, AnswerInv, Trees, queryVars
<1>2. EntInv' /\ Legal(table')
  BY InvStep, LegalStep DEF QueryInv, EntStep
<1>3. AllFair(query, asked)'
  BY <1>1 DEF AllFair
<1>4. runs' = 0 => query' = asked'
  BY <1>1 DEF QueryInv, FirstRun
<1> QED
  BY <1>1, <1>2, <1>3, <1>4, NoRunKeeps

LEMMA MishapFacts ==
    ASSUME EntInv, Mishap
    PROVE  mishaps' # 0
BY DEF EntInv, CountsOK, Mishap

LEMMA RunFailsKeeps ==
    ASSUME QueryInv, RunFails
    PROVE  QueryInv'
<1>1. /\ run # None /\ Mishap /\ UNCHANGED <<table, made, said, out, applied, born, bulk, turn, steps>>
      /\ run' = None /\ answer' = [op |-> run.op, verdict |-> "failed", found |-> << >>]
      /\ UNCHANGED <<query, asked, runs>>
  BY DEF RunFails
<1>2. EntInv' /\ Legal(table')
  BY <1>1, InvStep, LegalStep DEF QueryInv, EntStep
<1>3. mishaps' # 0
  BY <1>1, MishapFacts DEF QueryInv
<1>4. AnswerInv'
  <2>1. answer'.verdict = "failed"
    BY <1>1
  <2>2. LoadsFindTheirNodes' /\ AnswersMeanTheCalls' /\ OnlyMeansOne'
    BY <1>3, <2>1 DEF LoadsFindTheirNodes, AnswersMeanTheCalls, OnlyMeansOne
  <2>3. Root \in DOMAIN query'
    BY <1>1 DEF QueryInv, RunInv
  <2> QED
    BY <1>1, <2>2, <2>3 DEF AnswerInv
<1>5. RunInv' /\ CalmInv'
  BY <1>1, <1>3 DEF RunInv, CalmInv
<1>6. Trees(query', asked') /\ FirstRun' /\ runs' \in Nat
  BY <1>1 DEF QueryInv, FirstRun
<1> QED
  BY <1>2, <1>4, <1>5, <1>6 DEF QueryInv

LEMMA MeanwhileKeeps ==
    ASSUME QueryInv, Meanwhile
    PROVE  QueryInv'
<1>1. /\ Others /\ UNCHANGED <<query, asked, run, runs>> /\ answer' = None
  BY DEF Meanwhile
<1>2. EntInv' /\ Legal(table')
  BY <1>1, InvStep, LegalStep DEF QueryInv, EntStep
<1>3. mishaps' # 0
  BY <1>1, MishapFacts DEF QueryInv, Others
<1>4. RunInv'
  BY <1>1 DEF QueryInv, RunInv, NodeOK, Under
<1>5. CalmInv' /\ AnswerInv'
  BY <1>1, <1>3 DEF CalmInv, AnswerInv
<1>6. Trees(query', asked') /\ FirstRun' /\ runs' \in Nat
  BY <1>1 DEF QueryInv, FirstRun
<1> QED
  BY <1>2, <1>4, <1>5, <1>6 DEF QueryInv

----------------------------------------------------------------------------
(***************************************************************************)
(* The statements to come.                                                 *)
(***************************************************************************)
LEMMA ConcatFacts ==
    ASSUME NEW S, NEW s \in Seq(S), NEW t \in Seq(S),
           IsInjective(s), IsInjective(t), Range(s) \cap Range(t) = {}
    PROVE  /\ s \o t \in Seq(S) /\ IsInjective(s \o t)
           /\ Range(s \o t) = Range(s) \cup Range(t)
<1>1. /\ s \o t \in Seq(S) /\ Len(s \o t) = Len(s) + Len(t)
      /\ \A i \in 1 .. Len(s) + Len(t) : (s \o t)[i] = IF i <= Len(s) THEN s[i] ELSE t[i - Len(s)]
  BY ConcatProperties
<1>2. /\ Len(s) \in Nat /\ Len(t) \in Nat
      /\ DOMAIN s = 1 .. Len(s) /\ DOMAIN t = 1 .. Len(t)
      /\ DOMAIN (s \o t) = 1 .. Len(s) + Len(t)
  BY <1>1, LenProperties
<1>3. PICK u : u = s \o t
  OBVIOUS
<1>4. /\ DOMAIN u = 1 .. Len(s) + Len(t)
      /\ \A i \in DOMAIN u : u[i] = IF i <= Len(s) THEN s[i] ELSE t[i - Len(s)]
  BY <1>1, <1>2, <1>3
<1>5. ASSUME NEW i \in DOMAIN u
      PROVE  \/ i \in DOMAIN s /\ u[i] = s[i] /\ s[i] \in Range(s)
             \/ i - Len(s) \in DOMAIN t /\ i > Len(s) /\ u[i] = t[i - Len(s)] /\ t[i - Len(s)] \in Range(t)
  BY <1>2, <1>4 DEF Range
<1>6. ASSUME NEW i \in DOMAIN u, NEW j \in DOMAIN u, u[i] = u[j]
      PROVE  i = j
  <2>1. CASE i \in DOMAIN s /\ u[i] = s[i] /\ s[i] \in Range(s)
    <3>1. j \in DOMAIN s /\ u[j] = s[j]
      BY <1>5, <1>6, <2>1
    <3> QED
      BY <1>6, <2>1, <3>1 DEF IsInjective
  <2>2. CASE i - Len(s) \in DOMAIN t /\ u[i] = t[i - Len(s)] /\ t[i - Len(s)] \in Range(t)
    <3>1. j - Len(s) \in DOMAIN t /\ u[j] = t[j - Len(s)]
      BY <1>5, <1>6, <2>2
    <3>2. i - Len(s) = j - Len(s)
      BY <1>6, <2>2, <3>1 DEF IsInjective
    <3> QED
      BY <1>2, <1>4, <3>2
  <2> QED
    BY <1>5, <2>1, <2>2
<1>7. IsInjective(u)
  BY <1>6 DEF IsInjective
<1> QED
  BY <1>1, <1>3, <1>7, RangeConcatenation

LEMMA OneOrNone ==
    ASSUME NEW S, NEW b, NEW s, s = IF b \in S THEN <<b>> ELSE << >>
    PROVE  s \in Seq(S) /\ IsInjective(s) /\ Range(s) = {b} \cap S
<1>1. CASE b \in S
  <2>1. s \in Seq(S) /\ DOMAIN s = {1} /\ s[1] = b
    BY <1>1
  <2> QED
    BY <1>1, <2>1 DEF IsInjective, Range
<1>2. CASE b \notin S
  <2>1. s \in Seq(S) /\ s = << >>
    BY <1>2
  <2>2. DOMAIN s = {}
    BY <2>1
  <2> QED
    BY <1>2, <2>1, <2>2 DEF IsInjective, Range
<1> QED
  BY <1>1, <1>2

LEMMA TailFacts ==
    ASSUME NEW S, NEW s \in Seq(S), s # << >>, IsInjective(s)
    PROVE  /\ Head(s) \in Range(s) /\ Head(s) \in S /\ Tail(s) \in Seq(S) /\ IsInjective(Tail(s))
           /\ Range(Tail(s)) = Range(s) \ {Head(s)}
<1>1. /\ Head(s) \in S /\ Tail(s) \in Seq(S) /\ Len(Tail(s)) = Len(s) - 1
      /\ \A i \in 1 .. Len(Tail(s)) : Tail(s)[i] = s[i + 1]
  BY HeadTailProperties
<1>2. Len(s) \in Nat \ {0}
  BY EmptySeq
<1>3. DOMAIN s = 1 .. Len(s) /\ DOMAIN Tail(s) = 1 .. Len(s) - 1 /\ Head(s) = s[1]
  BY <1>1, <1>2, LenProperties
<1>4. PICK t : t = Tail(s)
  OBVIOUS
<1>5. DOMAIN t = 1 .. Len(s) - 1 /\ \A i \in DOMAIN t : t[i] = s[i + 1] /\ i + 1 \in DOMAIN s
  BY <1>1, <1>2, <1>3, <1>4
<1>6. \A i \in DOMAIN s : i # 1 => i - 1 \in DOMAIN t /\ t[i - 1] = s[i]
  BY <1>2, <1>3, <1>5
<1>7. IsInjective(t)
  <2> SUFFICES ASSUME NEW i \in DOMAIN t, NEW j \in DOMAIN t, t[i] = t[j] PROVE i = j
    BY DEF IsInjective
  <2>1. i + 1 = j + 1
    BY <1>5 DEF IsInjective
  <2> QED
    BY <1>2, <1>5, <2>1
<1>8. Range(t) = Range(s) \ {s[1]}
  <2>1. 1 \in DOMAIN s
    BY <1>2, <1>3
  <2>2. \A i \in DOMAIN t : t[i] \in Range(s) /\ t[i] # s[1]
    <3> SUFFICES ASSUME NEW i \in DOMAIN t PROVE t[i] \in Range(s) /\ t[i] # s[1]
      OBVIOUS
    <3>1. i + 1 \in DOMAIN s /\ t[i] = s[i + 1] /\ i + 1 # 1
      BY <1>2, <1>5
    <3> QED
      BY <2>1, <3>1 DEF Range, IsInjective
  <2>3. \A i \in DOMAIN s : s[i] # s[1] => s[i] \in Range(t)
    BY <1>6 DEF Range
  <2> QED
    BY <2>2, <2>3 DEF Range
<1>9. Head(s) \in Range(s)
  BY <1>2, <1>3 DEF Range
<1> QED
  BY <1>1, <1>3, <1>4, <1>7, <1>8, <1>9

LEMMA ChildFacts ==
    ASSUME NEW tree, DOMAIN tree \subseteq Seq(EdgeNames), NEW a \in DOMAIN tree,
           tree[a].type \in Types, NEW s, s = Children(tree, a)
    PROVE  /\ s \in Seq(DOMAIN tree) /\ IsInjective(s)
           /\ Range(s) = {Append(a, e) : e \in EdgesOf(tree[a].type)} \cap DOMAIN tree
<1>1. PICK type, f, g : /\ type = tree[a].type
                        /\ f = EdgeOrder[type][1] /\ g = EdgeOrder[type][2]
  OBVIOUS
<1>2. /\ EdgesOf(type) = {f, g} /\ f # g /\ f \in EdgeNames /\ g \in EdgeNames
  BY <1>1, OrderFacts
<1>3. PICK b, c : b = Append(a, f) /\ c = Append(a, g)
  OBVIOUS
<1>4. b # c
  <2>1. Edge(b) = f /\ Edge(c) = g
    BY <1>2, <1>3, AppendFacts
  <2> QED
    BY <1>2, <2>1
<1>5. PICK l, r : /\ l = (IF b \in DOMAIN tree THEN <<b>> ELSE << >>)
                  /\ r = (IF c \in DOMAIN tree THEN <<c>> ELSE << >>)
  OBVIOUS
<1>6. s = l \o r
  BY <1>1, <1>3, <1>5 DEF Children
<1>7. /\ l \in Seq(DOMAIN tree) /\ IsInjective(l) /\ Range(l) = {b} \cap DOMAIN tree
      /\ r \in Seq(DOMAIN tree) /\ IsInjective(r) /\ Range(r) = {c} \cap DOMAIN tree
  BY <1>5, OneOrNone
<1>8. Range(l) \cap Range(r) = {}
  BY <1>4, <1>7
<1>9. s \in Seq(DOMAIN tree) /\ IsInjective(s) /\ Range(s) = Range(l) \cup Range(r)
  BY <1>6, <1>7, <1>8, ConcatFacts
<1>10. {Append(a, e) : e \in EdgesOf(type)} = {b, c}
  BY <1>2, <1>3
<1> QED
  BY <1>1, <1>7, <1>9, <1>10

(***************************************************************************)
(* What a statement returns.                                               *)
(***************************************************************************)
LEMMA MatchingBounds ==
    ASSUME TableOK(table), NEW q, QueryOK(q)
    PROVE  /\ Matching(table, q) \subseteq Rows(table, q.type)
           /\ Rows(table, q.type) \subseteq Ids[q.type]
           /\ IsFiniteSet(Matching(table, q))
           /\ Cardinality(Matching(table, q)) \in Nat
<1>1. q.type \in Types
  BY DEF QueryOK
<1>2. Reached(table, q) \subseteq Rows(table, q.type)
  <2>1. CASE q.from = None
    BY <2>1 DEF Reached
  <2>2. CASE q.from # None
    <3>1. PICK type, e : type = q.from.type /\ e = q.from.edge
      OBVIOUS
    <3>2. type \in Types /\ e \in EdgesOf(type) /\ EdgeType(type, e) = q.type
      BY <2>2, <3>1 DEF QueryOK
    <3>3. CASE e \in DOMAIN One[type]
      BY <2>2, <3>1, <3>3 DEF Reached
    <3>4. CASE e \notin DOMAIN One[type]
      <4>1. Many[type][e].type = q.type
        BY <3>2, <3>4 DEF EdgeType
      <4>2. \A id : Linked(table, type, e, id) \subseteq Rows(table, q.type)
        BY <4>1 DEF Linked
      <4>3. Reached(table, q) = UNION {Linked(table, type, e, id) :
                                        id \in q.from.ids \cap Rows(table, type)}
        BY <2>2, <3>1, <3>4 DEF Reached
      <4> QED
        BY <4>2, <4>3
    <3> QED
      BY <3>3, <3>4
  <2> QED
    BY <2>1, <2>2
<1>3. Rows(table, q.type) \subseteq Ids[q.type] /\ IsFiniteSet(Ids[q.type])
  BY <1>1, IdsAssumption DEF TableOK
<1>4. Matching(table, q) \subseteq Reached(table, q)
  BY DEF Matching
<1>5. Matching(table, q) \in SUBSET Ids[q.type]
  BY <1>2, <1>3, <1>4
<1>6. IsFiniteSet(Matching(table, q))
  BY <1>3, <1>5, FS_Subset
<1>7. Cardinality(Matching(table, q)) \in Nat
  BY <1>6, FS_CardinalityType
<1> QED
  BY <1>2, <1>3, <1>4, <1>6, <1>7

NodesOf(q, columns, ids) == {Node(table, q, columns, id) : id \in ids}

LEMMA NodesFacts ==
    ASSUME NEW q, NEW columns, NEW ids, IsFiniteSet(ids),
           NEW nodes, nodes = NodesOf(q, columns, ids)
    PROVE  /\ IdsOf(nodes) = ids /\ Cardinality(nodes) = Cardinality(ids)
           /\ \A n \in nodes :
                 /\ n.id \in ids
                 /\ \A c \in columns \cap TableColumns[q.type] : n.row[c] = table[q.type][n.id][c]
           /\ nodes = {} <=> ids = {}
<1> USE DEF NodesOf
<1>1. ASSUME NEW id
      PROVE  /\ Node(table, q, columns, id).id = id
             /\ \A c \in columns \cap TableColumns[q.type] :
                   Node(table, q, columns, id).row[c] = table[q.type][id][c]
  BY DEF Node
<1>2. PICK f : f = [id \in ids |-> Node(table, q, columns, id)]
  OBVIOUS
<1>3. /\ f \in [ids -> nodes]
      /\ \A id \in ids : f[id].id = id
      /\ \A n \in nodes : \E id \in ids : f[id] = n
  BY <1>1, <1>2
<1>4. f \in Bijection(ids, nodes)
  <2>1. IsInjective(f)
    <3> SUFFICES ASSUME NEW a \in DOMAIN f, NEW b \in DOMAIN f, f[a] = f[b] PROVE a = b
      BY DEF IsInjective
    <3>1. a \in ids /\ b \in ids
      BY <1>3
    <3>2. f[a].id = a /\ f[b].id = b
      BY <1>3, <3>1
    <3> QED
      BY <3>2
  <2>2. f \in Injection(ids, nodes)
    BY <1>3, <2>1 DEF Injection
  <2>3. f \in Surjection(ids, nodes)
    BY <1>3 DEF Surjection
  <2> QED
    BY <2>2, <2>3 DEF Bijection
<1>5. Cardinality(nodes) = Cardinality(ids)
  BY <1>4, FS_Bijection DEF ExistsBijection
<1>6. IdsOf(nodes) = ids
  BY <1>3 DEF IdsOf
<1>7. ASSUME NEW n \in nodes
      PROVE  /\ n.id \in ids
             /\ \A c \in columns \cap TableColumns[q.type] : n.row[c] = table[q.type][n.id][c]
  <2>1. PICK id \in ids : n = Node(table, q, columns, id)
    OBVIOUS
  <2> QED
    BY <1>1, <2>1
<1>8. nodes = {} <=> ids = {}
  BY <1>3
<1> QED
  BY <1>5, <1>6, <1>7, <1>8

LEMMA KeptFacts ==
    ASSUME NEW q, Unlimited(q), NEW n \in Nat
    PROVE  Kept(q, n) = n
BY DEF Unlimited, Kept

----------------------------------------------------------------------------
(***************************************************************************)
(* What loading an edge does to its query.                                 *)
(***************************************************************************)
LEMMA LoadByRow ==
    ASSUME NEW type \in Types, NEW e \in DOMAIN One[type], NEW q, NEW nodes
    PROVE  Load(type, e, q, nodes) = ByRow(q, nodes, One[type][e])
<1>1. CASE type = "Poll"
  <2>1. e = "owner"
    BY <1>1, EdgeFacts
  <2> QED
    BY <1>1, <2>1, EdgeFacts DEF Load, PollLoad
<1>2. CASE type = "User"
  BY <1>2, EdgeFacts
<1>3. CASE type = "Vote"
  <2>1. e = "user" \/ e = "poll"
    BY <1>3, EdgeFacts
  <2> QED
    BY <1>3, <2>1, EdgeFacts DEF Load, VoteLoad
<1> QED
  BY <1>1, <1>2, <1>3 DEF Types

LEMMA LoadPolls ==
    ASSUME NEW q, NEW nodes
    PROVE  /\ Many["User"]["polls"].column = "user_polls"
           /\ Load("User", "polls", q, nodes) =
                 [q EXCEPT !.hidden = {"user_polls"}, !.column = "user_polls",
                           !.keys = Both(@, {n.id : n \in nodes})]
BY EdgeFacts DEF Load, UserLoad

LEMMA LoadByKey ==
    ASSUME NEW type \in Types, NEW e \in DOMAIN Many[type], ~(type = "User" /\ e = "polls"),
           NEW q, NEW nodes
    PROVE  /\ Load(type, e, q, nodes) = ByKey(q, nodes, Many[type][e].column)
           /\ Many[type][e].type = "Vote" /\ Many[type][e].column \in {"poll_id", "user_id"}
<1>1. CASE type = "Poll"
  <2>1. e = "votes"
    BY <1>1, EdgeFacts
  <2> QED
    BY <1>1, <2>1, EdgeFacts DEF Load, PollLoad
<1>2. CASE type = "User"
  <2>1. e = "votes"
    BY <1>2, EdgeFacts
  <2> QED
    BY <1>2, <2>1, EdgeFacts DEF Load, UserLoad
<1>3. CASE type = "Vote"
  BY <1>3, EdgeFacts
<1> QED
  BY <1>1, <1>2, <1>3 DEF Types

\* q2 is what loading the edge for the nodes above makes of q.
Loaded(tree, p, a, above, q2) ==
    LET q == tree[a]
        type == tree[Parent(a)].type
        e == Edge(a)
        tree2 == [tree EXCEPT ![a] = q2] IN
    /\ QueryOK(q2) /\ Alike(q2, p) /\ q2.type = q.type /\ q2.from = q.from
    /\ q2.limit = q.limit /\ q2.offset = q.offset
    /\ q2.keys # None => e \in DOMAIN Many[type] /\ q2.column = Many[type][e].column
    /\ e \in DOMAIN One[type] =>
          Matching(table, q2) = Matching(table, q) \cap {n.row[One[type][e]] : n \in above}
    /\ e \in DOMAIN Many[type] =>
          LET column == Many[type][e].column IN
          /\ column \in Read(tree2, a) \cap TableColumns[q.type]
          /\ Matching(table, q2) = {id \in Matching(table, q) :
                                       table[q.type][id][column] \in IdsOf(above)}

LEMMA LoadOne ==
    ASSUME NEW tree, NEW ask, Trees(tree, ask), NEW a \in DOMAIN tree, a # Root,
           NEW above, \A n \in above : NodeOK(tree, Parent(a), n),
           Edge(a) \in DOMAIN One[tree[Parent(a)].type],
           NEW q, q = Load(tree[Parent(a)].type, Edge(a), tree[a], above)
    PROVE  Loaded(tree, ask[a], a, above, q)
<1>1. PICK p, type, e, col, T, S :
         /\ p = tree[a] /\ type = tree[Parent(a)].type /\ e = Edge(a)
         /\ col = One[type][e] /\ T = EdgeType(type, e)
         /\ S = {n.row[col] : n \in above}
  OBVIOUS
<1>2. /\ PathOK(tree, a) /\ Parent(a) \in DOMAIN tree /\ QueryOK(p) /\ Alike(p, ask[a])
      /\ type \in Types /\ e \in DOMAIN One[type] /\ e \in EdgesOf(type)
      /\ p.type = T /\ p.type \in Types
      /\ a \in Seq(EdgeNames)
  BY <1>1 DEF Trees, PathOK, QueryOK, EdgesOf
<1>3. a = Append(Parent(a), e) /\ Append(Parent(a), e) \in DOMAIN tree
  BY <1>1, <1>2, PathFacts
<1>4. S \subseteq Ids[T]
  BY <1>1, <1>2, <1>3 DEF NodeOK
<1>5. e \notin DOMAIN Many[type]
  BY <1>2, EdgeTypeFacts
<1>6. p.keys = None
  BY <1>1, <1>2, <1>5 DEF PathOK
<1>7. q = [p EXCEPT !.where = Both(@, S)]
  <2>1. Load(type, e, p, above) = ByRow(p, above, One[type][e])
    BY <1>2, LoadByRow
  <2> QED
    BY <1>1, <2>1 DEF ByRow
<1>8. /\ DOMAIN q = DOMAIN p /\ q.where = Both(p.where, S)
      /\ q.type = p.type /\ q.keys = p.keys /\ q.column = p.column /\ q.limit = p.limit
      /\ q.offset = p.offset /\ q.fields = p.fields /\ q.hidden = p.hidden /\ q.from = p.from
  BY <1>2, <1>7 DEF QueryOK
<1>9. q.where \subseteq Ids[T] /\ q.where # None
  <2>1. q.where \subseteq S
    BY <1>8 DEF Both
  <2>2. q.where \in SUBSET Ids[T]
    BY <1>4, <2>1
  <2> QED
    BY <1>2, <2>2, IdsAssumption
<1>10. QueryOK(q)
  BY <1>2, <1>8, <1>9 DEF QueryOK
<1>11. Alike(q, ask[a])
  <2>1. p.where # None => q.where \subseteq p.where
    BY <1>8 DEF Both
  <2>2. Chosen(q) = Chosen(p)
    BY <1>8 DEF Chosen
  <2> QED
    BY <1>2, <1>8, <1>9, <2>1, <2>2 DEF Alike
<1>12. Matching(table, q) = Matching(table, p) \cap S
  BY <1>8, <1>9, MatchingWhere
<1> QED
  BY <1>1, <1>2, <1>5, <1>6, <1>8, <1>10, <1>11, <1>12 DEF Loaded

LEMMA MatchingKeys ==
    ASSUME NEW t, NEW q, NEW p, q.type = p.type, q.from = p.from, q.where = p.where,
           p.keys # None => p.column = q.column,
           NEW S, q.keys # None, q.keys = Both(p.keys, S)
    PROVE  Matching(t, q) = {id \in Matching(t, p) : t[q.type][id][q.column] \in S}
<1>1. Reached(t, q) = Reached(t, p)
  BY DEF Reached
<1>2. CASE p.keys = None
  <2>1. q.keys = S
    BY <1>2 DEF Both
  <2> QED
    BY <1>1, <1>2, <2>1 DEF Matching
<1>3. CASE p.keys # None
  <2>1. q.keys = p.keys \cap S
    BY <1>3 DEF Both
  <2> QED
    BY <1>1, <1>3, <2>1 DEF Matching
<1> QED
  BY <1>2, <1>3

LEMMA LoadMany ==
    ASSUME NEW tree, NEW ask, Trees(tree, ask), NEW a \in DOMAIN tree, a # Root,
           NEW above, \A n \in above : NodeOK(tree, Parent(a), n),
           Edge(a) \in DOMAIN Many[tree[Parent(a)].type],
           NEW q, q = Load(tree[Parent(a)].type, Edge(a), tree[a], above)
    PROVE  Loaded(tree, ask[a], a, above, q)
<1>1. PICK p, type, e, col, T, S :
         /\ p = tree[a] /\ type = tree[Parent(a)].type /\ e = Edge(a)
         /\ col = Many[type][e].column /\ T = EdgeType(type, e)
         /\ S = {n.id : n \in above}
  OBVIOUS
<1>2. /\ PathOK(tree, a) /\ Parent(a) \in DOMAIN tree /\ QueryOK(p) /\ Alike(p, ask[a])
      /\ type \in Types /\ e \in DOMAIN Many[type] /\ e \in EdgesOf(type)
      /\ p.type = T /\ p.type \in Types
      /\ a \in Seq(EdgeNames)
  BY <1>1 DEF Trees, PathOK, QueryOK, EdgesOf
<1>3. S \in SUBSET Ids[type] /\ S = IdsOf(above)
  BY <1>1, <1>2 DEF NodeOK, IdsOf
<1>4. /\ e \notin DOMAIN One[type] /\ T = Many[type][e].type /\ col \in TableColumns[T]
  BY <1>1, <1>2, EdgeTypeFacts
<1>5. p.keys # None => p.column = col
  BY <1>1, <1>2 DEF PathOK
<1>6. Both(p.keys, S) # None
  <2>1. Both(p.keys, S) \in SUBSET Ids[type]
    BY <1>3 DEF Both
  <2> QED
    BY <1>2, <2>1, IdsAssumption
<1>7. /\ DOMAIN q = DOMAIN p /\ q.where = p.where /\ q.keys = Both(p.keys, S) /\ q.column = col
      /\ q.type = p.type /\ q.limit = p.limit /\ q.offset = p.offset /\ q.from = p.from
      /\ q.fields \in Seq(Names) /\ (q.fields = << >> <=> p.fields = << >>)
      /\ Chosen(p) \subseteq Chosen(q)
      /\ IF q.fields = << >> THEN col \in Columns(T) \cup q.hidden
         ELSE col \in Chosen(q) \cup q.hidden
  <2>1. CASE type = "User" /\ e = "polls"
    <3>1. /\ Many["User"]["polls"].column = "user_polls"
          /\ Load("User", "polls", p, above) =
                [p EXCEPT !.hidden = {"user_polls"}, !.column = "user_polls",
                          !.keys = Both(@, {n.id : n \in above})]
      BY LoadPolls
    <3>2. col = "user_polls"
      BY <1>1, <2>1, <3>1
    <3>3. q = [p EXCEPT !.hidden = {"user_polls"}, !.column = "user_polls", !.keys = Both(@, S)]
      BY <1>1, <2>1, <3>1
    <3>4. /\ DOMAIN q = DOMAIN p /\ q.where = p.where /\ q.keys = Both(p.keys, S)
          /\ q.column = "user_polls" /\ q.hidden = {"user_polls"}
          /\ q.type = p.type /\ q.limit = p.limit /\ q.offset = p.offset /\ q.from = p.from
          /\ q.fields = p.fields
      BY <1>2, <3>3 DEF QueryOK
    <3>5. Chosen(q) = Chosen(p) /\ p.fields \in Seq(Names)
      BY <1>2, <3>4 DEF Chosen, QueryOK
    <3> QED
      BY <3>2, <3>4, <3>5
  <2>2. CASE ~(type = "User" /\ e = "polls")
    <3>1. /\ Load(type, e, p, above) = ByKey(p, above, col)
          /\ T = "Vote" /\ col \in {"poll_id", "user_id"}
      <4>1. /\ Load(type, e, p, above) = ByKey(p, above, Many[type][e].column)
            /\ Many[type][e].type = "Vote" /\ Many[type][e].column \in {"poll_id", "user_id"}
        BY <1>2, <2>2, LoadByKey
      <4> QED
        BY <1>1, <1>4, <4>1
    <3>2. PICK new : new = (IF p.fields = << >> \/ col \in Chosen(p) THEN p.fields
                            ELSE Append(p.fields, col))
      OBVIOUS
    <3>3. q = [p EXCEPT !.keys = Both(@, S), !.column = col, !.fields = new]
      BY <1>1, <1>2, <3>1, <3>2 DEF ByKey, QueryOK
    <3>4. /\ DOMAIN q = DOMAIN p /\ q.where = p.where /\ q.keys = Both(p.keys, S)
          /\ q.column = col
          /\ q.type = p.type /\ q.limit = p.limit /\ q.offset = p.offset /\ q.from = p.from
          /\ q.fields = new
      BY <1>2, <3>3 DEF QueryOK
    <3>5. p.fields \in Seq(Names) /\ col \in Names /\ col \in Columns(T)
      BY <1>2, <3>1, NameFacts, ColumnFacts DEF QueryOK, Types
    <3>6. CASE p.fields = << >> \/ col \in Chosen(p)
      <4>1. q.fields = p.fields /\ Chosen(q) = Chosen(p)
        BY <3>2, <3>4, <3>6 DEF Chosen
      <4> QED
        BY <3>4, <3>5, <3>6, <4>1
    <3>7. CASE ~(p.fields = << >> \/ col \in Chosen(p))
      <4>1. q.fields = Append(p.fields, col)
        BY <3>2, <3>4, <3>7
      <4>2. q.fields \in Seq(Names) /\ q.fields # << >> /\ Chosen(q) = Chosen(p) \cup {col}
        BY <3>5, <4>1, ChosenFacts
      <4> QED
        BY <3>4, <3>7, <4>2
    <3> QED
      BY <3>6, <3>7
  <2> QED
    BY <2>1, <2>2
<1>8. QueryOK(q)
  BY <1>2, <1>4, <1>7 DEF QueryOK
<1>9. Alike(q, ask[a])
  BY <1>2, <1>7 DEF Alike
<1>10. Matching(table, q) = {id \in Matching(table, p) : table[q.type][id][q.column] \in S}
  <2>1. /\ q.type = p.type /\ q.from = p.from /\ q.where = p.where
        /\ q.keys # None /\ q.keys = Both(p.keys, S)
        /\ p.keys # None => p.column = q.column
    BY <1>5, <1>6, <1>7
  <2> QED
    BY <2>1, MatchingKeys
<1>11. PICK tree2 : tree2 = [tree EXCEPT ![a] = q]
  OBVIOUS
<1>12. tree2[a] = q
  BY <1>11
<1>13. col \in Read(tree2, a)
  BY <1>2, <1>7, <1>12 DEF Read
<1> QED
  BY <1>1, <1>2, <1>3, <1>4, <1>7, <1>8, <1>9, <1>10, <1>11, <1>13 DEF Loaded

LEMMA LoadFacts ==
    ASSUME NEW tree, NEW ask, Trees(tree, ask), NEW a \in DOMAIN tree, a # Root,
           NEW above, \A n \in above : NodeOK(tree, Parent(a), n),
           NEW q, q = Load(tree[Parent(a)].type, Edge(a), tree[a], above)
    PROVE  Loaded(tree, ask[a], a, above, q)
<1>1. Edge(a) \in EdgesOf(tree[Parent(a)].type)
  BY DEF Trees, PathOK
<1> QED
  BY <1>1, LoadOne, LoadMany DEF EdgesOf

----------------------------------------------------------------------------
(***************************************************************************)
(* A statement: what it finds are nodes for its query, which hold the      *)
(* columns that are read, and each of them belongs to a node above.        *)
(***************************************************************************)
Stated(a, above, q, tree, ids, nodes) ==
    /\ run # None /\ run.todo # << >> /\ a = Head(run.todo)
    /\ above = run.found[Parent(a)]
    /\ q = IF a = Root THEN query[a] ELSE Load(query[Parent(a)].type, Edge(a), query[a], above)
    /\ tree = [query EXCEPT ![a] = q]
    /\ ids \in Returned(table, q)
    /\ nodes = {Node(table, q, Read(tree, a), id) : id \in ids}

\* What follows of the query that runs, and of what was to come.
StatedTree(a, above, q, tree) ==
    /\ a \in DOMAIN query /\ a \in Seq(EdgeNames)
    /\ a \in Range(run.todo) /\ a \notin DOMAIN run.found
    /\ a # Root => Under(run.found, a) /\ Loaded(query, asked[a], a, above, q)
    /\ a = Root => q = query[a]
    /\ QueryOK(q) /\ Alike(q, asked[a]) /\ Trees(tree, asked)
    /\ q.type = query[a].type /\ q.limit = query[a].limit /\ q.offset = query[a].offset
    /\ DOMAIN tree = DOMAIN query /\ tree[a] = q
    /\ \A b \in DOMAIN query \ {a} : tree[b] = query[b]

LEMMA TreesQuery ==
    ASSUME NEW tree, NEW ask, Trees(tree, ask), NEW a \in DOMAIN tree, NEW q,
           QueryOK(q), Alike(q, ask[a]), q.type = tree[a].type, q.from = tree[a].from,
           a = Root => q = tree[a],
           a # Root /\ q.keys # None =>
              /\ Edge(a) \in DOMAIN Many[tree[Parent(a)].type]
              /\ q.column = Many[tree[Parent(a)].type][Edge(a)].column,
           NEW tree2, tree2 = [tree EXCEPT ![a] = q]
    PROVE  Trees(tree2, ask)
<1>1. /\ DOMAIN tree2 = DOMAIN tree /\ tree2[a] = q
      /\ \A b \in DOMAIN tree \ {a} : tree2[b] = tree[b]
  OBVIOUS
<1>2. Root \in DOMAIN tree2 /\ ask[Root] = tree2[Root]
  BY <1>1 DEF Trees
<1>3. ASSUME NEW b \in DOMAIN tree
      PROVE  /\ b \in Seq(EdgeNames) /\ QueryOK(tree2[b]) /\ QueryOK(ask[b])
             /\ Alike(tree2[b], ask[b])
             /\ tree2[b].type = tree[b].type /\ tree2[b].from = tree[b].from
  BY <1>1 DEF Trees
<1>4. ASSUME NEW b \in DOMAIN tree \ {Root}
      PROVE  PathOK(tree2, b)
  <2>1. PathOK(tree, b)
    BY DEF Trees
  <2>2. tree2[Parent(b)].type = tree[Parent(b)].type
    BY <1>3, <2>1 DEF PathOK
  <2>3. CASE b = a
    BY <1>1, <1>3, <2>1, <2>2, <2>3 DEF PathOK
  <2>4. CASE b # a
    <3>1. tree2[b] = tree[b]
      BY <1>1, <2>4
    <3> QED
      BY <1>1, <2>1, <2>2, <3>1 DEF PathOK
  <2> QED
    BY <2>3, <2>4
<1> QED
  BY <1>1, <1>2, <1>3, <1>4 DEF Trees

LEMMA StatedTreeFacts ==
    ASSUME QueryInv, NEW a, NEW above, NEW q, NEW tree, NEW ids, NEW nodes,
           Stated(a, above, q, tree, ids, nodes)
    PROVE  StatedTree(a, above, q, tree)
<1>1. /\ Trees(query, asked) /\ run # None /\ run.todo # << >> /\ a = Head(run.todo)
      /\ above = run.found[Parent(a)]
      /\ run.todo \in Seq(DOMAIN query) /\ IsInjective(run.todo)
      /\ tree = [query EXCEPT ![a] = q]
      /\ a = Root => q = query[a]
      /\ a # Root => q = Load(query[Parent(a)].type, Edge(a), query[a], above)
  BY DEF QueryInv, RunInv, Stated
<1>2. a \in Range(run.todo) /\ a \in DOMAIN query
  BY <1>1, TailFacts
<1>3. a \notin DOMAIN run.found /\ (a # Root => Under(run.found, a))
  BY <1>1, <1>2 DEF QueryInv, RunInv
<1>4. a \in Seq(EdgeNames) /\ QueryOK(query[a]) /\ Alike(query[a], asked[a])
  BY <1>1, <1>2 DEF Trees
<1>5. ASSUME a # Root
      PROVE  Loaded(query, asked[a], a, above, q)
  <2>1. \A n \in above : NodeOK(query, Parent(a), n)
    BY <1>1, <1>3, <1>5 DEF QueryInv, RunInv, Under
  <2> QED
    BY <1>1, <1>2, <1>5, <2>1, LoadFacts
<1>6. /\ QueryOK(q) /\ Alike(q, asked[a]) /\ q.type = query[a].type /\ q.from = query[a].from
      /\ q.limit = query[a].limit /\ q.offset = query[a].offset
  BY <1>1, <1>4, <1>5 DEF Loaded
<1>7. a # Root /\ q.keys # None =>
         /\ Edge(a) \in DOMAIN Many[query[Parent(a)].type]
         /\ q.column = Many[query[Parent(a)].type][Edge(a)].column
  BY <1>5 DEF Loaded
<1>8. Trees(tree, asked)
  BY <1>1, <1>2, <1>6, <1>7, TreesQuery
<1>9. /\ DOMAIN tree = DOMAIN query /\ tree[a] = q
      /\ \A b \in DOMAIN query \ {a} : tree[b] = query[b]
  BY <1>1, <1>2
<1> QED
  BY <1>1, <1>2, <1>3, <1>4, <1>5, <1>6, <1>8, <1>9 DEF StatedTree

\* What follows of the nodes that it finds.
StatedNodes(a, q, tree, ids, nodes) ==
    /\ ids \subseteq Matching(table, q) /\ IsFiniteSet(Matching(table, q))
    /\ Cardinality(Matching(table, q)) \in Nat
    /\ Cardinality(nodes) = Kept(q, Cardinality(Matching(table, q)))
    /\ IdsOf(nodes) = ids
    /\ Unlimited(q) => IdsOf(nodes) = Matching(table, q)
    /\ \A n \in nodes :
          /\ n.id \in ids /\ n.id \in Rows(table, q.type)
          /\ \A c \in Read(tree, a) \cap TableColumns[q.type] : n.row[c] = table[q.type][n.id][c]
          /\ NodeOK(tree, a, n)

LEMMA StatedNodesFacts ==
    ASSUME QueryInv, NEW a, NEW above, NEW q, NEW tree, NEW ids, NEW nodes,
           Stated(a, above, q, tree, ids, nodes)
    PROVE  StatedNodes(a, q, tree, ids, nodes)
<1>1. /\ TableOK(table) /\ Legal(table) /\ ids \in Returned(table, q)
      /\ nodes = {Node(table, q, Read(tree, a), id) : id \in ids}
  BY DEF QueryInv, EntInv, Stated
<1>2. /\ a \in DOMAIN tree /\ tree[a] = q /\ QueryOK(q) /\ q.type \in Types
      /\ a \in Seq(EdgeNames)
  BY StatedTreeFacts DEF StatedTree, QueryOK
<1>3. PICK M : M = Matching(table, q)
  OBVIOUS
<1>4. /\ M \subseteq Rows(table, q.type) /\ Rows(table, q.type) \subseteq Ids[q.type]
      /\ IsFiniteSet(M) /\ Cardinality(M) \in Nat
  BY <1>1, <1>2, <1>3, MatchingBounds
<1>5. ids \in SUBSET M /\ Cardinality(ids) = Kept(q, Cardinality(M))
  BY <1>1, <1>3 DEF Returned
<1>6. IsFiniteSet(ids) /\ (Cardinality(M) = Cardinality(ids) => M = ids)
  BY <1>4, <1>5, FS_Subset
<1>7. /\ IdsOf(nodes) = ids /\ Cardinality(nodes) = Cardinality(ids)
      /\ \A n \in nodes :
            /\ n.id \in ids
            /\ \A c \in Read(tree, a) \cap TableColumns[q.type] : n.row[c] = table[q.type][n.id][c]
      /\ nodes = {} <=> ids = {}
  <2>1. PICK columns : columns = Read(tree, a)
    OBVIOUS
  <2>2. nodes = NodesOf(q, columns, ids)
    BY <1>1, <2>1 DEF NodesOf
  <2>3. /\ IdsOf(nodes) = ids /\ Cardinality(nodes) = Cardinality(ids)
        /\ \A n \in nodes :
              /\ n.id \in ids
              /\ \A c \in columns \cap TableColumns[q.type] : n.row[c] = table[q.type][n.id][c]
        /\ nodes = {} <=> ids = {}
    BY <1>6, <2>2, NodesFacts
  <2> QED
    BY <2>1, <2>3
<1>8. Unlimited(q) => IdsOf(nodes) = M
  BY <1>4, <1>5, <1>6, <1>7, KeptFacts
<1>9. ASSUME NEW n \in nodes
      PROVE  n.id \in Rows(table, q.type) /\ NodeOK(tree, a, n)
  <2>1. n.id \in Rows(table, q.type) /\ n.id \in Ids[q.type]
    BY <1>4, <1>5, <1>7
  <2>2. ASSUME NEW e \in DOMAIN One[q.type], Append(a, e) \in DOMAIN tree
        PROVE  n.row[One[q.type][e]] \in Ids[EdgeType(q.type, e)]
    <3>1. One[q.type][e] \in Columns(q.type) /\ One[q.type][e] \in TableColumns[q.type]
      BY <1>2, EdgeTypeFacts DEF EdgesOf
    <3>2. One[q.type][e] \in Read(tree, a)
      BY <1>2, <2>2, <3>1 DEF Read
    <3>3. n.row[One[q.type][e]] = table[q.type][n.id][One[q.type][e]]
      BY <1>7, <3>1, <3>2
    <3>4. table[q.type][n.id][One[q.type][e]] \in Ids[EdgeType(q.type, e)]
      BY <1>1, <1>2, <2>1, RefFacts
    <3> QED
      BY <3>3, <3>4
  <2> QED
    BY <1>2, <2>1, <2>2 DEF NodeOK
<1> QED
  BY <1>3, <1>4, <1>5, <1>7, <1>8, <1>9 DEF StatedNodes

LEMMA NobodyIsHomeless ==
    ASSUME QueryInv, NEW a, NEW above, NEW q, NEW tree, NEW ids, NEW nodes,
           Stated(a, above, q, tree, ids, nodes), a # Root
    PROVE  nodes = UNION {Given(query[Parent(a)].type, Edge(a), q, n, nodes) : n \in above}
<1>1. PICK type, e : type = query[Parent(a)].type /\ e = Edge(a)
  OBVIOUS
<1>2. /\ Loaded(query, asked[a], a, above, q) /\ tree = [query EXCEPT ![a] = q]
      /\ q.type = query[a].type /\ Trees(query, asked) /\ a \in DOMAIN query
  BY StatedTreeFacts DEF StatedTree, Stated, QueryInv
<1>3. /\ ids \subseteq Matching(table, q)
      /\ \A n \in nodes :
            /\ n.id \in ids
            /\ \A c \in Read(tree, a) \cap TableColumns[q.type] : n.row[c] = table[q.type][n.id][c]
  BY StatedNodesFacts DEF StatedNodes
<1>4. type \in Types /\ e \in EdgesOf(type)
  BY <1>1, <1>2 DEF Trees, PathOK, QueryOK
<1>5. \A n \in above : Given(type, e, q, n, nodes) \subseteq nodes
  BY DEF Given
<1>6. ASSUME NEW m \in nodes
      PROVE  \E n \in above : m \in Given(type, e, q, n, nodes)
  <2>1. CASE e \in DOMAIN One[type]
    <3>1. m.id \in {n.row[One[type][e]] : n \in above}
      BY <1>1, <1>2, <1>3, <2>1 DEF Loaded
    <3>2. PICK n \in above : m.id = n.row[One[type][e]]
      BY <3>1
    <3> QED
      BY <2>1, <3>2 DEF Given
  <2>2. CASE e \in DOMAIN Many[type]
    <3>1. PICK col : col = Many[type][e].column
      OBVIOUS
    <3>2. /\ col \in Read(tree, a) \cap TableColumns[q.type]
          /\ Matching(table, q) = {id \in Matching(table, query[a]) :
                                     table[q.type][id][col] \in IdsOf(above)}
      BY <1>1, <1>2, <2>2, <3>1 DEF Loaded
    <3>3. m.row[col] = table[q.type][m.id][col] /\ table[q.type][m.id][col] \in IdsOf(above)
      BY <1>3, <3>2
    <3>4. PICK n \in above : m.row[col] = n.id
      BY <3>3 DEF IdsOf
    <3>5. e \notin DOMAIN One[type]
      BY <1>4, <2>2, EdgeTypeFacts
    <3> QED
      BY <3>1, <3>4, <3>5 DEF Given
  <2> QED
    BY <1>4, <2>1, <2>2 DEF EdgesOf
<1>7. nodes = UNION {Given(type, e, q, n, nodes) : n \in above}
  BY <1>5, <1>6
<1> QED
  BY <1>1, <1>7

----------------------------------------------------------------------------
(***************************************************************************)
(* What is to come after a statement.                                      *)
(***************************************************************************)
LEMMA BelowFacts ==
    ASSUME NEW tree, DOMAIN tree \subseteq Seq(EdgeNames), NEW a \in DOMAIN tree,
           tree[a].type \in Types, NEW op, NEW nodes, NEW s, s = Below(op, tree, a, nodes)
    PROVE  /\ s \in Seq(DOMAIN tree) /\ IsInjective(s)
           /\ \A b \in Range(s) : nodes # {} /\ b # Root /\ Parent(b) = a
           /\ op \notin OnlyIDs /\ nodes # {} =>
                 \A b \in DOMAIN tree \ {Root} :
                    Parent(b) = a /\ Edge(b) \in EdgesOf(tree[a].type) => b \in Range(s)
<1>1. a \in Seq(EdgeNames) /\ EdgesOf(tree[a].type) \subseteq EdgeNames
  BY OrderFacts
<1>2. CASE op \in OnlyIDs \/ nodes = {}
  <2>1. s = << >>
    BY <1>2 DEF Below
  <2>2. s \in Seq(DOMAIN tree) /\ DOMAIN s = {}
    BY <2>1
  <2>3. IsInjective(s) /\ \A b : b \notin Range(s)
    BY <2>2 DEF IsInjective, Range
  <2> QED
    BY <1>2, <2>2, <2>3
<1>3. CASE ~(op \in OnlyIDs \/ nodes = {})
  <2>1. s = Children(tree, a)
    BY <1>3 DEF Below
  <2>2. /\ s \in Seq(DOMAIN tree) /\ IsInjective(s)
        /\ Range(s) = {Append(a, e) : e \in EdgesOf(tree[a].type)} \cap DOMAIN tree
    BY <2>1, ChildFacts
  <2>3. ASSUME NEW b \in Range(s)
        PROVE  b # Root /\ Parent(b) = a
    <3>1. PICK e \in EdgesOf(tree[a].type) : b = Append(a, e)
      BY <2>2
    <3> QED
      BY <1>1, <3>1, AppendFacts
  <2>4. ASSUME NEW b \in DOMAIN tree \ {Root}, Parent(b) = a, Edge(b) \in EdgesOf(tree[a].type)
        PROVE  b \in Range(s)
    <3>1. b = Append(a, Edge(b))
      BY <2>4, PathFacts
    <3> QED
      BY <2>2, <2>4, <3>1
  <2> QED
    BY <1>3, <2>2, <2>3, <2>4
<1> QED
  BY <1>2, <1>3

\* The step of a statement, with what it finds.
Advances(a, tree, nodes) ==
    /\ query' = tree /\ asked' = asked /\ runs' = runs /\ answer' = None
    /\ run' = [run EXCEPT !.found = Put(@, a, nodes),
                          !.todo = Below(run.op, tree, a, nodes) \o Tail(@)]

Coming(a, tree, nodes) ==
    /\ DOMAIN run' = {"op", "todo", "found"} /\ run'.op = run.op /\ run.op \in RunOps
    /\ DOMAIN run'.found = DOMAIN run.found \cup {a}
    /\ run'.found[a] = nodes
    /\ \A b \in DOMAIN run.found : b # a /\ run'.found[b] = run.found[b]
    /\ run'.todo \in Seq(DOMAIN tree) /\ IsInjective(run'.todo)
    /\ \A b \in Range(run'.todo) :
          \/ nodes # {} /\ b # Root /\ Parent(b) = a /\ b \notin DOMAIN run.found /\ b # a
          \/ b \in Range(run.todo) /\ b # a /\ b \notin DOMAIN run.found /\ (b # Root => Under(run.found, b))
    /\ Range(run.todo) \ {a} \subseteq Range(run'.todo)
    /\ run.op \notin OnlyIDs /\ nodes # {} =>
          \A b \in DOMAIN tree \ {Root} : Parent(b) = a => b \in Range(run'.todo)

LEMMA ComingFacts ==
    ASSUME QueryInv, NEW a, NEW above, NEW q, NEW tree, NEW ids, NEW nodes,
           Stated(a, above, q, tree, ids, nodes), Advances(a, tree, nodes)
    PROVE  Coming(a, tree, nodes)
<1>1. /\ a \in DOMAIN tree /\ a \in Seq(EdgeNames) /\ DOMAIN tree = DOMAIN query
      /\ a \in Range(run.todo) /\ a \notin DOMAIN run.found
      /\ Trees(tree, asked) /\ tree[a].type \in Types /\ DOMAIN tree \subseteq Seq(EdgeNames)
  BY StatedTreeFacts DEF StatedTree, Trees, QueryOK
<1>2. /\ run # None /\ run.todo # << >> /\ a = Head(run.todo)
      /\ DOMAIN run = {"op", "todo", "found"} /\ run.op \in RunOps
      /\ run.todo \in Seq(DOMAIN tree) /\ IsInjective(run.todo)
      /\ \A b \in Range(run.todo) : b \notin DOMAIN run.found /\ (b # Root => Under(run.found, b))
      /\ \A b \in DOMAIN run.found : b # Root => Under(run.found, b)
  BY <1>1 DEF QueryInv, RunInv, Stated
<1>3. PICK op, s, t : op = run.op /\ s = Below(op, tree, a, nodes) /\ t = Tail(run.todo)
  OBVIOUS
<1>4. /\ t \in Seq(DOMAIN tree) /\ IsInjective(t) /\ Range(t) = Range(run.todo) \ {a}
  BY <1>2, <1>3, TailFacts
<1>5. /\ s \in Seq(DOMAIN tree) /\ IsInjective(s)
      /\ \A b \in Range(s) : nodes # {} /\ b # Root /\ Parent(b) = a
      /\ op \notin OnlyIDs /\ nodes # {} =>
            \A b \in DOMAIN tree \ {Root} :
               Parent(b) = a /\ Edge(b) \in EdgesOf(tree[a].type) => b \in Range(s)
  BY <1>1, <1>3, BelowFacts
<1>6. ASSUME NEW b \in Range(s)
      PROVE  b \notin DOMAIN run.found /\ b # a /\ b \notin Range(run.todo)
  <2>1. b # Root /\ Parent(b) = a /\ ~Under(run.found, b)
    BY <1>1, <1>5 DEF Under
  <2>2. b # a
    BY <1>1, <2>1, PathFacts
  <2> QED
    BY <1>2, <2>1, <2>2
<1>7. Range(s) \cap Range(t) = {}
  BY <1>4, <1>6
<1>8. /\ s \o t \in Seq(DOMAIN tree) /\ IsInjective(s \o t)
      /\ Range(s \o t) = Range(s) \cup Range(t)
  BY <1>4, <1>5, <1>7, ConcatFacts
<1>9. run' = [run EXCEPT !.found = Put(run.found, a, nodes), !.todo = s \o t]
  BY <1>3 DEF Advances
<1>10. /\ DOMAIN run' = DOMAIN run /\ run'.op = run.op /\ run'.todo = s \o t
       /\ run'.found = Put(run.found, a, nodes)
  BY <1>2, <1>9
<1>11. /\ DOMAIN run'.found = DOMAIN run.found \cup {a} /\ run'.found[a] = nodes
       /\ \A b \in DOMAIN run.found : b # a /\ run'.found[b] = run.found[b]
  BY <1>1, <1>10 DEF Put
<1>12. \A b \in DOMAIN tree \ {Root} : Parent(b) = a => Edge(b) \in EdgesOf(tree[a].type)
  BY <1>1 DEF Trees, PathOK
<1>13. ASSUME NEW b \in Range(run'.todo)
       PROVE  \/ nodes # {} /\ b # Root /\ Parent(b) = a /\ b \notin DOMAIN run.found /\ b # a
              \/ b \in Range(run.todo) /\ b # a /\ b \notin DOMAIN run.found /\ (b # Root => Under(run.found, b))
  BY <1>2, <1>4, <1>5, <1>6, <1>8, <1>10
<1>14. run'.todo \in Seq(DOMAIN tree) /\ IsInjective(run'.todo)
  BY <1>8, <1>10
<1>15. Range(run.todo) \ {a} \subseteq Range(run'.todo)
  BY <1>4, <1>8, <1>10
<1>16. run.op \notin OnlyIDs /\ nodes # {} =>
          \A b \in DOMAIN tree \ {Root} : Parent(b) = a => b \in Range(run'.todo)
  BY <1>3, <1>5, <1>8, <1>10, <1>12
<1> QED
  BY <1>2, <1>10, <1>11, <1>13, <1>14, <1>15, <1>16 DEF Coming

LEMMA StatedRunKeeps ==
    ASSUME QueryInv, NEW a, NEW above, NEW q, NEW tree, NEW ids, NEW nodes,
           Stated(a, above, q, tree, ids, nodes), Advances(a, tree, nodes)
    PROVE  RunInv'
<1>1. StatedTree(a, above, q, tree)
  BY StatedTreeFacts
<1>2. Coming(a, tree, nodes)
  BY ComingFacts
<1>3. RunInv /\ run # None
  BY DEF QueryInv, Stated
<1>4. /\ query' = tree /\ answer' = None /\ runs' = runs
      /\ Root \in DOMAIN query' /\ runs' >= 1
      /\ DOMAIN run'.found \subseteq DOMAIN query'
  BY <1>1, <1>2, <1>3 DEF Advances, StatedTree, Coming, RunInv
<1>5. Root \in DOMAIN run'.found
  <2>1. CASE Root \in DOMAIN run.found
    BY <1>2, <2>1 DEF Coming
  <2>2. CASE Root \notin DOMAIN run.found
    <3>1. run.todo = <<Root>>
      BY <1>3, <2>2 DEF RunInv
    <3>2. a = Root
      BY <3>1 DEF Stated
    <3> QED
      BY <1>2, <3>2 DEF Coming
  <2> QED
    BY <2>1, <2>2
<1>6. ASSUME NEW b, b # Root, Under(run.found, b)
      PROVE  Under(run'.found, b)
  BY <1>2, <1>6 DEF Under, Coming
<1>7. ASSUME NEW b \in Range(run'.todo)
      PROVE  b \notin DOMAIN run'.found /\ (b # Root => Under(run'.found, b))
  <2>1. CASE nodes # {} /\ b # Root /\ Parent(b) = a /\ b \notin DOMAIN run.found /\ b # a
    BY <1>2, <2>1 DEF Coming, Under
  <2>2. CASE b \in Range(run.todo) /\ b # a /\ b \notin DOMAIN run.found /\ (b # Root => Under(run.found, b))
    BY <1>2, <1>6, <2>2 DEF Coming
  <2> QED
    BY <1>2, <2>1, <2>2 DEF Coming
<1>8. ASSUME NEW b \in DOMAIN run'.found
      PROVE  /\ b # Root => Under(run'.found, b)
             /\ \A n \in run'.found[b] : NodeOK(query', b, n)
  <2>1. CASE b = a
    <3>1. b # Root => Under(run'.found, b)
      BY <1>1, <1>6, <2>1 DEF StatedTree
    <3>2. \A n \in nodes : NodeOK(tree, a, n)
      BY StatedNodesFacts DEF StatedNodes
    <3>3. run'.found[b] = nodes
      BY <1>2, <2>1 DEF Coming
    <3> QED
      BY <1>4, <2>1, <3>1, <3>2, <3>3
  <2>2. CASE b # a
    <3>1. b \in DOMAIN run.found /\ run'.found[b] = run.found[b]
      BY <1>2, <2>2 DEF Coming
    <3>2. /\ b # Root => Under(run.found, b)
          /\ \A n \in run.found[b] : NodeOK(query, b, n)
          /\ b \in DOMAIN query
      BY <1>3, <3>1 DEF RunInv
    <3>3. tree[b] = query[b] /\ DOMAIN tree = DOMAIN query
      BY <1>1, <2>2, <3>2 DEF StatedTree
    <3>4. \A n \in run.found[b] : NodeOK(tree, b, n)
      BY <3>2, <3>3 DEF NodeOK
    <3> QED
      BY <1>4, <1>6, <3>1, <3>2, <3>4
  <2> QED
    BY <2>1, <2>2
<1>9. run'.op \notin {"All", "IDs"} => query'[Root].limit = LimitOf(run'.op)
  <2>1. tree[Root].limit = query[Root].limit
    BY <1>1, <1>3 DEF StatedTree, RunInv
  <2> QED
    BY <1>2, <1>3, <1>4, <2>1 DEF RunInv, Coming
<1>10. /\ DOMAIN run' = {"op", "todo", "found"} /\ run'.op \in RunOps
       /\ run'.todo \in Seq(DOMAIN query') /\ IsInjective(run'.todo)
  BY <1>2, <1>4 DEF Coming
<1> QED
  BY <1>4, <1>5, <1>7, <1>8, <1>9, <1>10 DEF RunInv

----------------------------------------------------------------------------
(***************************************************************************)
(* While nobody else changes the tables.  Loading keeps out no row that a  *)
(* node above leads to.                                                    *)
(***************************************************************************)
LEMMA LoadKeeps ==
    ASSUME NEW type \in Types, NEW e \in EdgesOf(type), NEW tree, NEW a, NEW p, NEW q, NEW above,
           Loaded(tree, p, a, above, q), type = tree[Parent(a)].type, e = Edge(a),
           tree[a].type = EdgeType(type, e),
           NEW n \in above,
           e \in DOMAIN One[type] => n.row[One[type][e]] = table[type][n.id][One[type][e]]
    PROVE  Matching(table, tree[a]) \cap OtherEnd(type, e, n.id) \subseteq Matching(table, q)
<1>1. CASE e \in DOMAIN One[type]
  <2>1. OtherEnd(type, e, n.id) = {n.row[One[type][e]]}
    BY <1>1 DEF OtherEnd
  <2>2. Matching(table, q) = Matching(table, tree[a]) \cap {m.row[One[type][e]] : m \in above}
    BY <1>1 DEF Loaded
  <2> QED
    BY <2>1, <2>2
<1>2. CASE e \in DOMAIN Many[type]
  <2>1. e \notin DOMAIN One[type] /\ tree[a].type = Many[type][e].type
    BY <1>2, EdgeTypeFacts
  <2>2. PICK T, col : T = Many[type][e].type /\ col = Many[type][e].column
    OBVIOUS
  <2>3. OtherEnd(type, e, n.id) = {r \in Rows(table, T) : table[T][r][col] = n.id}
    BY <2>1, <2>2 DEF OtherEnd, Linked
  <2>4. Matching(table, q) = {id \in Matching(table, tree[a]) : table[T][id][col] \in IdsOf(above)}
    BY <1>2, <2>1, <2>2 DEF Loaded
  <2>5. n.id \in IdsOf(above)
    BY DEF IdsOf
  <2> QED
    BY <2>3, <2>4, <2>5
<1> QED
  BY <1>1, <1>2 DEF EdgesOf

LEMMA AboveFacts ==
    ASSUME QueryInv, mishaps = 0, NEW a, NEW above, NEW q, NEW tree, NEW ids, NEW nodes,
           Stated(a, above, q, tree, ids, nodes), a # Root, NEW n \in above
    PROVE  /\ n.id \in Matching(table, query[Parent(a)])
           /\ Matching(table, query[a]) \cap OtherEnd(query[Parent(a)].type, Edge(a), n.id)
                  \subseteq Matching(table, q)
<1>1. PICK b, type, e : b = Parent(a) /\ type = query[b].type /\ e = Edge(a)
  OBVIOUS
<1>2. /\ a \in DOMAIN query /\ a \in Seq(EdgeNames) /\ b \in DOMAIN run.found
      /\ Loaded(query, asked[a], a, above, q) /\ PathOK(query, a)
      /\ above = run.found[b] /\ run # None /\ b \in DOMAIN query
      /\ Trees(query, asked)
  BY <1>1, StatedTreeFacts DEF StatedTree, Under, Stated, QueryInv, Trees, PathOK
<1>3. type \in Types /\ e \in EdgesOf(type) /\ query[a].type = EdgeType(type, e)
  BY <1>1, <1>2 DEF Trees, PathOK, QueryOK
<1>4. Right(b)
  BY <1>2 DEF QueryInv, CalmInv
<1>5. /\ IdsOf(above) \subseteq Matching(table, query[b])
      /\ \A c \in Read(query, b) \cap TableColumns[type] : n.row[c] = table[type][n.id][c]
  BY <1>1, <1>2, <1>4 DEF Right
<1>6. ASSUME e \in DOMAIN One[type]
      PROVE  n.row[One[type][e]] = table[type][n.id][One[type][e]]
  <2>1. One[type][e] \in Columns(type) /\ One[type][e] \in TableColumns[type]
    BY <1>3, EdgeTypeFacts, <1>6
  <2>2. a = Append(b, e)
    BY <1>1, <1>2, PathFacts
  <2>3. One[type][e] \in Read(query, b)
    BY <1>1, <1>2, <1>6, <2>1, <2>2 DEF Read
  <2> QED
    BY <1>5, <2>1, <2>3
<1>7. Matching(table, query[a]) \cap OtherEnd(type, e, n.id) \subseteq Matching(table, q)
  BY <1>1, <1>2, <1>3, <1>6, LoadKeeps
<1>8. n.id \in Matching(table, query[b])
  BY <1>5 DEF IdsOf
<1> QED
  BY <1>1, <1>7, <1>8

LEMMA LoadedShrinks ==
    ASSUME NEW tree, NEW a, NEW p, NEW q, NEW above, Loaded(tree, p, a, above, q),
           Edge(a) \in EdgesOf(tree[Parent(a)].type)
    PROVE  Matching(table, q) \subseteq Matching(table, tree[a])
<1>1. CASE Edge(a) \in DOMAIN One[tree[Parent(a)].type]
  BY <1>1 DEF Loaded
<1>2. CASE Edge(a) \in DOMAIN Many[tree[Parent(a)].type]
  BY <1>2 DEF Loaded
<1> QED
  BY <1>1, <1>2 DEF EdgesOf

LEMMA StatedFair ==
    ASSUME QueryInv, mishaps = 0, NEW a, NEW above, NEW q, NEW tree, NEW ids, NEW nodes,
           Stated(a, above, q, tree, ids, nodes)
    PROVE  AllFair(tree, asked)
<1>1. /\ Trees(query, asked) /\ AllFair(query, asked) /\ a \in DOMAIN query
      /\ tree = [query EXCEPT ![a] = q] /\ q.type = query[a].type
      /\ q.limit = query[a].limit /\ q.offset = query[a].offset
      /\ DOMAIN tree = DOMAIN query /\ tree[a] = q
      /\ \A b \in DOMAIN query \ {a} : tree[b] = query[b]
      /\ a \in Seq(EdgeNames)
  BY StatedTreeFacts DEF StatedTree, Stated, QueryInv, CalmInv
<1>2. Unlimited(q) => Unlimited(query[a])
  BY <1>1 DEF Unlimited
<1>3. Matching(table, q) \subseteq Matching(table, query[a])
  <2>1. CASE a = Root
    BY <2>1 DEF Stated
  <2>2. CASE a # Root
    <3>1. Loaded(query, asked[a], a, above, q)
      BY <2>2, StatedTreeFacts DEF StatedTree
    <3>2. Edge(a) \in EdgesOf(query[Parent(a)].type)
      BY <1>1, <2>2 DEF Trees, PathOK
    <3> QED
      BY <3>1, <3>2, LoadedShrinks
  <2> QED
    BY <2>1, <2>2
<1>4. ASSUME a # Root
      PROVE  Fair(tree, asked, a)
  <2>1. /\ Parent(a) \in DOMAIN query /\ Parent(a) # a /\ Parent(a) \in DOMAIN run.found
        /\ above = run.found[Parent(a)] /\ Fair(query, asked, a) /\ run # None
    BY <1>1, <1>4, StatedTreeFacts, PathFacts
       DEF StatedTree, Under, Trees, PathOK, AllFair, Stated
  <2>2. tree[Parent(a)] = query[Parent(a)]
    BY <1>1, <2>1
  <2>3. PICK b : b = query[Parent(a)]
    OBVIOUS
  <2>4. ASSUME Unlimited(b), NEW id \in Matching(table, b)
        PROVE  Matching(table, asked[a]) \cap OtherEnd(b.type, Edge(a), id) \subseteq Matching(table, q)
    <3>1. Right(Parent(a))
      BY <2>1 DEF QueryInv, CalmInv
    <3>2. IdsOf(above) = Matching(table, b)
      BY <2>1, <2>3, <2>4, <3>1 DEF Right
    <3>3. PICK n \in above : n.id = id
      BY <2>4, <3>2 DEF IdsOf
    <3>4. Matching(table, query[a]) \cap OtherEnd(b.type, Edge(a), id) \subseteq Matching(table, q)
      BY <1>4, <2>3, <3>3, AboveFacts
    <3>5. Matching(table, asked[a]) \cap OtherEnd(b.type, Edge(a), id) \subseteq Matching(table, query[a])
      BY <2>1, <2>3, <2>4 DEF Fair
    <3> QED
      BY <3>4, <3>5
  <2> QED
    BY <1>1, <2>2, <2>3, <2>4 DEF Fair
<1>5. SUFFICES ASSUME NEW c \in DOMAIN tree \ {Root}, c # a
               PROVE  Fair(tree, asked, c)
  BY <1>4 DEF AllFair
<1>6. Parent(c) \in DOMAIN query /\ Fair(query, asked, c) /\ tree[c] = query[c]
  BY <1>1, <1>5 DEF Trees, PathOK, AllFair
<1>7. CASE Parent(c) = a
  BY <1>1, <1>2, <1>3, <1>6, <1>7 DEF Fair
<1>8. CASE Parent(c) # a
  <2>1. tree[Parent(c)] = query[Parent(c)]
    BY <1>1, <1>6, <1>8
  <2> QED
    BY <1>6, <2>1 DEF Fair
<1> QED
  BY <1>7, <1>8

LEMMA StatedCalm ==
    ASSUME QueryInv, NEW a, NEW above, NEW q, NEW tree, NEW ids, NEW nodes,
           Stated(a, above, q, tree, ids, nodes), Advances(a, tree, nodes), UNCHANGED vars
    PROVE  CalmInv'
<1>1. /\ EntInv' /\ Legal(table') /\ table' = table /\ mishaps' = mishaps
      /\ AllFair(query', asked') => AllFair(query, asked)'
  BY SameTables DEF QueryInv
<1>2. SUFFICES ASSUME mishaps = 0
               PROVE  CalmInv'
  BY <1>1 DEF CalmInv
<1>3. StatedTree(a, above, q, tree) /\ StatedNodes(a, q, tree, ids, nodes) /\ Coming(a, tree, nodes)
  BY StatedTreeFacts, StatedNodesFacts, ComingFacts
<1>4. /\ query' = tree /\ asked' = asked /\ runs' = runs
      /\ run # None /\ RunInv /\ CalmInv
      /\ Trees(query, asked)
  BY DEF Advances, Stated, QueryInv
<1>5. AllFair(query, asked)'
  BY <1>1, <1>2, <1>4, StatedFair
<1>6. ASSUME NEW b \in DOMAIN run.found
      PROVE  /\ b # a /\ run'.found[b] = run.found[b] /\ b \in DOMAIN query
             /\ tree[b] = query[b] /\ Read(tree, b) = Read(query, b)
             /\ b # Root => /\ Parent(b) \in DOMAIN run.found
                            /\ run'.found[Parent(b)] = run.found[Parent(b)]
                            /\ tree[Parent(b)] = query[Parent(b)]
  <2>1. b # a /\ run'.found[b] = run.found[b]
    BY <1>3, <1>6 DEF Coming
  <2>2. b \in DOMAIN query /\ (b # Root => Parent(b) \in DOMAIN run.found)
    BY <1>4, <1>6 DEF RunInv, Under
  <2>3. DOMAIN tree = DOMAIN query /\ tree[b] = query[b]
    BY <1>3, <2>1, <2>2 DEF StatedTree
  <2>4. Read(tree, b) = Read(query, b)
    BY <2>3 DEF Read, ReadBare, Chosen
  <2>5. b # Root => /\ run'.found[Parent(b)] = run.found[Parent(b)] /\ Parent(b) # a
                    /\ Parent(b) \in DOMAIN query
    BY <1>3, <1>4, <2>2 DEF Coming, RunInv
  <2> QED
    BY <1>3, <2>1, <2>2, <2>3, <2>4, <2>5 DEF StatedTree
<1>7. ASSUME NEW b \in DOMAIN run'.found
      PROVE  Right(b)'
  <2>1. CASE b = a
    <3>1. run'.found[b] = nodes /\ query'[b] = q /\ Read(query', b) = Read(tree, a)
      BY <1>3, <1>4, <2>1 DEF Coming, StatedTree
    <3>2. /\ Cardinality(nodes) = Kept(q, Cardinality(Matching(table, q)))
          /\ IdsOf(nodes) \subseteq Matching(table, q)
          /\ Unlimited(q) => IdsOf(nodes) = Matching(table, q)
          /\ \A n \in nodes : \A c \in Read(tree, a) \cap TableColumns[q.type] :
                n.row[c] = table[q.type][n.id][c]
      BY <1>3 DEF StatedNodes
    <3> QED
      BY <1>1, <3>1, <3>2 DEF Right
  <2>2. CASE b # a
    <3>1. b \in DOMAIN run.found
      BY <1>3, <2>2 DEF Coming
    <3>2. run'.found[b] = run.found[b] /\ query'[b] = query[b] /\ Read(query', b) = Read(query, b)
      BY <1>4, <1>6, <3>1
    <3>3. Right(b)
      BY <1>2, <1>4, <3>1 DEF CalmInv
    <3> QED
      BY <1>1, <3>2, <3>3 DEF Right
  <2> QED
    BY <2>1, <2>2
<1>8. ASSUME NEW b \in DOMAIN run'.found \ {Root}
      PROVE  Whole(b)'
  <2>1. CASE b = a
    <3>1. /\ run'.found[b] = nodes /\ Under(run.found, a) /\ above = run.found[Parent(a)]
          /\ a \in DOMAIN query /\ a \in Seq(EdgeNames)
      BY <1>3, <2>1, <1>8 DEF Coming, StatedTree, Stated
    <3>2. /\ run'.found[Parent(a)] = above /\ Parent(a) # a /\ Parent(a) \in DOMAIN query
          /\ tree[Parent(a)] = query[Parent(a)]
      BY <1>3, <1>4, <1>6, <3>1, <1>8, <2>1 DEF Coming, Under, StatedTree, RunInv
    <3>3. ASSUME Unlimited(asked[a]), runs = 1 \/ Unlimited(query[Parent(a)]), NEW n \in above
          PROVE  Matching(table, asked[a]) \cap OtherEnd(query[Parent(a)].type, Edge(a), n.id)
                     \subseteq IdsOf(nodes)
      <4>1. /\ n.id \in Matching(table, query[Parent(a)])
            /\ Matching(table, query[a]) \cap OtherEnd(query[Parent(a)].type, Edge(a), n.id)
                  \subseteq Matching(table, q)
        BY <1>2, <1>8, <2>1, AboveFacts
      <4>2. Unlimited(q)
        BY <1>3, <3>3 DEF StatedTree, Alike, Unlimited
      <4>3. IdsOf(nodes) = Matching(table, q)
        BY <1>3, <4>2 DEF StatedNodes
      <4>4. CASE runs = 1
        <5>1. query[a] = asked[a]
          BY <1>3, <1>4, <4>4 DEF QueryInv, FirstRun, StatedTree
        <5> QED
          BY <4>1, <4>3, <5>1
      <4>5. CASE Unlimited(query[Parent(a)])
        <5>1. Fair(query, asked, a)
          BY <1>2, <1>4, <1>8, <2>1, <3>1 DEF CalmInv, AllFair
        <5>2. Matching(table, asked[a]) \cap OtherEnd(query[Parent(a)].type, Edge(a), n.id)
                  \subseteq Matching(table, query[a])
          BY <4>1, <4>5, <5>1 DEF Fair
        <5> QED
          BY <4>1, <4>3, <5>2
      <4> QED
        BY <3>3, <4>4, <4>5
    <3>4. \A type, e, id : OtherEnd(type, e, id)' = OtherEnd(type, e, id)
      BY <1>1 DEF OtherEnd
    <3>5. ASSUME Edge(a) \in DOMAIN Many[query[Parent(a)].type]
          PROVE  Many[query[Parent(a)].type][Edge(a)].column \in Read(tree, a)
      <4>1. Loaded(query, asked[a], a, above, q) /\ tree = [query EXCEPT ![a] = q]
        BY <1>3, <1>8, <2>1 DEF StatedTree, Stated
      <4> QED
        BY <3>5, <4>1 DEF Loaded
    <3> QED
      BY <1>1, <1>4, <2>1, <3>1, <3>2, <3>3, <3>4, <3>5 DEF Whole
  <2>2. CASE b # a
    <3>1. b \in DOMAIN run.found
      BY <1>3, <2>2 DEF Coming
    <3>2. /\ run'.found[b] = run.found[b] /\ run'.found[Parent(b)] = run.found[Parent(b)]
          /\ query'[Parent(b)] = query[Parent(b)] /\ Read(query', b) = Read(query, b)
      BY <1>4, <1>6, <1>8, <3>1
    <3>3. Whole(b)
      BY <1>2, <1>4, <1>8, <3>1 DEF CalmInv
    <3> QED
      BY <1>1, <1>4, <3>2, <3>3 DEF Whole, OtherEnd
  <2> QED
    BY <2>1, <2>2
<1>9. Complete'
  <2>1. SUFFICES ASSUME run'.op \notin OnlyIDs, NEW b \in DOMAIN query' \ {Root},
                        Under(run'.found, b)
                 PROVE  b \in DOMAIN run'.found \cup Range(run'.todo)
    BY DEF Complete
  <2>2. run.op \notin OnlyIDs /\ b \in DOMAIN query \ {Root} /\ b \in DOMAIN tree \ {Root}
    BY <1>3, <1>4, <2>1 DEF Coming, StatedTree
  <2>3. CASE Parent(b) = a
    <3>1. nodes # {}
      BY <1>3, <2>1, <2>3 DEF Under, Coming
    <3> QED
      BY <1>3, <2>2, <2>3, <3>1 DEF Coming
  <2>4. CASE Parent(b) # a
    <3>1. Under(run.found, b)
      BY <1>3, <2>1, <2>4 DEF Under, Coming
    <3>2. b \in DOMAIN run.found \cup Range(run.todo)
      BY <1>2, <1>4, <2>2, <3>1 DEF CalmInv, Complete
    <3> QED
      BY <1>3, <3>2 DEF Coming
  <2> QED
    BY <2>3, <2>4
<1> QED
  BY <1>5, <1>7, <1>8, <1>9 DEF CalmInv

LEMMA StatementFacts ==
    ASSUME QueryInv, Statement
    PROVE  \E a, above, q, tree, ids, nodes :
              Stated(a, above, q, tree, ids, nodes) /\ Advances(a, tree, nodes)
<1>0. run # None /\ run.todo # << >>
  BY DEF Statement
<1> DEFINE a == Head(run.todo)
           type == query[Parent(a)].type
           above == run.found[Parent(a)]
           q == IF a = Root THEN query[a] ELSE Load(type, Edge(a), query[a], above)
           tree == [query EXCEPT ![a] = q]
<1>2. /\ query' = tree
      /\ \E ids \in Returned(table, q) :
            LET nodes == {Node(table, q, Read(tree, a), id) : id \in ids}
                homeless == /\ a # Root
                            /\ nodes # UNION {Given(type, Edge(a), q, n, nodes) :
                                              n \in above} IN
            /\ run' = [run EXCEPT
                   !.found = Put(@, a, nodes),
                   !.todo = IF homeless THEN << >>
                            ELSE Below(run.op, tree, a, nodes) \o Tail(@)]
            /\ answer' = IF homeless
                         THEN [op |-> run.op, verdict |-> "unexpected", found |-> << >>]
                         ELSE None
      /\ UNCHANGED <<asked, runs>>
  BY Zenon DEF Statement
<1>1. /\ q = IF a = Root THEN query[a] ELSE Load(query[Parent(a)].type, Edge(a), query[a], above)
      /\ type = query[Parent(a)].type
  OBVIOUS
<1>8. a = Head(run.todo) /\ above = run.found[Parent(a)] /\ tree = [query EXCEPT ![a] = q]
  OBVIOUS
<1> HIDE DEF a, type, above, q, tree
<1> DEFINE Does(ns) ==
         LET homeless == /\ a # Root
                         /\ ns # UNION {Given(type, Edge(a), q, n, ns) : n \in above} IN
         /\ run' = [run EXCEPT
                !.found = Put(@, a, ns),
                !.todo = IF homeless THEN << >>
                         ELSE Below(run.op, tree, a, ns) \o Tail(@)]
         /\ answer' = IF homeless
                      THEN [op |-> run.op, verdict |-> "unexpected", found |-> << >>]
                      ELSE None
<1>9. PICK ids \in Returned(table, q) : Does({Node(table, q, Read(tree, a), id) : id \in ids})
  BY <1>2
<1>3. PICK nodes : nodes = {Node(table, q, Read(tree, a), id) : id \in ids} /\ Does(nodes)
  BY <1>9
<1>4. Stated(a, above, q, tree, ids, nodes)
  BY <1>0, <1>1, <1>3, <1>8, <1>9 DEF Stated
<1>5. a # Root => nodes = UNION {Given(query[Parent(a)].type, Edge(a), q, n, nodes) : n \in above}
  BY <1>4, NobodyIsHomeless
<1>6. /\ run' = [run EXCEPT !.found = Put(@, a, nodes),
                           !.todo = Below(run.op, tree, a, nodes) \o Tail(@)]
      /\ answer' = None
  BY <1>1, <1>3, <1>5
<1>7. Advances(a, tree, nodes)
  BY <1>2, <1>6 DEF Advances
<1> QED
  BY <1>4, <1>7

LEMMA StatementKeeps ==
    ASSUME QueryInv, Statement, UNCHANGED vars
    PROVE  QueryInv'
<1>1. PICK a, above, q, tree, ids, nodes :
         Stated(a, above, q, tree, ids, nodes) /\ Advances(a, tree, nodes)
  BY StatementFacts
<1>2. RunInv'
  BY <1>1, StatedRunKeeps
<1>3. CalmInv'
  BY <1>1, StatedCalm
<1>4. /\ query' = tree /\ asked' = asked /\ runs' = runs /\ answer' = None
      /\ StatedTree(a, above, q, tree) /\ Coming(a, tree, nodes) /\ run # None
  <2>1. StatedTree(a, above, q, tree)
    BY <1>1, StatedTreeFacts
  <2>2. Coming(a, tree, nodes)
    BY <1>1, ComingFacts
  <2> QED
    BY <1>1, <2>1, <2>2 DEF Advances, Stated
<1>5. Trees(query', asked')
  BY <1>4 DEF StatedTree
<1>6. FirstRun'
  <2>1. runs' >= 1
    BY <1>4 DEF QueryInv, RunInv
  <2>2. ASSUME runs' = 1, NEW b \in DOMAIN query', b \notin DOMAIN run'.found
        PROVE  query'[b] = asked'[b]
    <3>1. b \in DOMAIN query /\ b \notin DOMAIN run.found /\ b # a
      BY <1>4, <2>2 DEF StatedTree, Coming
    <3>2. query[b] = asked[b]
      BY <1>4, <2>2, <3>1 DEF QueryInv, FirstRun
    <3> QED
      BY <1>4, <3>1, <3>2 DEF StatedTree
  <2> QED
    BY <2>1, <2>2 DEF FirstRun
<1>7. EntInv' /\ Legal(table')
  BY SameTables DEF QueryInv
<1>8. AnswerInv' /\ runs' \in Nat
  BY <1>4 DEF AnswerInv, QueryInv
<1> QED
  BY <1>2, <1>3, <1>5, <1>6, <1>7, <1>8 DEF QueryInv

----------------------------------------------------------------------------
(***************************************************************************)
(* The end of a run: what it has found answers what was asked.             *)
(***************************************************************************)
LEMMA AlikeFacts ==
    ASSUME NEW t, NEW q, NEW p, Alike(q, p)
    PROVE  Matching(t, q) \subseteq Matching(t, p)
<1>1. Reached(t, q) = Reached(t, p)
  BY DEF Alike, Reached
<1> QED
  BY <1>1 DEF Alike, Matching

\* The run is over.
RunOver ==
    /\ run # None /\ run.todo = << >> /\ Root \in DOMAIN run.found
    /\ \A a \in DOMAIN run.found : a \in DOMAIN query /\ Right(a)
    /\ \A a \in DOMAIN run.found \ {Root} : Whole(a)
    /\ run.op \notin OnlyIDs =>
          \A a \in DOMAIN query \ {Root} : Under(run.found, a) => a \in DOMAIN run.found
    /\ Trees(query, asked)

LEMMA OverFacts ==
    ASSUME QueryInv, run # None, run.todo = << >>, mishaps = 0
    PROVE  RunOver
<1>1. Root \in DOMAIN run.found /\ \A a \in DOMAIN run.found : a \in DOMAIN query
  <2>1. run.todo # <<Root>>
    OBVIOUS
  <2> QED
    BY <2>1 DEF QueryInv, RunInv
<1>2. \A a : a \notin Range(run.todo)
  <2>1. DOMAIN run.todo = {}
    OBVIOUS
  <2> QED
    BY <2>1 DEF Range
<1>3. /\ \A a \in DOMAIN run.found : Right(a)
      /\ \A a \in DOMAIN run.found \ {Root} : Whole(a)
      /\ Complete
  BY DEF QueryInv, CalmInv
<1> QED
  BY <1>1, <1>2, <1>3 DEF RunOver, Complete, QueryInv

\* What is found for a query, and what is given to a node above.
FoundMeans(a) ==
    /\ IdsOf(run.found[a]) \subseteq Matching(table, asked[a])
    /\ \A n \in run.found[a], c \in Columns(asked[a].type) :
          (asked[a].fields = << >> \/ c \in Chosen(asked[a]))
              => n.row[c] = table[asked[a].type][n.id][c]

GivenMeans(a) ==
    (Unlimited(asked[a]) /\ Parent(a) \in DOMAIN run.found) =>
        LET type == asked[Parent(a)].type IN
        \A n \in run.found[Parent(a)] :
            IdsOf(Given(type, Edge(a), asked[a], n, run.found[a]))
                = Matching(table, asked[a]) \cap OtherEnd(type, Edge(a), n.id)

LEMMA FoundFacts ==
    ASSUME RunOver, NEW a \in DOMAIN run.found
    PROVE  FoundMeans(a)
<1>1. PICK q, p, nodes : q = query[a] /\ p = asked[a] /\ nodes = run.found[a]
  OBVIOUS
<1>2. Right(a) /\ Alike(q, p) /\ QueryOK(q) /\ q.type \in Types /\ p.type = q.type
  BY <1>1 DEF RunOver, Trees, Alike, QueryOK
<1>3. IdsOf(nodes) \subseteq Matching(table, p)
  BY <1>1, <1>2, AlikeFacts DEF Right
<1>4. ASSUME NEW n \in nodes, NEW c \in Columns(p.type), p.fields = << >> \/ c \in Chosen(p)
      PROVE  n.row[c] = table[p.type][n.id][c]
  <2>1. c \in Read(query, a)
    BY <1>1, <1>2, <1>4 DEF Read, Alike
  <2>2. c \in TableColumns[q.type]
    BY <1>2, <1>4, TableFacts DEF Types
  <2> QED
    BY <1>1, <1>2, <1>4, <2>1, <2>2 DEF Right
<1> QED
  BY <1>1, <1>3, <1>4 DEF FoundMeans

LEMMA GivenFacts ==
    ASSUME RunOver, TableOK(table), run.op \notin OnlyIDs,
           runs = 1 \/ \A b \in DOMAIN asked : Unlimited(asked[b]),
           NEW a \in DOMAIN asked \ {Root}
    PROVE  GivenMeans(a)
<1>1. PICK b, type, e, T : /\ b = Parent(a) /\ type = asked[b].type /\ e = Edge(a)
                           /\ T = EdgeType(type, e)
  OBVIOUS
<1>2. SUFFICES ASSUME Unlimited(asked[a]), b \in DOMAIN run.found, NEW n \in run.found[b]
               PROVE  IdsOf(Given(type, e, asked[a], n, run.found[a]))
                          = Matching(table, asked[a]) \cap OtherEnd(type, e, n.id)
  BY <1>1 DEF GivenMeans
<1>3. /\ a \in DOMAIN query /\ a \in Seq(EdgeNames) /\ PathOK(query, a) /\ b \in DOMAIN query
      /\ query[b].type = type /\ type \in Types /\ e \in EdgesOf(type)
      /\ query[a].type = T
      /\ Alike(query[a], asked[a]) /\ Alike(query[b], asked[b])
      /\ QueryOK(query[a])
  BY <1>1 DEF RunOver, Trees, PathOK, Alike, QueryOK
<1>4. a \in DOMAIN run.found
  BY <1>1, <1>2, <1>3 DEF RunOver, Under
<1>5. Whole(a) /\ Right(a) /\ Right(b) /\ FoundMeans(a)
  BY <1>2, <1>4, FoundFacts DEF RunOver
<1>6. runs = 1 \/ Unlimited(query[b])
  BY <1>3 DEF RunOver, Trees, Alike, Unlimited
<1>7. PICK nodes : nodes = run.found[a]
  OBVIOUS
<1>8. Matching(table, asked[a]) \cap OtherEnd(type, e, n.id) \subseteq IdsOf(nodes)
  BY <1>1, <1>2, <1>3, <1>5, <1>6, <1>7 DEF Whole
<1>9. IdsOf(nodes) \subseteq Matching(table, asked[a])
  BY <1>5, <1>7 DEF FoundMeans
<1>10. ASSUME NEW m \in nodes
       PROVE  m \in Given(type, e, asked[a], n, nodes) <=> m.id \in OtherEnd(type, e, n.id)
  <2>1. CASE e \in DOMAIN One[type]
    <3>1. One[type][e] \in Columns(type) /\ One[type][e] \in TableColumns[type]
      BY <1>3, <2>1, EdgeTypeFacts
    <3>2. a = Append(b, e)
      BY <1>1, <1>3, PathFacts
    <3>3. One[type][e] \in Read(query, b)
      BY <1>3, <2>1, <3>1, <3>2 DEF Read
    <3>4. n.row[One[type][e]] = table[type][n.id][One[type][e]]
      BY <1>2, <1>3, <1>5, <3>1, <3>3 DEF Right
    <3> QED
      BY <2>1, <3>4 DEF Given, OtherEnd
  <2>2. CASE e \in DOMAIN Many[type]
    <3>1. PICK col : col = Many[type][e].column
      OBVIOUS
    <3>2. e \notin DOMAIN One[type] /\ Many[type][e].type = T /\ col \in TableColumns[T]
      BY <1>1, <1>3, <2>2, <3>1, EdgeTypeFacts
    <3>3. col \in Read(query, a)
      BY <1>1, <1>3, <1>5, <2>2, <3>1 DEF Whole
    <3>4. m.row[col] = table[T][m.id][col]
      BY <1>3, <1>5, <1>7, <3>2, <3>3 DEF Right
    <3>5. m.id \in Rows(table, T)
      <4>1. m.id \in Matching(table, query[a])
        BY <1>5, <1>7 DEF Right, IdsOf
      <4> QED
        BY <1>3, <4>1, MatchingBounds
    <3>6. OtherEnd(type, e, n.id) = {r \in Rows(table, T) : table[T][r][col] = n.id}
      BY <3>1, <3>2 DEF OtherEnd, Linked
    <3> QED
      BY <3>1, <3>2, <3>4, <3>5, <3>6 DEF Given
  <2> QED
    BY <1>3, <2>1, <2>2 DEF EdgesOf
<1>11. Given(type, e, asked[a], n, nodes) \subseteq nodes
  BY DEF Given
<1>12. IdsOf(Given(type, e, asked[a], n, nodes))
           = Matching(table, asked[a]) \cap OtherEnd(type, e, n.id)
  BY <1>8, <1>9, <1>10, <1>11 DEF IdsOf
<1> QED
  BY <1>7, <1>12

LEMMA OnlyFacts ==
    ASSUME NEW op \in RunOps \ {"All", "IDs"}, NEW q, QueryOK(q), q.limit = LimitOf(op),
           NEW left \in Nat, NEW n, n = Kept(q, left),
           NEW verdict, verdict = Verdict(op, q, n), verdict # "refused"
    PROVE  /\ verdict = "missing" <=> left <= q.offset
           /\ op \in {"Only", "OnlyID"} => (verdict = "found" <=> left = q.offset + 1)
<1>1. /\ q.limit \in {1, 2} /\ q.limit # None /\ q.offset \in {0, 1}
      /\ op \in {"Only", "OnlyID"} => q.limit = 2
  BY LimitFacts, LimitAssumption DEF RunOps, OnlyIDs, QueryOK
<1>2. verdict = IF n = 0 THEN "missing"
                ELSE IF n > 1 /\ op \in {"Only", "OnlyID"} THEN "several" ELSE "found"
  BY DEF Verdict
<1>3. n = 0 <=> left <= q.offset
  BY <1>1 DEF Kept
<1>4. op \in {"Only", "OnlyID"} => (n = 1 <=> left = q.offset + 1)
  BY <1>1 DEF Kept
<1>5. n \in Nat
  BY <1>1 DEF Kept
<1> QED
  BY <1>2, <1>3, <1>4, <1>5

LEMMA ReturnKeeps ==
    ASSUME QueryInv, Return, UNCHANGED vars
    PROVE  QueryInv'
<1>1. /\ run # None /\ run.todo = << >> /\ run' = None
      /\ UNCHANGED <<query, asked, runs>>
  BY DEF Return
<1>2. /\ answer = None /\ Root \in DOMAIN query /\ run.op \in RunOps
      /\ Trees(query, asked) /\ TableOK(table) /\ Root \in DOMAIN run.found
  <2>1. run.todo # <<Root>>
    BY <1>1
  <2> QED
    BY <1>1, <2>1 DEF QueryInv, RunInv, EntInv
<1>3. PICK op, found, verdict :
         /\ op = run.op /\ found = run.found
         /\ verdict = Verdict(op, query[Root], Cardinality(found[Root]))
  OBVIOUS
<1>4. answer' = [op |-> op, found |-> found, verdict |-> verdict]
  BY <1>2, <1>3 DEF Return
<1>5. answer'.op = op /\ answer'.found = found /\ answer'.verdict = verdict
  BY <1>4
<1>6. /\ EntInv' /\ Legal(table') /\ table' = table /\ mishaps' = mishaps
      /\ AllFair(query', asked') => AllFair(query, asked)'
  BY SameTables DEF QueryInv
<1>7. LoadsFindTheirNodes'
  <2>1. verdict # "unexpected"
    BY <1>3 DEF Verdict
  <2> QED
    BY <1>5, <2>1 DEF LoadsFindTheirNodes
<1>8. /\ query[Root] = asked[Root] /\ QueryOK(query[Root])
      /\ Cardinality(Matching(table, query[Root])) \in Nat
  BY <1>2, MatchingBounds DEF Trees
<1>9. OnlyMeansOne'
  <2>1. SUFFICES ASSUME mishaps = 0, op \notin {"All", "IDs"}, verdict # "refused"
                 PROVE  LET left == Cardinality(Matching(table, asked[Root])) IN
                        /\ verdict = "missing" <=> left <= asked[Root].offset
                        /\ op \in {"Only", "OnlyID"} =>
                              (verdict = "found" <=> left = asked[Root].offset + 1)
    BY <1>1, <1>5, <1>6 DEF OnlyMeansOne
  <2>2. PICK q, left, n : /\ q = query[Root] /\ left = Cardinality(Matching(table, q))
                          /\ n = Cardinality(found[Root])
    OBVIOUS
  <2>3. Right(Root)
    BY <1>1, <1>2, <2>1, OverFacts DEF RunOver
  <2>4. n = Kept(q, left) /\ left \in Nat /\ QueryOK(q)
    BY <1>3, <1>8, <2>2, <2>3 DEF Right
  <2>5. q.limit = LimitOf(op) /\ op \in RunOps \ {"All", "IDs"}
    BY <1>1, <1>2, <1>3, <2>1, <2>2 DEF QueryInv, RunInv
  <2>6. verdict = Verdict(op, q, n)
    BY <1>3, <2>2
  <2>7. /\ verdict = "missing" <=> left <= q.offset
        /\ op \in {"Only", "OnlyID"} => (verdict = "found" <=> left = q.offset + 1)
    BY <2>1, <2>4, <2>5, <2>6, OnlyFacts
  <2> QED
    BY <1>8, <2>2, <2>7
<1>10. AnswersMeanTheCalls'
  <2>1. ASSUME mishaps = 0, op \notin OnlyIDs,
               runs = 1 \/ \A a \in DOMAIN asked : Unlimited(asked[a])
        PROVE  /\ Root \in DOMAIN found
               /\ Cardinality(found[Root])
                      = Kept(asked[Root], Cardinality(Matching(table, asked[Root])))
               /\ \A a \in DOMAIN found : FoundMeans(a)
               /\ \A a \in DOMAIN asked \ {Root} : GivenMeans(a)
    <3>1. RunOver
      BY <1>1, <2>1, OverFacts
    <3>2. Right(Root)
      BY <3>1 DEF RunOver
    <3>3. \A a \in DOMAIN found : FoundMeans(a)
      BY <1>3, <3>1, FoundFacts
    <3>4. \A a \in DOMAIN asked \ {Root} : GivenMeans(a)
      BY <1>2, <1>3, <2>1, <3>1, GivenFacts
    <3> QED
      BY <1>2, <1>3, <1>8, <3>2, <3>3, <3>4 DEF Right
  <2>2. ASSUME mishaps = 0, op \notin OnlyIDs,
               runs = 1 \/ \A a \in DOMAIN asked : Unlimited(asked[a])
        PROVE  /\ Root \in DOMAIN found
               /\ Cardinality(found[Root])
                      = Kept(asked[Root], Cardinality(Matching(table, asked[Root])))
               /\ \A a \in DOMAIN found :
                     /\ IdsOf(found[a]) \subseteq Matching(table, asked[a])
                     /\ \A n \in found[a], c \in Columns(asked[a].type) :
                           (asked[a].fields = << >> \/ c \in Chosen(asked[a]))
                               => n.row[c] = table[asked[a].type][n.id][c]
               /\ \A a \in DOMAIN asked \ {Root} :
                     (Unlimited(asked[a]) /\ Parent(a) \in DOMAIN found) =>
                         LET type == asked[Parent(a)].type IN
                         \A n \in found[Parent(a)] :
                             IdsOf(Given(type, Edge(a), asked[a], n, found[a]))
                                 = Matching(table, asked[a]) \cap OtherEnd(type, Edge(a), n.id)
    BY <1>3, <2>1, <2>2 DEF FoundMeans, GivenMeans
  <2> QED
    BY <1>1, <1>5, <1>6, <2>2 DEF AnswersMeanTheCalls, OtherEnd, IdsOf
<1>11. AnswerInv'
  BY <1>1, <1>2, <1>7, <1>9, <1>10 DEF AnswerInv
<1>12. RunInv' /\ FirstRun' /\ Trees(query', asked') /\ runs' \in Nat
  BY <1>1 DEF RunInv, QueryInv, FirstRun
<1>13. CalmInv'
  BY <1>1, <1>6 DEF QueryInv, CalmInv
<1> QED
  BY <1>6, <1>11, <1>12, <1>13 DEF QueryInv

----------------------------------------------------------------------------
(***************************************************************************)
(* The invariant.                                                          *)
(***************************************************************************)
LEMMA QueryInvInit == QueryInit => QueryInv
<1> SUFFICES ASSUME QueryInit PROVE QueryInv
  OBVIOUS
<1>1. EntInv /\ Legal(table)
  BY InvInit, StartAssumption DEF QueryInit, Init
<1>2. /\ DOMAIN query = {} /\ asked = query /\ run = None /\ answer = None /\ runs = 0
  BY DEF QueryInit
<1>3. Trees(query, asked) /\ AllFair(query, asked)
  BY <1>2 DEF Trees, AllFair
<1> QED
  BY <1>1, <1>2, <1>3 DEF QueryInv, RunInv, CalmInv, FirstRun, AnswerInv

LEMMA QueryInvStep == QueryInv /\ [QueryNext]_<<vars, queryVars>> => QueryInv'
<1> SUFFICES ASSUME QueryInv, [QueryNext]_<<vars, queryVars>> PROVE QueryInv'
  OBVIOUS
<1>1. CASE Root \notin DOMAIN query /\ Next /\ UNCHANGED queryVars
  BY <1>1, BuildKeeps
<1>2. CASE Reading /\ UNCHANGED vars
  <2>1. CASE \E type \in Types : \E from \in Froms(type) : Ask(type, from)
    BY <1>2, <2>1, AskKeeps
  <2>2. CASE Refine
    BY <1>2, <2>2, RefineKeeps
  <2>3. CASE \E op \in {"All", "First", "Only"} \cup OnlyIDs : StartRun(op)
    BY <1>2, <2>3, StartRunKeeps DEF RunOps
  <2>4. CASE Statement
    BY <1>2, <2>4, StatementKeeps
  <2>5. CASE Return
    BY <1>2, <2>5, ReturnKeeps
  <2> QED
    BY <1>2, <2>1, <2>2, <2>3, <2>4, <2>5 DEF Reading
<1>3. CASE RunFails
  BY <1>3, RunFailsKeeps
<1>4. CASE Meanwhile
  BY <1>4, MeanwhileKeeps
<1>5. CASE UNCHANGED <<vars, queryVars>>
  <2>1. UNCHANGED vars /\ UNCHANGED <<query, asked, run, answer, runs>>
    BY <1>5 DEF queryVars
  <2>2. EntInv' /\ Legal(table') /\ table' = table /\ mishaps' = mishaps
    BY <2>1, SameTables DEF QueryInv
  <2>3. RunInv' /\ FirstRun' /\ Trees(query', asked') /\ runs' \in Nat
    BY <2>1 DEF QueryInv, RunInv, FirstRun, NodeOK, Under
  <2>4. \A type, e, id : OtherEnd(type, e, id)' = OtherEnd(type, e, id)
    BY <2>2 DEF OtherEnd
  <2>5. CalmInv'
    <3>1. mishaps = 0 => AllFair(query, asked)'
      BY <2>1, <2>2, SameTables DEF QueryInv, CalmInv
    <3> QED
      BY <2>1, <2>2, <2>4, <3>1 DEF QueryInv, CalmInv, Right, Whole, Complete, Under
  <2>6. AnswerInv'
    <3>1. LoadsFindTheirNodes => LoadsFindTheirNodes'
      BY <2>1 DEF LoadsFindTheirNodes
    <3>2. OnlyMeansOne => OnlyMeansOne'
      BY <2>1, <2>2 DEF OnlyMeansOne
    <3>3. AnswersMeanTheCalls => AnswersMeanTheCalls'
      BY <2>1, <2>2 DEF AnswersMeanTheCalls, OtherEnd
    <3> QED
      BY <2>1, <3>1, <3>2, <3>3 DEF QueryInv, AnswerInv
  <2> QED
    BY <2>2, <2>3, <2>5, <2>6 DEF QueryInv
<1> QED
  BY <1>1, <1>2, <1>3, <1>4, <1>5 DEF QueryNext

LEMMA QueryInvariance == QuerySpec => []QueryInv
BY QueryInvInit, QueryInvStep, PTL DEF QuerySpec

LEMMA TreeFollows == QueryInv => TreeOK
<1> SUFFICES ASSUME QueryInv PROVE TreeOK
  OBVIOUS
<1>1. DOMAIN asked = DOMAIN query
  BY DEF QueryInv, Trees
<1>2. ASSUME NEW a \in DOMAIN query \ {Root}
      PROVE  /\ Parent(a) \in DOMAIN query
             /\ query[a].type = EdgeType(query[Parent(a)].type, Edge(a))
             /\ query[a].column \in TableColumns[query[a].type] \cup {None}
  <2>1. PathOK(query, a) /\ QueryOK(query[a])
    BY DEF QueryInv, Trees
  <2> QED
    BY <2>1 DEF PathOK, QueryOK
<1>3. ASSUME run # None, NEW a \in DOMAIN run.found
      PROVE  /\ a \in DOMAIN query
             /\ a # Root => run.found[Parent(a)] # {}
             /\ \A n \in run.found[a] : n.id \in Ids[query[a].type]
  BY <1>3 DEF QueryInv, RunInv, Under, NodeOK
<1> QED
  BY <1>1, <1>2, <1>3 DEF TreeOK

LEMMA AnswersFollow == QueryInv => LoadsFindTheirNodes /\ AnswersMeanTheCalls /\ OnlyMeansOne
BY DEF QueryInv, AnswerInv, LoadsFindTheirNodes, AnswersMeanTheCalls, OnlyMeansOne

(***************************************************************************)
(* The queries of a tree belong to the edges that lead to them             *)
(* (ent/poll_query.go:314), and a run loads for nodes it has found         *)
(* (ent/poll_query.go:436).                                                *)
(***************************************************************************)
THEOREM TreeHolds == QuerySpec => []TreeOK
BY QueryInvariance, TreeFollows, PTL

(***************************************************************************)
(* No query ends with an "unexpected foreign-key" (ent/poll_query.go:476,  *)
(* 508): for any selection, limits and loads, however often it has run and *)
(* whatever others change between its statements.                          *)
(***************************************************************************)
THEOREM LoadsFindTheirNodesHolds == QuerySpec => []LoadsFindTheirNodes
BY QueryInvariance, AnswersFollow, PTL

(***************************************************************************)
(* If nobody changes the tables, a query finds what its calls ask for,     *)
(* down the tree, in spite of the predicates and columns that loading adds *)
(* to the queries (ent/poll_query.go:468,495) and that stay for the next   *)
(* run.                                                                    *)
(***************************************************************************)
THEOREM AnswersMeanTheCallsHold == QuerySpec => []AnswersMeanTheCalls
BY QueryInvariance, AnswersFollow, PTL

(***************************************************************************)
(* If nobody changes the tables, Only finds a row exactly if one is left,  *)
(* First if any is: the limits they set (ent/poll_query.go:115,161) do not *)
(* spoil what a later run of the same query answers.                       *)
(***************************************************************************)
THEOREM OnlyMeansOneHolds == QuerySpec => []OnlyMeansOne
BY QueryInvariance, AnswersFollow, PTL

----------------------------------------------------------------------------
(***************************************************************************)
(* Beside a query the builders save as they do alone.                      *)
(***************************************************************************)
LEMMA QuerySteps ==
    [QueryNext]_<<vars, queryVars>> => EntStep \/ UNCHANGED vars
<1>1. RunFails => EntStep
  BY DEF RunFails, EntStep
<1>2. Meanwhile => EntStep
  BY DEF Meanwhile, EntStep
<1>3. Next => EntStep
  BY DEF EntStep
<1> QED
  BY <1>1, <1>2, <1>3 DEF QueryNext

LEMMA QueryEnt == QueryInv => EntInv
BY DEF QueryInv

(***************************************************************************)
(* Beside a query too, the tables, the mutations and the counters have     *)
(* their types, no row gets an empty text past the validators              *)
(* (ent/poll_create.go:174), and a create builder makes one row at most.   *)
(***************************************************************************)
THEOREM QueriedRowsHold == QuerySpec => [](TypeOK /\ NoEmptyTexts /\ OneRowPerBuilder)
BY QueryInvariance, QueryEnt, TypesFollow, NoEmptyFollows, OneRowFollows, PTL

(***************************************************************************)
(* Beside a query too, an update or create that takes effect writes what   *)
(* its calls ask for (ent/poll_create.go:201, ent/poll_update.go:216) and  *)
(* links what they ask for (ent/user_update.go:256).                       *)
(***************************************************************************)
THEOREM QueriedSavesHold == QuerySpec => SavesMeanTheCalls /\ LinksMeanTheCalls
<1>1. QuerySpec => SavesMeanTheCalls
  BY QuerySteps, SavesAct, QueryEnt, QueryInvariance, PTL
     DEF QuerySpec, SavesMeanTheCalls, SavesRight
<1>2. QuerySpec => LinksMeanTheCalls
  BY QuerySteps, LinksAct, QueryEnt, QueryInvariance, PTL
     DEF QuerySpec, LinksMeanTheCalls, LinksRight
<1> QED
  BY <1>1, <1>2

(***************************************************************************)
(* Beside a query too, no builder reads its own answered work as the old   *)
(* row (ent/mutation.go:87), and a bulk makes all of its rows or none      *)
(* (ent/poll_create.go:324).                                               *)
(***************************************************************************)
THEOREM QueriedOldAndBulkHold == QuerySpec => OldIsNotOwn /\ BulkIsWhole
<1>1. QuerySpec => OldIsNotOwn
  BY QuerySteps, OldAct, QueryEnt, QueryInvariance, PTL DEF QuerySpec, OldIsNotOwn, OldRight
<1>2. QuerySpec => BulkIsWhole
  BY QuerySteps, BulkAct, QueryEnt, QueryInvariance, PTL DEF QuerySpec, BulkIsWhole, BulkRight
<1> QED
  BY <1>1, <1>2
=============================================================================
