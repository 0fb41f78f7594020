---------------------------- MODULE MCReplicator ----------------------------
(***************************************************************************)
(* Instances of Replicator, DocumentCommands and SemanticSearch for TLC,   *)
(* sides of a store that share no state here, so a behaviour is about one  *)
(* of them: two branches from the entry the store has, merged by the last  *)
(* entry, of which peers announce either branch, the merge, or both        *)
(* branches; the commands of clients on documents; or a node that searches *)
(* the semantic indexes of three.                                          *)
(***************************************************************************)
EXTENDS Replicator, DocumentCommands, SemanticSearch

Entries == 1 .. 6

History == [h \in Entries |->
    CASE h = 1 -> {}
      [] h = 2 -> {1}
      [] h = 3 -> {2, 1}
      [] h = 4 -> {1}
      [] h = 5 -> {4}
      [] h = 6 -> {3, 5}]

Heads == {{3}, {5}, {3, 5}, {6}}

-----------------------------------------------------------------------------
(* Documents and criteria.                                                 *)

Numbers == [t \in {"12"} |-> 12]
Parts == {<<"t", "t1">>, <<"x", "x">>}
Expressions == {<<"^t", "t1">>, <<"^t", "t2">>}
Spaces == [t \in {"a b", "a.b c"} |-> IF t = "a b" THEN "a b" ELSE "a b c"]

Doc(id, fields) == ("_id" :> id) @@ fields
d1 == Doc(Text("i1"), [type |-> Text("t1"), n |-> Number(12),
                       tags |-> List(<<Text("x"), Text("y")>>)])
d2 == Doc(Text("i2"), [type |-> Text("t2"), n |-> Text("12"),
                       meta |-> Object([score |-> Number(5)])])
d3 == Doc(Text("a b"), [type |-> Text("t1"), name |-> Null])
d4 == Doc(Text("a.b c"), [type |-> Number(1), name |-> Text("x")])
bad == Doc(Number(5), [type |-> Text("t1")])
anew == Doc(Text("i1"), [type |-> Text("t2"), name |-> Text("x")])

Puts == {<<d2, [type |-> Text("t1"), name |-> Text("x")]>>,
         <<d1, bad, <<>>, d4, anew>>, <<bad, d1, d3>>}

Ids == {<<"f1", "f2", "f3", "f4", "f5">>}

Set == {[type |-> Text("t2"), n |-> Number(1)] @@ ("_id" :> Text("i9")),
        [meta |-> Object([score |-> Number(7)])]}

Id(t) == {Equals(<<"_id">>, Text(t))}
Type(t) == Equals(<<"type">>, Text(t))
Named == Equals(<<"name">>, Text("x"))
Num(name, n) == Ops(<<"n">>, {Op(name, Number(n))})

Chosen == {<<Id("i1")>>, <<{Num("$gte", 12)}>>, <<{Type("t1")}>>,
           <<{Or({Id("i2"), {Named}})}>>}

Asked2 == Chosen \cup
    {<<>>, <<{}>>, <<{Type("t1")}, Id("i2")>>, <<Id("i2")>>, <<Id("a b")>>, <<Id("a.b c")>>, <<Id("i9")>>,
     <<{Equals(<<"_id">>, Number(5))}>>,
     <<{Equals(<<"_id">>, Text("i1")), Type("t1")}>>,
     <<{Type("t1"), Named}>>, <<{Type("t2"), Num("$lt", 12)}>>,
     <<{Named}>>, <<{Named}, {Type("t2")}>>, <<{Equals(<<"name">>, Null)}>>,
     <<{Equals(<<"n">>, Number(12))}>>, <<{Num("$gt", 0), Num("$lte", 12)}>>, <<{Num("$lt", 1)}>>,
     <<{Equals(<<"meta", "score">>, Number(5))}>>,
     <<{Ops(<<"meta", "score">>, {Op("$gt", Number(5)), Op("$exists", Flag(TRUE))})}>>,
     <<{Ops(<<"name">>, {Op("$exists", Flag(FALSE))})}>>,
     <<{Ops(<<"meta">>, {Op("score", Number(5))})}>>,
     <<{Ops(<<"type">>, {Op("$ne", Text("t1"))}), Named}>>,
     <<{Ops(<<"type">>, {Op("$regex", Text("^t"))})}>>,
     <<{Ops(<<"type">>, {Op("$contains", Text("t"))})}>>,
     <<{Ops(<<"type">>, {Op("$in", List(<<Text("t1"), Number(1)>>))})}>>,
     <<{Ops(<<"tags">>, {Op("$contains", Text("x"))})}>>,
     <<{Ops(<<"tags">>, {Op("$all", List(<<Text("x"), Text("y")>>))})}>>,
     <<{And({{Named}, {Type("t2")}}, FALSE)}>>, <<{Type("t1"), And({{Named}}, TRUE)}>>}

Inner == {Id("i2"), {Named}, {Type("t2")}}
Filters == Inner \cup UNION {ToSet(criteria) : criteria \in Asked2}

-----------------------------------------------------------------------------
(* The search.                                                             *)

Similar == [c \in {"c"} |-> {1, 2}]
PutOn == [n \in {"n1", "n2", "n3"} |-> IF n = "n3" THEN {"d1", "d2"} ELSE {"d1"}]
Asker == [s \in {"s"} |-> "n1"]
Wanted == [s \in {"s"} |-> 1]

-----------------------------------------------------------------------------
VARIABLE subject    \* what this behaviour is about

allStateVars == <<vars, docVars, semVars, subject>>

MCInit ==
    /\ Init
    /\ CommandsInit
    /\ SemanticInit
    /\ subject \in {"replication", "commands", "search"}
    /\ subject # "commands" => byFields

Replicating(A) == subject = "replication" /\ A /\ UNCHANGED <<docVars, semVars, subject>>

MCNext ==
    \/ Replicating(Next)
    \/ subject = "commands" /\ CommandsNext /\ UNCHANGED <<vars, semVars, subject>>
    \/ subject = "search" /\ SemanticNext /\ UNCHANGED <<vars, docVars, subject>>

MCFairness ==
    /\ WF_allStateVars(Replicating(WaitForProcessSlot))
    /\ \A h \in Hash : WF_allStateVars(Replicating(Process(h)))
    /\ WF_allStateVars(Replicating(Join \/ UpdateIndex))

MCSpec == MCInit /\ [][MCNext]_allStateVars /\ MCFairness

=============================================================================
