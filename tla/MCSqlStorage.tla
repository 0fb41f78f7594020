---------------------------- MODULE MCSqlStorage ----------------------------
(***************************************************************************)
(* An instance of SqlStorage for TLC: a page with three cells is full, so  *)
(* that five rows make a tree of three levels.  The same run asks          *)
(* SqlSelect, which reads its tables from somewhere else: subject says     *)
(* which of the two a behaviour is about.                                  *)
(***************************************************************************)
EXTENDS SqlStorage, SqlSelect

VARIABLE subject

mcVars == <<vars, selectVars, subject>>

\* Nothing is asked of a database after a replay that met a known hazard.
Explored == status = "open" \/ risk = {}

-----------------------------------------------------------------------------
(* Two tables with a column in common, and what is typed.                  *)

Columns == [t |-> <<"a", "b">>, u |-> <<"a", "c">>]

Pairs == {<<Integer(1), Integer(2)>>, <<Integer(2), Integer(2)>>, <<Integer(2), Integer(11)>>}

TableRows == [t |-> SeqOf(Pairs, 2) \cup {<<p, q, p>> : p, q \in Pairs},
              u |-> SeqOf({<<Integer(2), <<"STR", 1>>>>, <<Integer(1), <<"STR", 2>>>>}, 2)]

T == [op |-> "table", name |-> "t", as |-> ""]
U == [op |-> "table", name |-> "u", as |-> "v"]
SameA == Binary("=", Column("t", "a"), Column("v", "a"))

Froms == {T} \cup {Join(type, T, U, SameA) : type \in {"INNER", "LEFT", "RIGHT"}}

IsTwo == Binary("=", Column("t", "a"), Constant(Integer(2)))
IsBig == Binary(">", Column("", "b"), Constant(Integer(2)))
IsSmall == Binary("<=", Column("t", "a"), Constant(Integer(1)))

Wheres == {Absent, IsTwo, Binary("AND", IsTwo, IsBig), Binary("OR", IsSmall, Binary("AND", IsTwo, IsBig)),
           Binary("OR", Binary("AND", IsTwo, IsBig), IsSmall)}

Item(x) == [expr |-> x, as |-> ""]
Named(x, as) == [expr |-> x, as |-> as]
A == Column("t", "a")
B == Column("", "b")
CountAll == Aggregate("COUNT", Absent)
AvgB == Aggregate("AVG", B)
Sorted(c, order) == <<[key |-> c, order |-> order]>>

\* A select list with what it is grouped and sorted by.
Shapes == {
    [list |-> <<Star>>, group |-> <<>>, sort |-> <<>>],
    [list |-> <<Star>>, group |-> <<>>, sort |-> Sorted(B, "DESC")],
    [list |-> <<Named(B, "x"), Item(A)>>, group |-> <<>>, sort |-> Sorted(A, "ASC") \o Sorted(Column("", "x"), "DESC")],
    [list |-> <<Item(IsTwo), Item(B)>>, group |-> <<>>, sort |-> <<>>],
    [list |-> <<Item(CountAll), Item(Aggregate("COUNT", A)), Item(AvgB)>>, group |-> <<>>, sort |-> <<>>],
    [list |-> <<Item(Aggregate("COUNT", A))>>, group |-> <<>>, sort |-> <<>>],
    [list |-> <<Item(AvgB), Item(AvgB)>>, group |-> <<>>, sort |-> <<>>],
    [list |-> <<Item(CountAll), Item(A)>>, group |-> <<A>>, sort |-> Sorted(A, "DESC")],
    [list |-> <<Item(A), Item(AvgB)>>, group |-> <<A>>, sort |-> <<>>],
    [list |-> <<Item(CountAll), Item(A)>>, group |-> <<Column("", "a")>>, sort |-> <<>>],
    [list |-> <<Item(A)>>, group |-> <<A>>, sort |-> <<>>],
    [list |-> <<Item(A), Item(B), Item(CountAll)>>, group |-> <<A, B>>, sort |-> <<>>]}

Windows == {Unlimited, [limit |-> <<1>>, offset |-> <<1>>]}

Selects ==
    {[op |-> "SELECT", list |-> s.list, sort |-> s.sort, window |-> w,
      table |-> [from |-> f, where |-> x, group |-> s.group]] :
        s \in Shapes, f \in Froms, x \in Wheres, w \in Windows}

Others == {
    [op |-> "SELECT", list |-> <<Item(Constant(Integer(1))), Named(Binary("=", Constant(Integer(1)), Constant(Bool(TRUE))), "x")>>,
     table |-> NoTable, sort |-> <<>>, window |-> Unlimited],
    [op |-> "CREATE DATABASE", name |-> "d"], [op |-> "USE", name |-> "d"], [op |-> "SHOW"],
    [op |-> "CREATE TABLE", name |-> "t",
     cols |-> <<[name |-> "a", type |-> "T_INT", len |-> 0], [name |-> "b", type |-> "T_VARCHAR", len |-> 9]>>],
    [op |-> "INSERT", table |-> "t", cols |-> <<"a", "b">>,
     rows |-> <<<<Integer(1), Bool(TRUE)>>, <<Integer(2), Bool(FALSE)>>>>],
    [op |-> "UPDATE", table |-> "t", where |-> IsTwo,
     set |-> <<[col |-> "a", value |-> Constant(Integer(1))], [col |-> "b", value |-> A]>>],
    [op |-> "DELETE", table |-> "t", where |-> Binary("AND", IsTwo, IsBig)]}

-----------------------------------------------------------------------------
(* The tokens a statement is typed with.                                   *)

K(words) == [k \in DOMAIN words |-> Keyword(words[k])]
Id(name) == <<Token("IDENT", name)>>

Listed(items, Words(_)) ==
    FlattenSeq([k \in DOMAIN items |-> (IF k = 1 THEN <<>> ELSE K(<<",">>)) \o Words(items[k])])

Clause(words, items, Words(_)) == IF items = <<>> THEN <<>> ELSE K(words) \o Listed(items, Words)

ValueWords(v) == IF v[1] = "BOOL" THEN K(IF v[2] THEN <<"TRUE">> ELSE <<"FALSE">>)
                 ELSE <<Token(v[1], v[2])>>

ColumnWords(c) == (IF c.of = "" THEN <<>> ELSE Id(c.of) \o K(<<".">>)) \o Id(c.name)

RECURSIVE Words(_)
Words(x) ==
    CASE x.op = "column" -> ColumnWords(x)
      [] x.op = "constant" -> ValueWords(x.value)
      [] x.op = "*" -> K(<<"*">>)
      [] x.op \in {"COUNT", "AVG"} ->
           K(<<x.op, "(">>) \o (IF x.arg = Absent THEN K(<<"*">>) ELSE ColumnWords(x.arg)) \o K(<<")">>)
      [] OTHER -> Words(x.lhs) \o K(<<x.op>>) \o Words(x.rhs)

RECURSIVE TableWords(_)
TableWords(t) ==
    IF t.op = "table" THEN Id(t.name) \o IF t.as = "" THEN <<>> ELSE Id(t.as)
    ELSE TableWords(t.lhs) \o K(<<t.op, "JOIN">>) \o TableWords(t.rhs) \o K(<<"ON">>) \o Words(t.on)

WhereWords(x) == IF x = Absent THEN <<>> ELSE K(<<"WHERE">>) \o Words(x)

ItemWords(x) == Words(x.expr) \o IF x.as = "" THEN <<>> ELSE K(<<"AS">>) \o Id(x.as)
SortWords(x) == ColumnWords(x.key) \o K(<<x.order>>)
Number(word, n) == IF n = <<>> THEN <<>> ELSE K(<<word>>) \o <<Token("INT", n[1])>>
SetWords(x) == Id(x.col) \o K(<<"=">>) \o Words(x.value)
RowWords(row) == K(<<"(">>) \o Listed(row, ValueWords) \o K(<<")">>)
ElementWords(x) == Id(x.name) \o K(<<x.type>>)
                   \o IF x.len = 0 THEN <<>> ELSE K(<<"(">>) \o <<Token("INT", x.len)>> \o K(<<")">>)

Line(q) ==
    CASE q.op = "SELECT" ->
           Clause(<<"SELECT">>, q.list, ItemWords)
           \o (IF q.table = NoTable THEN <<>> ELSE K(<<"FROM">>) \o TableWords(q.table.from))
           \o WhereWords(q.table.where) \o Clause(<<"GROUP", "BY">>, q.table.group, ColumnWords)
           \o Clause(<<"ORDER", "BY">>, q.sort, SortWords)
           \o Number("LIMIT", q.window.limit) \o Number("OFFSET", q.window.offset)
      [] q.op = "CREATE DATABASE" -> K(<<"CREATE", "DATABASE">>) \o Id(q.name)
      [] q.op = "USE" -> K(<<"USE">>) \o Id(q.name)
      [] q.op = "SHOW" -> K(<<"SHOW">>) \o Id("databases")
      [] q.op = "CREATE TABLE" ->
           K(<<"CREATE", "TABLE">>) \o Id(q.name) \o K(<<"(">>) \o Listed(q.cols, ElementWords) \o K(<<")">>)
      [] q.op = "INSERT" ->
           K(<<"INSERT", "INTO">>) \o Id(q.table) \o K(<<"(">>) \o Listed(q.cols, Id) \o K(<<")", "VALUES">>)
           \o Listed(q.rows, RowWords)
      [] q.op = "UPDATE" -> K(<<"UPDATE">>) \o Id(q.table) \o Clause(<<"SET">>, q.set, SetWords) \o WhereWords(q.where)
      [] q.op = "DELETE" -> K(<<"DELETE", "FROM">>) \o Id(q.table) \o WhereWords(q.where)

-----------------------------------------------------------------------------

Typeable == Selects \cup Others

NoTables == [t |-> <<>>, u |-> <<>>]

MCInit ==
    \/ subject = "storage" /\ Init /\ db = NoTables /\ asked = Absent
                           /\ answer = [tree |-> Absent, result |-> Refused]
    \/ subject = "queries" /\ Init /\ SelectInit

MCNext ==
    /\ UNCHANGED subject
    /\ \/ subject = "storage" /\ Next /\ UNCHANGED selectVars
       \/ subject = "queries" /\ SelectNext /\ UNCHANGED vars

MCSpec == MCInit /\ [][MCNext]_mcVars

=============================================================================
