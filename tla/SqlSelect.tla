----------------------------- MODULE SqlSelect -----------------------------
(***************************************************************************)
(* SELECT of the SQL engine (sql/engine/select.go), from the tokens of the *)
(* line to the rows of the answer: nested loops, filter, projection,       *)
(* aggregates, sort and window, one after the other over the rows of the   *)
(* tables.  A statement is answered, refused with an error, or ends the    *)
(* console with a panic.                                                   *)
(***************************************************************************)
EXTENDS SqlParser, Integers, FiniteSets, SequencesExt

CONSTANTS
    Schema,     \* Schema[t]: the columns of table t
    Contents,   \* Contents[t]: the rows it may hold, as sequences
    Question,   \* what is typed: trees
    Typed(_)    \* the tokens of a tree

VARIABLES
    db,         \* db[t]: the rows of table t
    asked,      \* the statement typed, or Absent
    answer      \* what it was taken for, and the answer to it

selectVars == <<db, asked, answer>>

Null == <<"NULL", 0>>
Error == <<"ERROR", 0>>
Integer(n) == <<"INT", n>>

Rows(rows, fields) == [status |-> "rows", rows |-> rows, fields |-> fields]
Refused == [status |-> "error", rows |-> <<>>, fields |-> <<>>]
Died == [status |-> "panic", rows |-> <<>>, fields |-> <<>>]

WithRows(r, Next(_)) == IF r.status = "rows" THEN Next(r) ELSE r

-----------------------------------------------------------------------------
(* Conditions.                                                             *)

(***************************************************************************)
(* A column without its table must be the only one of its name.            *)
(***************************************************************************)
FindColumn(c, fields) ==
    LET at == {k \in DOMAIN fields : /\ fields[k].col = c.name
                                     /\ c.of # "" => fields[k].table = c.of}
    IN  IF at = {} \/ (c.of = "" /\ Cardinality(at) > 1) THEN 0
        ELSE CHOOSE k \in at : \A m \in at : k <= m

EvalPrimary(x, fields, row) ==
    IF x.op = "constant" THEN x.value
    ELSE IF FindColumn(x, fields) = 0 THEN Error ELSE row[FindColumn(x, fields)]

(***************************************************************************)
(* Equality is that of Go: NULL equals NULL, and values of two types       *)
(* differ.  The order is that of two integers or of two strings.           *)
(***************************************************************************)
Compare(op, l, r) ==
    CASE Error \in {l, r} -> Error
      [] op = "=" -> Bool(l = r)
      [] op = "!=" -> Bool(l # r)
      [] l[1] # r[1] \/ l[1] \notin {"INT", "STR"} -> Error
      [] op = "<" -> Bool(l[2] < r[2])
      [] op = ">" -> Bool(l[2] > r[2])
      [] op = "<=" -> Bool(l[2] <= r[2])
      [] op = ">=" -> Bool(l[2] >= r[2])

RECURSIVE Evaluate(_, _, _)
Evaluate(x, fields, row) ==
    IF x.op \in Comparisons
    THEN Compare(x.op, EvalPrimary(x.lhs, fields, row), EvalPrimary(x.rhs, fields, row))
    ELSE IF x.op \in {"AND", "OR"}
    THEN LET l == Evaluate(x.lhs, fields, row)
             r == Evaluate(x.rhs, fields, row)
         IN  IF l[1] # "BOOL" \/ r[1] # "BOOL" THEN Error
             ELSE Bool(IF x.op = "AND" THEN l[2] /\ r[2] ELSE l[2] \/ r[2])
    ELSE IF x.op = "constant" THEN x.value ELSE Error

-----------------------------------------------------------------------------
(* FROM and WHERE.                                                         *)

(***************************************************************************)
(* The partners of an outer row among n inner ones; 0 is the padding of an *)
(* outer row that has none.                                                *)
(***************************************************************************)
Partners(n, On(_), outer) ==
    LET js == SelectSeq([j \in 1 .. n |-> j], On)
    IN  IF js = <<>> /\ outer THEN <<0>> ELSE js

RowOrPadding(r, i) == IF i = 0 THEN [k \in DOMAIN r.fields |-> Null] ELSE r.rows[i]

JoinRows(type, on, l, r) ==
    LET fields == l.fields \o r.fields
        Merged(i, j) == RowOrPadding(l, i) \o RowOrPadding(r, j)
        On(i, j) == Evaluate(on, fields, Merged(i, j))
        OfLeft(i) ==
            LET js == Partners(Len(r.rows), LAMBDA j : On(i, j)[2], type = "LEFT")
            IN  [k \in DOMAIN js |-> Merged(i, js[k])]
        OfRight(j) ==
            LET is == Partners(Len(l.rows), LAMBDA i : On(i, j)[2], TRUE)
            IN  [k \in DOMAIN is |-> Merged(is[k], j)]
    IN  IF \E i \in DOMAIN l.rows, j \in DOMAIN r.rows : On(i, j)[1] # "BOOL" THEN Refused
        ELSE Rows(FlattenSeq(IF type = "RIGHT" THEN [j \in DOMAIN r.rows |-> OfRight(j)]
                             ELSE [i \in DOMAIN l.rows |-> OfLeft(i)]), fields)

RECURSIVE NestedLoopJoin(_)
NestedLoopJoin(t) ==
    IF t.op # "table"
    THEN WithRows(NestedLoopJoin(t.lhs), LAMBDA l :
           WithRows(NestedLoopJoin(t.rhs), LAMBDA r : JoinRows(t.op, t.on, l, r)))
    ELSE IF t.name \notin DOMAIN db THEN Refused
    ELSE LET id == IF t.as = "" THEN t.name ELSE t.as
         IN  Rows(db[t.name], [k \in DOMAIN Schema[t.name] |->
                                 [col |-> Schema[t.name][k], table |-> id]])

FilterRows(where, r) ==
    LET Holds(row) == Evaluate(where, r.fields, row)
    IN  IF where = Absent THEN r
        ELSE IF \E i \in DOMAIN r.rows : Holds(r.rows[i]) = Error THEN Refused
        ELSE Rows(SelectSeq(r.rows, LAMBDA row : Holds(row) = Bool(TRUE)), r.fields)

-----------------------------------------------------------------------------
(* The select list.                                                        *)

ColumnOf(x) == IF x.op = "column" THEN x ELSE x.arg

UsesColumn(x) == x.op = "column" \/ (x.op \in {"COUNT", "AVG"} /\ x.arg # Absent)

CountsNull(x, fields, row) ==
    CASE x.op = "COUNT" -> Integer(1)
      [] UsesColumn(x) -> EvalPrimary(ColumnOf(x), fields, row)
      [] OTHER -> Evaluate(x, fields, row)

Cell(x, fields, row) ==
    CASE x.op = "COUNT" -> Integer(IF x.arg = Absent \/ EvalPrimary(x.arg, fields, row) # Null
                               THEN 1 ELSE 0)
      [] UsesColumn(x) -> EvalPrimary(ColumnOf(x), fields, row)
      [] OTHER -> Evaluate(x, fields, row)

(***************************************************************************)
(* The header: aliases are written into the fields of the tables, so the   *)
(* last alias given to a column is the name of all its occurrences.        *)
(***************************************************************************)
Header(list, fields) ==
    LET Field(k) == IF list[k].expr.op = "column" THEN FindColumn(list[k].expr, fields) ELSE 0
        Aliases(k) == {m \in DOMAIN list : /\ list[m].as # ""
                                           /\ m = k \/ (Field(m) # 0 /\ Field(m) = Field(k))}
        Name(k) == IF Aliases(k) # {} THEN list[CHOOSE m \in Aliases(k) : \A n \in Aliases(k) : n <= m].as
                   ELSE IF Field(k) = 0 THEN "" ELSE fields[Field(k)].col
    IN  [k \in DOMAIN list |-> [col |-> Name(k),
                                table |-> IF Field(k) = 0 THEN "" ELSE fields[Field(k)].table]]

ProjectColumns(list, r) ==
    LET Projected(row) == [k \in DOMAIN list |-> Cell(list[k].expr, r.fields, row)]
        Cells == {<<list[k].expr.op, Projected(r.rows[i])[k]>> :
                    i \in DOMAIN r.rows, k \in DOMAIN list}
    IN  IF list[1] = Star THEN r
        ELSE IF \E k \in DOMAIN list : /\ UsesColumn(list[k].expr)
                                       /\ FindColumn(ColumnOf(list[k].expr), r.fields) = 0
        THEN Refused
        ELSE IF \E c \in Cells : c[1] = "AVG" /\ c[2][1] # "INT" THEN Died
        ELSE IF \E c \in Cells : c[2] = Error THEN Refused
        ELSE Rows([i \in DOMAIN r.rows |-> Projected(r.rows[i])], Header(list, r.fields))

-----------------------------------------------------------------------------
(* Aggregates.                                                             *)

(***************************************************************************)
(* The column of the select list that is the very same reference; without  *)
(* one the lookup gives the first column.                                  *)
(***************************************************************************)
GroupIndex(list, c) ==
    LET same == {k \in DOMAIN list : list[k].expr = c}
    IN  IF same = {} THEN 1 ELSE CHOOSE k \in same : \A m \in same : m <= k

\* The text of a value: its digits, or what fmt makes of a string or of NULL.
Shown(v) == IF v[1] = "INT" /\ v[2] > 9 THEN <<v[2] \div 10, v[2] % 10>> ELSE <<v[2]>>

GroupKey(list, group, row) ==
    FlattenSeq([g \in DOMAIN group |-> Shown(row[GroupIndex(list, group[g])])])

RoundedQuotient(n, d) == (2 * n + d) \div (2 * d)

(***************************************************************************)
(* A running average, rounded at every row.  Averages of one column share  *)
(* their counter, which each of them advances: this is the p-th of m.      *)
(***************************************************************************)
RunningAverage(rows, k, p, m) ==
    LET Step(acc, row) ==
            LET c == acc.rows * m + p
            IN  [rows |-> acc.rows + 1,
                 avg |-> RoundedQuotient(acc.avg * (c - 1) + row[k][2], c)]
    IN  FoldLeft(Step, [rows |-> 0, avg |-> rows[1][k][2]], rows).avg

Aggregated(list, rows) ==
    LET Sum(k) == FoldLeft(LAMBDA n, row : n + row[k][2], 0, rows)
        SameAverage(k) == {m \in DOMAIN list : list[m].expr = list[k].expr}
        Average(k) == RunningAverage(rows, k, Cardinality({m \in SameAverage(k) : m <= k}),
                                     Cardinality(SameAverage(k)))
    IN  [k \in DOMAIN list |->
            CASE list[k].expr.op = "COUNT" -> Integer(Sum(k))
              [] list[k].expr.op = "AVG" -> Integer(Average(k))
              [] OTHER -> rows[1][k]]

EmptyAggregateRow(list) ==
    [k \in DOMAIN list |-> IF list[k].expr.op \in {"COUNT", "AVG"} THEN Integer(0)
                           ELSE Evaluate(list[k].expr, <<>>, <<>>)]

AggregateRows(list, group, r) ==
    LET Key(i) == GroupKey(list, group, r.rows[i])
        Firsts == SelectSeq([i \in DOMAIN r.rows |-> i], LAMBDA i : \A j \in 1 .. i - 1 : Key(j) # Key(i))
        Members(i) == SelectSeq(r.rows, LAMBDA row : GroupKey(list, group, row) = Key(i))
    IN  IF ~HasAggrFunc(list) THEN r
        ELSE IF r.rows = <<>> /\ group = <<>>
        THEN IF \E v \in Range(EmptyAggregateRow(list)) : v = Error THEN Refused
             ELSE Rows(<<EmptyAggregateRow(list)>>, r.fields)
        ELSE Rows([g \in DOMAIN Firsts |-> Aggregated(list, Members(Firsts[g]))], r.fields)

-----------------------------------------------------------------------------
(* ORDER BY, OFFSET, LIMIT.                                                *)

KeyIndexes(sort, fields) == [k \in DOMAIN sort |-> FindColumn(sort[k].key, fields)]

\* The first key in which two rows differ, or 0.
Deciding(at, x, y) ==
    LET differ == {k \in DOMAIN at : x[at[k]] # y[at[k]]}
    IN  IF differ = {} THEN 0 ELSE CHOOSE k \in differ : \A m \in differ : k <= m

LessValue(u, v) == IF u[1] = "BOOL" THEN ~u[2] /\ v[2] ELSE u[2] < v[2]

Before(sort, at, x, y) ==
    LET k == Deciding(at, x, y)
    IN  k # 0 /\ IF sort[k].order = "DESC" THEN ~LessValue(x[at[k]], y[at[k]])
                 ELSE LessValue(x[at[k]], y[at[k]])

(***************************************************************************)
(* sort.Slice is an insertion sort up to twelve rows; every comparison of  *)
(* NULL with a value that decides ends the console, and some comparison    *)
(* does when two rows with equal keys before are such.                     *)
(***************************************************************************)
SortColumns(sort, r) ==
    LET at == KeyIndexes(sort, r.fields)
        NullDecides(x, y) == LET k == Deciding(at, x, y) IN k # 0 /\ Null \in {x[at[k]], y[at[k]]}
        Insert(sorted, row) ==
            LET before == SelectSeq(sorted, LAMBDA x : ~Before(sort, at, row, x))
            IN  before \o <<row>> \o SubSeq(sorted, Len(before) + 1, Len(sorted))
    IN  IF \E k \in DOMAIN at : at[k] = 0 THEN Refused
        ELSE IF \E x, y \in Range(r.rows) : NullDecides(x, y) THEN Died
        ELSE Rows(FoldLeft(Insert, <<>>, r.rows), r.fields)

OffsetRows(n, rows) == IF n >= Len(rows) THEN <<>> ELSE SubSeq(rows, n + 1, Len(rows))
LimitRows(n, rows) == IF n > Len(rows) THEN rows ELSE SubSeq(rows, 1, n)

Window(w, r) ==
    LET rest == IF w.offset = <<>> THEN r.rows ELSE OffsetRows(w.offset[1], r.rows)
    IN  Rows(IF w.limit = <<>> THEN rest ELSE LimitRows(w.limit[1], rest), r.fields)

EvaluateSelect(q) ==
    IF q.table.from = Absent THEN ProjectColumns(q.list, Rows(<< <<>> >>, <<>>))
    ELSE WithRows(NestedLoopJoin(q.table.from), LAMBDA joined :
         WithRows(FilterRows(q.table.where, joined), LAMBDA kept :
         WithRows(ProjectColumns(q.list, kept), LAMBDA projected :
         WithRows(AggregateRows(q.list, q.table.group, projected), LAMBDA grouped :
         WithRows(SortColumns(q.sort, grouped), LAMBDA sorted :
           Window(q.window, sorted))))))

-----------------------------------------------------------------------------

ExecQuery(q) ==
    LET tree == Parse(Typed(q)).tree
    IN  /\ asked = Absent /\ asked' = q
        /\ answer' = [tree |-> tree,
                      result |-> CASE tree.op = Panic.tree.op -> Died
                                   [] tree.op = Failed.tree.op -> Refused
                                   [] tree.op = "SELECT" -> EvaluateSelect(tree)
                                   [] OTHER -> Rows(<<>>, <<>>)]
        /\ UNCHANGED db

SelectInit ==
    /\ db \in [DOMAIN Schema -> UNION {Contents[t] : t \in DOMAIN Schema}]
    /\ \A t \in DOMAIN Schema : db[t] \in Contents[t]
    /\ asked = Absent
    /\ answer = [tree |-> Absent, result |-> Refused]

SelectNext == \E q \in Question : ExecQuery(q)

SelectSpec == SelectInit /\ [][SelectNext]_selectVars

-----------------------------------------------------------------------------
(* What a statement means: the combinations of rows that FROM and WHERE    *)
(* leave, each a sequence of row numbers with 0 for a padded row.          *)

RECURSIVE Tables(_)
Tables(t) == IF t.op = "table" THEN <<t>> ELSE Tables(t.lhs) \o Tables(t.rhs)

FieldsOf(t) ==
    FlattenSeq([k \in DOMAIN Tables(t) |->
        LET tbl == Tables(t)[k]
        IN  [m \in DOMAIN Schema[tbl.name] |->
               [col |-> Schema[tbl.name][m], table |-> IF tbl.as = "" THEN tbl.name ELSE tbl.as]]])

RowOf(t, c) ==
    FlattenSeq([k \in DOMAIN c |->
        LET name == Tables(t)[k].name
        IN  IF c[k] = 0 THEN [m \in DOMAIN Schema[name] |-> Null] ELSE db[name][c[k]]])

True(cond, t, c) == Evaluate(cond, FieldsOf(t), RowOf(t, c)) = Bool(TRUE)

RECURSIVE Combinations(_)
Combinations(t) ==
    IF t.op = "table" THEN {<<i>> : i \in DOMAIN db[t.name]}
    ELSE LET L == Combinations(t.lhs)
             R == Combinations(t.rhs)
             Nothing(u) == [k \in DOMAIN Tables(u) |-> 0]
             Fits(c, d) == True(t.on, t, c \o d)
         IN  {c \o d : <<c, d>> \in {p \in L \X R : Fits(p[1], p[2])}}
             \cup {c \o Nothing(t.rhs) : c \in {c \in L : t.op = "LEFT" /\ \A d \in R : ~Fits(c, d)}}
             \cup {Nothing(t.lhs) \o d : d \in {d \in R : t.op = "RIGHT" /\ \A c \in L : ~Fits(c, d)}}

Meant(q) ==
    {c \in Combinations(q.table.from) :
        q.table.where = Absent \/ True(q.table.where, q.table.from, c)}

ValueAt(q, x, c) ==
    LET fields == FieldsOf(q.table.from)
        row == RowOf(q.table.from, c)
    IN  IF x.op = "column" THEN EvalPrimary(x, fields, row) ELSE Evaluate(x, fields, row)

\* A group is the set of combinations that agree in the grouped columns.
Groups(q) ==
    IF q.table.group = <<>> THEN {Meant(q)}
    ELSE {{d \in Meant(q) : \A g \in DOMAIN q.table.group :
              ValueAt(q, q.table.group[g], d) = ValueAt(q, q.table.group[g], c)} : c \in Meant(q)}

(***************************************************************************)
(* An average is the rounded mean of one or two values, and between the    *)
(* smallest and the largest of more.                                       *)
(***************************************************************************)
MeansAverage(q, x, G, v) ==
    LET vals == {<<c, ValueAt(q, x, c)[2]>> : c \in G}
        sum == FoldSet(LAMBDA p, n : p[2] + n, 0, vals)
    IN  IF G = {} THEN v = Integer(0)
        ELSE IF Cardinality(G) <= 2 THEN v = Integer(RoundedQuotient(sum, Cardinality(G)))
        ELSE \E lo, hi \in vals : lo[2] <= v[2] /\ v[2] <= hi[2]

MeansCell(q, x, G, v) ==
    CASE x.op = "AVG" -> MeansAverage(q, x.arg, G, v)
      [] x.op = "COUNT" -> v = Integer(Cardinality({c \in G : x.arg = Absent \/ ValueAt(q, x.arg, c) # Null}))
      [] OTHER -> \A c \in G : v = ValueAt(q, x, c)

MeansRow(q, G, row) ==
    IF q.list[1] = Star THEN \A c \in G : row = RowOf(q.table.from, c)
    ELSE \A k \in DOMAIN q.list : MeansCell(q, q.list[k].expr, G, row[k])

\* What every row of the answer stands for: a group, or a combination.
Sources(q) ==
    IF HasAggrFunc(q.list) THEN Groups(q) ELSE {{c} : c \in Meant(q)}

-----------------------------------------------------------------------------
(* What the engine is known to get wrong.                                  *)

\* OR after AND: the parser panics.
JoinsConjunctions(q) == q.table.where.op = "OR" /\ q.table.where.lhs.op = "AND"

\* GROUP BY: the comma ends it; without an aggregate it does nothing; a
\* column under another reference groups by the first column of the list.
Misgroups(q) ==
    LET group == q.table.group
    IN  \/ Len(group) > 1
        \/ group # <<>> /\ ~HasAggrFunc(q.list)
        \/ \E g \in DOMAIN group : \A k \in DOMAIN q.list : q.list[k].expr # group[g]

RECURSIVE Orders(_)
Orders(x) == x.op \in OrderOps \/ (x.op \in {"AND", "OR"} /\ (Orders(x.lhs) \/ Orders(x.rhs)))

\* NULL, which padding brings, is neither ordered nor averaged.
MeetsNull(q) ==
    /\ \E c \in Combinations(q.table.from) : 0 \in Range(c)
    /\ \/ q.sort # <<>>
       \/ \E k \in DOMAIN q.list : q.list[k].expr.op = "AVG"
       \/ Orders(q.table.where)

\* Two averages of one column share their counter.
SharesCounter(q) ==
    \E k, m \in DOMAIN q.list : k # m /\ q.list[k].expr.op = "AVG" /\ q.list[k].expr = q.list[m].expr

-----------------------------------------------------------------------------
(* Properties.                                                             *)

Answers(q, r) ==
    LET sources == SetToSeq(Sources(q))
        at == KeyIndexes(q.sort, r.fields)
    IN  /\ Len(r.rows) = Len(sources)
        /\ \A i \in 1 .. Len(r.rows) - 1 : ~Before(q.sort, at, r.rows[i + 1], r.rows[i])
        /\ \E p \in Permutations(DOMAIN sources) :
             \A k \in DOMAIN sources : MeansRow(q, sources[p[k]], r.rows[k])

InWindow(w, k) ==
    LET from == IF w.offset = <<>> THEN 0 ELSE w.offset[1]
    IN  from < k /\ (w.limit # <<>> => k <= from + w.limit[1])

Asks(q) == q.op = "SELECT" /\ q.table.from # Absent

Known(q) == JoinsConjunctions(q) \/ Misgroups(q) \/ MeetsNull(q) \/ SharesCounter(q)

(***************************************************************************)
(* What is typed is what is executed, and a SELECT is answered with what   *)
(* it means: some arrangement of the groups or of the row combinations     *)
(* gives the rows one by one, in the order asked for, and the window takes *)
(* its part of them.  A query that orders or averages NULL may end without *)
(* an answer.                                                              *)
(***************************************************************************)
TypedIsAnswered ==
    asked # Absent /\ (Asks(asked) => ~Known(asked)) =>
        /\ answer.tree = asked
        /\ Asks(asked) =>
             LET whole == EvaluateSelect([asked EXCEPT !.window = Unlimited])
             IN  /\ answer.result.status = "rows" /\ Answers(asked, whole)
                 /\ answer.result.rows =
                      LET shown == SelectSeq([k \in DOMAIN whole.rows |-> k],
                                             LAMBDA k : InWindow(asked.window, k))
                      IN  [k \in DOMAIN shown |-> whole.rows[shown[k]]]

=============================================================================
