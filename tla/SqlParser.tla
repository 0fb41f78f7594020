----------------------------- MODULE SqlParser -----------------------------
(***************************************************************************)
(* The recursive descent parser of the SQL engine (sql/sql/parser.go), over *)
(* the tokens the scanner makes of a line.  A parse is the position of the *)
(* token after what was read and the tree of it; tokens that follow a      *)
(* complete statement are not looked at.                                   *)
(***************************************************************************)
EXTENDS Naturals, Sequences

Token(type, text) == [type |-> type, text |-> text]
Keyword(k) == Token(k, k)

TypeAt(s, i) == IF i \in DOMAIN s THEN s[i].type ELSE "EOF"
TextAt(s, i) == s[i].text

Literals == {"INT", "STR", "TRUE", "FALSE"}
OrderOps == {"<", ">", "<=", ">="}
Comparisons == OrderOps \cup {"=", "!="}

\* A clause that is not there.
Absent == [op |-> "absent"]

Parsed(i, tree) == [at |-> i, tree |-> tree]
Failed == [at |-> 0, tree |-> [op |-> "syntax error"]]
Panic == [at |-> 0, tree |-> [op |-> "panic"]]

Then(p, Next(_)) == IF p.at = 0 THEN p ELSE Next(p)

\* requireMatch, with what the parser goes on with.
Require(s, i, type, next) == IF TypeAt(s, i) = type THEN next ELSE Failed

(***************************************************************************)
(* The loops that read an item and go on while a comma follows: they end   *)
(* before a token that starts no item.                                     *)
(***************************************************************************)
Series(s, Starts(_), Item(_), i) ==
    LET from[j \in 1 .. Len(s) + 1] ==
            IF ~Starts(TypeAt(s, j)) THEN Parsed(j, <<>>)
            ELSE Then(Item(j), LAMBDA x :
                   IF TypeAt(s, x.at) # "," THEN Parsed(x.at, <<x.tree>>)
                   ELSE Then(from[x.at + 1], LAMBDA rest :
                          Parsed(rest.at, <<x.tree>> \o rest.tree)))
    IN  from[i]

Anything(type) == TRUE
Identifier(type) == type = "IDENT"
Literal(type) == type \in Literals
Opening(type) == type = "("

-----------------------------------------------------------------------------
(* Expressions.                                                            *)

Column(of, name) == [op |-> "column", of |-> of, name |-> name]
Constant(v) == [op |-> "constant", value |-> v]
Binary(op, l, r) == [op |-> op, lhs |-> l, rhs |-> r]

Bool(b) == <<"BOOL", b>>

Val(s, i) ==
    IF TypeAt(s, i) \in {"TRUE", "FALSE"} THEN Bool(TypeAt(s, i) = "TRUE")
    ELSE <<TypeAt(s, i), TextAt(s, i)>>

ColumnReference(s, i) ==
    Require(s, i, "IDENT",
        IF TypeAt(s, i + 1) # "." THEN Parsed(i + 1, Column("", TextAt(s, i)))
        ELSE Require(s, i + 2, "IDENT", Parsed(i + 3, Column(TextAt(s, i), TextAt(s, i + 2)))))

ValueExpression(s, i) ==
    IF Literal(TypeAt(s, i)) THEN Parsed(i + 1, Constant(Val(s, i))) ELSE ColumnReference(s, i)

ComparisonPredicate(s, i) ==
    Then(ValueExpression(s, i), LAMBDA l :
        IF TypeAt(s, l.at) \notin Comparisons THEN l
        ELSE Then(ValueExpression(s, l.at + 1), LAMBDA r :
               Parsed(r.at, Binary(TypeAt(s, l.at), l.tree, r.tree))))

(***************************************************************************)
(* Both connectives take their left side for a comparison with an          *)
(* unchecked type assertion: anything else there ends the console.         *)
(***************************************************************************)
Connect(s, op, Operand(_), i) ==
    LET from[j \in 1 .. Len(s) + 1] ==
            Then(Operand(j), LAMBDA l :
                IF TypeAt(s, l.at) # op THEN l
                ELSE IF l.tree.op \notin Comparisons THEN Panic
                ELSE Then(from[l.at + 1], LAMBDA r : Parsed(r.at, Binary(op, l.tree, r.tree))))
    IN  from[i]

AndCondition(s, i) == Connect(s, "AND", LAMBDA j : ComparisonPredicate(s, j), i)

OrCondition(s, i) == Connect(s, "OR", LAMBDA j : AndCondition(s, j), i)

-----------------------------------------------------------------------------
(* SELECT.                                                                 *)

Aggregate(op, x) == [op |-> op, arg |-> x]

SetFunctionSpecification(s, i) ==
    LET arg == Require(s, i + 1, "(",
                 IF TypeAt(s, i) = "COUNT" /\ TypeAt(s, i + 2) = "*" THEN Parsed(i + 3, Absent)
                 ELSE ColumnReference(s, i + 2))
    IN  Then(arg, LAMBDA x :
            Require(s, x.at, ")", Parsed(x.at + 1, Aggregate(TypeAt(s, i), x.tree))))

DerivedColumn(s, i) ==
    IF TypeAt(s, i) \in {"COUNT", "AVG"} THEN SetFunctionSpecification(s, i) ELSE OrCondition(s, i)

AsClause(s, x) ==
    LET i == IF TypeAt(s, x.at) = "AS" THEN x.at + 1 ELSE x.at
    IN  IF TypeAt(s, i) = "IDENT" THEN Parsed(i + 1, [expr |-> x.tree, as |-> TextAt(s, i)])
        ELSE IF i # x.at THEN Failed
        ELSE Parsed(i, [expr |-> x.tree, as |-> ""])

Star == [expr |-> [op |-> "*"], as |-> ""]

SelectList(s, i) ==
    IF TypeAt(s, i) = "*" THEN Parsed(i + 1, <<Star>>)
    ELSE Series(s, Anything, LAMBDA j : Then(DerivedColumn(s, j), LAMBDA x : AsClause(s, x)), i)

TableName(s, i) ==
    Require(s, i, "IDENT",
        IF TypeAt(s, i + 1) = "IDENT"
        THEN Parsed(i + 2, [op |-> "table", name |-> TextAt(s, i), as |-> TextAt(s, i + 1)])
        ELSE Parsed(i + 1, [op |-> "table", name |-> TextAt(s, i), as |-> ""]))

Join(type, l, r, on) == [op |-> type, lhs |-> l, rhs |-> r, on |-> on]

\* Joins associate to the left: what was read so far is the left side.
RECURSIVE Joins(_, _, _)
Joins(s, i, left) ==
    IF TypeAt(s, i) \notin {"JOIN", "LEFT", "RIGHT", "INNER"} THEN Parsed(i, left)
    ELSE LET plain == TypeAt(s, i) = "JOIN"
             type == IF plain THEN "INNER" ELSE TypeAt(s, i)
             k == IF plain THEN i ELSE i + 1
         IN  Require(s, k, "JOIN", Then(TableName(s, k + 1), LAMBDA rhs :
               Require(s, rhs.at, "ON", Then(OrCondition(s, rhs.at + 1), LAMBDA on :
                 Joins(s, on.at, Join(type, left, rhs.tree, on.tree))))))

FromClause(s, i) ==
    IF TypeAt(s, i) # "FROM" THEN Parsed(i, Absent)
    ELSE Then(TableName(s, i + 1), LAMBDA t : Joins(s, t.at, t.tree))

WhereClause(s, i) ==
    IF TypeAt(s, i) # "WHERE" THEN Parsed(i, Absent) ELSE OrCondition(s, i + 1)

(***************************************************************************)
(* The columns of GROUP BY follow each other without commas: a comma ends  *)
(* the list.                                                               *)
(***************************************************************************)
GroupByClause(s, i) ==
    LET from[j \in 1 .. Len(s) + 1] ==
            IF TypeAt(s, j) # "IDENT" THEN Parsed(j, <<>>)
            ELSE Then(ColumnReference(s, j), LAMBDA c :
                   Then(from[c.at], LAMBDA rest : Parsed(rest.at, <<c.tree>> \o rest.tree)))
    IN  IF TypeAt(s, i) # "GROUP" THEN Parsed(i, <<>>)
        ELSE Require(s, i + 1, "BY", from[i + 2])

SortSpecification(s, i) ==
    Then(ColumnReference(s, i), LAMBDA c :
        IF TypeAt(s, c.at) \in {"ASC", "DESC"}
        THEN Parsed(c.at + 1, [key |-> c.tree, order |-> TypeAt(s, c.at)])
        ELSE Parsed(c.at, [key |-> c.tree, order |-> "ASC"]))

SortSpecificationList(s, i) ==
    IF TypeAt(s, i) # "ORDER" THEN Parsed(i, <<>>)
    ELSE Require(s, i + 1, "BY",
           Series(s, Anything, LAMBDA j : SortSpecification(s, j), i + 2))

(***************************************************************************)
(* LIMIT and OFFSET in any order; a second one of a kind is skipped        *)
(* without its number, which ends the clause.                              *)
(***************************************************************************)
Unlimited == [limit |-> <<>>, offset |-> <<>>]

RECURSIVE LimitOffsetClause(_, _, _)
LimitOffsetClause(s, i, lc) ==
    LET which == IF TypeAt(s, i) = "LIMIT" THEN "limit" ELSE "offset"
    IN  IF TypeAt(s, i) \notin {"LIMIT", "OFFSET"} THEN Parsed(i, lc)
        ELSE IF lc[which] # <<>> THEN LimitOffsetClause(s, i + 1, lc)
        ELSE Require(s, i + 1, "INT",
               LimitOffsetClause(s, i + 2, [lc EXCEPT ![which] = <<TextAt(s, i + 1)>>]))

(***************************************************************************)
(* A select column matches a column of GROUP BY by name, by alias, or by   *)
(* column name alone when GROUP BY gives no table.                         *)
(***************************************************************************)
Matches(x, c) ==
    /\ x.expr.op = "column"
    /\ \/ x.expr = c
       \/ x.as = c.name
       \/ x.expr.name = c.name /\ c.of = ""

HasAggrFunc(list) == \E k \in DOMAIN list : list[k].expr.op \in {"COUNT", "AVG"}

ValidGroupByFields(list, group) ==
    \/ ~HasAggrFunc(list) /\ group = <<>>
    \/ /\ \A k \in DOMAIN list : list[k].expr.op = "column" =>
              \E g \in DOMAIN group : Matches(list[k], group[g])
       /\ \A g \in DOMAIN group, k, m \in DOMAIN list :
              Matches(list[k], group[g]) /\ Matches(list[m], group[g]) => k = m

NoTable == [from |-> Absent, where |-> Absent, group |-> <<>>]

TableExpression(s, i) ==
    Then(FromClause(s, i), LAMBDA from :
        IF from.tree = Absent THEN Parsed(i, NoTable)
        ELSE Then(WhereClause(s, from.at), LAMBDA where :
             Then(GroupByClause(s, where.at), LAMBDA group :
               Parsed(group.at, [from |-> from.tree, where |-> where.tree,
                                 group |-> group.tree]))))

ParseSelect(s, i) ==
    Then(SelectList(s, i), LAMBDA list : Then(TableExpression(s, list.at), LAMBDA t :
        IF \/ t.tree = NoTable /\ t.at < Len(s)
           \/ ~ValidGroupByFields(list.tree, t.tree.group)
        THEN Failed
        ELSE Then(SortSpecificationList(s, t.at), LAMBDA sort :
             Then(LimitOffsetClause(s, sort.at, Unlimited), LAMBDA window :
               Parsed(window.at, [op |-> "SELECT", list |-> list.tree, table |-> t.tree,
                                  sort |-> sort.tree, window |-> window.tree])))))

-----------------------------------------------------------------------------
(* The other statements.                                                   *)

TableElement(s, i) ==
    LET name == TextAt(s, i)
        type == TypeAt(s, i + 1)
    IN  IF type \in {"T_INT", "T_BIGINT", "T_BOOL"}
        THEN Parsed(i + 2, [name |-> name, type |-> type, len |-> 0])
        ELSE Require(s, i + 1, "T_VARCHAR", Require(s, i + 2, "(", Require(s, i + 3, "INT",
               Require(s, i + 4, ")",
                 Parsed(i + 5, [name |-> name, type |-> type, len |-> TextAt(s, i + 3)])))))

TableElements(s, i) ==
    Require(s, i, "(",
        Then(Series(s, Identifier, LAMBDA j : TableElement(s, j), i + 1), LAMBDA cols :
            Require(s, cols.at, ")", Parsed(cols.at + 1, cols.tree))))

ParseCreate(s, i) ==
    IF TypeAt(s, i) = "DATABASE"
    THEN Require(s, i + 1, "IDENT", Parsed(i + 2, [op |-> "CREATE DATABASE", name |-> TextAt(s, i + 1)]))
    ELSE Require(s, i, "TABLE",
           LET named == TypeAt(s, i + 1) = "IDENT"
           IN  Then(TableElements(s, IF named THEN i + 2 ELSE i + 1), LAMBDA cols :
                 Parsed(cols.at, [op |-> "CREATE TABLE", cols |-> cols.tree,
                                  name |-> IF named THEN TextAt(s, i + 1) ELSE ""])))

RowValues(s, i) ==
    Then(Series(s, Literal, LAMBDA j : Parsed(j + 1, Val(s, j)), i + 1), LAMBDA vals :
        Require(s, vals.at, ")", Parsed(vals.at + 1, vals.tree)))

ColumnNames(s, i) ==
    IF TypeAt(s, i) # "(" THEN Parsed(i, <<>>)
    ELSE Then(Series(s, Identifier, LAMBDA j : Parsed(j + 1, TextAt(s, j)), i + 1), LAMBDA cols :
           Require(s, cols.at, ")", Parsed(cols.at + 1, cols.tree)))

ParseInsert(s, i) ==
    Require(s, i, "INTO", Require(s, i + 1, "IDENT",
        Then(ColumnNames(s, i + 2), LAMBDA cols :
            Require(s, cols.at, "VALUES",
                Then(Series(s, Opening, LAMBDA j : RowValues(s, j), cols.at + 1), LAMBDA rows :
                    Parsed(rows.at, [op |-> "INSERT", table |-> TextAt(s, i + 1),
                                     cols |-> cols.tree, rows |-> rows.tree]))))))

SetClause(s, i) ==
    Require(s, i + 1, "=", Then(ValueExpression(s, i + 2), LAMBDA v :
        Parsed(v.at, [col |-> TextAt(s, i), value |-> v.tree])))

ParseUpdate(s, i) ==
    Require(s, i, "IDENT", Require(s, i + 1, "SET",
        Then(Series(s, Identifier, LAMBDA j : SetClause(s, j), i + 2), LAMBDA set :
            Then(WhereClause(s, set.at), LAMBDA where :
                Parsed(where.at, [op |-> "UPDATE", table |-> TextAt(s, i),
                                  set |-> set.tree, where |-> where.tree])))))

ParseDelete(s, i) ==
    Require(s, i, "FROM", Require(s, i + 1, "IDENT",
        Then(WhereClause(s, i + 2), LAMBDA where :
            Parsed(where.at, [op |-> "DELETE", table |-> TextAt(s, i + 1), where |-> where.tree]))))

ParseUse(s, i) == Require(s, i, "IDENT", Parsed(i + 1, [op |-> "USE", name |-> TextAt(s, i)]))

ParseShow(s, i) ==
    IF \/ TypeAt(s, i) = "DATABASE"
       \/ TypeAt(s, i) = "IDENT" /\ TextAt(s, i) = "databases"
    THEN Parsed(i + 1, [op |-> "SHOW"]) ELSE Failed

Parse(s) ==
    CASE TypeAt(s, 1) = "CREATE" -> ParseCreate(s, 2)
      [] TypeAt(s, 1) = "SELECT" -> ParseSelect(s, 2)
      [] TypeAt(s, 1) = "INSERT" -> ParseInsert(s, 2)
      [] TypeAt(s, 1) = "UPDATE" -> ParseUpdate(s, 2)
      [] TypeAt(s, 1) = "USE" -> ParseUse(s, 2)
      [] TypeAt(s, 1) = "DELETE" -> ParseDelete(s, 2)
      [] TypeAt(s, 1) = "SHOW" -> ParseShow(s, 2)
      [] OTHER -> Failed

=============================================================================
