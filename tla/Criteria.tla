------------------------------ MODULE Criteria ------------------------------
(***************************************************************************)
(* The criteria of commands (app/service.go): the filters of queries, and  *)
(* those of get, update and delete.                                        *)
(*                                                                         *)
(* A document is a JSON object: a function from fields to values.  A path  *)
(* is the sequence of keys between the dots.  A filter is a set of         *)
(* conditions, criteria are a sequence of filters.                         *)
(***************************************************************************)
EXTENDS Integers, SequencesExt

CONSTANTS
    Filter,         \* the filters, those in $and and $or among them
    NumberOf,       \* the texts ParseFloat accepts, and their numbers
    PartOf,         \* the pairs of texts of which the first is in the second
    Regex           \* the pairs of a pattern and a text it matches

-----------------------------------------------------------------------------
(* Values.                                                                 *)

Null == [null |-> "null"]
Text(t) == [text |-> t]
Number(n) == [number |-> n]
Flag(b) == [flag |-> b]
List(s) == [list |-> s]
Object(f) == [object |-> f]

IsA(type, value) == type \in DOMAIN value

\* null and a missing field are the same.
Member(value, key) ==
    IF IsA("object", value) /\ key \in DOMAIN value.object THEN value.object[key] ELSE Null

Value(doc, field) == Member(Object(doc), field)

GetNestedValue(doc, path) == FoldLeft(Member, Object(doc), path)

-----------------------------------------------------------------------------
(* Conditions: an equality, operators, $and or $or.  `other` says that the *)
(* operand of $and has more than filters.                                  *)

Equals(path, value) == [path |-> path, value |-> value]
Op(name, operand) == [op |-> name, operand |-> operand]
Ops(path, ops) == [path |-> path, ops |-> ops]
And(filters, other) == [all |-> filters, other |-> other]
Or(filters) == [any |-> filters]

IsEquality(c) == IsA("value", c)

IsCondition(c) ==
    /\ DOMAIN c \in {{"path", "value"}, {"path", "ops"}, {"all", "other"}, {"any"}}
    /\ IsA("path", c) => c.path \in Seq(STRING)
    /\ IsEquality(c) /\ IsA("text", c.value) => c.value = Text(c.value.text)

ASSUME FilterAssumption ==
    \A filter \in Filter : IsFiniteSet(filter) /\ \A c \in filter : IsCondition(c)

\* What is no number, nor a text of one, counts as zero.
ToFloat64(value) ==
    CASE IsA("number", value) -> value.number
      [] IsA("text", value) /\ value.text \in DOMAIN NumberOf -> NumberOf[value.text]
      [] OTHER -> 0

ArrayContains(array, item) ==
    \/ IsA("list", array) /\ item \in ToSet(array.list)
    \/ IsA("text", array) /\ IsA("text", item) /\ <<item.text, array.text>> \in PartOf

ArrayContainsAll(array, items) ==
    IsA("list", items) /\ \A item \in ToSet(items.list) : ArrayContains(array, item)

MatchesRegex(value, pattern) == IsA("text", value) /\ <<pattern, value.text>> \in Regex

\* An operator that is not known is no condition.
MatchesOperator(value, o) ==
    CASE o.op = "$gte" -> ToFloat64(value) >= ToFloat64(o.operand)
      [] o.op = "$lte" -> ToFloat64(value) <= ToFloat64(o.operand)
      [] o.op = "$gt" -> ToFloat64(value) > ToFloat64(o.operand)
      [] o.op = "$lt" -> ToFloat64(value) < ToFloat64(o.operand)
      [] o.op = "$contains" -> ArrayContains(value, o.operand)
      [] o.op = "$all" -> ArrayContainsAll(value, o.operand)
      [] o.op = "$in" -> ArrayContains(o.operand, value)
      [] o.op = "$regex" -> MatchesRegex(value, o.operand.text)
      [] o.op = "$exists" -> (value # Null) = o.operand.flag
      [] o.op = "$ne" -> value # o.operand
      [] OTHER -> TRUE

MatchesCondition(doc, c) ==
    LET value == GetNestedValue(doc, c.path)
    IN  IF IsEquality(c) THEN value = c.value
        ELSE \A o \in c.ops : MatchesOperator(value, o)

Holds(doc, c, matches) ==
    CASE IsA("all", c) -> ~c.other /\ \A f \in c.all : matches[f]
      [] IsA("any", c) -> \E f \in c.any : matches[f]
      [] OTHER -> MatchesCondition(doc, c)

\* matchesCriteriaEnhanced: get, update and delete.
MatchesCriteria(doc, filter) ==
    LET matches[f \in Filter] == \A c \in f : Holds(doc, c, matches)
    IN  \A c \in filter : Holds(doc, c, matches)

\* criteriaFilter: queries.  $and and $or are taken for names of fields, and
\* their operands, which are lists, for what these fields must equal.
CriteriaFilter(doc, criteria) ==
    \E i \in DOMAIN criteria :
        \A c \in criteria[i] : IsA("path", c) /\ MatchesCondition(doc, c)

\* A filter that both read alike.
IsCommon(filter) == \A c \in filter : IsA("path", c)

=============================================================================
