----------------------------- MODULE MCExecutor -----------------------------
(* The constants of the run over Executor: bytes of 2 bits, strings of up to  *)
(* 3 of them, and row ids that wrap after every second slot.                  *)
EXTENDS Executor

CONSTANTS col1, col2, tab1, tab2

FileSymmetry == Permutations(FileIds)

MCWidth == [I32 |-> 2, U32 |-> 2, I64 |-> 3]

Attr(n, type) == [name |-> n, type |-> type]

\* A string in front of what is selected or compared, and a name used twice.
Schema1 == << Attr(col1, "String"), Attr(col2, "I32") >>
Schema2 == << Attr(col1, "U32"), Attr(col2, "String"), Attr(col1, "I64") >>

Table(n, type, schema) == [name |-> n, type |-> type, schema |-> schema]
MCCreatable == { Table(tab1, "InMemory", Schema1), Table(tab1, "InMemory", Schema2),
                 Table(tab1, "Disk", Schema1), Table(tab1, "Disk", Schema2),
                 Table(tab2, "Disk", Schema2), Table(TableCatalog, "InMemory", Schema1) }

\* "1", "12" (too large for an I32 of 2 bytes of 2 bits), "-1", "-0", no text, a word,
\* one too long.
Text(chars, number, minus) == [chars |-> chars, number |-> number, minus |-> minus]
One == Text(<<1>>, 1, FALSE)
Twelve == Text(<<1, 2>>, 12, FALSE)
MinusOne == Text(<<0, 1>>, -1, TRUE)
MinusZero == Text(<<0, 3>>, 0, TRUE)
Empty == Text(<<>>, NotANumber, FALSE)
Word == Text(<<2, 3, 3>>, NotANumber, FALSE)
Long == Text(<<2, 3, 3, 1>>, NotANumber, FALSE)

MCTexts == { <<Word, MinusOne>>, <<Empty, One>>, <<Twelve, One>>, <<Word, Twelve>>, <<Long, One>>,
             <<Twelve, Twelve, MinusOne>>, <<One, Word, One>>, <<MinusZero, Word, One>> }

String(s) == [type |-> "String", value |-> s]
Number(type, n) == [type |-> type, value |-> n]

MCTuples == { <<String(<<1, 2>>), Number("I32", -8)>>, <<Number("U32", 15), String(<<>>), Number("I64", 31)>> }

Column(n) == [kind |-> "column", name |-> n]
Literal(text) == [kind |-> "literal", text |-> text]
Cmp(left, op, right) == [kind |-> "comparison", left |-> left, op |-> op, right |-> right]
And(c, d) == [kind |-> "and", left |-> c, right |-> d]
Or(c, d) == [kind |-> "or", left |-> c, right |-> d]

All(where) == [select_all |-> TRUE, columns |-> <<>>, where |-> where]
NoWhere == [kind |-> "none"]
Some(columns, where) == [select_all |-> FALSE, columns |-> columns, where |-> where]

MCSelects ==
  { Some(<<col2, col1>>, NoWhere),
    All(Cmp(Column(col1), "LT", Literal(Word))),
    Some(<<col2>>, Cmp(Column(col2), "NEQ", Literal(One))),
    Some(<<col1, col2, col1>>, Cmp(Literal(MinusOne), "LE", Column(col2))),
    All(Cmp(Column(col1), "EQ", Column(col2))),
    Some(<<col1, tab1>>, Cmp(Literal(Twelve), "GE", Column(col1))),
    All(And(Cmp(Column(col1), "GT", Literal(One)), Cmp(Column(tab1), "EQ", Literal(One)))),
    Some(<<col2>>, And(Cmp(Column(col2), "GT", Literal(Empty)), Cmp(Column(col1), "LE", Literal(Twelve)))),
    All(Or(Cmp(Column(col1), "EQ", Literal(Twelve)), Cmp(Column(col2), "LT", Literal(One)))) }

Wheres == {stmt.where : stmt \in MCSelects}
Logical == {cond \in Wheres : cond.kind \in {"and", "or"}}
MCConditions == Wheres \cup UNION {{cond.left, cond.right} : cond \in Logical}
MCDepth == [cond \in MCConditions |-> IF cond.kind \in {"and", "or"} THEN 1 ELSE 0]
=============================================================================
