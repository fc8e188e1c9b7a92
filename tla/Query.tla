------------------------------- MODULE Query -------------------------------
(***************************************************************************)
(* SELECT over the rows of one table: Optimizer and the iterators it puts   *)
(* together (file scan, selection, projection), on encoded rows.            *)
(*                                                                          *)
(* The iterators pull one row after the other and keep nothing else, so a   *)
(* statement's rows are a filter followed by a map.  An exception of any    *)
(* row fails the whole statement, Executor catches it.                      *)
(*   operand    [kind |-> "column", name] or [kind |-> "literal", text]     *)
(*   condition  [kind |-> "comparison", left, op, right], left and right    *)
(*              operands; [kind |-> "and" or "or", left, right], both       *)
(*              conditions; [kind |-> "none"], no WHERE clause              *)
(*   statement  [select_all, columns, where]                                *)
(***************************************************************************)
EXTENDS RowCodec

CONSTANTS
  Conditions,   \* the conditions of WHERE clauses and the parts of these
  Depth         \* how deep the tree of a condition is

ComparisonOps == {"EQ", "NEQ", "LT", "GT", "LE", "GE"}

IsOperand(operand) ==
  operand.kind = "column" \/ (operand.kind = "literal" /\ IsText(operand.text))

\* Conditions are finite trees: the parser builds them from their parts.
ASSUME QueryAssumption ==
  /\ Depth \in [Conditions -> Nat]
  /\ \A cond \in Conditions :
       \/ cond.kind = "none"
       \/ /\ cond.kind = "comparison" /\ cond.op \in ComparisonOps
          /\ IsOperand(cond.left) /\ IsOperand(cond.right)
       \/ /\ cond.kind \in {"and", "or"}
          /\ \A part \in {cond.left, cond.right} : part \in Conditions /\ Depth[part] < Depth[cond]

\* What evaluating a condition comes to.
Truth(b) == IF b THEN "true" ELSE "false"

\* The first column of the name; 0 if there is none (column_index throws).
column_index(schema, name) == SelectInSeq(schema, LAMBDA attr : attr.name = name)

\* std::string compares bytes, and a prefix comes first.
StringLess(a, b) ==
  \E i \in 1 .. Len(b) :
    /\ i <= Len(a) + 1 /\ SubSeq(a, 1, i - 1) = SubSeq(b, 1, i - 1)
    /\ i > Len(a) \/ a[i] < b[i]

ValueLess(left, right) ==
  IF left.type = "String" THEN StringLess(left.value, right.value) ELSE left.value < right.value

\* The switch of compare_values, for two values of one type.
Compares(left, op, right) ==
  CASE op = "EQ" -> left = right
    [] op = "NEQ" -> left # right
    [] op = "LT" -> ValueLess(left, right)
    [] op = "GT" -> ValueLess(right, left)
    [] op = "LE" -> ~ValueLess(right, left)
    [] op = "GE" -> ~ValueLess(left, right)

\* compare_values throws for two types.
compare_values(left, op, right) ==
  IF left.type = right.type THEN Truth(Compares(left, op, right)) ELSE "throws"

\* resolve_operand: the value of a column, or the literal read as the type; invalid
\* where the code throws.
resolve_operand(operand, t, schema, tuple) ==
  IF operand.kind = "literal" THEN ValueFromString(t, operand.text)
  ELSE LET i == column_index(schema, operand.name) IN
         IF i = 0 THEN Invalid ELSE GetValue(tuple, schema, i)

\* The type literals are read as: that of the left column, else of the right one,
\* else String.
LiteralType(cmp, schema) ==
  LET named == IF cmp.left.kind = "column" THEN cmp.left ELSE cmp.right IN
    IF named.kind = "literal" THEN "String"
    ELSE LET i == column_index(schema, named.name) IN
           IF i = 0 THEN "invalid" ELSE schema[i].type

\* Mutant: a literal is read as a string whatever it is compared with.
evaluate_comparison_of_strings(cmp, schema, tuple) ==
  LET left == resolve_operand(cmp.left, "String", schema, tuple)
      right == resolve_operand(cmp.right, "String", schema, tuple)
  IN IF IsValid(left) /\ IsValid(right) THEN compare_values(left, cmp.op, right) ELSE "throws"

evaluate_comparison(cmp, schema, tuple) ==
  LET t == LiteralType(cmp, schema)
      left == resolve_operand(cmp.left, t, schema, tuple)
      right == resolve_operand(cmp.right, t, schema, tuple)
  IN IF t # "invalid" /\ IsValid(left) /\ IsValid(right)
     THEN compare_values(left, cmp.op, right) ELSE "throws"

\* What both sides come to; the right one counts only if the left one leaves it open.
evaluate_logical_condition(kind, left, right) ==
  LET decided == \/ kind = "and" /\ left = "false"
                 \/ kind = "or" /\ left = "true"
  IN IF left = "throws" \/ decided THEN left ELSE right

evaluate_condition(condition, schema, tuple) ==
  LET value[cond \in Conditions] ==
        CASE cond.kind = "none" -> "true"
          [] cond.kind = "comparison" -> evaluate_comparison(cond, schema, tuple)
          [] OTHER -> evaluate_logical_condition(cond.kind, value[cond.left], value[cond.right])
  IN value[condition]

\* Mutant: the i-th field of the row is taken for the i-th selected one.
project_in_row_order(row, schema, fields) ==
  FlattenSeq([i \in DOMAIN fields |->
    Bytes(row, CalculateOffset(row, schema, i), GetSize(row, schema, fields[i]))])

\* ProjectionIterator::project: the bytes of the selected fields.
project(row, schema, fields) ==
  FlattenSeq([i \in DOMAIN fields |->
    Bytes(row, CalculateOffset(row, schema, fields[i]), GetSize(row, schema, fields[i]))])

\* The columns of the statement as get_execution_iterator looks them up; a 0 in
\* there makes it throw.
SelectedFields(stmt, schema) ==
  IF stmt.select_all THEN [i \in DOMAIN schema |-> i]
  ELSE [i \in DOMAIN stmt.columns |-> column_index(schema, stmt.columns[i])]

\* Running the iterators to their end: every row's condition is evaluated.
Runs(stmt, schema, rows) ==
  /\ \A i \in DOMAIN SelectedFields(stmt, schema) : SelectedFields(stmt, schema)[i] # 0
  /\ \A i \in DOMAIN rows : evaluate_condition(stmt.where, schema, rows[i]) # "throws"

\* SelectionIterator: the rows that satisfy the condition.
Matches(where, schema, rows) ==
  RowsAt(rows, {i \in DOMAIN rows : evaluate_condition(where, schema, rows[i]) = "true"})

\* The rows the iterators of a statement return; SELECT * does not project.
ResultRows(stmt, schema, rows) ==
  LET matches == Matches(stmt.where, schema, rows) IN
    IF stmt.select_all THEN matches
    ELSE [i \in DOMAIN matches |-> project(matches[i], schema, SelectedFields(stmt, schema))]

\* The schema Executor returns with them.
ResultSchema(stmt, schema) ==
  LET fields == SelectedFields(stmt, schema) IN
    [i \in DOMAIN fields |-> schema[fields[i]]]

-----------------------------------------------------------------------------
(* What a statement means, on the values of a table. *)

\* A literal and a column agree on a type, and so do two columns.
WellTyped(cmp, schema) ==
  LET Known(o) == o.kind = "literal" \/ column_index(schema, o.name) # 0
      Column(o) == schema[column_index(schema, o.name)].type
      Fits(o) == \/ o.kind = "column" /\ Column(o) = LiteralType(cmp, schema)
                 \/ o.kind = "literal" /\ IsValid(ValueFromString(LiteralType(cmp, schema), o.text))
  IN Known(cmp.left) /\ Known(cmp.right) /\ Fits(cmp.left) /\ Fits(cmp.right)

\* Every comparison of a condition is well typed.
Sound(condition, schema) ==
  LET sound[cond \in Conditions] ==
        CASE cond.kind = "none" -> TRUE
          [] cond.kind = "comparison" -> WellTyped(cond, schema)
          [] OTHER -> sound[cond.left] /\ sound[cond.right]
  IN sound[condition]

\* The order of values: numbers, and strings by their first difference.
Precedes(a, b) ==
  IF a.type # "String" THEN a.value < b.value
  ELSE \/ IsStrictPrefix(a.value, b.value)
       \/ \E i \in DOMAIN a.value \cap DOMAIN b.value :
            /\ a.value[i] < b.value[i]
            /\ \A j \in 1 .. i - 1 : a.value[j] = b.value[j]

\* A sound comparison is true of a tuple of values.
ComparisonHolds(cmp, schema, values) ==
  LET Of(o) == IF o.kind = "column" THEN values[column_index(schema, o.name)]
               ELSE ValueFromString(LiteralType(cmp, schema), o.text)
      a == Of(cmp.left)
      b == Of(cmp.right)
  IN \/ cmp.op \in {"EQ", "LE", "GE"} /\ a = b
     \/ cmp.op \in {"LT", "LE", "NEQ"} /\ Precedes(a, b)
     \/ cmp.op \in {"GT", "GE", "NEQ"} /\ Precedes(b, a)

\* A sound condition holds of a tuple of values.
Holds(condition, schema, values) ==
  LET holds[cond \in Conditions] ==
        CASE cond.kind = "none" -> TRUE
          [] cond.kind = "comparison" -> ComparisonHolds(cond, schema, values)
          [] cond.kind = "and" -> holds[cond.left] /\ holds[cond.right]
          [] OTHER -> holds[cond.left] \/ holds[cond.right]
  IN holds[condition]

\* The values a sound statement selects from the tuples of a table.
Selected(stmt, schema, tuples) ==
  LET fields == SelectedFields(stmt, schema)
      matches == RowsAt(tuples, {i \in DOMAIN tuples : Holds(stmt.where, schema, tuples[i])})
  IN [i \in DOMAIN matches |-> [j \in DOMAIN fields |-> matches[i][fields[j]]]]
=============================================================================
