----------------------------- MODULE Executor -----------------------------
(***************************************************************************)
(* Executor: SQL statements over the table manager, and what their clients  *)
(* may rely on.  Statements come one at a time from one thread, next to     *)
(* calls on TableManager and TableHandle, which create tables on disk,      *)
(* delete rows and update them; no statement does.                          *)
(*                                                                          *)
(* acked, which the code does not have, is what clients were told: the      *)
(* values of the rows they stored in a table since it was created, in the   *)
(* order in which the table returns them.  No row has two places in it, and *)
(* in memory the order is that of insertion; on disk the table chooses the  *)
(* place of a new row, and only that.                                       *)
(***************************************************************************)
EXTENDS TableManager, Query

CONSTANTS
  RowTables,  \* the tables statements and handles use the rows of
  Texts,      \* sequences of literals, the VALUES of INSERT statements
  Tuples,     \* sequences of values, given to table handles
  Selects     \* SELECT statements, without the table

ASSUME ExecutorAssumption ==
  /\ RowTables \subseteq TableNames
  /\ \A texts \in Texts : IsList(texts) /\ \A i \in DOMAIN texts : IsText(texts[i])
  /\ \A values \in Tuples : IsList(values) /\ \A i \in DOMAIN values : IsValue(values[i])
  /\ \A stmt \in Selects : stmt.where \in Conditions /\ IsList(stmt.columns)

VARIABLE acked

executorVars == <<managerVars, acked>>

ExecutorInit == ManagerInit /\ acked = [n \in TableNames |-> <<>>]

-----------------------------------------------------------------------------
(* Tables. *)

\* A table manager call that leaves the rows of all tables alone.
Managed(call) == call /\ UNCHANGED acked

\* CREATE TABLE, always in memory, and TableManager::CreateTable on disk.
Create(n, t, schema) ==
  /\ CreateTable(n, t, schema)
  /\ acked' = [acked EXCEPT ![n] = <<>>]

\* DROP TABLE.
Drop(n) == Managed(DeleteTable(n) \/ DeleteTableFails(n))

-----------------------------------------------------------------------------
(* Rows. *)

\* TableHandle::insert_row of values that BuildRow accepts.
HandleInsert(n, place, values) ==
  /\ StoreRow(n, place, BuildRow(values))
  /\ acked' = [acked EXCEPT ![n] = InsertAt(@, place, values)]

\* TableHandle::update_row.
HandleUpdate(n, i, values) ==
  /\ Opens(n) /\ Buildable(values, GetSchema(n))
  /\ \E place \in 1 .. Len(TableRows(n)) :
       /\ ReplaceRow(n, i, place, BuildRow(values))
       /\ acked' = [acked EXCEPT ![n] = InsertAt(RemoveAt(@, i), place, values)]

\* TableHandle::delete_row.
HandleDelete(n, i) ==
  /\ RemoveRow(n, i)
  /\ acked' = [acked EXCEPT ![n] = RemoveAt(@, i)]

\* The values INSERT makes of its texts, some of them perhaps invalid.
Converted(texts, schema) ==
  [i \in DOMAIN texts |-> ValueFromString(schema[i].type, texts[i])]

\* INSERT reaches insert_row, and that does not throw.
Insertable(n, texts) ==
  /\ Opens(n)
  /\ Len(texts) = Len(GetSchema(n))
  /\ LET values == Converted(texts, GetSchema(n)) IN
       (\A i \in DOMAIN values : IsValid(values[i])) /\ Buildable(values, GetSchema(n))

\* INSERT; the list of columns it may have is not looked at.
Insert(n, texts) ==
  /\ Insertable(n, texts)
  /\ \E place \in 1 .. Len(TableRows(n)) + 1 :
       HandleInsert(n, place, Converted(texts, GetSchema(n)))

-----------------------------------------------------------------------------
(* Statements that change nothing. *)

\* SELECT of table n succeeds.
SelectRuns(n, stmt) == Opens(n) /\ Runs(stmt, GetSchema(n), TableRows(n))

\* What it returns: success, and with it rows and their schema.
ExecuteSelect(n, stmt) ==
  IF SelectRuns(n, stmt)
  THEN [success |-> TRUE, rows |-> ResultRows(stmt, GetSchema(n), TableRows(n)),
        schema |-> ResultSchema(stmt, GetSchema(n))]
  ELSE [success |-> FALSE, rows |-> <<>>, schema |-> <<>>]

\* A statement that returns b and leaves everything as it is.
Returns(b) ==
  /\ up
  /\ success' = b
  /\ UNCHANGED <<up, diskVars, catalogVars, tables_m, acked>>

Select(n, stmt) == Returns(SelectRuns(n, stmt))
InsertFails(n, texts) == up /\ ~Insertable(n, texts) /\ Returns(FALSE)

\* DELETE and UPDATE statements parse and always fail.
DeleteOrUpdate == Returns(FALSE)

-----------------------------------------------------------------------------
ExecutorNext ==
  \/ Managed(FirstStart) \/ Managed(Restart) \/ Managed(Shutdown)
  \/ \E c \in Creatable :
       Create(c.name, c.type, c.schema) \/ Managed(CreateTableFails(c.name, c.type))
  \/ \E n \in TableNames : Drop(n)
  \/ \E n \in RowTables :
       \/ \E texts \in Texts : Insert(n, texts) \/ InsertFails(n, texts)
       \/ \E stmt \in Selects : Select(n, stmt)
       \/ \E i \in 1 .. MaxRows :
            \/ HandleDelete(n, i)
            \/ \E values \in Tuples : HandleUpdate(n, i, values)
  \/ DeleteOrUpdate

ExecutorSpec == ExecutorInit /\ [][ExecutorNext]_executorVars

-----------------------------------------------------------------------------
(* Properties. *)

\* A table that opens holds exactly the values clients stored in it since it was
\* created: each once, in memory in the order they were stored, on disk with each
\* row at the place it was given when it was stored; whatever was inserted, deleted
\* or updated in between, also with row ids past a wrap of the slot counter, after a
\* restart, and after its name was dropped and used for another schema or engine.
RowsKept ==
  \A n \in TableNames : Opens(n) =>
    LET rows == TableRows(n) IN
      [i \in DOMAIN rows |-> GetValues(rows[i], GetSchema(n))] = acked[n]

\* A SELECT that succeeds returns the values it means: the bytes the selection
\* and the projection cut out of the rows, read with the schema returned, are
\* those of the rows that satisfy the condition, in the order of the table, no
\* matter which columns are selected in which order.
SelectCorrect ==
  \A n \in TableNames, stmt \in Selects :
    Opens(n) /\ Sound(stmt.where, GetSchema(n)) =>
      \A r \in {ExecuteSelect(n, stmt)} :
        r.success => [i \in DOMAIN r.rows |-> GetValues(r.rows[i], r.schema)]
                       = Selected(stmt, GetSchema(n), acked[n])

\* A SELECT fails only for a reason: of a table that opens, with columns that it
\* has and comparisons of one type, it succeeds, whatever rows are in the table.
SelectSucceeds ==
  \A n \in TableNames, stmt \in Selects :
    /\ Opens(n) /\ Sound(stmt.where, GetSchema(n))
    /\ \A i \in DOMAIN SelectedFields(stmt, GetSchema(n)) : SelectedFields(stmt, GetSchema(n))[i] # 0
    => SelectRuns(n, stmt)
=============================================================================
