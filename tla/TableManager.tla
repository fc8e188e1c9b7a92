--------------------------- MODULE TableManager ---------------------------
(***************************************************************************)
(* Which tables there are, and where their rows are: TableManager, Catalog, *)
(* DiskTableFactory with its mapping table, and EphemeralTableFactory.      *)
(*                                                                          *)
(* One thread uses a table manager, so a call is one step.  The process may *)
(* end in good order (the buffer pool's destructor writes every page) and   *)
(* start again: what is on disk is then found again, what is in memory is   *)
(* not.  The default engine, where the catalogs live, is Disk, as in the    *)
(* program.                                                                 *)
(*                                                                          *)
(* The rows of a disk table are a sequence in scan order.  A new row goes   *)
(* to the first page with room and there to a new slot, so it may come      *)
(* anywhere among the rows there are, which keep their order; pages and     *)
(* slots are the subject of DiskTable and SlottedPage.  The rows of the     *)
(* mapping table and of the catalogs are kept decoded (encoding is the      *)
(* subject of RowCodec) and in the order they were added: every search for  *)
(* one of them has one row to find, wherever it is (StorageListed,          *)
(* CatalogReloads), so that order decides nothing.                          *)
(***************************************************************************)
EXTENDS EphemeralTable, FiniteSets

CONSTANTS
  TableNames,    \* names of tables, those of the two catalogs included
  TableCatalog, ColumnCatalog,           \* the names of the catalogs
  Creatable,     \* [name, type, schema]: the tables clients create
  FileIds,       \* the ids CreateFile draws, the mapping table's excepted
  MaxRows,       \* bound on the rows of a disk table
  MaxRowIds,     \* bound on the row ids of an in-memory table
  None

TableTypes == {"InMemory", "Disk"}
Catalogs == {TableCatalog, ColumnCatalog}

\* Catalog::table_catalog_schema and column_catalog_schema.
TableCatalogSchema ==
  << [name |-> "table_name", type |-> "String"], [name |-> "type", type |-> "I32"],
     [name |-> "num_attributes", type |-> "I32"] >>
ColumnCatalogSchema ==
  << [name |-> "attr_name", type |-> "String"], [name |-> "rel_name", type |-> "String"],
     [name |-> "type", type |-> "I32"], [name |-> "position", type |-> "I32"] >>

ASSUME ManagerAssumption ==
  /\ Catalogs \subseteq TableNames /\ TableCatalog # ColumnCatalog
  /\ \A c \in Creatable :
       /\ c.name \in TableNames /\ c.type \in TableTypes
       \* A schema is a vector of attributes.
       /\ Len(c.schema) \in Nat
       /\ c.schema = [i \in 1 .. Len(c.schema) |->
                        [name |-> c.schema[i].name, type |-> c.schema[i].type]]
  \* A disk table with the name of a catalog would share the catalog's mapping.
  /\ \A c \in Creatable : c.name \in Catalogs => c.type = "InMemory"
  /\ None \notin FileIds

VARIABLES
  up,              \* the process runs
  mapping,         \* rows of the mapping table: [file_name, file_id]
  files,           \* files[f]: rows of the table in file f (of a catalog: none), for
                   \* the files there are
  table_catalog,   \* rows [table_name, type, num_attributes]
  column_catalog,  \* rows [attr_name, rel_name, type, position]
  tables_m,        \* EphemeralTableFactory: the map from names to tables in memory
  table_info,      \* Catalog::table_info_m: the map from names to [type, schema]
  success          \* what the last call returned

diskVars == <<mapping, files>>
catalogVars == <<table_catalog, column_catalog, table_info>>
managerVars == <<up, diskVars, catalogVars, tables_m, success>>

\* The process has never run, and there are no files.
ManagerInit ==
  /\ up = FALSE
  /\ mapping = <<>>
  /\ files = <<>>
  /\ table_catalog = <<>> /\ column_catalog = <<>>
  /\ tables_m = <<>> /\ table_info = <<>>
  /\ success = TRUE

\* A map with the key set to the value, and one without the key.
Put(map, key, value) ==
  [k \in DOMAIN map \cup {key} |-> IF k = key THEN value ELSE map[k]]
Erase(map, key) == [k \in DOMAIN map \ {key} |-> map[k]]

-----------------------------------------------------------------------------
(* DiskTableFactory and its mapping table. *)

\* The first row of the mapping table with the name; 0 if there is none.
MappingRow(n) == SelectInSeq(mapping, LAMBDA r : r.file_name = n)

\* MappingManager::GetFileId.
GetFileId(n) == IF MappingRow(n) = 0 THEN None ELSE mapping[MappingRow(n)].file_id

\* MappingManager::SaveMapping and DeleteMapping, which removes the first row of
\* the name.
SaveMapping(n, f) == mapping' = Append(mapping, [file_name |-> n, file_id |-> f])
DeleteMapping(n) == mapping' = RemoveAt(mapping, MappingRow(n))

\* CreateTableFile: a new file, its mapping, and an empty root page.
CreateTableFile(n, f) ==
  /\ f \notin DOMAIN files
  /\ SaveMapping(n, f)
  /\ files' = Put(files, f, <<>>)

\* Mutant: the mapping is not deleted with the file.
DeleteTableFileOnly(n) ==
  /\ files' = Erase(files, GetFileId(n))
  /\ UNCHANGED mapping

\* DiskTableFactory::DeleteTable of a table it has.
DeleteTableFile(n) ==
  /\ files' = Erase(files, GetFileId(n))
  /\ DeleteMapping(n)

-----------------------------------------------------------------------------
(* Catalog. *)

\* Catalog::TableExists.
TableExists(n) == n \in DOMAIN table_info

\* The rows AddTable writes for a table.
TableRow(n, t, schema) == [table_name |-> n, type |-> t, num_attributes |-> Len(schema)]
ColumnRows(n, schema) ==
  [i \in DOMAIN schema |-> [attr_name |-> schema[i].name, rel_name |-> n,
                            type |-> schema[i].type, position |-> i - 1]]

\* Mutant: the columns are stored without their positions.
AddTableUnordered(n, t, schema) ==
  /\ table_catalog' = Append(table_catalog, TableRow(n, t, schema))
  /\ column_catalog' = column_catalog \o
       [i \in DOMAIN schema |-> [ColumnRows(n, schema)[i] EXCEPT !.position = 0]]
  /\ table_info' = Put(table_info, n, [type |-> t, schema |-> schema])

\* Catalog::AddTable of a name that is free.
AddTable(n, t, schema) ==
  /\ table_catalog' = Append(table_catalog, TableRow(n, t, schema))
  /\ column_catalog' = column_catalog \o ColumnRows(n, schema)
  /\ table_info' = Put(table_info, n, [type |-> t, schema |-> schema])

\* Catalog::RemoveTable of a table that is listed: all its columns, and the first
\* row of its name.
RemoveTable(n) ==
  /\ column_catalog' = LET kept == {j \in DOMAIN column_catalog : column_catalog[j].rel_name # n}
                       IN RowsAt(column_catalog, kept)
  /\ table_catalog' =
       LET i == SelectInSeq(table_catalog, LAMBDA r : r.table_name = n) IN
         IF i = 0 THEN table_catalog ELSE RemoveAt(table_catalog, i)
  /\ table_info' = Erase(table_info, n)

\* InitializeTableCatalogTable and InitializeColumnCatalogTable: the catalogs list
\* themselves, as tables in memory.
InitialTableRows ==
  << TableRow(TableCatalog, "InMemory", TableCatalogSchema),
     TableRow(ColumnCatalog, "InMemory", ColumnCatalogSchema) >>
InitialColumnRows ==
  ColumnRows(TableCatalog, TableCatalogSchema) \o ColumnRows(ColumnCatalog, ColumnCatalogSchema)

\* LoadColumnSchemas indexes the schema LoadTableSchemas made room for.
Loadable(tables, columns) ==
  \A j \in DOMAIN columns : \E i \in DOMAIN tables :
    /\ tables[i].table_name = columns[j].rel_name
    /\ columns[j].position < tables[i].num_attributes

\* LoadTableSchemas: of several rows with one name the last one stays.
TableInfoRow(tables, n) == SelectLastInSeq(tables, LAMBDA r : r.table_name = n)

\* LoadColumnSchemas: likewise for one column; without a row the attribute is the
\* one the vector was made with.
LoadedAttribute(columns, n, position) ==
  LET j == SelectLastInSeq(columns, LAMBDA r : r.rel_name = n /\ r.position = position) IN
    IF j = 0 THEN [name |-> None, type |-> None]
             ELSE [name |-> columns[j].attr_name, type |-> columns[j].type]

\* table_info_m after LoadTableSchemas and LoadColumnSchemas.
Loaded(tables, columns) ==
  [n \in {tables[i].table_name : i \in DOMAIN tables} |->
    LET i == TableInfoRow(tables, n) IN
      [type |-> tables[i].type,
       schema |-> [p \in 1 .. tables[i].num_attributes |-> LoadedAttribute(columns, n, p - 1)]]]

-----------------------------------------------------------------------------
(* TableManager. *)

\* The factory of the type has the table.
Stored(n, t) == IF t = "InMemory" THEN n \in DOMAIN tables_m ELSE GetFileId(n) # None

\* TableManager::GetTable returns a handle.
Opens(n) == up /\ TableExists(n) /\ Stored(n, table_info[n].type)
GetSchema(n) == table_info[n].schema

\* The rows a scan of the handle returns.
TableRows(n) ==
  IF table_info[n].type = "InMemory" THEN Scan(tables_m[n]) ELSE files[GetFileId(n)]

\* CreateTable of the type's factory succeeds; EphemeralTableFactory refuses a
\* name it has, DiskTableFactory does not look.
FactoryCreates(n, t) ==
  \/ /\ t = "InMemory" /\ n \notin DOMAIN tables_m
     /\ tables_m' = Put(tables_m, n, NewTable)
     /\ UNCHANGED diskVars
  \/ /\ t = "Disk"
     /\ \E f \in FileIds : CreateTableFile(n, f)
     /\ UNCHANGED tables_m

\* TableManager::CreateTable.
CreateTable(n, t, schema) ==
  /\ up
  /\ ~TableExists(n)
  /\ FactoryCreates(n, t)
  /\ AddTable(n, t, schema)
  /\ success' = TRUE
  /\ UNCHANGED up

\* It returns false: the catalog lists the name, or the factory has it.
CreateTableFails(n, t) ==
  /\ up
  /\ TableExists(n) \/ (t = "InMemory" /\ n \in DOMAIN tables_m)
  /\ success' = FALSE
  /\ UNCHANGED <<up, diskVars, catalogVars, tables_m>>

\* TableManager::DeleteTable of a listed table: the catalog first, then the
\* factory of its type, which may not have it.
DeleteTable(n) ==
  /\ up
  /\ TableExists(n)
  /\ RemoveTable(n)
  /\ success' = Stored(n, table_info[n].type)
  /\ \/ /\ table_info[n].type = "InMemory"
        /\ tables_m' = Erase(tables_m, n)
        /\ UNCHANGED diskVars
     \/ /\ table_info[n].type = "Disk" /\ Stored(n, "Disk")
        /\ DeleteTableFile(n)
        /\ UNCHANGED tables_m
  /\ UNCHANGED up

DeleteTableFails(n) ==
  /\ up
  /\ ~TableExists(n)
  /\ success' = FALSE
  /\ UNCHANGED <<up, diskVars, catalogVars, tables_m>>

-----------------------------------------------------------------------------
(* Rows, through a handle. *)

\* What the operations on a handle leave alone, and what they return.
HandleCall ==
  /\ success' = TRUE
  /\ UNCHANGED <<up, mapping, catalogVars>>

\* The row store of n becomes the one given: t in memory, s on disk.
SetStore(n, t, s) ==
  \/ /\ table_info[n].type = "InMemory" /\ NextRowId(t) <= MaxRowIds
     /\ tables_m' = [tables_m EXCEPT ![n] = t]
     /\ UNCHANGED files
  \/ /\ table_info[n].type = "Disk" /\ Len(s) <= MaxRows
     /\ files' = [files EXCEPT ![GetFileId(n)] = s]
     /\ UNCHANGED tables_m

\* Where a scan may meet a row that is added to `count` others: in memory behind
\* them, on disk at the end of any page, as pages have room.
NewPlaces(n, count) ==
  IF table_info[n].type = "InMemory" THEN {count + 1} ELSE 1 .. count + 1

\* TableHandle::insert_row, after which a scan meets the row at `place`.
StoreRow(n, place, row) ==
  /\ Opens(n) /\ place \in NewPlaces(n, Len(TableRows(n)))
  /\ SetStore(n, InsertRow(tables_m[n], row), InsertAt(files[GetFileId(n)], place, row))
  /\ HandleCall

\* TableHandle::delete_row of the i-th row of a scan.
RemoveRow(n, i) ==
  /\ Opens(n) /\ i \in DOMAIN TableRows(n)
  /\ SetStore(n, DeleteRow(tables_m[n], RowIds(tables_m[n])[i]), RemoveAt(files[GetFileId(n)], i))
  /\ HandleCall

\* TableHandle::update_row: the row is deleted, and inserted as a new one.
ReplaceRow(n, i, place, row) ==
  /\ Opens(n) /\ i \in DOMAIN TableRows(n)
  /\ place \in NewPlaces(n, Len(TableRows(n)) - 1)
  /\ SetStore(n, UpdateRow(tables_m[n], RowIds(tables_m[n])[i], row),
              InsertAt(RemoveAt(files[GetFileId(n)], i), place, row))
  /\ HandleCall

-----------------------------------------------------------------------------
(* Processes. *)

\* The first constructor: the catalogs are created and list themselves.
FirstStart ==
  /\ ~up
  /\ GetFileId(TableCatalog) = None /\ GetFileId(ColumnCatalog) = None
  /\ \E f, g \in FileIds :
       /\ f # g /\ {f, g} \cap DOMAIN files = {}
       /\ mapping' = mapping \o << [file_name |-> TableCatalog, file_id |-> f],
                                   [file_name |-> ColumnCatalog, file_id |-> g] >>
       /\ files' = Put(Put(files, f, <<>>), g, <<>>)
  /\ table_catalog' = InitialTableRows
  /\ column_catalog' = InitialColumnRows
  /\ table_info' = Loaded(InitialTableRows, InitialColumnRows)
  /\ up' = TRUE /\ success' = TRUE
  /\ UNCHANGED tables_m

\* A later one: the catalogs are found and loaded.
Restart ==
  /\ ~up
  /\ GetFileId(TableCatalog) # None /\ GetFileId(ColumnCatalog) # None
  /\ Loadable(table_catalog, column_catalog)
  /\ table_info' = Loaded(table_catalog, column_catalog)
  /\ up' = TRUE /\ success' = TRUE
  /\ UNCHANGED <<diskVars, table_catalog, column_catalog, tables_m>>

\* The destructors: pages are written, memory is gone.
Shutdown ==
  /\ up
  /\ up' = FALSE /\ success' = TRUE
  /\ tables_m' = <<>> /\ table_info' = <<>>
  /\ UNCHANGED <<diskVars, table_catalog, column_catalog>>

-----------------------------------------------------------------------------
(* Properties. *)

\* What the catalog has in memory is what a restart would load: no AddTable,
\* RemoveTable or restart lets table_info_m and the catalog tables drift apart,
\* and no column row is left for LoadColumnSchemas to index out of bounds.
CatalogReloads ==
  /\ Loadable(table_catalog, column_catalog)
  /\ up => table_info = Loaded(table_catalog, column_catalog)

\* Catalog, mapping table, files and registry tell the same story: the files are
\* those mapped, one per name; a name is mapped iff it is a catalog's or the
\* catalog lists it as a disk table; and what is registered in memory is listed
\* so.  A failed step between them, or a name reused too early, breaks it.
StorageListed ==
  /\ \A f \in FileIds :
       f \in DOMAIN files <=> \E i \in DOMAIN mapping : mapping[i].file_id = f
  /\ \A i, j \in DOMAIN mapping :
       mapping[i].file_id = mapping[j].file_id \/ mapping[i].file_name = mapping[j].file_name
         => i = j
  /\ up => \A n \in TableNames :
       /\ GetFileId(n) # None <=> n \in Catalogs \/ (TableExists(n) /\ table_info[n].type = "Disk")
       /\ n \in DOMAIN tables_m => TableExists(n) /\ table_info[n].type = "InMemory"
=============================================================================
