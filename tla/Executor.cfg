\* Two tables next to the catalogs, both engines, restarts; bytes of 2 bits.
SPECIFICATION ExecutorSpec
CONSTANTS
  Base = 4
  LengthBytes = 1
  Width <- MCWidth
  NotANumber = NotANumber
  SlotMod = 2
  col1 = col1
  col2 = col2
  tab1 = tab1
  tab2 = tab2
  TableCatalog = table_catalog
  ColumnCatalog = column_catalog
  TableNames = {tab1, tab2, table_catalog, column_catalog}
  Creatable <- MCCreatable
  FileIds = {f1, f2, f3, f4}
  MaxRows = 3
  MaxRowIds = 3
  None = None
  RowTables = {tab1}
  Texts <- MCTexts
  Tuples <- MCTuples
  Selects <- MCSelects
  Conditions <- MCConditions
  Depth <- MCDepth
SYMMETRY FileSymmetry
INVARIANTS CatalogReloads StorageListed RowsKept SelectCorrect SelectSucceeds
