-------------------------- MODULE ExecutorProofs --------------------------
(***************************************************************************)
(* Catalog, mapping table, files and registry stay in step under every      *)
(* sequence of statements, handle calls, and orderly ends and starts of the *)
(* process, for any tables, schemas, rows and file ids; and the cache of    *)
(* the catalog is always what a restart would load.                         *)
(*                                                                          *)
(* Tables hold what clients stored, and SELECT returns what it means, from  *)
(* the bytes up: numbers and strings are read back from their bytes, rows   *)
(* from the fields one after the other; the files and the tables in memory  *)
(* encode what clients were told (KeptInv); conditions, which are trees,    *)
(* come to what they mean on the values, and the projection cuts out the    *)
(* bytes of the columns selected.                                           *)
(***************************************************************************)
EXTENDS Executor, SequenceTheorems, FiniteSetTheorems, TLAPS

\* What the catalog tables and the mapping table say of a name.
Mapped(n) == \E i \in 1 .. Len(mapping) : mapping[i].file_name = n
FileMapped(f) == \E i \in 1 .. Len(mapping) : mapping[i].file_id = f
Listed(n, t) == \E i \in 1 .. Len(table_catalog) :
                  table_catalog[i].table_name = n /\ table_catalog[i].type = t

MappingRows == [file_name : TableNames, file_id : FileIds]
CatalogRows == [table_name : TableNames, type : TableTypes, num_attributes : Nat]

StorageTypes ==
  /\ up \in BOOLEAN
  /\ mapping \in Seq(MappingRows)
  /\ table_catalog \in Seq(CatalogRows)

\* No name is listed or mapped twice, and no file mapped twice.
MappedOnce ==
  \A i, j \in 1 .. Len(mapping) :
    mapping[i].file_id = mapping[j].file_id \/ mapping[i].file_name = mapping[j].file_name
      => i = j
ListedOnce ==
  \A i, j \in 1 .. Len(table_catalog) :
    table_catalog[i].table_name = table_catalog[j].table_name => i = j

\* The files are those mapped.
FilesMapped == \A f : f \in DOMAIN files <=> FileMapped(f)

\* Before the first start there is nothing; from then on the catalogs and the disk
\* tables are mapped.
MappingListed ==
  /\ up => Mapped(TableCatalog)
  /\ ~Mapped(TableCatalog) => mapping = <<>> /\ table_catalog = <<>>
  /\ Mapped(TableCatalog) =>
       \A n \in TableNames : Mapped(n) <=> n \in Catalogs \/ Listed(n, "Disk")
  /\ \A n \in Catalogs : ~Listed(n, "Disk")

\* The cache has the names and types of the catalog table, the registry only
\* tables in memory.
CacheListed ==
  /\ up => /\ \A n : n \in DOMAIN table_info <=> \E t \in TableTypes : Listed(n, t)
           /\ \A n \in DOMAIN table_info : \A t : t = table_info[n].type => Listed(n, t)
  /\ \A n \in DOMAIN tables_m : up /\ Listed(n, "InMemory")

StorageInv ==
  StorageTypes /\ MappedOnce /\ ListedOnce /\ FilesMapped /\ MappingListed /\ CacheListed

-----------------------------------------------------------------------------
(* Rows of the mapping table and of the table catalog. *)

LEMMA MinOfOne ==
  ASSUME NEW i \in Nat
  PROVE  Min({i}) = i
<1>1. \E x \in {i} : \A y \in {i} : x =< y
  OBVIOUS
<1>2. Min({i}) \in {i}
  BY <1>1, Zenon DEF Min
<1> QED BY <1>2

LEMMA MaxOfOne ==
  ASSUME NEW i \in Nat
  PROVE  Max({i}) = i
<1>1. \E x \in {i} : \A y \in {i} : x >= y
  OBVIOUS
<1>2. Max({i}) \in {i}
  BY <1>1, Zenon DEF Max
<1> QED BY <1>2

LEMMA RowFields ==
  ASSUME StorageTypes
  PROVE  /\ Len(mapping) \in Nat /\ Len(table_catalog) \in Nat
         /\ \A i \in 1 .. Len(mapping) :
              mapping[i].file_name \in TableNames /\ mapping[i].file_id \in FileIds
         /\ \A i \in 1 .. Len(table_catalog) :
              table_catalog[i].table_name \in TableNames /\ table_catalog[i].type \in TableTypes
<1>1. mapping \in Seq(MappingRows) /\ table_catalog \in Seq(CatalogRows)
  BY DEF StorageTypes
<1>2. \A i \in 1 .. Len(mapping) : mapping[i] \in MappingRows
  BY <1>1, ElementOfSeq
<1>3. \A i \in 1 .. Len(table_catalog) : table_catalog[i] \in CatalogRows
  BY <1>1, ElementOfSeq
<1> QED BY <1>1, <1>2, <1>3, LenProperties DEF MappingRows, CatalogRows

LEMMA MappingRowOf ==
  ASSUME StorageTypes, MappedOnce, NEW n
  PROVE  /\ GetFileId(n) # None <=> Mapped(n)
         /\ \A i \in 1 .. Len(mapping) : mapping[i].file_name = n =>
              MappingRow(n) = i /\ GetFileId(n) = mapping[i].file_id
<1> DEFINE I == {i \in 1 .. Len(mapping) : mapping[i].file_name = n}
<1>1. MappingRow(n) = IF I # {} THEN Min(I) ELSE 0
  BY DEF MappingRow, SelectInSeq
<1> HIDE DEF I
<1>2. Len(mapping) \in Nat /\ \A i \in 1 .. Len(mapping) : mapping[i].file_id \in FileIds
  BY RowFields
<1>3. ASSUME NEW i \in 1 .. Len(mapping), mapping[i].file_name = n
      PROVE  MappingRow(n) = i /\ GetFileId(n) = mapping[i].file_id /\ GetFileId(n) # None
  <2>1. I = {i}
    BY <1>3 DEF MappedOnce, I
  <2>2. Min({i}) = i
    BY <1>2, MinOfOne
  <2>3. MappingRow(n) = i /\ i # 0
    BY <1>1, <1>2, <2>1, <2>2
  <2> QED BY <2>3, <1>2, ManagerAssumption DEF GetFileId
<1>4. ASSUME I = {} PROVE GetFileId(n) = None
  BY <1>1, <1>4 DEF GetFileId
<1> QED BY <1>3, <1>4 DEF Mapped, I

\* RemoveAt, index by index.
LEMMA RemovedAt ==
  ASSUME NEW S, NEW s \in Seq(S), NEW i \in 1 .. Len(s)
  PROVE  /\ RemoveAt(s, i) \in Seq(S) /\ Len(RemoveAt(s, i)) = Len(s) - 1
         /\ \A j \in 1 .. Len(s) - 1 : RemoveAt(s, i)[j] = s[IF j < i THEN j ELSE j + 1]
<1> DEFINE a == SubSeq(s, 1, i - 1)
           b == SubSeq(s, i + 1, Len(s))
<1>1. Len(s) \in Nat
  OBVIOUS
<1>2. a \in Seq(S) /\ Len(a) = i - 1 /\ \A j \in 1 .. i - 1 : a[j] = s[j]
  BY <1>1
<1>3. b \in Seq(S) /\ Len(b) = Len(s) - i /\ \A j \in 1 .. Len(s) - i : b[j] = s[i + j]
  BY <1>1
<1>4. RemoveAt(s, i) = a \o b
  BY DEF RemoveAt
<1> HIDE DEF a, b
<1>5. /\ a \o b \in Seq(S) /\ Len(a \o b) = Len(s) - 1
      /\ \A j \in 1 .. Len(s) - 1 : (a \o b)[j] = IF j <= i - 1 THEN a[j] ELSE b[j - (i - 1)]
  <2>1. /\ a \o b \in Seq(S) /\ Len(a \o b) = Len(a) + Len(b)
        /\ \A j \in 1 .. Len(a) + Len(b) :
             (a \o b)[j] = IF j <= Len(a) THEN a[j] ELSE b[j - Len(a)]
    BY <1>2, <1>3, ConcatProperties
  <2>2. Len(a) + Len(b) = Len(s) - 1
    BY <1>1, <1>2, <1>3
  <2> QED BY <1>2, <2>1, <2>2
<1>6. ASSUME NEW j \in 1 .. Len(s) - 1 PROVE (a \o b)[j] = s[IF j < i THEN j ELSE j + 1]
  <2>1. CASE j < i
    BY <2>1, <1>1, <1>2, <1>5
  <2>2. CASE ~(j < i)
    <3>1. j - (i - 1) \in 1 .. Len(s) - i /\ i + (j - (i - 1)) = j + 1
      BY <2>2, <1>1
    <3> QED BY <2>2, <3>1, <1>1, <1>3, <1>5
  <2> QED BY <2>1, <2>2
<1> QED BY <1>4, <1>5, <1>6

\* Where the rows of a sequence without its i-th are and were.
Was(i, j) == IF j < i THEN j ELSE j + 1
Becomes(i, j) == IF j < i THEN j ELSE j - 1

LEMMA RemovedIndices ==
  ASSUME NEW S, NEW s \in Seq(S), NEW i \in 1 .. Len(s), NEW t, t = RemoveAt(s, i)
  PROVE  /\ \A j \in 1 .. Len(t) : Was(i, j) \in 1 .. Len(s) /\ Was(i, j) # i /\ t[j] = s[Was(i, j)]
         /\ \A j \in 1 .. Len(s) : j # i => Becomes(i, j) \in 1 .. Len(t) /\ t[Becomes(i, j)] = s[j]
         /\ \A j, k \in 1 .. Len(t) : Was(i, j) = Was(i, k) => j = k
<1>1. /\ Len(s) \in Nat /\ Len(t) = Len(s) - 1
      /\ \A j \in 1 .. Len(t) : t[j] = s[Was(i, j)]
  <2>1. /\ RemoveAt(s, i) \in Seq(S) /\ Len(RemoveAt(s, i)) = Len(s) - 1
        /\ \A j \in 1 .. Len(s) - 1 : RemoveAt(s, i)[j] = s[IF j < i THEN j ELSE j + 1]
    BY RemovedAt
  <2>2. Len(s) \in Nat
    OBVIOUS
  <2> QED BY <2>1, <2>2 DEF Was
<1>2. \A j \in 1 .. Len(t) : Was(i, j) \in 1 .. Len(s) /\ Was(i, j) # i
  BY <1>1 DEF Was
<1>3. ASSUME NEW k \in 1 .. Len(s), k # i
      PROVE  Becomes(i, k) \in 1 .. Len(t) /\ t[Becomes(i, k)] = s[k]
  <2>1. Becomes(i, k) \in 1 .. Len(t) /\ Was(i, Becomes(i, k)) = k
    BY <1>1, <1>3 DEF Was, Becomes
  <2> QED BY <2>1, <1>1
<1>4. \A j, k \in 1 .. Len(t) : Was(i, j) = Was(i, k) => j = k
  BY <1>1 DEF Was
<1> QED BY <1>1, <1>2, <1>3, <1>4

LEMMA RemovedElement ==
  ASSUME NEW S, NEW s \in Seq(S), NEW i \in 1 .. Len(s), NEW t, t = RemoveAt(s, i), NEW j \in 1 .. Len(t)
  PROVE  Was(i, j) \in 1 .. Len(s) /\ t[j] = s[Was(i, j)]
BY RemovedIndices

LEMMA MappingAppends ==
  ASSUME StorageTypes, MappedOnce, NEW n \in TableNames, NEW f \in FileIds,
         SaveMapping(n, f), ~Mapped(n), ~FileMapped(f)
  PROVE  /\ mapping' \in Seq(MappingRows) /\ MappedOnce'
         /\ \A m : Mapped(m)' <=> Mapped(m) \/ m = n
         /\ \A g : FileMapped(g)' <=> FileMapped(g) \/ g = f
<1> DEFINE row == [file_name |-> n, file_id |-> f]
<1>1. row \in MappingRows /\ row.file_name = n /\ row.file_id = f
  BY DEF MappingRows
<1> HIDE DEF row
<1>2. mapping \in Seq(MappingRows) /\ mapping' = Append(mapping, row)
  BY DEF StorageTypes, SaveMapping, row
<1>3. /\ mapping' \in Seq(MappingRows) /\ Len(mapping') = Len(mapping) + 1 /\ Len(mapping) \in Nat
      /\ mapping'[Len(mapping) + 1] = row
      /\ \A i \in 1 .. Len(mapping) : mapping'[i] = mapping[i]
  BY <1>1, <1>2
<1>4. \A i : i \in 1 .. Len(mapping) + 1 <=> i \in 1 .. Len(mapping) \/ i = Len(mapping) + 1
  BY <1>3
<1>5. MappedOnce'
  BY <1>1, <1>3, <1>4 DEF MappedOnce, Mapped, FileMapped
<1>6. \A m : Mapped(m)' <=> Mapped(m) \/ m = n
  BY <1>1, <1>3, <1>4 DEF Mapped
<1>7. \A g : FileMapped(g)' <=> FileMapped(g) \/ g = f
  BY <1>1, <1>3, <1>4 DEF FileMapped
<1> QED BY <1>3, <1>5, <1>6, <1>7

LEMMA MappingRemoves ==
  ASSUME StorageTypes, MappedOnce, NEW n, Mapped(n), DeleteMapping(n)
  PROVE  /\ mapping' \in Seq(MappingRows) /\ MappedOnce'
         /\ \A m : Mapped(m)' <=> Mapped(m) /\ m # n
         /\ \A g : FileMapped(g)' <=> FileMapped(g) /\ g # GetFileId(n)
<1>1. PICK i \in 1 .. Len(mapping) : mapping[i].file_name = n
  BY DEF Mapped
<1>2. MappingRow(n) = i /\ GetFileId(n) = mapping[i].file_id /\ mapping' = RemoveAt(mapping, i)
  BY <1>1, MappingRowOf DEF DeleteMapping
<1>3. mapping \in Seq(MappingRows)
  BY DEF StorageTypes
<1>4. mapping' \in Seq(MappingRows)
  BY <1>2, <1>3, RemovedAt
<1>5. /\ \A j \in 1 .. Len(mapping') : /\ Was(i, j) \in 1 .. Len(mapping) /\ Was(i, j) # i
                                      /\ mapping'[j] = mapping[Was(i, j)]
      /\ \A j \in 1 .. Len(mapping) : j # i =>
           Becomes(i, j) \in 1 .. Len(mapping') /\ mapping'[Becomes(i, j)] = mapping[j]
      /\ \A j, k \in 1 .. Len(mapping') : Was(i, j) = Was(i, k) => j = k
  BY <1>2, <1>3, RemovedIndices
<1>6. MappedOnce'
  BY <1>5 DEF MappedOnce
<1>7. \A k \in 1 .. Len(mapping) : k # i => mapping[k].file_name # n /\ mapping[k].file_id # GetFileId(n)
  BY <1>1, <1>2 DEF MappedOnce
<1>8. ASSUME NEW m PROVE Mapped(m)' <=> Mapped(m) /\ m # n
  <2>1. ASSUME NEW j \in 1 .. Len(mapping'), mapping'[j].file_name = m PROVE Mapped(m) /\ m # n
    BY <2>1, <1>5, <1>7 DEF Mapped
  <2>2. ASSUME NEW j \in 1 .. Len(mapping), mapping[j].file_name = m, m # n PROVE Mapped(m)'
    BY <2>2, <1>1, <1>5 DEF Mapped
  <2> QED BY <2>1, <2>2 DEF Mapped
<1>9. ASSUME NEW g PROVE FileMapped(g)' <=> FileMapped(g) /\ g # mapping[i].file_id
  <2>1. ASSUME NEW j \in 1 .. Len(mapping'), mapping'[j].file_id = g
        PROVE  FileMapped(g) /\ g # mapping[i].file_id
    BY <2>1, <1>2, <1>5, <1>7 DEF FileMapped
  <2>2. ASSUME NEW j \in 1 .. Len(mapping), mapping[j].file_id = g, g # mapping[i].file_id
        PROVE  FileMapped(g)'
    BY <2>2, <1>5 DEF FileMapped
  <2> QED BY <2>1, <2>2 DEF FileMapped
<1> QED BY <1>2, <1>4, <1>6, <1>8, <1>9

LEMMA CatalogAppends ==
  ASSUME StorageTypes, ListedOnce, NEW n \in TableNames, NEW t \in TableTypes, NEW schema,
         Len(schema) \in Nat, table_catalog' = Append(table_catalog, TableRow(n, t, schema)),
         \A u \in TableTypes : ~Listed(n, u)
  PROVE  /\ table_catalog' \in Seq(CatalogRows) /\ ListedOnce'
         /\ \A m, u : Listed(m, u)' <=> Listed(m, u) \/ (m = n /\ u = t)
<1> DEFINE row == TableRow(n, t, schema)
           len == Len(table_catalog)
<1>1. row \in CatalogRows /\ row.table_name = n /\ row.type = t
  BY DEF CatalogRows, TableRow
<1> HIDE DEF row
<1>2. table_catalog \in Seq(CatalogRows) /\ table_catalog' = Append(table_catalog, row)
  BY DEF StorageTypes, row
<1>3. /\ table_catalog' \in Seq(CatalogRows) /\ Len(table_catalog') = len + 1 /\ len \in Nat
      /\ table_catalog'[len + 1] = row
      /\ \A i \in 1 .. len : table_catalog'[i] = table_catalog[i]
  BY <1>1, <1>2
<1>4. \A i : i \in 1 .. len + 1 <=> i \in 1 .. len \/ i = len + 1
  BY <1>3
<1>5. \A i \in 1 .. len : table_catalog[i].table_name # n
  BY RowFields DEF Listed
<1>6. ListedOnce'
  BY <1>1, <1>3, <1>4, <1>5 DEF ListedOnce
<1>7. \A m, u : Listed(m, u)' <=> Listed(m, u) \/ (m = n /\ u = t)
  BY <1>1, <1>3, <1>4 DEF Listed
<1> QED BY <1>3, <1>6, <1>7

LEMMA CatalogRemoves ==
  ASSUME StorageTypes, ListedOnce, NEW n, RemoveTable(n)
  PROVE  /\ table_catalog' \in Seq(CatalogRows) /\ ListedOnce'
         /\ \A m, u : Listed(m, u)' <=> Listed(m, u) /\ m # n
<1> DEFINE I == {i \in 1 .. Len(table_catalog) : table_catalog[i].table_name = n}
           i0 == IF I # {} THEN Min(I) ELSE 0
<1>1. table_catalog' = IF i0 = 0 THEN table_catalog ELSE RemoveAt(table_catalog, i0)
  BY DEF RemoveTable, SelectInSeq
<1> HIDE DEF I
<1>2. table_catalog \in Seq(CatalogRows) /\ Len(table_catalog) \in Nat
  BY DEF StorageTypes
<1>3. CASE I = {}
  <2>1. table_catalog' = table_catalog /\ \A i \in 1 .. Len(table_catalog) : table_catalog[i].table_name # n
    BY <1>1, <1>3 DEF I
  <2> QED BY <2>1, <1>2 DEF ListedOnce, Listed
<1>4. CASE I # {}
  <2>1. PICK i \in 1 .. Len(table_catalog) : table_catalog[i].table_name = n
    BY <1>4 DEF I
  <2>2. I = {i}
    BY <2>1 DEF ListedOnce, I
  <2>3. i0 = i /\ i # 0
    BY <2>2, <1>2, MinOfOne
  <2>4. table_catalog' = RemoveAt(table_catalog, i)
    BY <1>1, <2>3
  <2>5. table_catalog' \in Seq(CatalogRows)
    BY <2>4, <1>2, RemovedAt
  <2> DEFINE s == table_catalog
  <2>6. /\ \A j \in 1 .. Len(s') : /\ Was(i, j) \in 1 .. Len(s) /\ Was(i, j) # i
                                  /\ s'[j] = s[Was(i, j)]
        /\ \A j \in 1 .. Len(s) : j # i => Becomes(i, j) \in 1 .. Len(s') /\ s'[Becomes(i, j)] = s[j]
        /\ \A j, k \in 1 .. Len(s') : Was(i, j) = Was(i, k) => j = k
    BY <1>2, <2>4, RemovedIndices
  <2>7. ListedOnce'
    <3> SUFFICES ASSUME NEW j \in 1 .. Len(s'), NEW k \in 1 .. Len(s'),
                        s'[j].table_name = s'[k].table_name
                 PROVE  j = k
      BY DEF ListedOnce
    <3>1. /\ Was(i, j) \in 1 .. Len(s) /\ Was(i, k) \in 1 .. Len(s)
          /\ s[Was(i, j)].table_name = s[Was(i, k)].table_name
      BY <2>6
    <3>2. Was(i, j) = Was(i, k)
      BY <3>1 DEF ListedOnce
    <3> QED BY <3>2, <2>6
  <2>8. \A k \in 1 .. Len(s) : k # i => s[k].table_name # n
    BY <2>1 DEF ListedOnce
  <2>9. ASSUME NEW m, NEW u PROVE Listed(m, u)' <=> Listed(m, u) /\ m # n
    <3>1. ASSUME NEW j \in 1 .. Len(s'), s'[j].table_name = m, s'[j].type = u
          PROVE  Listed(m, u) /\ m # n
      BY <3>1, <2>6, <2>8 DEF Listed
    <3>2. ASSUME NEW j \in 1 .. Len(s), s[j].table_name = m, s[j].type = u, m # n
          PROVE  Listed(m, u)'
      BY <3>2, <2>1, <2>6 DEF Listed
    <3> QED BY <3>1, <3>2 DEF Listed
  <2> QED BY <2>5, <2>7, <2>9
<1> QED BY <1>3, <1>4

\* The rows of the other tables stay.
LEMMA RowsRemoved ==
  ASSUME StorageTypes, ListedOnce, NEW n, RemoveTable(n)
  PROVE  /\ \A i \in 1 .. Len(table_catalog) : table_catalog[i].table_name # n =>
              \E j \in 1 .. Len(table_catalog') : table_catalog'[j] = table_catalog[i]
         /\ \A j \in 1 .. Len(table_catalog') :
              /\ table_catalog'[j].table_name # n
              /\ \E i \in 1 .. Len(table_catalog) : table_catalog[i] = table_catalog'[j]
<1> DEFINE s == table_catalog
           I == {i \in 1 .. Len(s) : s[i].table_name = n}
           i0 == IF I # {} THEN Min(I) ELSE 0
<1>1. s' = IF i0 = 0 THEN s ELSE RemoveAt(s, i0)
  BY DEF RemoveTable, SelectInSeq
<1>2. s \in Seq(CatalogRows) /\ Len(s) \in Nat
  BY DEF StorageTypes
<1>3. CASE I = {}
  <2>1. s' = s /\ \A i \in 1 .. Len(s) : s[i].table_name # n
    BY <1>1, <1>3
  <2> QED BY <2>1
<1>4. CASE I # {}
  <2>1. PICK i \in 1 .. Len(s) : s[i].table_name = n
    BY <1>4
  <2>2. I = {i} /\ \A j \in 1 .. Len(s) : j # i => s[j].table_name # n
    BY <2>1 DEF ListedOnce
  <2> HIDE DEF I
  <2>3. i0 = i /\ i # 0
    BY <2>2, <1>2, MinOfOne
  <2>4. s' = RemoveAt(s, i)
    BY <1>1, <2>3
  <2>5. /\ \A j \in 1 .. Len(s') : /\ Was(i, j) \in 1 .. Len(s) /\ Was(i, j) # i
                                  /\ s'[j] = s[Was(i, j)]
        /\ \A j \in 1 .. Len(s) : j # i => Becomes(i, j) \in 1 .. Len(s') /\ s'[Becomes(i, j)] = s[j]
    BY <1>2, <2>4, RemovedIndices
  <2> QED BY <2>1, <2>2, <2>5
<1> QED BY <1>3, <1>4

\* While the process runs the cache has the one type a name is listed with.
LEMMA CacheTypes ==
  ASSUME StorageInv, up, NEW n, NEW t \in TableTypes
  PROVE  Listed(n, t) <=> n \in DOMAIN table_info /\ table_info[n].type = t
<1>1. n \in DOMAIN table_info <=> \E u \in TableTypes : Listed(n, u)
  BY DEF StorageInv, CacheListed
<1>2. n \in DOMAIN table_info => Listed(n, table_info[n].type)
  BY DEF StorageInv, CacheListed
<1>3. \A u, v : Listed(n, u) /\ Listed(n, v) => u = v
  BY DEF StorageInv, Listed, ListedOnce
<1> QED BY <1>1, <1>2, <1>3

\* The one row of a table is the one a load takes.
LEMMA InfoRowOf ==
  ASSUME NEW tables \in Seq(CatalogRows), NEW i \in 1 .. Len(tables),
         \A j, k \in 1 .. Len(tables) : tables[j].table_name = tables[k].table_name => j = k
  PROVE  TableInfoRow(tables, tables[i].table_name) = i
<1> DEFINE n == tables[i].table_name
           I == {j \in 1 .. Len(tables) : tables[j].table_name = n}
<1>1. TableInfoRow(tables, n) = IF I # {} THEN Max(I) ELSE 0
  BY DEF TableInfoRow, SelectLastInSeq
<1>2. I = {i} /\ Len(tables) \in Nat
  OBVIOUS
<1> HIDE DEF I
<1>3. TableInfoRow(tables, n) = i
  BY <1>1, <1>2, MaxOfOne
<1> QED BY <1>3

\* A load of catalog tables finds the names and types they list.
LEMMA CacheLoaded ==
  ASSUME NEW tables \in Seq(CatalogRows), NEW columns,
         \A i, j \in 1 .. Len(tables) : tables[i].table_name = tables[j].table_name => i = j
  PROVE  /\ \A n : n \in DOMAIN Loaded(tables, columns) <=>
                   \E i \in 1 .. Len(tables) : tables[i].table_name = n
         /\ \A i \in 1 .. Len(tables) :
              Loaded(tables, columns)[tables[i].table_name].type = tables[i].type
<1>1. DOMAIN tables = 1 .. Len(tables) /\ Len(tables) \in Nat
  OBVIOUS
<1>2. DOMAIN Loaded(tables, columns) = {tables[i].table_name : i \in DOMAIN tables}
  BY DEF Loaded
<1>3. ASSUME NEW i \in 1 .. Len(tables)
      PROVE  Loaded(tables, columns)[tables[i].table_name].type = tables[i].type
  <2> DEFINE n == tables[i].table_name
  <2>3. TableInfoRow(tables, n) = i
    BY InfoRowOf
  <2>4. n \in {tables[j].table_name : j \in DOMAIN tables}
    BY <1>1
  <2> HIDE DEF n
  <2>5. Loaded(tables, columns)[n].type = tables[i].type
    BY <2>3, <2>4 DEF Loaded
  <2> QED BY <2>5 DEF n
<1> QED BY <1>1, <1>2, <1>3

\* The cache after a load.
LEMMA LoadListed ==
  ASSUME NEW columns, StorageTypes', ListedOnce', table_info' = Loaded(table_catalog', columns)
  PROVE  /\ \A n : n \in DOMAIN table_info' <=> \E t \in TableTypes : Listed(n, t)'
         /\ \A n \in DOMAIN table_info' : \A t : t = table_info'[n].type => Listed(n, t)'
<1> DEFINE s == table_catalog'
<1>1. /\ s \in Seq(CatalogRows)
      /\ \A i, j \in 1 .. Len(s) : s[i].table_name = s[j].table_name => i = j
  BY DEF StorageTypes, ListedOnce
<1>2. /\ \A n : n \in DOMAIN table_info' <=> \E i \in 1 .. Len(s) : s[i].table_name = n
      /\ \A i \in 1 .. Len(s) : table_info'[s[i].table_name].type = s[i].type
  BY <1>1, CacheLoaded
<1>3. \A i \in 1 .. Len(s) : s[i].type \in TableTypes
  <2>1. \A i \in 1 .. Len(s) : s[i] \in CatalogRows
    BY <1>1, ElementOfSeq
  <2> QED BY <2>1 DEF CatalogRows
<1>4. ASSUME NEW n PROVE n \in DOMAIN table_info' <=> \E t \in TableTypes : Listed(n, t)'
  BY <1>2, <1>3 DEF Listed
<1>5. ASSUME NEW n \in DOMAIN table_info', NEW t, t = table_info'[n].type PROVE Listed(n, t)'
  <2>1. PICK i \in 1 .. Len(s) : s[i].table_name = n
    BY <1>2
  <2> QED BY <2>1, <1>2, <1>5 DEF Listed
<1> QED BY <1>4, <1>5

-----------------------------------------------------------------------------
(* The steps. *)

\* Calls that only touch rows, or nothing.
LEMMA StorageKept ==
  ASSUME StorageInv, UNCHANGED <<up, mapping, table_catalog, table_info>>,
         DOMAIN files' = DOMAIN files, DOMAIN tables_m' = DOMAIN tables_m
  PROVE  StorageInv'
<1>1. /\ \A n : Mapped(n)' <=> Mapped(n)
      /\ \A f : FileMapped(f)' <=> FileMapped(f)
      /\ \A n, t : Listed(n, t)' <=> Listed(n, t)
  BY DEF Mapped, FileMapped, Listed
<1>2. StorageTypes' /\ MappedOnce' /\ ListedOnce'
  BY DEF StorageInv, StorageTypes, MappedOnce, ListedOnce
<1>3. FilesMapped'
  BY <1>1 DEF StorageInv, FilesMapped
<1>4. MappingListed'
  BY <1>1 DEF StorageInv, MappingListed
<1>5. CacheListed'
  BY <1>1 DEF StorageInv, CacheListed
<1> QED BY <1>2, <1>3, <1>4, <1>5 DEF StorageInv

LEMMA StorageInit ==
  ASSUME ExecutorInit
  PROVE  StorageInv
<1>1. /\ up = FALSE /\ mapping = <<>> /\ table_catalog = <<>>
      /\ DOMAIN files = {} /\ DOMAIN tables_m = {}
  <2>1. DOMAIN <<>> = {}
    OBVIOUS
  <2> QED BY <2>1 DEF ExecutorInit, ManagerInit
<1>2. Len(<<>>) = 0 /\ \A x \in 1 .. 0 : FALSE
  OBVIOUS
<1>3. \A n, t : ~Mapped(n) /\ ~FileMapped(n) /\ ~Listed(n, t)
  BY <1>1, <1>2 DEF Mapped, FileMapped, Listed
<1>4. StorageTypes /\ MappedOnce /\ ListedOnce
  <2>1. up \in BOOLEAN
    BY <1>1
  <2>2. <<>> \in Seq(MappingRows) /\ <<>> \in Seq(CatalogRows)
    OBVIOUS
  <2>3. MappedOnce /\ ListedOnce
    BY <1>1, <1>2 DEF MappedOnce, ListedOnce
  <2> QED BY <1>1, <2>1, <2>2, <2>3 DEF StorageTypes
<1>5. FilesMapped
  BY <1>1, <1>3 DEF FilesMapped
<1>6. MappingListed
  <2>1. ~up
    BY <1>1
  <2> QED BY <2>1, <1>1, <1>3 DEF MappingListed
<1>7. CacheListed
  <2>1. ~up /\ \A n \in DOMAIN tables_m : FALSE
    BY <1>1
  <2> QED BY <2>1, Zenon DEF CacheListed
<1> QED BY <1>4, <1>5, <1>6, <1>7 DEF StorageInv

LEMMA StorageCreate ==
  ASSUME StorageInv, NEW c \in Creatable, CreateTable(c.name, c.type, c.schema)
  PROVE  StorageInv'
<1> DEFINE n == c.name
           t == c.type
<1>1. n \in TableNames /\ t \in TableTypes /\ Len(c.schema) \in Nat /\ (n \in Catalogs => t = "InMemory")
  BY ManagerAssumption
<1>2. /\ up /\ up' = up /\ n \notin DOMAIN table_info
      /\ table_catalog' = Append(table_catalog, TableRow(n, t, c.schema))
      /\ table_info' = Put(table_info, n, [type |-> t, schema |-> c.schema])
  BY DEF CreateTable, AddTable, TableExists
<1>3. \A u \in TableTypes : ~Listed(n, u)
  BY <1>2 DEF StorageInv, CacheListed
<1>4. /\ table_catalog' \in Seq(CatalogRows) /\ ListedOnce'
      /\ \A m, u : Listed(m, u)' <=> Listed(m, u) \/ (m = n /\ u = t)
  BY <1>1, <1>2, <1>3, CatalogAppends DEF StorageInv
<1> HIDE DEF n, t
<1>5. /\ \A m : m \in DOMAIN table_info' <=> m \in DOMAIN table_info \/ m = n
      /\ table_info'[n].type = t
      /\ \A m \in DOMAIN table_info : table_info'[m] = table_info[m]
  BY <1>2 DEF Put
<1>6. up' => /\ \A m : m \in DOMAIN table_info' <=> \E u \in TableTypes : Listed(m, u)'
             /\ \A m \in DOMAIN table_info' : \A u : u = table_info'[m].type => Listed(m, u)'
  <2>1. /\ \A m : m \in DOMAIN table_info <=> \E u \in TableTypes : Listed(m, u)
        /\ \A m \in DOMAIN table_info : \A u : u = table_info[m].type => Listed(m, u)
    BY <1>2 DEF StorageInv, CacheListed
  <2>2. ASSUME NEW m PROVE m \in DOMAIN table_info' <=> \E u \in TableTypes : Listed(m, u)'
    BY <2>1, <1>1, <1>4, <1>5
  <2>3. ASSUME NEW m \in DOMAIN table_info', NEW u, u = table_info'[m].type PROVE Listed(m, u)'
    <3>1. CASE m = n
      BY <2>3, <3>1, <1>4, <1>5
    <3>2. CASE m \in DOMAIN table_info /\ m # n
      BY <2>3, <3>2, <2>1, <1>4, <1>5
    <3> QED BY <3>1, <3>2, <1>5
  <2> QED BY <2>2, <2>3
<1>7. Mapped(TableCatalog) /\ \A m \in TableNames : Mapped(m) <=> m \in Catalogs \/ Listed(m, "Disk")
  BY <1>2 DEF StorageInv, MappingListed
<1>8. CASE t = "InMemory"
  <2>1. /\ UNCHANGED diskVars /\ tables_m' = Put(tables_m, n, NewTable)
    BY <1>8 DEF CreateTable, FactoryCreates, n, t
  <2>2. /\ \A m : Mapped(m)' <=> Mapped(m)
        /\ \A f : FileMapped(f)' <=> FileMapped(f)
    BY <2>1 DEF Mapped, FileMapped, diskVars
  <2>3. StorageTypes' /\ MappedOnce' /\ FilesMapped'
    BY <2>1, <2>2, <1>2, <1>4 DEF StorageInv, StorageTypes, MappedOnce, FilesMapped, diskVars
  <2>4. MappingListed'
    BY <2>2, <1>4, <1>7, <1>8 DEF StorageInv, MappingListed
  <2>5. \A m \in DOMAIN tables_m' : up' /\ Listed(m, "InMemory")'
    <3>1. \A m \in DOMAIN tables_m' : m \in DOMAIN tables_m \/ m = n
      BY <2>1 DEF Put
    <3> QED BY <3>1, <1>2, <1>4, <1>8 DEF StorageInv, CacheListed
  <2>6. CacheListed'
    BY <2>5, <1>6 DEF CacheListed
  <2> QED BY <2>3, <2>4, <1>4, <2>6 DEF StorageInv
<1>9. CASE t = "Disk"
  <2>1. UNCHANGED tables_m /\ \E f \in FileIds : CreateTableFile(n, f)
    BY <1>9 DEF CreateTable, FactoryCreates, n, t
  <2>2. PICK f \in FileIds : CreateTableFile(n, f)
    BY <2>1
  <2>3. n \notin Catalogs /\ ~Mapped(n)
    BY <1>1, <1>3, <1>7, <1>9 DEF TableTypes
  <2>4. ~FileMapped(f) /\ SaveMapping(n, f) /\ \A g : g \in DOMAIN files' <=> g \in DOMAIN files \/ g = f
    BY <2>2 DEF CreateTableFile, Put, StorageInv, FilesMapped
  <2>5. /\ mapping' \in Seq(MappingRows) /\ MappedOnce'
        /\ \A m : Mapped(m)' <=> Mapped(m) \/ m = n
        /\ \A g : FileMapped(g)' <=> FileMapped(g) \/ g = f
    BY <2>3, <2>4, <1>1, MappingAppends DEF StorageInv
  <2>6. StorageTypes' /\ FilesMapped'
    BY <2>4, <2>5, <1>2, <1>4 DEF StorageInv, StorageTypes, FilesMapped
  <2>7. MappingListed'
    BY <2>3, <2>5, <1>4, <1>7, <1>9 DEF StorageInv, MappingListed
  <2>8. \A m \in DOMAIN tables_m' : up' /\ Listed(m, "InMemory")'
    BY <2>1, <1>2, <1>4 DEF StorageInv, CacheListed
  <2>9. CacheListed'
    BY <2>8, <1>6 DEF CacheListed
  <2> QED BY <2>5, <2>6, <2>7, <1>4, <2>9 DEF StorageInv
<1> QED BY <1>1, <1>8, <1>9 DEF TableTypes

LEMMA StorageDelete ==
  ASSUME StorageInv, NEW n \in TableNames, DeleteTable(n)
  PROVE  StorageInv'
<1>1. /\ up /\ up' = up /\ n \in DOMAIN table_info /\ RemoveTable(n)
      /\ table_info' = Erase(table_info, n)
  BY DEF DeleteTable, TableExists, RemoveTable
<1>2. /\ table_catalog' \in Seq(CatalogRows) /\ ListedOnce'
      /\ \A m, u : Listed(m, u)' <=> Listed(m, u) /\ m # n
  BY <1>1, CatalogRemoves DEF StorageInv
<1>3. /\ \A m : m \in DOMAIN table_info' <=> m \in DOMAIN table_info /\ m # n
      /\ \A m \in DOMAIN table_info' : table_info'[m] = table_info[m]
  BY <1>1 DEF Erase
<1>4. up' => /\ \A m : m \in DOMAIN table_info' <=> \E u \in TableTypes : Listed(m, u)'
             /\ \A m \in DOMAIN table_info' : \A u : u = table_info'[m].type => Listed(m, u)'
  <2>1. /\ \A m : m \in DOMAIN table_info <=> \E u \in TableTypes : Listed(m, u)
        /\ \A m \in DOMAIN table_info : \A u : u = table_info[m].type => Listed(m, u)
    BY <1>1 DEF StorageInv, CacheListed
  <2>2. ASSUME NEW m PROVE m \in DOMAIN table_info' <=> \E u \in TableTypes : Listed(m, u)'
    BY <2>1, <1>2, <1>3
  <2>3. ASSUME NEW m \in DOMAIN table_info', NEW u, u = table_info'[m].type PROVE Listed(m, u)'
    BY <2>1, <2>3, <1>2, <1>3
  <2> QED BY <2>2, <2>3
<1>5. Mapped(TableCatalog) /\ \A m \in TableNames : Mapped(m) <=> m \in Catalogs \/ Listed(m, "Disk")
  BY <1>1 DEF StorageInv, MappingListed
\* A name is listed with one type.
<1>6. Listed(n, table_info[n].type) /\ \A u : Listed(n, u) => u = table_info[n].type
  BY <1>1 DEF StorageInv, CacheListed, Listed, ListedOnce
<1>7. CASE table_info[n].type = "InMemory" /\ UNCHANGED diskVars /\ tables_m' = Erase(tables_m, n)
  <2>1. /\ \A m : Mapped(m)' <=> Mapped(m)
        /\ \A f : FileMapped(f)' <=> FileMapped(f)
    BY <1>7 DEF Mapped, FileMapped, diskVars
  <2>2. StorageTypes' /\ MappedOnce' /\ FilesMapped'
    BY <1>7, <2>1, <1>1, <1>2 DEF StorageInv, StorageTypes, MappedOnce, FilesMapped, diskVars
  <2>3. ~Listed(n, "Disk")
    BY <1>6, <1>7
  <2>4. MappingListed'
    BY <2>1, <2>3, <1>2, <1>5 DEF StorageInv, MappingListed
  <2>5. \A m \in DOMAIN tables_m' : up' /\ Listed(m, "InMemory")'
    <3>1. \A m \in DOMAIN tables_m' : m \in DOMAIN tables_m /\ m # n
      BY <1>7 DEF Erase
    <3> QED BY <3>1, <1>1, <1>2 DEF StorageInv, CacheListed
  <2>6. CacheListed'
    BY <2>5, <1>4 DEF CacheListed
  <2> QED BY <2>2, <2>4, <1>2, <2>6 DEF StorageInv
<1>8. CASE table_info[n].type = "Disk" /\ DeleteTableFile(n) /\ UNCHANGED tables_m
  <2>1. Listed(n, "Disk") /\ n \notin Catalogs /\ Mapped(n) /\ ~Listed(n, "InMemory")
    BY <1>5, <1>6, <1>8 DEF StorageInv, MappingListed
  <2>2. /\ mapping' \in Seq(MappingRows) /\ MappedOnce'
        /\ \A m : Mapped(m)' <=> Mapped(m) /\ m # n
        /\ \A g : FileMapped(g)' <=> FileMapped(g) /\ g # GetFileId(n)
    BY <2>1, <1>8, MappingRemoves DEF DeleteTableFile, StorageInv
  <2>3. \A g : g \in DOMAIN files' <=> g \in DOMAIN files /\ g # GetFileId(n)
    BY <1>8 DEF DeleteTableFile, Erase
  <2>4. StorageTypes' /\ FilesMapped'
    BY <2>2, <2>3, <1>1, <1>2 DEF StorageInv, StorageTypes, FilesMapped
  <2>5. TableCatalog # n
    BY <2>1 DEF Catalogs
  <2>6. MappingListed'
    BY <2>1, <2>2, <2>5, <1>2, <1>5 DEF StorageInv, MappingListed
  <2>7. \A m \in DOMAIN tables_m' : up' /\ Listed(m, "InMemory")'
    BY <2>1, <1>1, <1>2, <1>8 DEF StorageInv, CacheListed
  <2>8. CacheListed'
    BY <2>7, <1>4 DEF CacheListed
  <2> QED BY <2>2, <2>4, <2>6, <1>2, <2>8 DEF StorageInv
<1> QED BY <1>7, <1>8 DEF DeleteTable
LEMMA StorageFirstStart ==
  ASSUME StorageInv, FirstStart
  PROVE  StorageInv'
<1>1. ~Mapped(TableCatalog)
  BY MappingRowOf DEF FirstStart, StorageInv
<1>2. mapping = <<>> /\ table_catalog = <<>> /\ \A g : g \notin DOMAIN files
  <2>1. mapping = <<>> /\ table_catalog = <<>>
    BY <1>1 DEF StorageInv, MappingListed
  <2>2. \A g : ~FileMapped(g)
    BY <2>1 DEF FileMapped
  <2> QED BY <2>1, <2>2 DEF StorageInv, FilesMapped
<1>3. PICK f, g \in FileIds :
        /\ f # g
        /\ mapping' = mapping \o << [file_name |-> TableCatalog, file_id |-> f],
                                    [file_name |-> ColumnCatalog, file_id |-> g] >>
        /\ files' = Put(Put(files, f, <<>>), g, <<>>)
  BY DEF FirstStart
<1>4. TableCatalog \in TableNames /\ ColumnCatalog \in TableNames /\ TableCatalog # ColumnCatalog
  BY ManagerAssumption DEF Catalogs
<1> DEFINE r1 == [file_name |-> TableCatalog, file_id |-> f]
           r2 == [file_name |-> ColumnCatalog, file_id |-> g]
<1>5. /\ r1 \in MappingRows /\ r1.file_name = TableCatalog /\ r1.file_id = f
      /\ r2 \in MappingRows /\ r2.file_name = ColumnCatalog /\ r2.file_id = g
  BY <1>4 DEF MappingRows
<1>6. mapping' = <<r1, r2>>
  BY <1>2, <1>3
<1> HIDE DEF r1, r2
<1>7. /\ mapping' \in Seq(MappingRows) /\ Len(mapping') = 2
      /\ mapping'[1] = r1 /\ mapping'[2] = r2 /\ \A i \in 1 .. 2 : i = 1 \/ i = 2
  BY <1>5, <1>6
<1>8. MappedOnce'
  BY <1>3, <1>4, <1>5, <1>7 DEF MappedOnce
<1>9. \A m : Mapped(m)' <=> m \in Catalogs
  BY <1>5, <1>7 DEF Mapped, Catalogs
<1>10. FilesMapped'
  <2>1. \A h : FileMapped(h)' <=> h \in {f, g}
    BY <1>5, <1>7 DEF FileMapped
  <2>2. \A h : h \in DOMAIN files' <=> h \in {f, g}
    BY <1>2, <1>3 DEF Put
  <2> QED BY <2>1, <2>2 DEF FilesMapped
<1> DEFINE t1 == TableRow(TableCatalog, "InMemory", TableCatalogSchema)
           t2 == TableRow(ColumnCatalog, "InMemory", ColumnCatalogSchema)
<1>11. Len(TableCatalogSchema) \in Nat /\ Len(ColumnCatalogSchema) \in Nat
  BY DEF TableCatalogSchema, ColumnCatalogSchema
<1>12. /\ t1 \in CatalogRows /\ t1.table_name = TableCatalog /\ t1.type = "InMemory"
       /\ t2 \in CatalogRows /\ t2.table_name = ColumnCatalog /\ t2.type = "InMemory"
  BY <1>4, <1>11 DEF CatalogRows, TableRow, TableTypes
<1>13. table_catalog' = <<t1, t2>> /\ table_info' = Loaded(<<t1, t2>>, InitialColumnRows)
  BY DEF FirstStart, InitialTableRows
<1> HIDE DEF t1, t2
<1>14. /\ table_catalog' \in Seq(CatalogRows) /\ Len(table_catalog') = 2
       /\ table_catalog'[1] = t1 /\ table_catalog'[2] = t2
  BY <1>12, <1>13
<1>15. ListedOnce'
  BY <1>4, <1>7, <1>12, <1>14 DEF ListedOnce
<1>16. \A m, u : Listed(m, u)' <=> m \in Catalogs /\ u = "InMemory"
  BY <1>7, <1>12, <1>14 DEF Listed, Catalogs
<1>17. up' = TRUE /\ tables_m' = tables_m /\ ~up
  BY DEF FirstStart
<1>18. StorageTypes'
  BY <1>7, <1>14, <1>17 DEF StorageTypes
<1>19. MappingListed'
  <2>1. TableCatalog \in Catalogs
    BY DEF Catalogs
  <2> QED BY <2>1, <1>9, <1>16 DEF MappingListed
<1>20. CacheListed'
  <2>1. \A n \in DOMAIN tables_m' : FALSE
    BY <1>17 DEF StorageInv, CacheListed
  <2>2. /\ \A n : n \in DOMAIN table_info' <=> \E t \in TableTypes : Listed(n, t)'
        /\ \A n \in DOMAIN table_info' : \A t : t = table_info'[n].type => Listed(n, t)'
    BY <1>13, <1>15, <1>18, LoadListed
  <2> QED BY <2>1, <2>2 DEF CacheListed
<1> QED BY <1>8, <1>10, <1>15, <1>18, <1>19, <1>20 DEF StorageInv

LEMMA StorageRestart ==
  ASSUME StorageInv, Restart
  PROVE  StorageInv'
<1>1. ~up /\ up' = TRUE /\ UNCHANGED <<mapping, files, table_catalog, tables_m>>
      /\ table_info' = Loaded(table_catalog', column_catalog)
  BY DEF Restart, diskVars
<1>2. Mapped(TableCatalog)
  BY MappingRowOf DEF Restart, StorageInv
<1>3. /\ \A n : Mapped(n)' <=> Mapped(n)
      /\ \A f : FileMapped(f)' <=> FileMapped(f)
      /\ \A n, t : Listed(n, t)' <=> Listed(n, t)
  BY <1>1 DEF Mapped, FileMapped, Listed
<1>4. StorageTypes' /\ MappedOnce' /\ ListedOnce'
  BY <1>1 DEF StorageInv, StorageTypes, MappedOnce, ListedOnce
<1>5. FilesMapped'
  BY <1>1, <1>3 DEF StorageInv, FilesMapped
<1>6. MappingListed'
  BY <1>2, <1>3 DEF StorageInv, MappingListed
<1>7. CacheListed'
  <2>1. \A n \in DOMAIN tables_m' : FALSE
    BY <1>1 DEF StorageInv, CacheListed
  <2>2. /\ \A n : n \in DOMAIN table_info' <=> \E t \in TableTypes : Listed(n, t)'
        /\ \A n \in DOMAIN table_info' : \A t : t = table_info'[n].type => Listed(n, t)'
    BY <1>1, <1>4, LoadListed
  <2> QED BY <2>1, <2>2 DEF CacheListed
<1> QED BY <1>4, <1>5, <1>6, <1>7 DEF StorageInv

LEMMA StorageShutdown ==
  ASSUME StorageInv, Shutdown
  PROVE  StorageInv'
<1>1. up /\ up' = FALSE /\ UNCHANGED <<mapping, files, table_catalog>> /\ tables_m' = <<>>
  BY DEF Shutdown, diskVars
<1>2. ~up' /\ \A n \in DOMAIN tables_m' : FALSE
  BY <1>1
<1>3. /\ \A n : Mapped(n)' <=> Mapped(n)
      /\ \A f : FileMapped(f)' <=> FileMapped(f)
      /\ \A n, t : Listed(n, t)' <=> Listed(n, t)
  BY <1>1 DEF Mapped, FileMapped, Listed
<1>4. StorageTypes' /\ MappedOnce' /\ ListedOnce'
  BY <1>1 DEF StorageInv, StorageTypes, MappedOnce, ListedOnce
<1>5. FilesMapped'
  BY <1>1, <1>3 DEF StorageInv, FilesMapped
<1>6. MappingListed'
  BY <1>1, <1>2, <1>3 DEF StorageInv, MappingListed
<1>7. CacheListed'
  BY <1>2, Zenon DEF CacheListed
<1> QED BY <1>4, <1>5, <1>6, <1>7 DEF StorageInv

\* Rows come and go inside the tables there are.
LEMMA StorageRows ==
  ASSUME StorageInv, NEW n, NEW t, NEW s, SetStore(n, t, s), HandleCall
  PROVE  StorageInv'
<1>1. UNCHANGED <<up, mapping, table_catalog, table_info>>
  BY DEF HandleCall, catalogVars
<1>2. DOMAIN files' = DOMAIN files /\ DOMAIN tables_m' = DOMAIN tables_m
  BY DEF SetStore
<1> QED BY <1>1, <1>2, StorageKept

LEMMA StorageStep ==
  ASSUME StorageInv, [ExecutorNext]_executorVars
  PROVE  StorageInv'
<1>1. CASE Managed(FirstStart) \/ Managed(Restart) \/ Managed(Shutdown)
  BY <1>1, StorageFirstStart, StorageRestart, StorageShutdown DEF Managed
<1>2. ASSUME NEW c \in Creatable, Create(c.name, c.type, c.schema) PROVE StorageInv'
  BY <1>2, StorageCreate DEF Create
<1>3. ASSUME NEW n \in TableNames, DeleteTable(n) PROVE StorageInv'
  BY <1>3, StorageDelete
\* Calls and statements that fail, SELECT, and stuttering steps.
<1>4. ASSUME UNCHANGED <<up, diskVars, catalogVars, tables_m>> PROVE StorageInv'
  BY <1>4, StorageKept DEF diskVars, catalogVars
<1>5. ASSUME NEW n, NEW place, NEW values, HandleInsert(n, place, values) PROVE StorageInv'
  BY <1>5, StorageRows DEF HandleInsert, StoreRow
<1>6. ASSUME NEW n, NEW i, NEW values, HandleDelete(n, i) \/ HandleUpdate(n, i, values) PROVE StorageInv'
  BY <1>6, StorageRows DEF HandleDelete, HandleUpdate, RemoveRow, ReplaceRow
<1>7. ASSUME NEW c \in Creatable, Managed(CreateTableFails(c.name, c.type)) PROVE StorageInv'
  BY <1>4, <1>7 DEF Managed, CreateTableFails
<1>8. ASSUME NEW n \in TableNames, Drop(n) PROVE StorageInv'
  BY <1>3, <1>4, <1>8 DEF Drop, Managed, DeleteTableFails
<1>9. ASSUME NEW n, NEW texts, NEW stmt, Insert(n, texts) \/ InsertFails(n, texts) \/ Select(n, stmt)
      PROVE  StorageInv'
  BY <1>4, <1>5, <1>9 DEF Insert, InsertFails, Select, Returns
<1>10. CASE DeleteOrUpdate
  BY <1>4, <1>10 DEF DeleteOrUpdate, Returns
<1>11. CASE UNCHANGED executorVars
  BY <1>4, <1>11 DEF executorVars, managerVars
<1> QED BY <1>1, <1>2, <1>6, <1>7, <1>8, <1>9, <1>10, <1>11 DEF ExecutorNext

LEMMA StorageAlways == ExecutorSpec => []StorageInv
<1>1. ExecutorInit => StorageInv
  BY StorageInit
<1>2. StorageInv /\ [ExecutorNext]_executorVars => StorageInv'
  BY StorageStep
<1> QED BY <1>1, <1>2, PTL DEF ExecutorSpec
-----------------------------------------------------------------------------

\* Whatever tables are created, dropped and created again in either engine, and
\* however often the process ends and starts in between, catalog, mapping table,
\* files and registry tell the same story (table_manager.cpp:50-100,
\* catalog.cpp:55-150, disk_table_factory.cpp:14-137).
THEOREM StorageStaysListed == ExecutorSpec => []StorageListed
<1>1. ASSUME StorageInv PROVE StorageListed
  <2>1. DOMAIN mapping = 1 .. Len(mapping)
    BY <1>1 DEF StorageInv, StorageTypes
  <2>2. \A f \in FileIds : f \in DOMAIN files <=> \E i \in DOMAIN mapping : mapping[i].file_id = f
    BY <1>1, <2>1 DEF StorageInv, FilesMapped, FileMapped
  <2>3. \A i, j \in DOMAIN mapping :
          mapping[i].file_id = mapping[j].file_id \/ mapping[i].file_name = mapping[j].file_name
            => i = j
    BY <1>1, <2>1 DEF StorageInv, MappedOnce
  <2>4. ASSUME up, NEW n \in TableNames
        PROVE  GetFileId(n) # None <=> n \in Catalogs \/ (TableExists(n) /\ table_info[n].type = "Disk")
    <3>1. GetFileId(n) # None <=> n \in Catalogs \/ Listed(n, "Disk")
      BY <1>1, <2>4, MappingRowOf DEF StorageInv, MappingListed
    <3>2. Listed(n, "Disk") <=> TableExists(n) /\ table_info[n].type = "Disk"
      BY <1>1, <2>4, CacheTypes DEF TableExists, TableTypes
    <3> QED BY <3>1, <3>2
  <2>5. ASSUME up, NEW n \in TableNames, n \in DOMAIN tables_m
        PROVE  TableExists(n) /\ table_info[n].type = "InMemory"
    <3>1. Listed(n, "InMemory")
      BY <1>1, <2>5 DEF StorageInv, CacheListed
    <3> QED BY <1>1, <2>5, <3>1, CacheTypes DEF TableExists, TableTypes
  <2> QED BY <2>2, <2>3, <2>4, <2>5 DEF StorageListed
<1>2. StorageInv => StorageListed
  BY <1>1
<1> QED BY <1>2, StorageAlways, PTL
-----------------------------------------------------------------------------
(* The columns. *)

\* The rows of a table, as a sequence.
IsRows(rows) == \E S : rows \in Seq(S)

\* No column of a table has two rows.
ColumnsOnce(columns) ==
  \A i, j \in 1 .. Len(columns) :
    columns[i].rel_name = columns[j].rel_name /\ columns[i].position = columns[j].position => i = j

\* The rows of a table in memory and on disk say the same of its columns.
CatalogInv ==
  /\ IsRows(column_catalog)
  /\ ColumnsOnce(column_catalog)
  /\ CatalogReloads

\* The rows at the places listed.
RowsBy(s, n, p) == [k \in 1 .. n |-> s[p[k]]]

\* p lists the places in the order RowsAt takes them, the same for any rows.
Takes(I, n, p) ==
  /\ n \in Nat /\ p \in [1 .. n -> I]
  /\ \A s : RowsAt(s, I) = RowsBy(s, n, p)
  /\ \A k, l \in 1 .. n : p[k] = p[l] => k = l
  /\ \A i \in I : \E k \in 1 .. n : p[k] = i

\* RowsAt takes every place once.
LEMMA PlacesTaken ==
  ASSUME NEW m \in Nat, NEW I \in SUBSET (1 .. m)
  PROVE  \E n, p : Takes(I, n, p)
<1> DEFINE Upto(i) == {j \in I : j <= i}
           rank == [i \in I |-> Cardinality(Upto(i))]
           n == Cardinality(I)
<1>1. \A i \in I : i \in Nat
  OBVIOUS
<1>2. IsFiniteSet(I) /\ n \in Nat
  <2>1. IsFiniteSet(1 .. m)
    BY FS_Interval
  <2>2. IsFiniteSet(I)
    BY <2>1, FS_Subset
  <2> QED BY <2>2, FS_CardinalityType
<1>3. \A i \in I : IsFiniteSet(Upto(i)) /\ Cardinality(Upto(i)) \in Nat /\ Cardinality(Upto(i)) <= n
  <2> TAKE i \in I
  <2>1. Upto(i) \in SUBSET I
    OBVIOUS
  <2> HIDE DEF Upto
  <2> QED BY <2>1, <1>2, FS_Subset, FS_CardinalityType
<1>4. \A i \in I : Cardinality(Upto(i)) # 0
  <2> TAKE i \in I
  <2>1. Upto(i) # {}
    BY <1>1
  <2> HIDE DEF Upto
  <2> QED BY <2>1, <1>3, FS_EmptySet
<1>5. \A i, j \in I : i < j => Cardinality(Upto(i)) # Cardinality(Upto(j))
  <2> SUFFICES ASSUME NEW i \in I, NEW j \in I, i < j
               PROVE  Cardinality(Upto(i)) # Cardinality(Upto(j))
    OBVIOUS
  <2>0. \A x \in I : x \in Nat
    BY <1>1
  <2>1. Upto(i) \subseteq Upto(j)
    <3>1. ASSUME NEW x \in I, x <= i PROVE x <= j
      BY <2>0, <3>1
    <3> QED BY <3>1
  <2>2. j \in Upto(j) /\ j \notin Upto(i)
    BY <1>1
  <2> HIDE DEF Upto
  <2>3. Upto(i) # Upto(j)
    BY <2>2
  <2> QED BY <2>1, <2>3, <1>3, FS_Subset
<1>6. rank \in Injection(I, 1 .. n)
  <2> HIDE DEF Upto, n
  <2>1. rank \in [I -> 1 .. n]
    BY <1>2, <1>3, <1>4
  <2>2. \A i, j \in I : rank[i] = rank[j] => i = j
    BY <1>1, <1>5
  <2> HIDE DEF rank
  <2> QED BY <2>1, <2>2 DEF Injection, IsInjective
<1>7. rank \in Surjection(I, 1 .. n)
  <2>1. IsFiniteSet(1 .. n) /\ Cardinality(1 .. n) = n
    BY <1>2, FS_Interval
  <2> HIDE DEF rank
  <2> QED BY <1>6, <2>1, FS_Injection
<1>8. \A k \in 1 .. n : \E i \in I : rank[i] = k
  <2> HIDE DEF rank
  <2> QED BY <1>7 DEF Surjection
<1> DEFINE p == [k \in 1 .. n |-> CHOOSE i \in I : Cardinality(Upto(i)) = k]
<1>9. \A k \in 1 .. n : p[k] \in I /\ rank[p[k]] = k
  <2> HIDE DEF Upto, n
  <2> QED BY <1>8
<1>10. \A s : RowsAt(s, I) = RowsBy(s, n, p)
  BY DEF RowsAt, RowsBy
<1> HIDE DEF Upto, n, p
<1>11. p \in [1 .. n -> I]
  BY <1>9 DEF p
<1>12. \A k, l \in 1 .. n : p[k] = p[l] => k = l
  BY <1>9
<1>13. \A i \in I : \E k \in 1 .. n : p[k] = i
  <2> HIDE DEF rank
  <2>1. \A i \in I : rank[i] \in 1 .. n
    BY <1>6 DEF Injection
  <2>2. \A i, j \in I : rank[i] = rank[j] => i = j
    BY <1>6 DEF Injection, IsInjective
  <2> QED BY <2>1, <2>2, <1>9
<1>14. Takes(I, n, p)
  BY <1>2, <1>10, <1>11, <1>12, <1>13 DEF Takes
<1> QED BY <1>14

\* RowsAt has each of the places given once.
LEMMA PlacesOnce ==
  ASSUME NEW S, NEW s \in Seq(S), NEW I \in SUBSET (1 .. Len(s))
  PROVE  /\ RowsAt(s, I) \in Seq(S)
         /\ \E p \in [1 .. Len(RowsAt(s, I)) -> I] :
              /\ \A k \in 1 .. Len(RowsAt(s, I)) : RowsAt(s, I)[k] = s[p[k]]
              /\ \A k, l \in 1 .. Len(RowsAt(s, I)) : p[k] = p[l] => k = l
              /\ \A i \in I : \E k \in 1 .. Len(RowsAt(s, I)) : p[k] = i
<1> DEFINE m == Len(s)
<1>1. m \in Nat /\ I \in SUBSET (1 .. m)
  OBVIOUS
<1>2. PICK n, p : Takes(I, n, p)
  <2> HIDE DEF m
  <2> QED BY <1>1, PlacesTaken
<1>6. /\ n \in Nat /\ p \in [1 .. n -> I] /\ RowsAt(s, I) = RowsBy(s, n, p)
      /\ \A k, l \in 1 .. n : p[k] = p[l] => k = l
      /\ \A i \in I : \E k \in 1 .. n : p[k] = i
  BY <1>2 DEF Takes
<1> DEFINE t == RowsAt(s, I)
<1>3. t \in Seq(S) /\ Len(t) = n
  <2>1. \A k \in 1 .. n : p[k] \in 1 .. Len(s)
    BY <1>6
  <2>2. \A k \in 1 .. n : s[p[k]] \in S
    BY <2>1, ElementOfSeq
  <2>3. t = [k \in 1 .. n |-> s[p[k]]]
    BY <1>6 DEF RowsBy
  <2> HIDE DEF t
  <2> QED BY <1>6, <2>2, <2>3
<1>4. \A k \in 1 .. n : t[k] = s[p[k]]
  BY <1>6 DEF RowsBy
<1> HIDE DEF t
<1>5. /\ p \in [1 .. Len(t) -> I]
      /\ \A k \in 1 .. Len(t) : t[k] = s[p[k]]
      /\ \A k, l \in 1 .. Len(t) : p[k] = p[l] => k = l
      /\ \A i \in I : \E k \in 1 .. Len(t) : p[k] = i
  BY <1>6, <1>3, <1>4
<1> QED BY <1>3, <1>5 DEF t

\* What a load finds of a column that has one row.
LEMMA AttributeOf ==
  ASSUME NEW columns, IsRows(columns), ColumnsOnce(columns), NEW i \in 1 .. Len(columns)
  PROVE  LoadedAttribute(columns, columns[i].rel_name, columns[i].position)
           = [name |-> columns[i].attr_name, type |-> columns[i].type]
<1> DEFINE n == columns[i].rel_name
           q == columns[i].position
           I == {j \in 1 .. Len(columns) : columns[j].rel_name = n /\ columns[j].position = q}
           j0 == SelectLastInSeq(columns, LAMBDA r : r.rel_name = n /\ r.position = q)
<1>1. Len(columns) \in Nat
  BY DEF IsRows
<1>2. j0 = IF I # {} THEN Max(I) ELSE 0
  BY DEF SelectLastInSeq
<1>3. I = {i}
  BY DEF ColumnsOnce
<1> HIDE DEF I
<1>4. j0 = i /\ i # 0
  BY <1>1, <1>2, <1>3, MaxOfOne
<1>5. LoadedAttribute(columns, n, q)
        = IF j0 = 0 THEN [name |-> None, type |-> None]
                    ELSE [name |-> columns[j0].attr_name, type |-> columns[j0].type]
  BY DEF LoadedAttribute
<1> HIDE DEF j0
<1> QED BY <1>4, <1>5

\* And of one that has none.
LEMMA NoAttribute ==
  ASSUME NEW columns, NEW n, NEW q,
         \A j \in 1 .. Len(columns) : ~(columns[j].rel_name = n /\ columns[j].position = q)
  PROVE  LoadedAttribute(columns, n, q) = [name |-> None, type |-> None]
<1> DEFINE I == {j \in 1 .. Len(columns) : columns[j].rel_name = n /\ columns[j].position = q}
           j0 == SelectLastInSeq(columns, LAMBDA r : r.rel_name = n /\ r.position = q)
<1>1. j0 = IF I # {} THEN Max(I) ELSE 0
  BY DEF SelectLastInSeq
<1>2. I = {}
  OBVIOUS
<1> HIDE DEF I
<1>3. j0 = 0
  BY <1>1, <1>2
<1>4. LoadedAttribute(columns, n, q)
        = IF j0 = 0 THEN [name |-> None, type |-> None]
                    ELSE [name |-> columns[j0].attr_name, type |-> columns[j0].type]
  BY DEF LoadedAttribute
<1> HIDE DEF j0
<1> QED BY <1>3, <1>4
\* Two catalogs say the same of the table in row k of the one and row l of the
\* other.
SaysTheSame(T, C, k, U, D, l) ==
  /\ T \in Seq(CatalogRows) /\ U \in Seq(CatalogRows)
  /\ \A i, j \in 1 .. Len(T) : T[i].table_name = T[j].table_name => i = j
  /\ \A i, j \in 1 .. Len(U) : U[i].table_name = U[j].table_name => i = j
  /\ IsRows(C) /\ IsRows(D) /\ ColumnsOnce(C) /\ ColumnsOnce(D)
  /\ k \in 1 .. Len(T) /\ l \in 1 .. Len(U) /\ T[k] = U[l]
  /\ \A i \in 1 .. Len(C) : C[i].rel_name = T[k].table_name => \E j \in 1 .. Len(D) : D[j] = C[i]
  /\ \A j \in 1 .. Len(D) : D[j].rel_name = T[k].table_name => \E i \in 1 .. Len(C) : C[i] = D[j]

LEMMA LoadsAlike ==
  ASSUME NEW T, NEW C, NEW k, NEW U, NEW D, NEW l, SaysTheSame(T, C, k, U, D, l)
  PROVE  Loaded(T, C)[T[k].table_name] = Loaded(U, D)[T[k].table_name]
<1> USE DEF SaysTheSame
<1> DEFINE n == T[k].table_name
<1>1. TableInfoRow(T, n) = k /\ TableInfoRow(U, n) = l
  BY InfoRowOf
<1>2. ASSUME NEW q PROVE LoadedAttribute(C, n, q) = LoadedAttribute(D, n, q)
  <2>1. CASE \E i \in 1 .. Len(C) : C[i].rel_name = n /\ C[i].position = q
    <3>1. PICK i \in 1 .. Len(C) : C[i].rel_name = n /\ C[i].position = q
      BY <2>1
    <3>2. PICK j \in 1 .. Len(D) : D[j] = C[i]
      BY <3>1
    <3>3. LoadedAttribute(C, C[i].rel_name, C[i].position) = [name |-> C[i].attr_name, type |-> C[i].type]
      BY AttributeOf
    <3>4. LoadedAttribute(D, D[j].rel_name, D[j].position) = [name |-> D[j].attr_name, type |-> D[j].type]
      BY AttributeOf
    <3> QED BY <3>1, <3>2, <3>3, <3>4
  <2>2. CASE \A i \in 1 .. Len(C) : ~(C[i].rel_name = n /\ C[i].position = q)
    <3>1. ASSUME NEW j \in 1 .. Len(D), D[j].rel_name = n, D[j].position = q PROVE FALSE
      <4>1. PICK i \in 1 .. Len(C) : C[i] = D[j]
        BY <3>1
      <4> QED BY <4>1, <3>1, <2>2
    <3>2. LoadedAttribute(C, n, q) = [name |-> None, type |-> None]
      BY <2>2, NoAttribute
    <3>3. LoadedAttribute(D, n, q) = [name |-> None, type |-> None]
      BY <3>1, NoAttribute
    <3> QED BY <3>2, <3>3
  <2> QED BY <2>1, <2>2
<1>3. n \in {T[i].table_name : i \in DOMAIN T} /\ n \in {U[i].table_name : i \in DOMAIN U}
  OBVIOUS
<1> HIDE DEF n
<1>4. Loaded(T, C)[n] = [type |-> T[k].type,
                         schema |-> [p \in 1 .. T[k].num_attributes |-> LoadedAttribute(C, n, p - 1)]]
  BY <1>1, <1>3 DEF Loaded
<1>5. Loaded(U, D)[n] = [type |-> U[l].type,
                         schema |-> [p \in 1 .. U[l].num_attributes |-> LoadedAttribute(D, n, p - 1)]]
  BY <1>1, <1>3 DEF Loaded
<1>6. [p \in 1 .. T[k].num_attributes |-> LoadedAttribute(C, n, p - 1)]
        = [p \in 1 .. U[l].num_attributes |-> LoadedAttribute(D, n, p - 1)]
  <2>1. \A p : LoadedAttribute(C, n, p - 1) = LoadedAttribute(D, n, p - 1)
    BY <1>2
  <2> QED BY <2>1, Zenon
<1>7. Loaded(T, C)[n] = Loaded(U, D)[n]
  BY <1>4, <1>5, <1>6
<1> QED BY <1>7 DEF n

\* A loaded cache is a map on the names listed.
LEMMA LoadedMap ==
  ASSUME NEW T \in Seq(CatalogRows), NEW C
  PROVE  /\ Loaded(T, C) = [n \in DOMAIN Loaded(T, C) |-> Loaded(T, C)[n]]
         /\ \A n : n \in DOMAIN Loaded(T, C) <=> \E i \in 1 .. Len(T) : T[i].table_name = n
  BY DEF Loaded

\* AddTable writes the columns of a table that has none yet.
AddsColumns(C, n, schema, D) ==
  /\ IsRows(C) /\ ColumnsOnce(C) /\ \A i \in 1 .. Len(C) : C[i].rel_name # n
  /\ Len(schema) \in Nat /\ DOMAIN schema = 1 .. Len(schema)
  /\ D = C \o ColumnRows(n, schema)

LEMMA ColumnsAppended ==
  ASSUME NEW C, NEW n, NEW schema, NEW D, AddsColumns(C, n, schema, D)
  PROVE  /\ IsRows(D) /\ Len(D) = Len(C) + Len(schema)
         /\ \A i \in 1 .. Len(C) : D[i] = C[i]
         /\ \A i \in 1 .. Len(schema) :
              /\ D[Len(C) + i].attr_name = schema[i].name /\ D[Len(C) + i].rel_name = n
              /\ D[Len(C) + i].type = schema[i].type /\ D[Len(C) + i].position = i - 1
         /\ ColumnsOnce(D)
<1> USE DEF AddsColumns
<1>0. PICK S : C \in Seq(S)
  BY DEF IsRows
<1> DEFINE Row(i) == [attr_name |-> schema[i].name, rel_name |-> n,
                      type |-> schema[i].type, position |-> i - 1]
           E == ColumnRows(n, schema)
           R == S \cup {Row(i) : i \in 1 .. Len(schema)}
<1>1. Len(C) \in Nat /\ \A i \in 1 .. Len(C) : C[i] \in R
  BY <1>0, ElementOfSeq
<1>2. C \in Seq(R)
  <2>1. C = [i \in 1 .. Len(C) |-> C[i]]
    BY <1>0
  <2> HIDE DEF R
  <2> QED BY <1>1, <2>1
<1>3. E = [i \in 1 .. Len(schema) |-> Row(i)]
  BY DEF ColumnRows
<1> HIDE DEF E
<1>4. E \in Seq(R) /\ Len(E) = Len(schema) /\ \A i \in 1 .. Len(schema) : E[i] = Row(i)
  <2>1. \A i \in 1 .. Len(schema) : Row(i) \in R
    OBVIOUS
  <2> HIDE DEF R, Row
  <2> QED BY <1>3, <2>1
<1> HIDE DEF R
<1>5. D = C \o E
  BY DEF E
<1>6. /\ D \in Seq(R) /\ Len(D) = Len(C) + Len(schema)
      /\ \A i \in 1 .. Len(C) + Len(schema) : D[i] = IF i <= Len(C) THEN C[i] ELSE E[i - Len(C)]
  <2>1. /\ C \o E \in Seq(R) /\ Len(C \o E) = Len(C) + Len(E)
        /\ \A i \in 1 .. Len(C) + Len(E) : (C \o E)[i] = IF i <= Len(C) THEN C[i] ELSE E[i - Len(C)]
    <3>1. E \in Seq(R)
      BY <1>4
    <3> QED BY <1>2, <3>1, ConcatProperties
  <2>2. Len(E) = Len(schema)
    BY <1>4
  <2> QED BY <2>1, <2>2, <1>5
<1>7. \A i \in 1 .. Len(C) : D[i] = C[i]
  BY <1>1, <1>6
<1>8. \A i \in 1 .. Len(schema) : D[Len(C) + i] = Row(i)
  <2> TAKE i \in 1 .. Len(schema)
  <2>1. /\ Len(C) + i \in 1 .. Len(C) + Len(schema)
        /\ ~(Len(C) + i <= Len(C)) /\ (Len(C) + i) - Len(C) = i
    BY <1>1
  <2>2. D[Len(C) + i] = E[(Len(C) + i) - Len(C)]
    BY <1>6, <2>1
  <2> HIDE DEF Row
  <2> QED BY <2>1, <2>2, <1>4
<1>9. \A k \in 1 .. Len(D) : k \notin 1 .. Len(C) =>
        k - Len(C) \in 1 .. Len(schema) /\ D[k] = Row(k - Len(C))
  <2> SUFFICES ASSUME NEW k \in 1 .. Len(D), k \notin 1 .. Len(C)
               PROVE  k - Len(C) \in 1 .. Len(schema) /\ D[k] = Row(k - Len(C))
    OBVIOUS
  <2>1. k - Len(C) \in 1 .. Len(schema) /\ Len(C) + (k - Len(C)) = k
    BY <1>1, <1>6
  <2> HIDE DEF Row
  <2> QED BY <2>1, <1>8
<1>10. ColumnsOnce(D)
  <2> SUFFICES ASSUME NEW k \in 1 .. Len(D), NEW l \in 1 .. Len(D),
                      D[k].rel_name = D[l].rel_name, D[k].position = D[l].position
               PROVE  k = l
    BY DEF ColumnsOnce
  <2>1. CASE k \in 1 .. Len(C) /\ l \in 1 .. Len(C)
    BY <2>1, <1>7 DEF ColumnsOnce
  <2>2. \A m \in 1 .. Len(D) : m \notin 1 .. Len(C) =>
          D[m].rel_name = n /\ D[m].position = (m - Len(C)) - 1
    <3>1. \A i : Row(i).rel_name = n /\ Row(i).position = i - 1
      OBVIOUS
    <3> HIDE DEF Row
    <3> QED BY <3>1, <1>9
  <2>3. CASE k \notin 1 .. Len(C) /\ l \notin 1 .. Len(C)
    <3>1. (k - Len(C)) - 1 = (l - Len(C)) - 1
      BY <2>2, <2>3
    <3> QED BY <3>1, <1>1, <1>6
  <2>4. CASE k \in 1 .. Len(C) /\ l \notin 1 .. Len(C)
    BY <2>2, <2>4, <1>7
  <2>5. CASE k \notin 1 .. Len(C) /\ l \in 1 .. Len(C)
    BY <2>2, <2>5, <1>7
  <2> QED BY <2>1, <2>3, <2>4, <2>5
<1>11. IsRows(D) /\ Len(D) = Len(C) + Len(schema)
  BY <1>6 DEF IsRows
<1>12. \A i : /\ Row(i).attr_name = schema[i].name /\ Row(i).rel_name = n
              /\ Row(i).type = schema[i].type /\ Row(i).position = i - 1
  OBVIOUS
<1> HIDE DEF Row
<1> QED BY <1>7, <1>8, <1>10, <1>11, <1>12
LEMMA CatalogCreate ==
  ASSUME StorageInv, CatalogInv, NEW c \in Creatable, CreateTable(c.name, c.type, c.schema)
  PROVE  CatalogInv'
<1> DEFINE n == c.name
           t == c.type
           schema == c.schema
           T == table_catalog
           C == column_catalog
           U == table_catalog'
           D == column_catalog'
           len == Len(T)
<1>1. /\ n \in TableNames /\ t \in TableTypes /\ Len(schema) \in Nat
      /\ schema = [i \in 1 .. Len(schema) |-> [name |-> schema[i].name, type |-> schema[i].type]]
  BY ManagerAssumption
<1>2. DOMAIN schema = 1 .. Len(schema)
  BY <1>1
<1>3. /\ up /\ up' = up /\ n \notin DOMAIN table_info
      /\ U = Append(T, TableRow(n, t, schema)) /\ D = C \o ColumnRows(n, schema)
      /\ table_info' = Put(table_info, n, [type |-> t, schema |-> schema])
  BY DEF CreateTable, AddTable, TableExists
<1>4. T \in Seq(CatalogRows) /\ ListedOnce
  BY DEF StorageInv, StorageTypes
<1>5. StorageInv'
  BY StorageCreate
<1>6. U \in Seq(CatalogRows) /\ ListedOnce'
  BY <1>5 DEF StorageInv, StorageTypes
<1>7. \A i \in 1 .. len : T[i].table_name # n
  BY <1>3, RowFields DEF StorageInv, CacheListed, Listed
<1>8. IsRows(C)
  BY DEF CatalogInv
<1>9. ColumnsOnce(C) /\ Loadable(T, C) /\ table_info = Loaded(T, C)
  BY <1>3 DEF CatalogInv, CatalogReloads
<1> DEFINE row == TableRow(n, t, schema)
<1>10. row.table_name = n /\ row.type = t /\ row.num_attributes = Len(schema) /\ row \in CatalogRows
  BY <1>1 DEF TableRow, CatalogRows
<1>11. U = Append(T, row)
  BY <1>3
<1> HIDE DEF row
<1>12. /\ Len(U) = len + 1 /\ len \in Nat /\ U[len + 1] = row
       /\ \A i \in 1 .. len : U[i] = T[i]
  BY <1>4, <1>10, <1>11
<1>13. DOMAIN T = 1 .. len /\ DOMAIN C = 1 .. Len(C) /\ Len(C) \in Nat
  BY <1>4, <1>8 DEF IsRows
<1>14. ASSUME NEW j \in 1 .. Len(C)
       PROVE  \E i \in 1 .. len : /\ T[i].table_name = C[j].rel_name
                                  /\ C[j].position < T[i].num_attributes
  BY <1>9, <1>13 DEF Loadable
<1>15. \A j \in 1 .. Len(C) : C[j].rel_name # n
  BY <1>7, <1>14
<1>16. /\ IsRows(D) /\ Len(D) = Len(C) + Len(schema)
       /\ \A i \in 1 .. Len(C) : D[i] = C[i]
       /\ \A i \in 1 .. Len(schema) :
            /\ D[Len(C) + i].attr_name = schema[i].name /\ D[Len(C) + i].rel_name = n
            /\ D[Len(C) + i].type = schema[i].type /\ D[Len(C) + i].position = i - 1
       /\ ColumnsOnce(D)
  <2>1. Len(schema) \in Nat /\ D = C \o ColumnRows(n, schema) /\ ColumnsOnce(C) /\ IsRows(C)
    BY <1>1, <1>3, <1>8, <1>9
  <2> HIDE DEF n, schema, C, D
  <2>2. AddsColumns(C, n, schema, D)
    BY <2>1, <1>2, <1>15 DEF AddsColumns
  <2> QED BY <2>2, ColumnsAppended
<1>17. DOMAIN D = 1 .. Len(D)
  BY <1>16 DEF IsRows
<1>18. \A j \in 1 .. Len(D) : j \in 1 .. Len(C) \/
         \E i \in 1 .. Len(schema) : j = Len(C) + i
  <2> TAKE j \in 1 .. Len(D)
  <2>1. j \notin 1 .. Len(C) => j - Len(C) \in 1 .. Len(schema) /\ j = Len(C) + (j - Len(C))
    BY <1>1, <1>13, <1>16
  <2> QED BY <2>1
<1> HIDE DEF n, t, schema, T, C, U, D
<1>19. \A i \in 1 .. Len(schema) :
         /\ D[Len(C) + i].rel_name = n /\ D[Len(C) + i].position = i - 1
         /\ D[Len(C) + i].attr_name = schema[i].name /\ D[Len(C) + i].type = schema[i].type
         /\ Len(C) + i \in 1 .. Len(D)
  <2>1. Len(schema) \in Nat /\ Len(C) \in Nat /\ Len(D) = Len(C) + Len(schema)
    BY <1>1, <1>13, <1>16
  <2>2. \A i \in 1 .. Len(schema) : Len(C) + i \in 1 .. Len(D)
    BY <2>1
  <2> QED BY <2>2, <1>16
<1>20. Loadable(U, D)
  <2>1. DOMAIN U = 1 .. len + 1 /\ DOMAIN D = 1 .. Len(D)
    BY <1>6, <1>12, <1>17
  <2> SUFFICES ASSUME NEW j \in 1 .. Len(D)
               PROVE  \E i \in 1 .. len + 1 : /\ U[i].table_name = D[j].rel_name
                                              /\ D[j].position < U[i].num_attributes
    BY <2>1 DEF Loadable
  <2>2. CASE j \in 1 .. Len(C)
    <3>1. PICK i \in 1 .. len : T[i].table_name = C[j].rel_name /\ C[j].position < T[i].num_attributes
      BY <2>2, <1>14
    <3>2. i \in 1 .. len + 1 /\ U[i] = T[i] /\ D[j] = C[j]
      BY <2>2, <1>12, <1>16
    <3> QED BY <3>1, <3>2
  <2>3. ASSUME NEW i \in 1 .. Len(schema), j = Len(C) + i
        PROVE  U[len + 1].table_name = D[j].rel_name /\ D[j].position < U[len + 1].num_attributes
    <3>1. D[j].rel_name = n /\ D[j].position = i - 1 /\ i - 1 < Len(schema)
      BY <2>3, <1>1, <1>19
    <3> QED BY <3>1, <1>10, <1>12
  <2>4. len + 1 \in 1 .. len + 1
    BY <1>12
  <2> QED BY <2>2, <2>3, <2>4, <1>18
\* The tables there were load as before.
<1>21. ASSUME NEW m \in DOMAIN table_info PROVE Loaded(U, D)[m] = table_info[m]
  <2>1. PICK k \in 1 .. len : T[k].table_name = m
    BY <1>4, <1>9, LoadedMap
  <2>2. k \in 1 .. Len(U) /\ U[k] = T[k] /\ m # n
    BY <2>1, <1>7, <1>12
  <2>3. \A i \in 1 .. Len(C) : i \in 1 .. Len(D) /\ D[i] = C[i]
    BY <1>1, <1>13, <1>16
  <2>4. ASSUME NEW j \in 1 .. Len(D), D[j].rel_name = m PROVE \E i \in 1 .. Len(C) : C[i] = D[j]
    BY <2>2, <2>3, <2>4, <1>18, <1>19
  <2>5. /\ \A i, j \in 1 .. Len(T) : T[i].table_name = T[j].table_name => i = j
        /\ \A i, j \in 1 .. Len(U) : U[i].table_name = U[j].table_name => i = j
    BY <1>4, <1>6 DEF ListedOnce, T, U
  <2>6. Loaded(T, C)[T[k].table_name] = Loaded(U, D)[T[k].table_name]
    <3>1. T \in Seq(CatalogRows) /\ U \in Seq(CatalogRows) /\ IsRows(C) /\ IsRows(D)
      BY <1>4, <1>6, <1>8, <1>16
    <3>2. ColumnsOnce(C) /\ ColumnsOnce(D)
      BY <1>9, <1>16
    <3>3. /\ \A i \in 1 .. Len(C) : C[i].rel_name = T[k].table_name => \E j \in 1 .. Len(D) : D[j] = C[i]
          /\ \A j \in 1 .. Len(D) : D[j].rel_name = T[k].table_name => \E i \in 1 .. Len(C) : C[i] = D[j]
      BY <2>1, <2>3, <2>4
    <3>4. SaysTheSame(T, C, k, U, D, k)
      BY <2>2, <2>5, <3>1, <3>2, <3>3 DEF SaysTheSame
    <3> QED BY <3>4, LoadsAlike
  <2> QED BY <2>1, <2>6, <1>9
\* The new one loads as the schema it was given.
<1>22. Loaded(U, D)[n] = [type |-> t, schema |-> schema]
  <2>1. len + 1 \in 1 .. Len(U) /\ U[len + 1].table_name = n
    BY <1>10, <1>12
  <2>2. TableInfoRow(U, n) = len + 1
    <3>1. \A i, j \in 1 .. Len(U) : U[i].table_name = U[j].table_name => i = j
      BY <1>6 DEF ListedOnce, U
    <3> QED BY <2>1, <3>1, <1>6, InfoRowOf
  <2>3. n \in {U[i].table_name : i \in DOMAIN U}
    BY <2>1, <1>6
  <2>4. Loaded(U, D)[n] = [type |-> t, schema |-> [p \in 1 .. Len(schema) |-> LoadedAttribute(D, n, p - 1)]]
    BY <2>2, <2>3, <1>10, <1>12 DEF Loaded
  <2>5. ASSUME NEW p \in 1 .. Len(schema)
        PROVE  LoadedAttribute(D, n, p - 1) = [name |-> schema[p].name, type |-> schema[p].type]
    <3> DEFINE j == Len(C) + p
    <3>1. j \in 1 .. Len(D) /\ D[j].rel_name = n /\ D[j].position = p - 1
          /\ D[j].attr_name = schema[p].name /\ D[j].type = schema[p].type
      BY <1>19
    <3> HIDE DEF j
    <3>2. LoadedAttribute(D, D[j].rel_name, D[j].position) = [name |-> D[j].attr_name, type |-> D[j].type]
      BY <3>1, <1>16, <1>17, AttributeOf
    <3> QED BY <3>1, <3>2
  <2>6. [p \in 1 .. Len(schema) |-> LoadedAttribute(D, n, p - 1)]
          = [p \in 1 .. Len(schema) |-> [name |-> schema[p].name, type |-> schema[p].type]]
    BY <2>5, Zenon
  <2> QED BY <2>4, <2>6, <1>1
<1>23. table_info' = Loaded(U, D)
  <2> DEFINE V == DOMAIN table_info \cup {n}
             Value(m) == IF m = n THEN [type |-> t, schema |-> schema] ELSE table_info[m]
  <2>1. table_info' = [m \in V |-> Value(m)]
    BY <1>3 DEF Put, n, t, schema
  <2>2. \A m : m \in V <=> \E i \in 1 .. Len(U) : U[i].table_name = m
    <3>1. \A m : m \in DOMAIN table_info <=> \E i \in 1 .. len : T[i].table_name = m
      BY <1>4, <1>9, LoadedMap
    <3>2. \A i : i \in 1 .. Len(U) <=> i \in 1 .. len \/ i = len + 1
      BY <1>12
    <3> QED BY <3>1, <3>2, <1>10, <1>12
  <2>3. \A m \in V : Loaded(U, D)[m] = Value(m)
    BY <1>21, <1>22
  <2>4. /\ Loaded(U, D) = [m \in DOMAIN Loaded(U, D) |-> Loaded(U, D)[m]]
        /\ \A m : m \in DOMAIN Loaded(U, D) <=> \E i \in 1 .. Len(U) : U[i].table_name = m
    BY <1>6, LoadedMap
  <2>5. DOMAIN Loaded(U, D) = V
    BY <2>2, <2>4
  <2> HIDE DEF V, Value
  <2> QED BY <2>1, <2>3, <2>4, <2>5
<1> QED BY <1>16, <1>20, <1>23 DEF CatalogInv, CatalogReloads, U, D
LEMMA CatalogDelete ==
  ASSUME StorageInv, CatalogInv, NEW n \in TableNames, DeleteTable(n)
  PROVE  CatalogInv'
<1> DEFINE T == table_catalog
           C == column_catalog
           U == table_catalog'
           D == column_catalog'
           I == {j \in 1 .. Len(C) : C[j].rel_name # n}
<1>1. /\ up /\ up' = up /\ RemoveTable(n) /\ n \in DOMAIN table_info
      /\ table_info' = Erase(table_info, n)
  BY DEF DeleteTable, TableExists, RemoveTable
<1>2. T \in Seq(CatalogRows) /\ ListedOnce /\ DOMAIN T = 1 .. Len(T)
  BY DEF StorageInv, StorageTypes
<1>3. StorageInv'
  BY StorageDelete
<1>4. U \in Seq(CatalogRows) /\ ListedOnce' /\ DOMAIN U = 1 .. Len(U)
  BY <1>3 DEF StorageInv, StorageTypes
<1>5. PICK S : C \in Seq(S)
  BY DEF CatalogInv, IsRows
<1>6. DOMAIN C = 1 .. Len(C) /\ Len(C) \in Nat /\ IsRows(C)
  BY <1>5 DEF IsRows
<1>7. ColumnsOnce(C) /\ Loadable(T, C) /\ table_info = Loaded(T, C)
  BY <1>1 DEF CatalogInv, CatalogReloads
\* The rows of the other tables stay, one for one.
<1>8. /\ \A i \in 1 .. Len(T) : T[i].table_name # n => \E j \in 1 .. Len(U) : U[j] = T[i]
      /\ \A j \in 1 .. Len(U) : U[j].table_name # n /\ \E i \in 1 .. Len(T) : T[i] = U[j]
  BY <1>1, RowsRemoved DEF StorageInv
<1>9. D = RowsAt(C, I)
  BY <1>1, <1>6 DEF RemoveTable
<1>10. I \in SUBSET (1 .. Len(C))
  OBVIOUS
<1>11. \A i : i \in I <=> i \in 1 .. Len(C) /\ C[i].rel_name # n
  OBVIOUS
<1> HIDE DEF T, C, U, D, I
<1>12. /\ D \in Seq(S)
       /\ \E p \in [1 .. Len(D) -> I] :
            /\ \A k \in 1 .. Len(D) : D[k] = C[p[k]]
            /\ \A k, l \in 1 .. Len(D) : p[k] = p[l] => k = l
            /\ \A i \in I : \E k \in 1 .. Len(D) : p[k] = i
  BY <1>5, <1>9, <1>10, PlacesOnce
<1>13. PICK p \in [1 .. Len(D) -> I] :
         /\ \A k \in 1 .. Len(D) : D[k] = C[p[k]]
         /\ \A k, l \in 1 .. Len(D) : p[k] = p[l] => k = l
         /\ \A i \in I : \E k \in 1 .. Len(D) : p[k] = i
  BY <1>12
<1>14. \A k \in 1 .. Len(D) : p[k] \in 1 .. Len(C) /\ D[k] = C[p[k]] /\ D[k].rel_name # n
  BY <1>11, <1>13
<1>15. \A i \in 1 .. Len(C) : C[i].rel_name # n => \E k \in 1 .. Len(D) : D[k] = C[i]
  BY <1>11, <1>13
<1>16. IsRows(D) /\ DOMAIN D = 1 .. Len(D)
  BY <1>12 DEF IsRows
<1>17. ColumnsOnce(D)
  <2> SUFFICES ASSUME NEW k \in 1 .. Len(D), NEW l \in 1 .. Len(D),
                      D[k].rel_name = D[l].rel_name, D[k].position = D[l].position
               PROVE  k = l
    BY DEF ColumnsOnce
  <2>1. p[k] = p[l]
    BY <1>7, <1>14 DEF ColumnsOnce
  <2> QED BY <2>1, <1>13
<1>18. Loadable(U, D)
  <2> SUFFICES ASSUME NEW k \in 1 .. Len(D)
               PROVE  \E i \in 1 .. Len(U) : /\ U[i].table_name = D[k].rel_name
                                             /\ D[k].position < U[i].num_attributes
    BY <1>4, <1>16 DEF Loadable
  <2>1. PICK i \in 1 .. Len(T) : T[i].table_name = D[k].rel_name /\ D[k].position < T[i].num_attributes
    <3>1. \A j \in 1 .. Len(C) : \E i \in 1 .. Len(T) :
            T[i].table_name = C[j].rel_name /\ C[j].position < T[i].num_attributes
      BY <1>2, <1>6, <1>7 DEF Loadable
    <3>2. p[k] \in 1 .. Len(C) /\ D[k] = C[p[k]]
      BY <1>14
    <3> QED BY <3>1, <3>2
  <2>2. PICK j \in 1 .. Len(U) : U[j] = T[i]
    BY <2>1, <1>8, <1>14
  <2> QED BY <2>1, <2>2
<1>19. \A m : m \in DOMAIN table_info <=> \E i \in 1 .. Len(T) : T[i].table_name = m
  BY <1>2, <1>7, LoadedMap
<1>20. /\ Loaded(U, D) = [m \in DOMAIN Loaded(U, D) |-> Loaded(U, D)[m]]
       /\ \A m : m \in DOMAIN Loaded(U, D) <=> \E i \in 1 .. Len(U) : U[i].table_name = m
  BY <1>4, LoadedMap
<1>21. DOMAIN Loaded(U, D) = DOMAIN table_info \ {n}
  <2>1. ASSUME NEW m PROVE (\E i \in 1 .. Len(U) : U[i].table_name = m)
                             <=> m # n /\ \E i \in 1 .. Len(T) : T[i].table_name = m
    <3>1. ASSUME NEW j \in 1 .. Len(U), U[j].table_name = m
          PROVE  m # n /\ \E i \in 1 .. Len(T) : T[i].table_name = m
      BY <3>1, <1>8
    <3>2. ASSUME NEW i \in 1 .. Len(T), T[i].table_name = m, m # n
          PROVE  \E j \in 1 .. Len(U) : U[j].table_name = m
      <4>1. PICK j \in 1 .. Len(U) : U[j] = T[i]
        BY <3>2, <1>8
      <4> QED BY <4>1, <3>2
    <3> QED BY <3>1, <3>2
  <2>2. \A m : m \in DOMAIN Loaded(U, D) <=> m \in DOMAIN table_info /\ m # n
    BY <2>1, <1>19, <1>20
  <2> QED BY <2>2
<1>22. ASSUME NEW m \in DOMAIN table_info \ {n} PROVE Loaded(U, D)[m] = table_info[m]
  <2>1. PICK k \in 1 .. Len(T) : T[k].table_name = m
    BY <1>19
  <2>2. PICK l \in 1 .. Len(U) : U[l] = T[k]
    BY <2>1, <1>8
  <2>3. /\ \A i, j \in 1 .. Len(T) : T[i].table_name = T[j].table_name => i = j
        /\ \A i, j \in 1 .. Len(U) : U[i].table_name = U[j].table_name => i = j
    BY <1>2, <1>4 DEF ListedOnce, T, U
  <2>4. /\ \A i \in 1 .. Len(C) : C[i].rel_name = T[k].table_name => \E j \in 1 .. Len(D) : D[j] = C[i]
        /\ \A j \in 1 .. Len(D) : D[j].rel_name = T[k].table_name => \E i \in 1 .. Len(C) : C[i] = D[j]
    BY <2>1, <1>14, <1>15
  <2>5. SaysTheSame(T, C, k, U, D, l)
    BY <2>2, <2>3, <2>4, <1>2, <1>4, <1>6, <1>7, <1>16, <1>17 DEF SaysTheSame
  <2>6. Loaded(T, C)[T[k].table_name] = Loaded(U, D)[T[k].table_name]
    BY <2>5, LoadsAlike
  <2> QED BY <2>1, <2>6, <1>7
<1>23. table_info' = Loaded(U, D)
  <2>1. table_info' = [m \in DOMAIN table_info \ {n} |-> table_info[m]]
    BY <1>1 DEF Erase
  <2> QED BY <2>1, <1>20, <1>21, <1>22
<1> QED BY <1>16, <1>17, <1>18, <1>23 DEF CatalogInv, CatalogReloads, U, D

LEMMA CatalogFirstStart ==
  ASSUME FirstStart
  PROVE  CatalogInv'
<1> DEFINE C1 == <<>> \o ColumnRows(TableCatalog, TableCatalogSchema)
           D == C1 \o ColumnRows(ColumnCatalog, ColumnCatalogSchema)
           U == InitialTableRows
<1>1. up' = TRUE /\ table_catalog' = U /\ column_catalog' = InitialColumnRows
      /\ table_info' = Loaded(U, InitialColumnRows)
  BY DEF FirstStart
<1>2. /\ Len(TableCatalogSchema) = 3 /\ DOMAIN TableCatalogSchema = 1 .. 3
      /\ Len(ColumnCatalogSchema) = 4 /\ DOMAIN ColumnCatalogSchema = 1 .. 4
  BY DEF TableCatalogSchema, ColumnCatalogSchema
<1>3. TableCatalog # ColumnCatalog
  BY ManagerAssumption
<1>4. AddsColumns(<<>>, TableCatalog, TableCatalogSchema, C1)
  <2>1. IsRows(<<>>) /\ ColumnsOnce(<<>>) /\ \A i \in 1 .. Len(<<>>) : FALSE
    BY DEF IsRows, ColumnsOnce
  <2> QED BY <2>1, <1>2 DEF AddsColumns
<1>5. /\ IsRows(C1) /\ Len(C1) = 3 /\ ColumnsOnce(C1)
      /\ \A i \in 1 .. 3 : C1[i].rel_name = TableCatalog /\ C1[i].position = i - 1
  <2> HIDE DEF C1
  <2>1. /\ IsRows(C1) /\ Len(C1) = Len(<<>>) + Len(TableCatalogSchema) /\ ColumnsOnce(C1)
        /\ \A i \in 1 .. Len(TableCatalogSchema) :
             C1[Len(<<>>) + i].rel_name = TableCatalog /\ C1[Len(<<>>) + i].position = i - 1
    BY <1>4, ColumnsAppended
  <2>2. Len(<<>>) = 0 /\ \A i \in 1 .. 3 : 0 + i = i
    OBVIOUS
  <2> QED BY <2>1, <2>2, <1>2
<1>6. InitialColumnRows = D
  <2>1. ColumnRows(TableCatalog, TableCatalogSchema)
          = << [attr_name |-> TableCatalogSchema[1].name, rel_name |-> TableCatalog,
                type |-> TableCatalogSchema[1].type, position |-> 0],
               [attr_name |-> TableCatalogSchema[2].name, rel_name |-> TableCatalog,
                type |-> TableCatalogSchema[2].type, position |-> 1],
               [attr_name |-> TableCatalogSchema[3].name, rel_name |-> TableCatalog,
                type |-> TableCatalogSchema[3].type, position |-> 2] >>
    BY <1>2 DEF ColumnRows
  <2>2. C1 = ColumnRows(TableCatalog, TableCatalogSchema)
    BY <2>1
  <2> QED BY <2>2 DEF InitialColumnRows
<1> HIDE DEF C1
<1>7. AddsColumns(C1, ColumnCatalog, ColumnCatalogSchema, D)
  BY <1>2, <1>3, <1>5 DEF AddsColumns
<1> HIDE DEF D
<1>8. /\ IsRows(D) /\ Len(D) = 7 /\ ColumnsOnce(D)
      /\ \A i \in 1 .. 3 : D[i].rel_name = TableCatalog /\ D[i].position = i - 1
      /\ \A i \in 1 .. 4 : D[3 + i].rel_name = ColumnCatalog /\ D[3 + i].position = i - 1
  <2>1. /\ IsRows(D) /\ Len(D) = Len(C1) + Len(ColumnCatalogSchema) /\ ColumnsOnce(D)
        /\ \A i \in 1 .. Len(C1) : D[i] = C1[i]
        /\ \A i \in 1 .. Len(ColumnCatalogSchema) :
             D[Len(C1) + i].rel_name = ColumnCatalog /\ D[Len(C1) + i].position = i - 1
    BY <1>7, ColumnsAppended
  <2> QED BY <2>1, <1>2, <1>5
<1>9. /\ DOMAIN U = 1 .. 2
      /\ U[1].table_name = TableCatalog /\ U[1].num_attributes = 3
      /\ U[2].table_name = ColumnCatalog /\ U[2].num_attributes = 4
  BY <1>2 DEF InitialTableRows, TableRow
<1> HIDE DEF U
<1>10. Loadable(U, D)
  <2>1. DOMAIN D = 1 .. 7
    BY <1>8 DEF IsRows
  <2> SUFFICES ASSUME NEW j \in 1 .. 7
               PROVE  \E i \in 1 .. 2 : /\ U[i].table_name = D[j].rel_name
                                        /\ D[j].position < U[i].num_attributes
    BY <2>1, <1>9 DEF Loadable
  <2>2. CASE j \in 1 .. 3
    <3>1. U[1].table_name = D[j].rel_name /\ D[j].position < U[1].num_attributes
      BY <2>2, <1>8, <1>9
    <3> QED BY <3>1
  <2>3. CASE j \notin 1 .. 3
    <3>1. j - 3 \in 1 .. 4 /\ 3 + (j - 3) = j
      BY <2>3
    <3>2. D[j].rel_name = ColumnCatalog /\ D[j].position = (j - 3) - 1
      BY <3>1, <1>8
    <3>3. U[2].table_name = D[j].rel_name /\ D[j].position < U[2].num_attributes
      BY <3>1, <3>2, <1>9
    <3> QED BY <3>3
  <2> QED BY <2>2, <2>3
<1> QED BY <1>1, <1>6, <1>8, <1>10 DEF CatalogInv, CatalogReloads

LEMMA CatalogStep ==
  ASSUME StorageInv, CatalogInv, [ExecutorNext]_executorVars
  PROVE  CatalogInv'
<1>1. CASE FirstStart
  BY <1>1, CatalogFirstStart
<1>2. CASE Restart
  BY <1>2 DEF Restart, CatalogInv, CatalogReloads
<1>3. CASE Shutdown
  <2>1. ~up' /\ UNCHANGED <<table_catalog, column_catalog>>
    BY <1>3 DEF Shutdown
  <2> QED BY <2>1 DEF CatalogInv, CatalogReloads
<1>4. ASSUME NEW c \in Creatable, Create(c.name, c.type, c.schema) PROVE CatalogInv'
  BY <1>4, CatalogCreate DEF Create
<1>5. ASSUME NEW n \in TableNames, DeleteTable(n) PROVE CatalogInv'
  BY <1>5, CatalogDelete
\* Everything else leaves the catalog alone.
<1>6. ASSUME UNCHANGED <<up, catalogVars>> PROVE CatalogInv'
  BY <1>6 DEF catalogVars, CatalogInv, CatalogReloads
<1>7. ASSUME NEW n, NEW i, NEW values,
             HandleInsert(n, i, values) \/ HandleDelete(n, i) \/ HandleUpdate(n, i, values)
      PROVE  CatalogInv'
  <2>1. HandleCall
    BY <1>7 DEF HandleInsert, HandleDelete, HandleUpdate, StoreRow, RemoveRow, ReplaceRow
  <2> QED BY <2>1, <1>6 DEF HandleCall
<1>8. ASSUME NEW c \in Creatable, Managed(CreateTableFails(c.name, c.type)) PROVE CatalogInv'
  BY <1>6, <1>8 DEF Managed, CreateTableFails
<1>9. ASSUME NEW n \in TableNames, Drop(n) PROVE CatalogInv'
  BY <1>5, <1>6, <1>9 DEF Drop, Managed, DeleteTableFails
<1>10. ASSUME NEW n, NEW texts, NEW stmt, Insert(n, texts) \/ InsertFails(n, texts) \/ Select(n, stmt)
       PROVE  CatalogInv'
  BY <1>6, <1>7, <1>10 DEF Insert, InsertFails, Select, Returns
<1>11. CASE DeleteOrUpdate
  BY <1>6, <1>11 DEF DeleteOrUpdate, Returns
<1>12. CASE UNCHANGED executorVars
  BY <1>6, <1>12 DEF executorVars, managerVars
<1> QED BY <1>1, <1>2, <1>3, <1>4, <1>7, <1>8, <1>9, <1>10, <1>11, <1>12 DEF ExecutorNext, Managed

LEMMA CatalogInit == ExecutorInit => CatalogInv
<1> SUFFICES ASSUME ExecutorInit PROVE CatalogInv
  OBVIOUS
<1>1. ~up /\ table_catalog = <<>> /\ column_catalog = <<>>
  BY DEF ExecutorInit, ManagerInit
<1>2. IsRows(<<>>) /\ ColumnsOnce(<<>>) /\ Loadable(<<>>, <<>>)
  BY DEF IsRows, ColumnsOnce, Loadable
<1> QED BY <1>1, <1>2 DEF CatalogInv, CatalogReloads

\* The cache of the catalog is, at every moment, what a restart would load from the
\* two catalog tables, for any tables and schemas: AddTable, RemoveTable and the
\* starts never let them drift apart, and LoadColumnSchemas never writes outside the
\* schema LoadTableSchemas made room for (catalog.cpp:55-150).
THEOREM CatalogStaysLoadable == ExecutorSpec => []CatalogReloads
<1>1. ExecutorInit => CatalogInv
  BY CatalogInit
<1>2. StorageInv /\ CatalogInv /\ [ExecutorNext]_executorVars => CatalogInv'
  BY CatalogStep
<1>3. CatalogInv => CatalogReloads
  BY DEF CatalogInv
<1> QED BY <1>1, <1>2, <1>3, StorageAlways, PTL DEF ExecutorSpec

-----------------------------------------------------------------------------
(* Induction and recursion over numbers.  The library's theorems on both have  *)
(* operators for parameters; these have sets and functions.                    *)

LEMMA LeastNumber ==
  ASSUME NEW T \in SUBSET Nat, T # {}
  PROVE  \E n \in T : \A m \in T : n <= m
<1> DEFINE R == OpToRel(<, Nat)
<1>1. IsWellFoundedOn(R, Nat)
  BY NatLessThanWellFounded
<1>2. PICK n \in T : \A m \in T : ~(<<m, n>> \in R)
  <2> HIDE DEF R
  <2> QED BY <1>1, WFMin
<1>3. \A m \in T : ~(m < n)
  BY <1>2 DEF OpToRel
<1> QED BY <1>3

LEMMA Induction ==
  ASSUME NEW n \in Nat, NEW T, 0 \in T, \A i \in 0 .. n : i < n /\ i \in T => i + 1 \in T
  PROVE  \A i \in 0 .. n : i \in T
<1> DEFINE Bad == {i \in 0 .. n : i \notin T}
<1> SUFFICES ASSUME Bad # {} PROVE FALSE
  OBVIOUS
<1>1. PICK i \in Bad : \A j \in Bad : i <= j
  <2>1. Bad \in SUBSET Nat
    OBVIOUS
  <2> HIDE DEF Bad
  <2> QED BY <2>1, LeastNumber
<1>2. i # 0 /\ i - 1 \in 0 .. n /\ i - 1 < n /\ i - 1 + 1 = i
  OBVIOUS
<1>3. i - 1 \in T
  BY <1>1, <1>2
<1> QED BY <1>2, <1>3

\* A function on 0 .. n whose values come one from the other.
Iterated(n, V, e, g, f) ==
  /\ f \in [0 .. n -> V] /\ f[0] = e
  /\ \A i \in 1 .. n : f[i] = g[<<i, f[i - 1]>>]

LEMMA Recursion ==
  ASSUME NEW n \in Nat, NEW V, NEW e \in V, NEW g \in [(1 .. n) \X V -> V]
  PROVE  \E f : Iterated(n, V, e, g, f)
<1> DEFINE T == {m \in 0 .. n : \E f : Iterated(m, V, e, g, f)}
<1>1. 0 \in T
  <2>1. Iterated(0, V, e, g, [i \in 0 .. 0 |-> e])
    BY DEF Iterated
  <2> QED BY <2>1
<1>2. ASSUME NEW m \in 0 .. n, m < n, m \in T PROVE m + 1 \in T
  <2>1. PICK f : Iterated(m, V, e, g, f)
    BY <1>2
  <2> DEFINE h == [i \in 0 .. m + 1 |-> IF i = m + 1 THEN g[<<m + 1, f[m]>>] ELSE f[i]]
  <2>2. m \in Nat /\ m + 1 \in 1 .. n /\ f[m] \in V /\ g[<<m + 1, f[m]>>] \in V
    BY <1>2, <2>1 DEF Iterated
  <2>3. h \in [0 .. m + 1 -> V] /\ h[0] = e
    BY <2>1, <2>2 DEF Iterated
  <2>4. ASSUME NEW i \in 1 .. m + 1 PROVE h[i] = g[<<i, h[i - 1]>>]
    <3>1. CASE i = m + 1
      <4>1. m \in 0 .. m + 1 /\ m # m + 1 /\ m + 1 \in 0 .. m + 1 /\ i - 1 = m
        BY <3>1, <2>2
      <4>2. h[i - 1] = f[m] /\ h[i] = g[<<m + 1, f[m]>>]
        BY <4>1, <3>1
      <4> HIDE DEF h
      <4> QED BY <3>1, <4>2
    <3>2. CASE i # m + 1
      <4>1. i \in 1 .. m /\ i \in 0 .. m + 1 /\ i - 1 \in 0 .. m + 1 /\ i - 1 # m + 1
        BY <3>2, <2>2
      <4> QED BY <4>1, <3>2, <2>1 DEF Iterated
    <3> QED BY <3>1, <3>2
  <2>5. Iterated(m + 1, V, e, g, h)
    <3> HIDE DEF h
    <3> QED BY <2>3, <2>4 DEF Iterated
  <2> HIDE DEF h
  <2> QED BY <2>2, <2>5
<1> HIDE DEF T
<1>3. n \in T
  BY <1>1, <1>2, Induction
<1> QED BY <1>3 DEF T

\* The same without an end.
Endless(V, e, g, f) ==
  f \in [Nat -> V] /\ f[0] = e /\ \A n \in Nat : f[n + 1] = g[<<n + 1, f[n]>>]

LEMMA EndlessRecursion ==
  ASSUME NEW V, NEW e \in V, NEW g \in [Nat \X V -> V]
  PROVE  \E f : Endless(V, e, g, f)
<1> DEFINE G(n) == [p \in (1 .. n) \X V |-> g[p]]
           Upto(n, f) == Iterated(n, V, e, G(n), f)
           F == [n \in Nat |-> CHOOSE f : Upto(n, f)]
<1>1. ASSUME NEW n \in Nat PROVE Upto(n, F[n])
  <2>1. G(n) \in [(1 .. n) \X V -> V]
    OBVIOUS
  <2> HIDE DEF G
  <2>2. \E f : Upto(n, f)
    BY <2>1, Recursion
  <2> HIDE DEF Upto
  <2> QED BY <2>2
<1>2. ASSUME NEW n \in Nat, NEW h, NEW k, Upto(n, h), Upto(n + 1, k) PROVE h[n] = k[n]
  <2> DEFINE T == {i \in 0 .. n : h[i] = k[i]}
  <2>1. 0 \in T
    BY <1>2 DEF Iterated
  <2>2. ASSUME NEW i \in 0 .. n, i < n, i \in T PROVE i + 1 \in T
    <3>1. i + 1 \in 1 .. n /\ i + 1 \in 1 .. n + 1 /\ i + 1 - 1 = i
      BY <2>2
    <3>2. h[i + 1] = G(n)[<<i + 1, h[i + 1 - 1]>>] /\ h[i] \in V
      <4> HIDE DEF G
      <4> QED BY <1>2, <3>1 DEF Iterated
    <3>3. k[i + 1] = G(n + 1)[<<i + 1, k[i + 1 - 1]>>]
      <4> HIDE DEF G
      <4> QED BY <1>2, <3>1 DEF Iterated
    <3>4. h[i] = k[i]
      BY <2>2
    <3>5. <<i + 1, h[i]>> \in (1 .. n) \X V /\ <<i + 1, h[i]>> \in (1 .. n + 1) \X V
      BY <3>1, <3>2
    <3>6. G(n)[<<i + 1, h[i]>>] = G(n + 1)[<<i + 1, h[i]>>]
      BY <3>5
    <3>7. h[i + 1] = k[i + 1]
      <4> HIDE DEF G
      <4> QED BY <3>1, <3>2, <3>3, <3>4, <3>6
    <3> QED BY <3>1, <3>7
  <2> HIDE DEF T
  <2>3. n \in T
    BY <2>1, <2>2, Induction
  <2> QED BY <2>3 DEF T
<1> DEFINE r == [n \in Nat |-> F[n][n]]
<1>3. ASSUME NEW n \in Nat PROVE F[n][n] \in V /\ F[n][0] = e
  <2> HIDE DEF F
  <2>1. Iterated(n, V, e, G(n), F[n])
    BY <1>1
  <2> HIDE DEF G
  <2> QED BY <2>1 DEF Iterated
<1>4. ASSUME NEW n \in Nat PROVE F[n + 1][n + 1] = g[<<n + 1, F[n][n]>>]
  <2>1. Upto(n, F[n]) /\ Upto(n + 1, F[n + 1])
    <3> HIDE DEF F, Upto
    <3>1. n + 1 \in Nat
      OBVIOUS
    <3> QED BY <1>1, <3>1
  <2>2. F[n][n] = F[n + 1][n]
    <3> HIDE DEF F, Upto
    <3> QED BY <2>1, <1>2
  <2> HIDE DEF F
  <2>3. n + 1 \in 1 .. n + 1 /\ n + 1 - 1 = n /\ F[n + 1][n] \in V
    BY <2>1 DEF Iterated
  <2>4. F[n + 1][n + 1] = G(n + 1)[<<n + 1, F[n + 1][n + 1 - 1]>>]
    <3> HIDE DEF G
    <3> QED BY <2>1, <2>3 DEF Iterated
  <2> QED BY <2>2, <2>3, <2>4
<1> HIDE DEF F
<1>5. r \in [Nat -> V] /\ r[0] = e /\ \A n \in Nat : r[n + 1] = g[<<n + 1, r[n]>>]
  BY <1>3, <1>4
<1> HIDE DEF r
<1> QED BY <1>5 DEF Endless
-----------------------------------------------------------------------------
(* Powers and remainders. *)

LEMMA PowerOf ==
  /\ Power[0] = 1
  /\ \A w \in Nat : Power[w] \in Nat \ {0} /\ Power[w + 1] = Base * Power[w]
<1> DEFINE V == Nat \ {0}
           g == [p \in Nat \X V |-> Base * p[2]]
<1>1. 1 \in V /\ g \in [Nat \X V -> V]
  <2>1. \A a, b \in Nat \ {0} : a * b \in Nat \ {0}
    OBVIOUS
  <2>2. Base \in Nat \ {0}
    BY CodecAssumption
  <2>3. ASSUME NEW p \in Nat \X V PROVE Base * p[2] \in V
    BY <2>1, <2>2
  <2> QED BY <2>3
<1>2. PICK f \in [Nat -> V] : f[0] = 1 /\ \A n \in Nat : f[n + 1] = g[<<n + 1, f[n]>>]
  <2> HIDE DEF V, g
  <2>1. PICK f : Endless(V, 1, g, f)
    BY <1>1, EndlessRecursion
  <2> QED BY <2>1 DEF Endless
<1>3. ASSUME NEW n \in Nat PROVE f[n + 1] = Base * f[n]
  <2>1. f[n] \in V /\ n + 1 \in Nat
    BY <1>2
  <2>2. <<n + 1, f[n]>> \in Nat \X V
    BY <2>1
  <2>3. g[<<n + 1, f[n]>>] = Base * f[n]
    BY <2>2
  <2> HIDE DEF g, V
  <2> QED BY <1>2, <2>3
<1> HIDE DEF g
<1>4. f = [w \in Nat |-> IF w = 0 THEN 1 ELSE Base * f[w - 1]]
  <2>1. ASSUME NEW w \in Nat PROVE f[w] = IF w = 0 THEN 1 ELSE Base * f[w - 1]
    <3>1. CASE w = 0
      BY <3>1, <1>2
    <3>2. CASE w # 0
      <4>1. w - 1 \in Nat /\ w - 1 + 1 = w
        BY <3>2
      <4>2. f[w - 1 + 1] = Base * f[w - 1]
        BY <4>1, <1>3
      <4> QED BY <3>2, <4>1, <4>2
    <3> QED BY <3>1, <3>2
  <2> QED BY <2>1, <1>2
<1>5. Power = [w \in Nat |-> IF w = 0 THEN 1 ELSE Base * Power[w - 1]]
  BY <1>4 DEF Power
<1> HIDE DEF V
<1> DEFINE T(n) == {i \in 0 .. n : Power[i] \in Nat \ {0}}
<1>6. ASSUME NEW w \in Nat PROVE Power[w + 1] = Base * Power[w]
  <2>1. w + 1 \in Nat /\ w + 1 # 0 /\ w + 1 - 1 = w
    OBVIOUS
  <2>2. Power[w + 1] = IF w + 1 = 0 THEN 1 ELSE Base * Power[w + 1 - 1]
    BY <1>5, <2>1
  <2> QED BY <2>1, <2>2
<1>7. Power[0] = 1
  BY <1>5
<1>8. ASSUME NEW n \in Nat PROVE Power[n] \in Nat \ {0}
  <2>1. 0 \in T(n)
    BY <1>7
  <2>2. ASSUME NEW i \in 0 .. n, i < n, i \in T(n) PROVE i + 1 \in T(n)
    <3>1. Power[i + 1] = Base * Power[i] /\ Power[i] \in Nat \ {0} /\ i + 1 \in 0 .. n
      BY <1>6, <2>2
    <3>2. \A a, b \in Nat \ {0} : a * b \in Nat \ {0}
      OBVIOUS
    <3>3. Base * Power[i] \in Nat \ {0}
      BY <3>1, <3>2, CodecAssumption
    <3> QED BY <3>1, <3>3
  <2> HIDE DEF T
  <2>3. n \in T(n)
    BY <2>1, <2>2, Induction
  <2> QED BY <2>3 DEF T
<1> QED BY <1>6, <1>7, <1>8

LEMMA Division ==
  ASSUME NEW a \in Int, NEW m \in Nat \ {0}
  PROVE  /\ a \div m \in Int /\ a % m \in 0 .. m - 1
         /\ a = m * (a \div m) + (a % m)
<1>1. a \div m \in Int
  OBVIOUS
<1>2. a % m \in 0 .. m - 1
  OBVIOUS
<1>3. a = m * (a \div m) + (a % m)
  OBVIOUS
<1> QED BY <1>1, <1>2, <1>3

\* Quotient and remainder are the only ones.
LEMMA Remainder ==
  ASSUME NEW m \in Nat \ {0}, NEW q \in Int, NEW r \in 0 .. m - 1
  PROVE  (m * q + r) % m = r
<1> DEFINE a == m * q + r
<1>1. a \in Int
  OBVIOUS
<1>2. a \div m \in Int /\ a % m \in 0 .. m - 1 /\ a = m * (a \div m) + (a % m)
  BY <1>1, Division
<1> DEFINE p == a \div m
           s == a % m
<1>3. p \in Int /\ s \in 0 .. m - 1 /\ m * q + r = m * p + s
  BY <1>2
<1> HIDE DEF p, s
<1>4. m * (q - p) = s - r
  BY <1>3
<1>5. s - r < m /\ s - r > -m
  BY <1>3
<1>6. q - p = 0
  <2>1. CASE q - p >= 1
    <3>1. m * (q - p) >= m
      BY <1>3, <2>1
    <3> QED BY <1>4, <1>5, <3>1, <1>3
  <2>2. CASE q - p <= -1
    <3>1. m * (q - p) <= -m
      BY <1>3, <2>2
    <3> QED BY <1>4, <1>5, <3>1, <1>3
  <2> QED BY <2>1, <2>2, <1>3
<1>7. s = r
  BY <1>3, <1>4, <1>6
<1> QED BY <1>7 DEF s

\* One more digit.
LEMMA OneMoreDigit ==
  ASSUME NEW n \in Int, NEW P \in Nat \ {0}, NEW B \in Nat \ {0}
  PROVE  n % (B * P) = (n % P) + ((n \div P) % B) * P
<1> DEFINE q == n \div P
           r == n % P
           u == q \div B
           d == q % B
<1>1. q \in Int /\ r \in 0 .. P - 1 /\ n = P * q + r
  BY Division
<1> HIDE DEF q, r
<1>2. u \in Int /\ d \in 0 .. B - 1 /\ q = B * u + d
  BY <1>1, Division
<1> HIDE DEF u, d
<1>3. n = (B * P) * u + (d * P + r)
  BY <1>1, <1>2
<1>4. B * P \in Nat \ {0}
  OBVIOUS
<1>5. d * P + r \in 0 .. B * P - 1
  <2>1. d * P <= (B - 1) * P /\ d * P >= 0
    BY <1>2
  <2>2. (B - 1) * P = B * P - P
    OBVIOUS
  <2>3. d * P \in Int /\ B * P \in Int
    BY <1>2
  <2> QED BY <1>1, <2>1, <2>2, <2>3
<1>6. n % (B * P) = d * P + r
  <2> DEFINE M == B * P
             s == d * P + r
  <2>1. M \in Nat \ {0} /\ s \in 0 .. M - 1 /\ n = M * u + s
    BY <1>3, <1>4, <1>5
  <2> HIDE DEF M, s
  <2>2. n % M = s
    BY <1>2, <2>1, Remainder
  <2> QED BY <2>2 DEF M, s
<1>7. d * P \in Int /\ r \in Int
  BY <1>1, <1>2
<1> QED BY <1>6, <1>7 DEF r, d, q

-----------------------------------------------------------------------------
(* Numbers as bytes. *)

LEMMA ListOf ==
  ASSUME NEW n \in Nat, NEW S, NEW f \in [1 .. n -> S]
  PROVE  f \in Seq(S) /\ Len(f) = n /\ DOMAIN f = 1 .. n
<1>1. f \in Seq(S)
  OBVIOUS
<1>2. Len(f) = n
  BY <1>1
<1> QED BY <1>1, <1>2

\* The loop of Unsigned.
LEMMA UnsignedOf ==
  ASSUME NEW b \in Seq(Int)
  PROVE  \E low \in [0 .. Len(b) -> Int] :
           /\ low[0] = 0
           /\ \A i \in 1 .. Len(b) : low[i] = low[i - 1] + b[i] * Power[i - 1]
           /\ Unsigned(b) = low[Len(b)]
<1> DEFINE n == Len(b)
           g == [p \in (1 .. n) \X Int |-> p[2] + b[p[1]] * Power[p[1] - 1]]
           Is(f) == f = [i \in 0 .. n |-> IF i = 0 THEN 0 ELSE f[i - 1] + b[i] * Power[i - 1]]
           low == CHOOSE f : Is(f)
<1>1. n \in Nat /\ \A i \in 1 .. n : b[i] * Power[i - 1] \in Int
  <2>1. ASSUME NEW i \in 1 .. n PROVE b[i] * Power[i - 1] \in Int
    <3>1. i - 1 \in Nat /\ b[i] \in Int
      OBVIOUS
    <3>2. Power[i - 1] \in Nat \ {0}
      BY <3>1, PowerOf
    <3> QED BY <3>1, <3>2
  <2> QED BY <2>1
<1> HIDE DEF n
<1>2. g \in [(1 .. n) \X Int -> Int]
  BY <1>1
<1>3. PICK f : Iterated(n, Int, 0, g, f)
  <2> HIDE DEF g
  <2>1. 0 \in Int
    OBVIOUS
  <2> QED BY <1>1, <1>2, <2>1, Recursion
<1>4. ASSUME NEW i \in 1 .. n PROVE f[i] = f[i - 1] + b[i] * Power[i - 1]
  <2>1. f[i] = g[<<i, f[i - 1]>>] /\ f[i - 1] \in Int
    <3> HIDE DEF g
    <3> QED BY <1>1, <1>3 DEF Iterated
  <2>2. <<i, f[i - 1]>> \in (1 .. n) \X Int
    BY <2>1
  <2> QED BY <2>1, <2>2
<1> HIDE DEF g
<1>5. Is(f)
  <2>1. f \in [0 .. n -> Int] /\ f[0] = 0
    BY <1>3 DEF Iterated
  <2>2. ASSUME NEW i \in 0 .. n, i # 0 PROVE i \in 1 .. n
    BY <1>1, <2>2
  <2> QED BY <2>1, <2>2, <1>4
<1>6. Is(low)
  <2> HIDE DEF Is
  <2> QED BY <1>5
<1>7. Unsigned(b) = low[n]
  BY DEF Unsigned, n
<1> HIDE DEF low
<1>8. low[0] = 0
  BY <1>1, <1>6
<1>9. ASSUME NEW i \in 1 .. n PROVE low[i] = low[i - 1] + b[i] * Power[i - 1]
  BY <1>1, <1>6
<1> DEFINE T == {i \in 0 .. n : low[i] \in Int}
<1>10. \A i \in 0 .. n : i \in T
  <2>1. 0 \in T
    BY <1>1, <1>8
  <2>2. ASSUME NEW i \in 0 .. n, i < n, i \in T PROVE i + 1 \in T
    <3>1. i + 1 \in 1 .. n /\ i + 1 - 1 = i /\ i + 1 \in 0 .. n
      BY <1>1, <2>2
    <3>2. low[i + 1] = low[i] + b[i + 1] * Power[i + 1 - 1]
      BY <1>9, <3>1
    <3>3. b[i + 1] * Power[i + 1 - 1] \in Int
      BY <3>1, <1>1
    <3> QED BY <2>2, <3>1, <3>2, <3>3
  <2> HIDE DEF T
  <2> QED BY <1>1, <2>1, <2>2, Induction
<1>11. low \in [0 .. n -> Int]
  <2>1. DOMAIN low = 0 .. n /\ low = [i \in DOMAIN low |-> low[i]]
    BY <1>6
  <2> HIDE DEF Is
  <2> QED BY <1>10, <2>1
<1> QED BY <1>7, <1>8, <1>9, <1>11 DEF n

\* A number in w bytes: its remainder modulo Base ^ w.
LEMMA BytesOfNumber ==
  ASSUME NEW n \in Int, NEW w \in Nat
  PROVE  /\ FixedToBytes(n, w) \in Seq(0 .. Base - 1) /\ Len(FixedToBytes(n, w)) = w
         /\ Unsigned(FixedToBytes(n, w)) = n % Power[w]
<1> DEFINE b == FixedToBytes(n, w)
<1>1. ASSUME NEW i \in 1 .. w
      PROVE  /\ b[i] = (n \div Power[i - 1]) % Base /\ b[i] \in 0 .. Base - 1
             /\ i - 1 \in Nat /\ Power[i - 1] \in Nat \ {0} /\ Power[i] = Base * Power[i - 1]
  <2>1. i - 1 \in Nat /\ i - 1 + 1 = i
    OBVIOUS
  <2>2. Power[i - 1] \in Nat \ {0} /\ Power[i - 1 + 1] = Base * Power[i - 1]
    BY <2>1, PowerOf
  <2>3. n \div Power[i - 1] \in Int
    BY <2>2, Division
  <2>4. b[i] = (n \div Power[i - 1]) % Base
    BY DEF FixedToBytes
  <2>5. (n \div Power[i - 1]) % Base \in 0 .. Base - 1
    BY <2>3, Division, CodecAssumption
  <2> QED BY <2>1, <2>2, <2>4, <2>5
<1>2. b \in Seq(0 .. Base - 1) /\ Len(b) = w
  <2>1. b = [i \in 1 .. w |-> b[i]]
    BY DEF FixedToBytes
  <2> HIDE DEF b
  <2>2. b \in [1 .. w -> 0 .. Base - 1]
    BY <1>1, <2>1
  <2> QED BY <2>2, ListOf
<1> HIDE DEF b
<1>3. b \in Seq(Int)
  BY <1>2, CodecAssumption
<1>4. PICK low \in [0 .. w -> Int] :
        /\ low[0] = 0
        /\ \A i \in 1 .. w : low[i] = low[i - 1] + b[i] * Power[i - 1]
        /\ Unsigned(b) = low[w]
  BY <1>2, <1>3, UnsignedOf
<1> DEFINE T == {i \in 0 .. w : low[i] = n % Power[i]}
<1>5. 0 \in T
  <2>1. n % 1 = 0
    OBVIOUS
  <2> QED BY <1>4, <2>1, PowerOf
<1>6. ASSUME NEW i \in 0 .. w, i < w, i \in T PROVE i + 1 \in T
  <2>1. i + 1 \in 1 .. w /\ i + 1 - 1 = i
    BY <1>6
  <2> DEFINE P == Power[i]
  <2>2. P \in Nat \ {0} /\ Power[i + 1] = Base * P /\ b[i + 1] = (n \div P) % Base
    BY <1>1, <2>1
  <2>3. low[i + 1] = low[i] + b[i + 1] * P
    BY <1>4, <2>1
  <2>4. low[i] = n % P
    BY <1>6
  <2> HIDE DEF P
  <2>5. n % (Base * P) = (n % P) + ((n \div P) % Base) * P
    BY <2>2, OneMoreDigit, CodecAssumption
  <2> QED BY <2>1, <2>2, <2>3, <2>4, <2>5
<1> HIDE DEF T
<1>7. w \in T
  <2>1. \A i \in 0 .. w : i \in T
    BY <1>5, <1>6, Induction
  <2> QED BY <2>1
<1> QED BY <1>2, <1>4, <1>7 DEF T, b

\* A number of a type is read back.
LEMMA NumberReadBack ==
  ASSUME NEW t \in TypeIds \ {"String"}, NEW n \in Int, InRange(t, n)
  PROVE  FixedFromBytes(t, FixedToBytes(n, Width[t])) = n
<1> DEFINE N == Power[Width[t]]
           u == Unsigned(FixedToBytes(n, Width[t]))
<1>1. Width[t] \in Nat
  BY CodecAssumption
<1>2. N \in Nat \ {0} /\ u = n % N
  BY <1>1, PowerOf, BytesOfNumber
<1> HIDE DEF u
<1>3. FixedFromBytes(t, FixedToBytes(n, Width[t])) = IF InRange(t, u) THEN u ELSE u - N
  BY DEF FixedFromBytes, u
<1>4. InRange(t, n) <=> IF t \in Signed THEN -(N \div 2) <= n /\ n < N \div 2 ELSE 0 <= n /\ n < N
  BY DEF InRange
<1>5. InRange(t, u) <=> IF t \in Signed THEN -(N \div 2) <= u /\ u < N \div 2 ELSE 0 <= u /\ u < N
  BY DEF InRange
<1> HIDE DEF N
<1>6. N \div 2 \in Int /\ 2 * (N \div 2) <= N
  BY <1>2
<1>7. CASE 0 <= n
  <2>1. n \in 0 .. N - 1 /\ n = N * 0 + n
    BY <1>2, <1>4, <1>6, <1>7
  <2>2. u = n
    BY <1>2, <2>1, Remainder
  <2> QED BY <1>3, <2>2
<1>8. CASE n < 0
  <2>1. t \in Signed /\ -(N \div 2) <= n
    BY <1>4, <1>8
  <2>2. n + N \in 0 .. N - 1 /\ n = N * (-1) + (n + N)
    BY <1>2, <1>6, <1>8, <2>1
  <2>3. u = n + N
    <3> DEFINE r == n + N
    <3>1. r \in 0 .. N - 1 /\ n = N * (-1) + r
      BY <2>2
    <3> HIDE DEF r
    <3>2. (N * (-1) + r) % N = r
      BY <1>2, <3>1, Remainder
    <3> QED BY <1>2, <3>1, <3>2 DEF r
  <2>4. ~InRange(t, u)
    BY <1>2, <1>5, <1>6, <2>1, <2>3
  <2> QED BY <1>2, <1>3, <2>3, <2>4
<1> QED BY <1>7, <1>8

-----------------------------------------------------------------------------
(* Fields one after the other. *)

\* The loop of FlattenSeq.
LEMMA FlattenOf ==
  ASSUME NEW S, NEW parts \in Seq(Seq(S))
  PROVE  \E f \in [0 .. Len(parts) -> Seq(S)] :
           /\ f[0] = << >>
           /\ \A i \in 1 .. Len(parts) : f[i] = f[i - 1] \o parts[i]
           /\ FlattenSeq(parts) = f[Len(parts)]
<1> DEFINE n == Len(parts)
           V == Seq(S)
           g == [p \in (1 .. n) \X V |-> p[2] \o parts[p[1]]]
           Is(h) == h = [i \in 1 .. n |-> IF i = 1 THEN parts[i] ELSE h[i - 1] \o parts[i]]
           F == CHOOSE h : Is(h)
<1>1. n \in Nat /\ << >> \in V /\ \A i \in 1 .. n : parts[i] \in V
  OBVIOUS
<1>2. g \in [(1 .. n) \X V -> V]
  OBVIOUS
<1>3. PICK f : Iterated(n, V, << >>, g, f)
  <2> HIDE DEF g, n, V
  <2> QED BY <1>1, <1>2, Recursion
<1>4. f \in [0 .. n -> V] /\ f[0] = << >>
  BY <1>3 DEF Iterated
<1>5. ASSUME NEW i \in 1 .. n PROVE f[i] = f[i - 1] \o parts[i] /\ f[i - 1] \in V /\ f[i] \in V
  <2>1. f[i] = g[<<i, f[i - 1]>>] /\ i \in 0 .. n /\ i - 1 \in 0 .. n
    <3> HIDE DEF g
    <3> QED BY <1>1, <1>3 DEF Iterated
  <2>2. f[i - 1] \in V /\ f[i] \in V
    <3> HIDE DEF n, V, g
    <3> QED BY <2>1, <1>4
  <2>3. <<i, f[i - 1]>> \in (1 .. n) \X V
    BY <2>2
  <2> QED BY <2>1, <2>2, <2>3
<1> HIDE DEF g
<1>6. CASE n = 0
  <2>1. FlattenSeq(parts) = parts /\ parts = << >>
    BY <1>6 DEF FlattenSeq
  <2> QED BY <1>4, <1>5, <1>6, <2>1
<1>7. CASE n # 0
  <2>1. FlattenSeq(parts) = F[n]
    BY <1>7 DEF FlattenSeq
  <2>2. 1 \in 1 .. n /\ f[1] = parts[1]
    <3>1. 1 \in 1 .. n /\ 1 - 1 = 0
      BY <1>1, <1>7
    <3>2. f[1] = << >> \o parts[1] /\ parts[1] \in Seq(S)
      BY <3>1, <1>4, <1>5, <1>1
    <3> QED BY <3>1, <3>2
  <2> DEFINE h == [i \in 1 .. n |-> f[i]]
  <2>3. Is(h)
    <3>1. ASSUME NEW i \in 1 .. n PROVE h[i] = IF i = 1 THEN parts[i] ELSE h[i - 1] \o parts[i]
      <4>1. CASE i = 1
        BY <4>1, <2>2
      <4>2. CASE i # 1
        <5>1. i - 1 \in 1 .. n
          BY <4>2, <1>1
        <5>2. h[i - 1] = f[i - 1] /\ h[i] = f[i]
          BY <5>1
        <5> QED BY <5>2, <1>5, <4>2
      <4> QED BY <4>1, <4>2
    <3>2. h = [i \in 1 .. n |-> h[i]]
      OBVIOUS
    <3> HIDE DEF h
    <3> QED BY <3>1, <3>2
  <2>4. Is(F)
    <3> HIDE DEF Is, h
    <3> QED BY <2>3
  <2> HIDE DEF F
  <2> DEFINE T == {i \in 0 .. n : i # 0 => F[i] = f[i]}
  <2>5. 0 \in T
    BY <1>1
  <2>6. ASSUME NEW i \in 0 .. n, i < n, i \in T PROVE i + 1 \in T
    <3>1. i + 1 \in 1 .. n /\ i + 1 \in 0 .. n /\ i + 1 - 1 = i
      BY <1>1, <2>6
    <3>2. CASE i = 0
      <4>1. F[1] = parts[1]
        BY <2>4, <2>2
      <4> QED BY <4>1, <2>2, <3>1, <3>2
    <3>3. CASE i # 0
      <4>0. PICK m \in 1 .. n : m = i + 1 /\ m - 1 = i /\ m # 1
        <5>1. i \in Int /\ i + 1 # 1
          BY <3>3, <1>1
        <5> QED BY <3>1, <5>1
      <4>1. F[m] = F[m - 1] \o parts[m]
        <5> HIDE DEF n
        <5> QED BY <2>4, <4>0
      <4>2. f[m] = f[m - 1] \o parts[m]
        BY <1>5
      <4>3. F[i] = f[i]
        BY <2>6, <3>3
      <4> QED BY <4>0, <4>1, <4>2, <4>3, <3>1
    <3> QED BY <3>2, <3>3
  <2>7. F[n] = f[n]
    <3> HIDE DEF T
    <3>1. \A i \in 0 .. n : i \in T
      BY <1>1, <2>5, <2>6, Induction
    <3> QED BY <3>1, <1>1, <1>7 DEF T
  <2> QED BY <1>4, <1>5, <2>1, <2>7
<1> QED BY <1>6, <1>7

\* Where the parts begin in what FlattenSeq makes of them, and that they are there.
LEMMA Flattened ==
  ASSUME NEW S, NEW parts \in Seq(Seq(S))
  PROVE  /\ FlattenSeq(parts) \in Seq(S)
         /\ \E at \in [0 .. Len(parts) -> Nat] :
              /\ at[0] = 0 /\ at[Len(parts)] = Len(FlattenSeq(parts))
              /\ \A i \in 1 .. Len(parts) :
                   /\ at[i] = at[i - 1] + Len(parts[i])
                   /\ at[i] <= Len(FlattenSeq(parts))
                   /\ \A j \in 1 .. Len(parts[i]) : FlattenSeq(parts)[at[i - 1] + j] = parts[i][j]
<1> DEFINE n == Len(parts)
<1>1. PICK f \in [0 .. n -> Seq(S)] :
        f[0] = << >> /\ (\A i \in 1 .. n : f[i] = f[i - 1] \o parts[i]) /\ FlattenSeq(parts) = f[n]
  BY FlattenOf
<1> DEFINE at == [i \in 0 .. n |-> Len(f[i])]
<1>2. n \in Nat /\ \A i \in 1 .. n : parts[i] \in Seq(S)
  OBVIOUS
<1> HIDE DEF n
<1>3. at \in [0 .. n -> Nat] /\ at[0] = 0 /\ at[n] = Len(FlattenSeq(parts)) /\ FlattenSeq(parts) \in Seq(S)
  <2>1. n \in 0 .. n /\ 0 \in 0 .. n
    BY <1>2
  <2> QED BY <1>1, <1>2, <2>1
<1> DEFINE Stays(k, i) ==
      /\ at[i] <= Len(f[k])
      /\ \A j \in 1 .. Len(parts[i]) : f[k][at[i - 1] + j] = parts[i][j]
<1>4. ASSUME NEW i \in 1 .. n
      PROVE  /\ i \in 0 .. n /\ i - 1 \in 0 .. n /\ f[i - 1] \in Seq(S) /\ parts[i] \in Seq(S)
             /\ f[i] = f[i - 1] \o parts[i] /\ at[i - 1] = Len(f[i - 1])
             /\ at[i] = at[i - 1] + Len(parts[i])
  <2>0. i \in 0 .. n /\ i - 1 \in 0 .. n
    BY <1>2
  <2>1. i \in 0 .. n /\ i - 1 \in 0 .. n /\ f[i - 1] \in Seq(S) /\ f[i] = f[i - 1] \o parts[i]
    BY <1>1, <2>0
  <2>2. Len(f[i]) = Len(f[i - 1]) + Len(parts[i])
    BY <2>1, <1>2
  <2> QED BY <2>1, <2>2, <1>2
<1> DEFINE T == {k \in 0 .. n : \A i \in 1 .. k : Stays(k, i)}
<1>5. 0 \in T
  BY <1>2
<1>6. ASSUME NEW k \in 0 .. n, k < n, k \in T PROVE k + 1 \in T
  <2>1. k + 1 \in 1 .. n /\ k + 1 \in 0 .. n /\ k + 1 - 1 = k /\ k \in Nat
    BY <1>2, <1>6
  <2>2. /\ f[k] \in Seq(S) /\ parts[k + 1] \in Seq(S) /\ f[k + 1] = f[k] \o parts[k + 1]
        /\ at[k] = Len(f[k]) /\ at[k + 1] = Len(f[k]) + Len(parts[k + 1])
    <3> HIDE DEF at, Stays, T
    <3>1. PICK m \in 1 .. n : m = k + 1 /\ m - 1 = k
      BY <2>1
    <3>2. /\ f[m - 1] \in Seq(S) /\ parts[m] \in Seq(S) /\ f[m] = f[m - 1] \o parts[m]
          /\ at[m - 1] = Len(f[m - 1]) /\ at[m] = at[m - 1] + Len(parts[m])
      BY <1>4
    <3> QED BY <3>1, <3>2
  <2>3. ASSUME NEW i \in 1 .. k + 1 PROVE Stays(k + 1, i)
    <3>1. CASE i = k + 1
      <4>1. at[i] <= Len(f[k + 1])
        BY <3>1, <2>2
      <4>2. ASSUME NEW j \in 1 .. Len(parts[i]) PROVE f[k + 1][at[i - 1] + j] = parts[i][j]
        <5>1. at[i - 1] = Len(f[k]) /\ parts[i] \in Seq(S) /\ f[k + 1] = f[k] \o parts[i]
          BY <3>1, <2>1, <2>2
        <5>2. (f[k] \o parts[i])[Len(f[k]) + j] = parts[i][j]
          <6> DEFINE a == f[k]
                     b == parts[i]
          <6>1. a \in Seq(S) /\ b \in Seq(S) /\ j \in 1 .. Len(b)
            BY <5>1, <2>2
          <6> HIDE DEF a, b
          <6>2. (a \o b)[Len(a) + j] = b[j]
            BY <6>1
          <6> QED BY <6>2 DEF a, b
        <5> HIDE DEF at
        <5> QED BY <5>1, <5>2
      <4> QED BY <4>1, <4>2
    <3>2. CASE i # k + 1
      <4>1. i \in 1 .. k /\ i \in 1 .. n
        <5> HIDE DEF T
        <5> QED BY <1>2, <3>2, <2>1
      <4>2. Stays(k, i)
        BY <1>6, <4>1
      <4>3. at[i] \in Nat /\ at[i - 1] \in Nat /\ at[i] = at[i - 1] + Len(parts[i])
        BY <1>3, <1>4, <4>1
      <4>4. at[i] <= Len(f[k + 1])
        <5> HIDE DEF at
        <5> QED BY <4>2, <4>3, <2>2
      <4>5. ASSUME NEW j \in 1 .. Len(parts[i]) PROVE f[k + 1][at[i - 1] + j] = parts[i][j]
        <5>1. Len(parts[i]) \in Nat
          BY <1>2, <4>1
        <5>2. at[i - 1] + j \in 1 .. Len(f[k]) /\ f[k][at[i - 1] + j] = parts[i][j]
          <6>1. at[i] <= Len(f[k]) /\ f[k][at[i - 1] + j] = parts[i][j] /\ Len(f[k]) \in Nat
            <7>1. Len(f[k]) \in Nat
              BY <2>2
            <7> HIDE DEF at
            <7> QED BY <4>2, <7>1
          <6> DEFINE from == at[i - 1]
                     to == at[i]
                     len == Len(parts[i])
                     end == Len(f[k])
          <6>2. to \in Nat /\ from \in Nat /\ len \in Nat /\ end \in Nat
            BY <6>1, <4>3, <5>1
          <6>3. to = from + len /\ to <= end /\ j \in 1 .. len
            BY <6>1, <4>3
          <6> HIDE DEF from, to, len, end
          <6>4. from + j \in 1 .. end
            BY <6>2, <6>3
          <6> QED BY <6>1, <6>4 DEF from, end
        <5>3. f[k + 1][at[i - 1] + j] = f[k][at[i - 1] + j]
          <6> HIDE DEF at
          <6> QED BY <5>2, <2>2
        <5> QED BY <5>2, <5>3
      <4> QED BY <4>4, <4>5
    <3> QED BY <3>1, <3>2
  <2> HIDE DEF Stays
  <2> QED BY <2>1, <2>3
<1>7. n \in T
  <2> HIDE DEF T
  <2>1. \A k \in 0 .. n : k \in T
    BY <1>2, <1>5, <1>6, Induction
  <2> QED BY <2>1, <1>2
<1>8. \A i \in 1 .. n : Stays(n, i)
  <2> HIDE DEF Stays
  <2> QED BY <1>7
<1>9. \A i \in 1 .. n : at[i] = at[i - 1] + Len(parts[i])
  BY <1>4
<1>10. FlattenSeq(parts) = f[n]
  BY <1>1
<1> HIDE DEF at
<1> QED BY <1>3, <1>8, <1>9, <1>10 DEF n

-----------------------------------------------------------------------------
(* Rows are read back. *)

\* The bytes of a value.
LEMMA BytesOfValue ==
  ASSUME NEW v, IsValue(v), Encodable(v)
  PROVE  /\ ToBytes(v) \in Seq(0 .. Base - 1)
         /\ v.type = "String" =>
              /\ v.value \in Seq(0 .. Base - 1) /\ Len(v.value) \in 0 .. MaxLength
              /\ FixedToBytes(Len(v.value), LengthBytes) \in Seq(0 .. Base - 1)
              /\ Len(FixedToBytes(Len(v.value), LengthBytes)) = LengthBytes
              /\ Unsigned(FixedToBytes(Len(v.value), LengthBytes)) = Len(v.value)
              /\ Len(ToBytes(v)) = LengthBytes + Len(v.value)
         /\ v.type # "String" =>
              v.type \in TypeIds \ {"String"} /\ v.value \in Int /\ InRange(v.type, v.value)
                /\ Len(ToBytes(v)) = Width[v.type]
<1>1. CASE v.type = "String"
  <2> DEFINE prefix == FixedToBytes(Len(v.value), LengthBytes)
             P == Power[LengthBytes]
             m == Len(v.value)
  <2>1. v.value \in Seq(0 .. Base - 1) /\ m \in Nat /\ m <= P - 1 /\ LengthBytes \in Nat
    BY <1>1, CodecAssumption DEF IsValue, Encodable, MaxLength, TypeIds
  <2>2. P \in Nat \ {0}
    BY <2>1, PowerOf
  <2>3. prefix \in Seq(0 .. Base - 1) /\ Len(prefix) = LengthBytes /\ Unsigned(prefix) = m % P
    BY <2>1, BytesOfNumber
  <2>4. m \in 0 .. MaxLength
    BY <2>1, <2>2 DEF MaxLength
  <2>5. ToBytes(v) = prefix \o v.value
    BY <1>1 DEF ToBytes
  <2> HIDE DEF P, m, prefix
  <2>6. m % P = m
    <3>1. m \in 0 .. P - 1 /\ m = P * 0 + m
      BY <2>1, <2>2
    <3> QED BY <2>2, <3>1, Remainder
  <2>7. ToBytes(v) \in Seq(0 .. Base - 1) /\ Len(ToBytes(v)) = LengthBytes + Len(v.value)
    BY <2>1, <2>3, <2>5, ConcatProperties
  <2> QED BY <1>1, <2>1, <2>3, <2>4, <2>6, <2>7 DEF prefix, m
<1>2. CASE v.type # "String"
  <2>1. v.type \in TypeIds \ {"String"} /\ v.value \in Int /\ InRange(v.type, v.value)
    BY <1>2 DEF IsValue
  <2>2. Width[v.type] \in Nat
    BY <2>1, CodecAssumption
  <2> QED BY <1>2, <2>1, <2>2, BytesOfNumber DEF ToBytes
<1> QED BY <1>1, <1>2

\* A value is read back from its bytes.
LEMMA ValueReadBack ==
  ASSUME NEW v, IsValue(v), Encodable(v)
  PROVE  v = [type |-> v.type,
              value |-> IF v.type = "String" THEN StringFromBytes(ToBytes(v))
                                             ELSE FixedFromBytes(v.type, ToBytes(v))]
<1>0. v = [type |-> v.type, value |-> v.value]
  BY DEF IsValue
<1>1. CASE v.type = "String"
  <2> DEFINE prefix == FixedToBytes(Len(v.value), LengthBytes)
             b == ToBytes(v)
             s == v.value
             S == 0 .. Base - 1
  <2>1. s \in Seq(S) /\ prefix \in Seq(S) /\ Len(prefix) = LengthBytes /\ LengthBytes \in Nat
    BY <1>1, BytesOfValue, CodecAssumption
  <2>2. b = prefix \o s
    BY <1>1 DEF ToBytes
  <2>3. StringFromBytes(b) = SubSeq(b, LengthBytes + 1, Len(b))
    BY DEF StringFromBytes
  <2> HIDE DEF prefix, b, s, S
  <2>4. SubSeq(b, LengthBytes + 1, Len(b)) = s
    <3>0. prefix \o s \in Seq(S) /\ Len(prefix \o s) = Len(prefix) + Len(s)
      BY <2>1, ConcatProperties
    <3>1. Len(b) = LengthBytes + Len(s) /\ b \in Seq(S) /\ Len(s) \in Nat
      BY <2>1, <2>2, <3>0
    <3>2. ASSUME NEW i \in 1 .. Len(s) PROVE b[LengthBytes + i] = s[i]
      BY <2>1, <2>2
    <3>3. SubSeq(b, LengthBytes + 1, Len(b)) = [i \in 1 .. Len(s) |-> b[LengthBytes + i]]
      BY <2>1, <3>1
    <3>4. s = [i \in 1 .. Len(s) |-> s[i]]
      BY <2>1
    <3> QED BY <3>2, <3>3, <3>4
  <2> QED BY <1>0, <1>1, <2>3, <2>4 DEF b, s
<1>2. CASE v.type # "String"
  <2>1. v.type \in TypeIds \ {"String"} /\ v.value \in Int /\ InRange(v.type, v.value)
    BY <1>2, BytesOfValue
  <2>2. FixedFromBytes(v.type, FixedToBytes(v.value, Width[v.type])) = v.value
    BY <2>1, NumberReadBack
  <2> QED BY <1>0, <1>2, <2>2 DEF ToBytes
<1> QED BY <1>1, <1>2

\* The bytes of a value are in a row at an offset.
At(row, offset, v) ==
  /\ row \in Seq(0 .. Base - 1) /\ offset \in Nat
  /\ offset + Len(ToBytes(v)) <= Len(row)
  /\ \A j \in 1 .. Len(ToBytes(v)) : row[offset + j] = ToBytes(v)[j]

\* The row reader finds their size and all of them.
LEMMA FieldFound ==
  ASSUME NEW v, IsValue(v), Encodable(v), NEW row, NEW offset, At(row, offset, v)
  PROVE  /\ SizeAt(v.type, row, offset) = Len(ToBytes(v))
         /\ Bytes(row, offset, Len(ToBytes(v))) = ToBytes(v)
<1> DEFINE b == ToBytes(v)
           size == Len(b)
           S == 0 .. Base - 1
<1>1. b \in Seq(S) /\ size \in Nat /\ row \in Seq(S) /\ Len(row) \in Nat
  BY BytesOfValue DEF At
<1>2. offset \in Nat /\ offset + size <= Len(row) /\ \A j \in 1 .. size : row[offset + j] = b[j]
  BY DEF At
<1> HIDE DEF S
<1>3. ASSUME NEW n \in 0 .. size PROVE Bytes(row, offset, n) = [j \in 1 .. n |-> b[j]]
  <2> HIDE DEF b, size
  <2>1. \A j \in 1 .. n : offset + j <= Len(row) /\ row[offset + j] = b[j]
    BY <1>1, <1>2
  <2> QED BY <2>1 DEF Bytes
<1>4. Bytes(row, offset, size) = b
  <2>1. size \in 0 .. size /\ b = [j \in 1 .. size |-> b[j]]
    BY <1>1
  <2> HIDE DEF b, size
  <2> QED BY <1>3, <2>1
<1>5. SizeAt(v.type, row, offset) = size
  <2>1. CASE v.type = "String"
    <3> DEFINE prefix == FixedToBytes(Len(v.value), LengthBytes)
    <3>1. /\ v.value \in Seq(S) /\ prefix \in Seq(S) /\ Len(prefix) = LengthBytes
          /\ Unsigned(prefix) = Len(v.value) /\ size = LengthBytes + Len(v.value)
          /\ LengthBytes \in Nat
      BY <2>1, BytesOfValue, CodecAssumption DEF S
    <3>2. b = prefix \o v.value
      BY <2>1 DEF ToBytes
    <3> HIDE DEF b, size, prefix
    <3>3. LengthBytes \in 0 .. size
      BY <3>1
    <3>4. [j \in 1 .. LengthBytes |-> b[j]] = prefix
      <4>1. \A j \in 1 .. LengthBytes : b[j] = prefix[j]
        BY <3>1, <3>2
      <4>2. prefix = [j \in 1 .. LengthBytes |-> prefix[j]]
        BY <3>1
      <4> QED BY <4>1, <4>2
    <3>5. Bytes(row, offset, LengthBytes) = prefix
      BY <1>3, <3>3, <3>4
    <3> QED BY <2>1, <3>1, <3>5 DEF SizeAt, StringSize
  <2>2. CASE v.type # "String"
    BY <2>2, BytesOfValue DEF SizeAt
  <2> QED BY <2>1, <2>2
<1> QED BY <1>4, <1>5

\* The fields of a row begin and end where at says.
Starts(row, schema, n, at) ==
  /\ at \in [0 .. n -> Nat] /\ at[0] = 0
  /\ \A i \in 1 .. n : at[i] = at[i - 1] + SizeAt(schema[i].type, row, at[i - 1])

\* The loop of CalculateOffset.
LEMMA OffsetOf ==
  ASSUME NEW row, NEW schema, NEW n \in Nat, NEW at, Starts(row, schema, n, at), NEW pos \in 1 .. n
  PROVE  CalculateOffset(row, schema, pos) = at[pos - 1]
<1> USE DEF Starts
<1> DEFINE Is(f) == f = [i \in 1 .. pos |->
             IF i = 1 THEN 0 ELSE f[i - 1] + SizeAt(schema[i - 1].type, row, f[i - 1])]
           F == CHOOSE f : Is(f)
           h == [i \in 1 .. pos |-> at[i - 1]]
<1>1. CalculateOffset(row, schema, pos) = F[pos]
  BY DEF CalculateOffset
<1>2. Is(h)
  <2>1. ASSUME NEW i \in 1 .. pos
        PROVE  h[i] = IF i = 1 THEN 0 ELSE h[i - 1] + SizeAt(schema[i - 1].type, row, h[i - 1])
    <3>1. CASE i = 1
      BY <3>1
    <3>2. CASE i # 1
      <4>1. PICK m \in 1 .. n : m = i - 1 /\ m \in 1 .. pos
        BY <3>2
      <4>2. at[m] = at[m - 1] + SizeAt(schema[m].type, row, at[m - 1])
        OBVIOUS
      <4>3. h[i] = at[m] /\ h[m] = at[m - 1]
        BY <4>1
      <4> HIDE DEF h
      <4> QED BY <3>2, <4>1, <4>2, <4>3
    <3> QED BY <3>1, <3>2
  <2>2. h = [i \in 1 .. pos |-> h[i]]
    OBVIOUS
  <2> HIDE DEF h
  <2> QED BY <2>1, <2>2
<1>3. Is(F)
  <2> HIDE DEF Is, h
  <2> QED BY <1>2
<1> HIDE DEF F, h
<1> DEFINE T == {i \in 0 .. pos : i # 0 => F[i] = at[i - 1]}
<1>4. 0 \in T
  OBVIOUS
<1>5. ASSUME NEW i \in 0 .. pos, i < pos, i \in T PROVE i + 1 \in T
  <2>1. PICK k \in 1 .. pos : k = i + 1 /\ k - 1 = i /\ k \in 0 .. pos
    BY <1>5
  <2>2. F[k] = IF k = 1 THEN 0 ELSE F[k - 1] + SizeAt(schema[k - 1].type, row, F[k - 1])
    BY <1>3
  <2>3. CASE i = 0
    BY <2>1, <2>2, <2>3
  <2>4. CASE i # 0
    <3>1. F[i] = at[i - 1] /\ i \in 1 .. n
      BY <1>5, <2>4
    <3>2. at[i] = at[i - 1] + SizeAt(schema[i].type, row, at[i - 1])
      BY <3>1
    <3>3. F[k] = F[i] + SizeAt(schema[i].type, row, F[i])
      BY <2>1, <2>2, <2>4
    <3> QED BY <2>1, <3>1, <3>2, <3>3
  <2> QED BY <2>3, <2>4
<1>6. pos \in T
  <2> HIDE DEF T
  <2>1. pos \in Nat
    OBVIOUS
  <2>2. \A i \in 0 .. pos : i \in T
    BY <1>4, <1>5, <2>1, Induction
  <2> QED BY <2>2
<1> QED BY <1>1, <1>6
\* The values of a row, with the schema they were checked against.
IsTuple(values, schema) ==
  /\ Len(schema) \in Nat /\ DOMAIN schema = 1 .. Len(schema) /\ IsList(values)
  /\ Buildable(values, schema)
  /\ \A i \in DOMAIN values : IsValue(values[i])

\* What an iterator finds in the row of a tuple: every value, and its bytes.
LEMMA RowReadBack ==
  ASSUME NEW values, NEW schema, IsTuple(values, schema)
  PROVE  /\ BuildRow(values) \in Seq(0 .. Base - 1)
         /\ DOMAIN values = DOMAIN schema
         /\ \A i \in DOMAIN schema :
              /\ GetValue(BuildRow(values), schema, i) = values[i]
              /\ Bytes(BuildRow(values), CalculateOffset(BuildRow(values), schema, i),
                       GetSize(BuildRow(values), schema, i)) = ToBytes(values[i])
         /\ GetValues(BuildRow(values), schema) = values
<1> DEFINE n == Len(schema)
           parts == [i \in DOMAIN values |-> ToBytes(values[i])]
           row == BuildRow(values)
           S == 0 .. Base - 1
<1>1. n \in Nat /\ Len(values) = n /\ DOMAIN values = 1 .. n /\ DOMAIN schema = 1 .. n
  <2>1. values \in Seq({values[i] : i \in DOMAIN values})
    BY DEF IsTuple, IsList
  <2> DEFINE R == {values[i] : i \in DOMAIN values}
  <2> HIDE DEF R
  <2>2. DOMAIN values = 1 .. Len(values)
    BY <2>1
  <2> QED BY <2>2 DEF IsTuple, Buildable
<1>2. values = [i \in 1 .. n |-> values[i]]
  <2>1. values \in Seq({values[i] : i \in DOMAIN values})
    BY DEF IsTuple, IsList
  <2> DEFINE R == {values[i] : i \in DOMAIN values}
  <2>2. values \in Seq(R)
    BY <2>1
  <2> HIDE DEF R
  <2>3. values = [i \in DOMAIN values |-> values[i]]
    BY <2>2
  <2> QED BY <1>1, <2>3
<1>3. ASSUME NEW i \in 1 .. n
      PROVE  IsValue(values[i]) /\ Encodable(values[i]) /\ values[i].type = schema[i].type
  BY <1>1 DEF IsTuple, Buildable
<1>4. ASSUME NEW i \in 1 .. n
      PROVE  ToBytes(values[i]) \in Seq(S) /\ Len(ToBytes(values[i])) \in Nat
  <2>1. ToBytes(values[i]) \in Seq(S)
    BY <1>3, BytesOfValue
  <2> HIDE DEF S
  <2> QED BY <2>1
<1> HIDE DEF n, S
<1>5. parts \in Seq(Seq(S)) /\ Len(parts) = n
  <2>1. parts \in [1 .. n -> Seq(S)]
    BY <1>1, <1>4
  <2> HIDE DEF parts
  <2> QED BY <1>1, <2>1, ListOf
<1>6. \A i \in 1 .. n : parts[i] = ToBytes(values[i])
  BY <1>1
<1>7. row = FlattenSeq(parts)
  BY DEF BuildRow
<1> HIDE DEF parts, row
<1>8. PICK at \in [0 .. n -> Nat] :
        /\ at[0] = 0
        /\ \A i \in 1 .. n :
             /\ at[i] = at[i - 1] + Len(parts[i])
             /\ at[i] <= Len(row)
             /\ \A j \in 1 .. Len(parts[i]) : row[at[i - 1] + j] = parts[i][j]
  <2>1. \E at \in [0 .. Len(parts) -> Nat] :
          /\ at[0] = 0 /\ at[Len(parts)] = Len(FlattenSeq(parts))
          /\ \A i \in 1 .. Len(parts) :
               /\ at[i] = at[i - 1] + Len(parts[i])
               /\ at[i] <= Len(FlattenSeq(parts))
               /\ \A j \in 1 .. Len(parts[i]) : FlattenSeq(parts)[at[i - 1] + j] = parts[i][j]
    BY <1>5, Flattened
  <2> QED BY <1>5, <1>7, <2>1
<1>9. row \in Seq(S)
  BY <1>5, <1>7, Flattened
<1>10. ASSUME NEW i \in 1 .. n
       PROVE  At(row, at[i - 1], values[i]) /\ at[i] = at[i - 1] + Len(ToBytes(values[i]))
  <2>1. i - 1 \in 0 .. n /\ at[i - 1] \in Nat
    BY <1>1, <1>8
  <2>2. /\ at[i] = at[i - 1] + Len(ToBytes(values[i])) /\ at[i] <= Len(row)
        /\ \A j \in 1 .. Len(ToBytes(values[i])) : row[at[i - 1] + j] = ToBytes(values[i])[j]
    BY <1>6, <1>8
  <2> QED BY <1>9, <2>1, <2>2 DEF At, S
<1>11. ASSUME NEW i \in 1 .. n
       PROVE  /\ SizeAt(schema[i].type, row, at[i - 1]) = Len(ToBytes(values[i]))
              /\ Bytes(row, at[i - 1], Len(ToBytes(values[i]))) = ToBytes(values[i])
  BY <1>3, <1>10, FieldFound
<1>12. ASSUME NEW i \in 1 .. n PROVE CalculateOffset(row, schema, i) = at[i - 1]
  <2>1. ASSUME NEW k \in 1 .. n PROVE at[k] = at[k - 1] + SizeAt(schema[k].type, row, at[k - 1])
    <3>1. at[k] = at[k - 1] + Len(ToBytes(values[k]))
      BY <1>10
    <3>2. SizeAt(schema[k].type, row, at[k - 1]) = Len(ToBytes(values[k]))
      BY <1>11
    <3> QED BY <3>1, <3>2
  <2>2. at \in [0 .. n -> Nat] /\ at[0] = 0
    BY <1>8
  <2>3. Starts(row, schema, n, at)
    BY <2>1, <2>2 DEF Starts
  <2> QED BY <1>1, <2>3, OffsetOf
<1>13. ASSUME NEW i \in 1 .. n PROVE GetSize(row, schema, i) = Len(ToBytes(values[i]))
  BY <1>11, <1>12 DEF GetSize
<1>14. ASSUME NEW i \in 1 .. n PROVE GetValue(row, schema, i) = values[i]
  <2> DEFINE v == values[i]
             field == ToBytes(v)
  <2>1. ~(at[i - 1] + Len(field) > Len(row))
    <3>1. i - 1 \in 0 .. n /\ at[i - 1] \in Nat /\ Len(field) \in Nat /\ Len(row) \in Nat
      BY <1>1, <1>4, <1>8, <1>9
    <3> HIDE DEF field
    <3> QED BY <1>10, <3>1 DEF At, field
  <2>2. v = [type |-> v.type, value |-> IF v.type = "String" THEN StringFromBytes(field)
                                                     ELSE FixedFromBytes(v.type, field)]
    BY <1>3, ValueReadBack
  <2>3. v.type = schema[i].type
    BY <1>3
  <2>4. Bytes(row, at[i - 1], Len(field)) = field
    BY <1>11
  <2> DEFINE offset == CalculateOffset(row, schema, i)
             size == GetSize(row, schema, i)
  <2>5. offset = at[i - 1] /\ size = Len(field)
    BY <1>12, <1>13
  <2>6. GetValue(row, schema, i) =
          IF offset + size > Len(row) THEN Invalid
          ELSE [type |-> schema[i].type,
                value |-> IF schema[i].type = "String" THEN StringFromBytes(Bytes(row, offset, size))
                          ELSE FixedFromBytes(schema[i].type, Bytes(row, offset, size))]
    BY DEF GetValue
  <2> HIDE DEF v, field, offset, size
  <2>7. GetValue(row, schema, i) = v
    BY <2>1, <2>2, <2>3, <2>4, <2>5, <2>6
  <2> QED BY <2>7 DEF v
<1>15. GetValues(row, schema) = values
  BY <1>1, <1>2, <1>14 DEF GetValues
<1>16. ASSUME NEW i \in 1 .. n
       PROVE  Bytes(row, CalculateOffset(row, schema, i), GetSize(row, schema, i)) = ToBytes(values[i])
  BY <1>11, <1>12, <1>13
<1> QED BY <1>1, <1>9, <1>14, <1>15, <1>16 DEF row, S

-----------------------------------------------------------------------------
(* Rows in the order of their places. *)

\* p lists the places in I, the lowest first.
Enumerates(n, p, I) ==
  /\ n \in Nat /\ p \in [1 .. n -> I]
  /\ \A k, l \in 1 .. n : k < l => p[k] < p[l]
  /\ \A i \in I : \E k \in 1 .. n : p[k] = i

\* RowsAt follows the list.
LEMMA RowsListed ==
  ASSUME NEW I \in SUBSET Nat, NEW n, NEW p, Enumerates(n, p, I), NEW s
  PROVE  RowsAt(s, I) = RowsBy(s, n, p)
<1> DEFINE Upto(i) == {j \in I : j <= i}
           Rank(i) == Cardinality(Upto(i))
<1>1. n \in Nat /\ p \in [1 .. n -> I] /\ \A k \in 1 .. n : p[k] \in Nat /\ k \in Nat
  <2>1. n \in Nat /\ p \in [1 .. n -> I]
    BY DEF Enumerates
  <2>2. \A k \in 1 .. n : p[k] \in I
    BY <2>1
  <2>3. \A k \in 1 .. n : p[k] \in Nat
    BY <2>2
  <2>4. \A k \in 1 .. n : k \in Nat
    BY <2>1
  <2> QED BY <2>1, <2>3, <2>4
<1>2. ASSUME NEW k \in 1 .. n, NEW l \in 1 .. n, p[k] = p[l] PROVE k = l
  <2>1. CASE k < l
    BY <1>1, <1>2, <2>1 DEF Enumerates
  <2>2. CASE l < k
    BY <1>1, <1>2, <2>2 DEF Enumerates
  <2> QED BY <1>1, <2>1, <2>2
<1>3. ASSUME NEW k \in 0 .. n, NEW J, J = {p[j] : j \in 1 .. k} PROVE Cardinality(J) = k
  <2> DEFINE q == [j \in 1 .. k |-> p[j]]
  <2>1. k \in Nat /\ \A j \in 1 .. k : j \in 1 .. n
    BY <1>1
  <2>2. q \in Bijection(1 .. k, J)
    <3>1. q \in [1 .. k -> J] /\ \A x \in J : \E j \in 1 .. k : q[j] = x
      BY <1>3
    <3>2. \A i, j \in 1 .. k : q[i] = q[j] => i = j
      BY <1>2, <2>1
    <3> HIDE DEF q
    <3> QED BY <3>1, <3>2 DEF Bijection, Injection, Surjection, IsInjective
  <2>3. IsFiniteSet(1 .. k) /\ Cardinality(1 .. k) = k
    BY <2>1, FS_Interval
  <2> HIDE DEF q
  <2> QED BY <2>2, <2>3, FS_Bijection DEF ExistsBijection
<1>4. Cardinality(I) = n
  <2>1. I = {p[j] : j \in 1 .. n}
    BY <1>1 DEF Enumerates
  <2>2. n \in 0 .. n
    BY <1>1
  <2> QED BY <1>3, <2>1, <2>2
<1>5. ASSUME NEW k \in 1 .. n PROVE Rank(p[k]) = k
  <2>1. ASSUME NEW j \in 1 .. n PROVE p[j] <= p[k] <=> j <= k
    <3>1. j < k => p[j] < p[k]
      BY DEF Enumerates
    <3>2. k < j => p[k] < p[j]
      BY DEF Enumerates
    <3> QED BY <1>1, <3>1, <3>2
  <2>2. Upto(p[k]) = {p[j] : j \in 1 .. k}
    <3>1. ASSUME NEW x \in Upto(p[k]) PROVE x \in {p[j] : j \in 1 .. k}
      <4>1. PICK j \in 1 .. n : p[j] = x
        BY DEF Enumerates
      <4>2. j <= k
        BY <2>1, <4>1
      <4>3. j \in 1 .. k
        BY <1>1, <4>2
      <4> QED BY <4>1, <4>3
    <3>2. ASSUME NEW j \in 1 .. k PROVE p[j] \in Upto(p[k])
      <4>1. j \in 1 .. n /\ j <= k
        BY <1>1
      <4> QED BY <1>1, <2>1, <4>1
    <3> QED BY <3>1, <3>2
  <2>3. k \in 0 .. n
    BY <1>1
  <2> QED BY <1>3, <2>2, <2>3
<1>6. ASSUME NEW k \in 1 .. n PROVE (CHOOSE i \in I : Rank(i) = k) = p[k]
  <2>1. p[k] \in I /\ Rank(p[k]) = k
    BY <1>1, <1>5
  <2>2. ASSUME NEW i \in I, Rank(i) = k PROVE i = p[k]
    <3>1. PICK l \in 1 .. n : p[l] = i
      BY DEF Enumerates
    <3> HIDE DEF Rank
    <3>2. Rank(p[l]) = l
      BY <1>5
    <3> QED BY <2>2, <3>1, <3>2
  <2> HIDE DEF Rank
  <2> QED BY <2>1, <2>2
<1>7. RowsAt(s, I) = [k \in 1 .. n |-> s[CHOOSE i \in I : Rank(i) = k]]
  BY <1>4 DEF RowsAt
<1> HIDE DEF Rank
<1> QED BY <1>6, <1>7 DEF RowsBy

\* A place behind all others.
LEMMA EnumeratesMore ==
  ASSUME NEW I \in SUBSET Nat, NEW n, NEW p, Enumerates(n, p, I), NEW x \in Nat, \A i \in I : i < x
  PROVE  Enumerates(n + 1, [k \in 1 .. n + 1 |-> IF k = n + 1 THEN x ELSE p[k]], I \cup {x})
<1> DEFINE q == [k \in 1 .. n + 1 |-> IF k = n + 1 THEN x ELSE p[k]]
<1>1. n \in Nat /\ p \in [1 .. n -> I] /\ n + 1 \in Nat
  BY DEF Enumerates
<1>2. ASSUME NEW k \in 1 .. n + 1 PROVE k \in 1 .. n \/ k = n + 1
  BY <1>1
<1>3. ASSUME NEW k \in 1 .. n PROVE k \in 1 .. n + 1 /\ k # n + 1 /\ q[k] = p[k] /\ q[k] \in I
  BY <1>1
<1>4. n + 1 \in 1 .. n + 1 /\ q[n + 1] = x
  BY <1>1
<1>5. q \in [1 .. n + 1 -> I \cup {x}]
  BY <1>1, <1>2
<1> HIDE DEF q
<1>6. ASSUME NEW k \in 1 .. n + 1, NEW l \in 1 .. n + 1, k < l PROVE q[k] < q[l]
  <2>1. k \in 1 .. n
    BY <1>1, <1>6
  <2>2. CASE l = n + 1
    BY <1>3, <1>4, <2>1, <2>2
  <2>3. CASE l \in 1 .. n
    BY <1>3, <1>6, <2>1, <2>3 DEF Enumerates
  <2> QED BY <1>2, <2>2, <2>3
<1>7. ASSUME NEW i \in I \cup {x} PROVE \E k \in 1 .. n + 1 : q[k] = i
  <2>1. CASE i = x
    BY <1>4, <2>1
  <2>2. CASE i \in I
    <3>1. PICK k \in 1 .. n : p[k] = i
      BY <2>2 DEF Enumerates
    <3> QED BY <1>3, <3>1
  <2> QED BY <2>1, <2>2
<1>8. Enumerates(n + 1, q, I \cup {x})
  BY <1>1, <1>5, <1>6, <1>7 DEF Enumerates
<1> QED BY <1>8 DEF q

\* All places but the i-th.
LEMMA EnumeratesLess ==
  ASSUME NEW I \in SUBSET Nat, NEW n, NEW p, Enumerates(n, p, I), NEW i \in 1 .. n
  PROVE  Enumerates(n - 1, [k \in 1 .. n - 1 |-> p[Was(i, k)]], I \ {p[i]})
<1> DEFINE q == [k \in 1 .. n - 1 |-> p[Was(i, k)]]
<1>1. n \in Nat /\ p \in [1 .. n -> I] /\ n - 1 \in Nat
  BY DEF Enumerates
<1>2. ASSUME NEW k \in 1 .. n, NEW l \in 1 .. n, k # l PROVE p[k] # p[l]
  <2>1. p[k] \in Nat /\ p[l] \in Nat
    BY <1>1
  <2>2. CASE k < l
    <3>1. p[k] < p[l]
      BY <2>2 DEF Enumerates
    <3> QED BY <2>1, <3>1
  <2>3. CASE l < k
    <3>1. p[l] < p[k]
      BY <2>3 DEF Enumerates
    <3> QED BY <2>1, <3>1
  <2> QED BY <1>1, <1>2, <2>2, <2>3
<1>3. ASSUME NEW k \in 1 .. n - 1
      PROVE  Was(i, k) \in 1 .. n /\ Was(i, k) # i /\ q[k] = p[Was(i, k)] /\ q[k] \in I \ {p[i]}
  <2>1. Was(i, k) \in 1 .. n /\ Was(i, k) # i
    BY <1>1 DEF Was
  <2> QED BY <1>1, <1>2, <2>1
<1>4. q \in [1 .. n - 1 -> I \ {p[i]}]
  BY <1>3
<1> HIDE DEF q
<1>5. ASSUME NEW k \in 1 .. n - 1, NEW l \in 1 .. n - 1, k < l PROVE q[k] < q[l]
  <2>1. Was(i, k) < Was(i, l)
    BY <1>1, <1>5 DEF Was
  <2> QED BY <1>3, <2>1 DEF Enumerates
<1>6. ASSUME NEW x \in I \ {p[i]} PROVE \E k \in 1 .. n - 1 : q[k] = x
  <2>1. PICK k \in 1 .. n : p[k] = x
    BY DEF Enumerates
  <2>2. k # i
    BY <2>1
  <2>3. Becomes(i, k) \in 1 .. n - 1 /\ Was(i, Becomes(i, k)) = k
    BY <1>1, <2>2 DEF Was, Becomes
  <2> QED BY <1>3, <2>1, <2>3
<1>7. Enumerates(n - 1, q, I \ {p[i]})
  BY <1>1, <1>4, <1>5, <1>6 DEF Enumerates
<1> QED BY <1>7 DEF q
-----------------------------------------------------------------------------
(* Tables in memory. *)

\* A table in memory: its row ids are below the next one.
IsTable(t) ==
  /\ t = [table_data |-> t.table_data, next_page_id |-> t.next_page_id, next_slot_id |-> t.next_slot_id]
  /\ t.next_page_id \in Nat /\ t.next_slot_id \in 0 .. SlotMod - 1
  /\ \A r \in DOMAIN t.table_data : r \in Nat /\ r < NextRowId(t)
  /\ \E n, p : Enumerates(n, p, DOMAIN t.table_data)

\* The scan of such a table.
LEMMA ScanListed ==
  ASSUME NEW t, DOMAIN t.table_data \in SUBSET Nat, NEW n, NEW p,
         Enumerates(n, p, DOMAIN t.table_data)
  PROVE  /\ n \in Nat /\ Scan(t) = RowsBy(t.table_data, n, p)
         /\ IsRows(Scan(t)) /\ Len(Scan(t)) = n
<1> DEFINE I == DOMAIN t.table_data
           S == {Scan(t)[k] : k \in 1 .. n}
<1>1. n \in Nat
  BY DEF Enumerates
<1>2. Scan(t) = RowsBy(t.table_data, n, p)
  <2>1. RowsAt(t.table_data, I) = RowsBy(t.table_data, n, p)
    BY RowsListed
  <2> QED BY <2>1 DEF Scan
<1>3. Scan(t) \in [1 .. n -> S]
  BY <1>2 DEF RowsBy
<1> HIDE DEF S
<1>4. Scan(t) \in Seq(S) /\ Len(Scan(t)) = n
  BY <1>1, <1>3, ListOf
<1> QED BY <1>1, <1>2, <1>4 DEF IsRows

LEMMA RowIdsListed ==
  ASSUME NEW t, DOMAIN t.table_data \in SUBSET Nat, NEW n, NEW p,
         Enumerates(n, p, DOMAIN t.table_data), NEW k \in 1 .. n
  PROVE  RowIds(t)[k] = p[k]
<1> DEFINE I == DOMAIN t.table_data
           ids == [r \in I |-> r]
<1>1. p[k] \in I
  BY DEF Enumerates
<1>2. RowIds(t) = RowsAt(ids, I)
  BY DEF RowIds
<1>3. ids[p[k]] = p[k]
  BY <1>1
<1> HIDE DEF ids
<1>4. RowsAt(ids, I) = RowsBy(ids, n, p)
  BY RowsListed
<1> QED BY <1>2, <1>3, <1>4 DEF RowsBy

\* The next row id is one higher, also where the slot counter wraps.
LEMMA RowIdAdvances ==
  ASSUME NEW t, IsTable(t)
  PROVE  /\ Advance(t).table_data = t.table_data
         /\ Advance(t) = [table_data |-> t.table_data, next_page_id |-> Advance(t).next_page_id,
                          next_slot_id |-> Advance(t).next_slot_id]
         /\ Advance(t).next_page_id \in Nat /\ Advance(t).next_slot_id \in 0 .. SlotMod - 1
         /\ NextRowId(t) \in Nat /\ NextRowId(Advance(t)) = NextRowId(t) + 1
<1> DEFINE P == t.next_page_id
           S == t.next_slot_id
           M == SlotMod
           slot == (S + 1) % M
           page == IF slot = 0 THEN P + 1 ELSE P
<1>1. M \in Nat \ {0} /\ P \in Nat /\ S \in 0 .. M - 1
  BY SlotAssumption DEF IsTable
<1>2. Advance(t) = [table_data |-> t.table_data, next_page_id |-> page, next_slot_id |-> slot]
  <2>1. t = [table_data |-> t.table_data, next_page_id |-> P, next_slot_id |-> S]
    BY DEF IsTable
  <2>2. Advance(t) = [t EXCEPT !.next_slot_id = slot, !.next_page_id = page]
    BY DEF Advance
  <2> HIDE DEF slot, page
  <2> QED BY <2>1, <2>2
<1> HIDE DEF P, S
<1>3. CASE S + 1 = M
  <2>1. slot = 0
    BY <1>1, <1>3
  <2>2. P * M + S \in Nat /\ (P + 1) * M + 0 = P * M + S + 1
    BY <1>1, <1>3
  <2> QED BY <1>1, <1>2, <2>1, <2>2 DEF NextRowId, MakeRowId, P, S
<1>4. CASE S + 1 # M
  <2>1. slot = S + 1 /\ slot # 0 /\ slot \in 0 .. M - 1
    <3>1. S + 1 \in 0 .. M - 1 /\ S + 1 = M * 0 + (S + 1)
      BY <1>1, <1>4
    <3> DEFINE r == S + 1
    <3>2. r \in 0 .. M - 1 /\ r = M * 0 + r
      BY <3>1
    <3> HIDE DEF r, M
    <3>3. r % M = r
      BY <1>1, <3>2, Remainder
    <3> QED BY <1>1, <3>1, <3>3 DEF r
  <2>2. P * M + S \in Nat /\ P * M + (S + 1) = P * M + S + 1
    BY <1>1
  <2> HIDE DEF slot
  <2> QED BY <1>1, <1>2, <2>1, <2>2 DEF NextRowId, MakeRowId, P, S
<1> QED BY <1>3, <1>4

LEMMA TableNew == IsTable(NewTable) /\ Scan(NewTable) = << >>
<1> DEFINE t == NewTable
           p == [k \in 1 .. 0 |-> 0]
<1>1. DOMAIN t.table_data = {} /\ t.table_data = << >>
  BY DEF NewTable
<1>2. Enumerates(0, p, DOMAIN t.table_data)
  BY <1>1 DEF Enumerates
<1> HIDE DEF p
<1>3. IsTable(t)
  BY <1>1, <1>2, SlotAssumption DEF IsTable, NewTable
<1>4. IsRows(Scan(t)) /\ Len(Scan(t)) = 0
  <2> HIDE DEF t
  <2>1. DOMAIN t.table_data \in SUBSET Nat
    BY <1>1
  <2> QED BY <1>2, <2>1, ScanListed
<1>5. Scan(t) = << >>
  <2>1. PICK S : Scan(t) \in Seq(S)
    BY <1>4 DEF IsRows
  <2> QED BY <1>4, <2>1, EmptySeq
<1> QED BY <1>3, <1>5

\* An insertion comes last in a scan.
LEMMA TableInserts ==
  ASSUME NEW t, IsTable(t), NEW row
  PROVE  IsTable(InsertRow(t, row)) /\ Scan(InsertRow(t, row)) = Append(Scan(t), row)
<1> DEFINE u == InsertRow(t, row)
           x == NextRowId(t)
           I == DOMAIN t.table_data
<1>1. PICK n, p : Enumerates(n, p, I)
  BY DEF IsTable
<1>2. I \in SUBSET Nat /\ x \in Nat /\ \A i \in I : i < x
  BY RowIdAdvances DEF IsTable
<1>3. /\ u = [table_data |-> [r \in I \cup {x} |-> IF r \in I THEN t.table_data[r] ELSE row],
              next_page_id |-> Advance(t).next_page_id, next_slot_id |-> Advance(t).next_slot_id]
      /\ NextRowId(u) = x + 1
      /\ Advance(t).next_page_id \in Nat /\ Advance(t).next_slot_id \in 0 .. SlotMod - 1
  <2> DEFINE a == Advance(t)
             data == [r \in I \cup {x} |-> IF r \in I THEN t.table_data[r] ELSE row]
  <2>1. u = [a EXCEPT !.table_data = data]
    BY DEF InsertRow
  <2>2. /\ a = [table_data |-> t.table_data, next_page_id |-> a.next_page_id, next_slot_id |-> a.next_slot_id]
        /\ a.next_page_id \in Nat /\ a.next_slot_id \in 0 .. SlotMod - 1
        /\ NextRowId(a) = x + 1
    BY RowIdAdvances
  <2> HIDE DEF a, data, u
  <2>3. u = [table_data |-> data, next_page_id |-> a.next_page_id, next_slot_id |-> a.next_slot_id]
    BY <2>1, <2>2
  <2>4. NextRowId(u) = NextRowId(a)
    BY <2>3 DEF NextRowId
  <2> QED BY <2>2, <2>3, <2>4 DEF a, data
<1> HIDE DEF u, x
<1> DEFINE q == [k \in 1 .. n + 1 |-> IF k = n + 1 THEN x ELSE p[k]]
<1>4. DOMAIN u.table_data = I \cup {x}
  BY <1>3
<1>5. Enumerates(n + 1, q, DOMAIN u.table_data)
  BY <1>1, <1>2, <1>4, EnumeratesMore
<1>6. IsTable(u)
  <2> HIDE DEF q
  <2>1. \A r \in DOMAIN u.table_data : r \in Nat /\ r < NextRowId(u)
    BY <1>2, <1>3, <1>4
  <2> QED BY <1>3, <1>5, <2>1 DEF IsTable
<1>7. n \in Nat /\ Scan(t) = RowsBy(t.table_data, n, p) /\ Len(Scan(t)) = n /\ IsRows(Scan(t))
  BY <1>1, <1>2, ScanListed
<1>8. Scan(u) = RowsBy(u.table_data, n + 1, q)
  <2>1. DOMAIN u.table_data \in SUBSET Nat
    BY <1>2, <1>4
  <2> HIDE DEF q
  <2> QED BY <1>5, <2>1, ScanListed
<1>9. ASSUME NEW k \in 1 .. n + 1
      PROVE  u.table_data[q[k]] = IF k = n + 1 THEN row ELSE Scan(t)[k]
  <2>1. CASE k = n + 1
    <3>1. q[k] = x /\ x \notin I
      BY <1>2, <2>1
    <3> QED BY <1>3, <2>1, <3>1
  <2>2. CASE k # n + 1
    <3>1. k \in 1 .. n /\ q[k] = p[k]
      BY <1>7, <2>2
    <3>2. p[k] \in I
      BY <1>1, <3>1 DEF Enumerates
    <3> QED BY <1>3, <1>7, <2>2, <3>1, <3>2 DEF RowsBy
  <2> QED BY <2>1, <2>2
<1>10. Append(Scan(t), row) = [k \in 1 .. n + 1 |-> IF k = n + 1 THEN row ELSE Scan(t)[k]]
  <2> DEFINE s == Scan(t)
             a == Append(s, row)
  <2>1. PICK R : s \in Seq(R)
    BY <1>7 DEF IsRows
  <2> DEFINE S == R \cup {row}
  <2>2. s \in Seq(S) /\ row \in S
    BY <2>1
  <2> HIDE DEF s, S
  <2>3. /\ a \in Seq(S) /\ Len(a) = Len(s) + 1 /\ a[Len(s) + 1] = row
        /\ \A k \in 1 .. Len(s) : a[k] = s[k]
    BY <2>2, AppendProperties
  <2>4. Len(s) = n
    BY <1>7 DEF s
  <2> HIDE DEF a
  <2>5. a = [k \in 1 .. n + 1 |-> a[k]]
    BY <2>3, <2>4
  <2>6. ASSUME NEW k \in 1 .. n + 1 PROVE a[k] = IF k = n + 1 THEN row ELSE s[k]
    BY <1>7, <2>3, <2>4
  <2> QED BY <2>5, <2>6 DEF s, a
<1> HIDE DEF q
<1> QED BY <1>6, <1>8, <1>9, <1>10 DEF u, RowsBy

\* The i-th row id is that of the i-th row of a scan.
LEMMA TableDeletes ==
  ASSUME NEW t, IsTable(t), NEW i \in 1 .. Len(Scan(t))
  PROVE  /\ IsTable(DeleteRow(t, RowIds(t)[i]))
         /\ Scan(DeleteRow(t, RowIds(t)[i])) = RemoveAt(Scan(t), i)
<1> DEFINE I == DOMAIN t.table_data
           x == RowIds(t)[i]
           u == DeleteRow(t, x)
<1>1. PICK n, p : Enumerates(n, p, I)
  BY DEF IsTable
<1>2. I \in SUBSET Nat
  BY DEF IsTable
<1>3. /\ n \in Nat /\ Scan(t) = RowsBy(t.table_data, n, p)
      /\ IsRows(Scan(t)) /\ Len(Scan(t)) = n
      /\ \A k \in 1 .. n : RowIds(t)[k] = p[k]
  <2>1. n \in Nat /\ Scan(t) = RowsBy(t.table_data, n, p) /\ IsRows(Scan(t)) /\ Len(Scan(t)) = n
    BY <1>1, <1>2, ScanListed
  <2>2. \A k \in 1 .. n : RowIds(t)[k] = p[k]
    BY <1>1, <1>2, RowIdsListed
  <2> QED BY <2>1, <2>2
<1>4. i \in 1 .. n /\ x = p[i]
  BY <1>3
<1>5. /\ u = [table_data |-> [r \in I \ {x} |-> t.table_data[r]],
              next_page_id |-> t.next_page_id, next_slot_id |-> t.next_slot_id]
      /\ NextRowId(u) = NextRowId(t)
  <2>1. t = [table_data |-> t.table_data, next_page_id |-> t.next_page_id, next_slot_id |-> t.next_slot_id]
    BY DEF IsTable
  <2> DEFINE data == [r \in I \ {x} |-> t.table_data[r]]
  <2>2. u = [t EXCEPT !.table_data = data]
    BY DEF DeleteRow
  <2> HIDE DEF data, u
  <2>3. u = [table_data |-> data, next_page_id |-> t.next_page_id, next_slot_id |-> t.next_slot_id]
    BY <2>1, <2>2
  <2> QED BY <2>3 DEF NextRowId, data
<1> HIDE DEF u, x
<1> DEFINE q == [k \in 1 .. n - 1 |-> p[Was(i, k)]]
<1>6. DOMAIN u.table_data = I \ {x}
  BY <1>5
<1>7. Enumerates(n - 1, q, DOMAIN u.table_data)
  BY <1>1, <1>2, <1>4, <1>6, EnumeratesLess
<1>8. IsTable(u)
  <2> HIDE DEF q
  <2>1. \A r \in DOMAIN u.table_data : r \in Nat /\ r < NextRowId(u)
    BY <1>5, <1>6 DEF IsTable
  <2>2. t.next_page_id \in Nat /\ t.next_slot_id \in 0 .. SlotMod - 1
    BY DEF IsTable
  <2> QED BY <1>5, <1>7, <2>1, <2>2 DEF IsTable
<1>9. Scan(u) = RowsBy(u.table_data, n - 1, q)
  <2>1. DOMAIN u.table_data \in SUBSET Nat
    BY <1>2, <1>6
  <2> HIDE DEF q
  <2> QED BY <1>7, <2>1, ScanListed
<1>10. ASSUME NEW k \in 1 .. n - 1
       PROVE  u.table_data[q[k]] = Scan(t)[Was(i, k)]
  <2>1. q[k] = p[Was(i, k)] /\ q[k] \in I \ {x} /\ Was(i, k) \in 1 .. n
    <3>1. q[k] \in DOMAIN u.table_data
      BY <1>7 DEF Enumerates
    <3>2. Was(i, k) \in 1 .. n
      BY <1>3, <1>4 DEF Was
    <3> QED BY <1>6, <3>1, <3>2
  <2> QED BY <1>3, <1>5, <2>1 DEF RowsBy
<1>11. RemoveAt(Scan(t), i) = [k \in 1 .. n - 1 |-> Scan(t)[Was(i, k)]]
  <2> DEFINE s == Scan(t)
  <2>1. PICK S : s \in Seq(S) /\ Len(s) = n
    BY <1>3 DEF IsRows
  <2> HIDE DEF s
  <2>2. /\ RemoveAt(s, i) \in Seq(S) /\ Len(RemoveAt(s, i)) = n - 1
        /\ \A j \in 1 .. n - 1 : RemoveAt(s, i)[j] = s[Was(i, j)]
    BY <1>4, <2>1, RemovedAt DEF Was
  <2>3. RemoveAt(s, i) = [k \in 1 .. n - 1 |-> RemoveAt(s, i)[k]]
    <3> DEFINE r == RemoveAt(s, i)
    <3> HIDE DEF r
    <3>1. r \in Seq(S) /\ Len(r) = n - 1
      BY <2>2 DEF r
    <3>2. r = [k \in 1 .. n - 1 |-> r[k]]
      BY <3>1
    <3> QED BY <3>2 DEF r
  <2> QED BY <2>2, <2>3 DEF s
<1> HIDE DEF q
<1> QED BY <1>8, <1>9, <1>10, <1>11 DEF u, x, RowsBy

-----------------------------------------------------------------------------
(* Rows are kept. *)

\* Rows are the encodings of tuples with a schema, one by one.
Encoded(rows, tuples, schema) ==
  /\ IsRows(rows) /\ IsRows(tuples) /\ Len(rows) = Len(tuples)
  /\ \A k \in 1 .. Len(tuples) : IsTuple(tuples[k], schema) /\ rows[k] = BuildRow(tuples[k])

LEMMA EncodedNone ==
  ASSUME NEW schema
  PROVE  Encoded(<< >>, << >>, schema)
<1>1. << >> \in Seq({}) /\ Len(<< >>) = 0
  OBVIOUS
<1> QED BY <1>1 DEF Encoded, IsRows

\* A row comes to place i; the others keep their order.
LEMMA RowsInsert ==
  ASSUME NEW s, IsRows(s), NEW e, NEW i \in 1 .. Len(s) + 1
  PROVE  /\ IsRows(InsertAt(s, i, e)) /\ Len(s) \in Nat /\ Len(InsertAt(s, i, e)) = Len(s) + 1
         /\ InsertAt(s, i, e)[i] = e
         /\ \A k \in 1 .. Len(s) + 1 : k # i =>
              Becomes(i, k) \in 1 .. Len(s) /\ InsertAt(s, i, e)[k] = s[Becomes(i, k)]
<1>1. PICK R : s \in Seq(R)
  BY DEF IsRows
<1> DEFINE S == R \cup {e}
           n == Len(s)
           a == SubSeq(s, 1, i - 1)
           b == SubSeq(s, i, n)
           m == a \o <<e>>
<1>2. s \in Seq(S) /\ e \in S
  BY <1>1
<1> HIDE DEF S
<1>3. n \in Nat /\ <<e>> \in Seq(S) /\ Len(<<e>>) = 1 /\ <<e>>[1] = e
  BY <1>2
<1>4. a \in Seq(S) /\ Len(a) = i - 1 /\ \A j \in 1 .. i - 1 : a[j] = s[j]
  BY <1>2, <1>3
<1>5. b \in Seq(S) /\ Len(b) = n - (i - 1) /\ \A j \in 1 .. n - (i - 1) : b[j] = s[i - 1 + j]
  BY <1>2, <1>3
<1>6. InsertAt(s, i, e) = m \o b
  BY DEF InsertAt
<1> HIDE DEF a, b, n
<1>7. /\ m \in Seq(S) /\ Len(m) = i /\ m[i] = e
      /\ \A j \in 1 .. i - 1 : m[j] = s[j]
  <2> DEFINE q == <<e>>
  <2> HIDE DEF q
  <2>1. /\ a \o q \in Seq(S) /\ Len(a \o q) = Len(a) + Len(q)
        /\ \A j \in 1 .. Len(a) + Len(q) : (a \o q)[j] = IF j <= Len(a) THEN a[j] ELSE q[j - Len(a)]
    BY <1>3, <1>4, ConcatProperties DEF q
  <2>2. Len(q) = 1 /\ q[1] = e /\ i \in Int /\ i >= 1
    BY <1>3 DEF q, n
  <2>3. m = a \o q
    BY DEF q
  <2> HIDE DEF m
  <2>4. i - Len(a) = 1 /\ i \in 1 .. Len(a) + Len(q) /\ ~(i <= Len(a))
    BY <1>4, <2>2
  <2>5. m[i] = e
    BY <2>1, <2>2, <2>3, <2>4
  <2>6. \A j \in 1 .. i - 1 : m[j] = s[j]
    BY <1>4, <2>1, <2>2, <2>3
  <2> QED BY <1>4, <2>1, <2>2, <2>3, <2>5, <2>6
<1> HIDE DEF m
<1>8. /\ m \o b \in Seq(S) /\ Len(m \o b) = n + 1
      /\ \A j \in 1 .. n + 1 : (m \o b)[j] = IF j <= i THEN m[j] ELSE b[j - i]
  <2>1. /\ m \o b \in Seq(S) /\ Len(m \o b) = Len(m) + Len(b)
        /\ \A j \in 1 .. Len(m) + Len(b) : (m \o b)[j] = IF j <= Len(m) THEN m[j] ELSE b[j - Len(m)]
    BY <1>5, <1>7, ConcatProperties
  <2>2. Len(m) = i /\ Len(m) + Len(b) = n + 1
    BY <1>3, <1>5, <1>7 DEF n
  <2> QED BY <2>1, <2>2
<1>9. i \in 1 .. n + 1 /\ (m \o b)[i] = e
  BY <1>3, <1>7, <1>8 DEF n
<1>10. ASSUME NEW k \in 1 .. n + 1, k # i
       PROVE  Becomes(i, k) \in 1 .. n /\ (m \o b)[k] = s[Becomes(i, k)]
  <2>1. CASE k < i
    BY <1>3, <1>7, <1>8, <1>9, <2>1 DEF Becomes
  <2>2. CASE k > i
    <3>1. k - i \in 1 .. n - (i - 1) /\ i - 1 + (k - i) = k - 1 /\ ~(k <= i) /\ k - 1 \in 1 .. n
      BY <1>3, <1>9, <2>2
    <3>2. (m \o b)[k] = b[k - i]
      BY <1>8, <3>1
    <3>3. b[k - i] = s[k - 1]
      BY <1>5, <3>1
    <3>4. Becomes(i, k) = k - 1
      BY <1>9, <2>2 DEF Becomes
    <3> QED BY <3>1, <3>2, <3>3, <3>4
  <2>3. k < i \/ k > i
    <3>1. i \in Int /\ k \in Int
      BY <1>9
    <3> QED BY <1>10, <3>1
  <2> QED BY <2>1, <2>2, <2>3
<1> QED BY <1>3, <1>6, <1>8, <1>9, <1>10 DEF IsRows, n

\* At the last place it is appended.
LEMMA RowsInsertLast ==
  ASSUME NEW s, IsRows(s), NEW e
  PROVE  InsertAt(s, Len(s) + 1, e) = Append(s, e)
<1>1. PICK R : s \in Seq(R)
  BY DEF IsRows
<1> DEFINE S == R \cup {e}
           n == Len(s)
           a == Append(s, e)
           b == InsertAt(s, n + 1, e)
<1>2. s \in Seq(S) /\ e \in S /\ n \in Nat
  BY <1>1
<1> HIDE DEF S
<1>3. a \in Seq(S) /\ Len(a) = n + 1 /\ a[n + 1] = e /\ \A k \in 1 .. n : a[k] = s[k]
  BY <1>2, AppendProperties
<1>4. /\ IsRows(b) /\ Len(b) = n + 1 /\ b[n + 1] = e
      /\ \A k \in 1 .. n + 1 : k # n + 1 => b[k] = s[Becomes(n + 1, k)]
  BY <1>2, RowsInsert
<1>5. \A k \in 1 .. n + 1 : b[k] = a[k]
  BY <1>2, <1>3, <1>4 DEF Becomes
<1>6. PICK T : b \in Seq(T)
  BY <1>4 DEF IsRows
<1> HIDE DEF a, b
<1>7. b = [k \in 1 .. n + 1 |-> b[k]] /\ a = [k \in 1 .. n + 1 |-> a[k]]
  BY <1>3, <1>4, <1>6
<1> QED BY <1>5, <1>7 DEF a, b

LEMMA RowsRemove ==
  ASSUME NEW s, IsRows(s), NEW i \in 1 .. Len(s)
  PROVE  /\ IsRows(RemoveAt(s, i)) /\ Len(s) \in Nat /\ Len(RemoveAt(s, i)) = Len(s) - 1
         /\ \A k \in 1 .. Len(s) - 1 : RemoveAt(s, i)[k] = s[Was(i, k)] /\ Was(i, k) \in 1 .. Len(s)
<1>1. PICK S : s \in Seq(S)
  BY DEF IsRows
<1>2. Len(s) \in Nat
  BY <1>1
<1>3. /\ RemoveAt(s, i) \in Seq(S) /\ Len(RemoveAt(s, i)) = Len(s) - 1
      /\ \A k \in 1 .. Len(s) - 1 : RemoveAt(s, i)[k] = s[Was(i, k)]
  BY <1>1, RemovedAt DEF Was
<1>4. \A k \in 1 .. Len(s) - 1 : Was(i, k) \in 1 .. Len(s)
  BY <1>2 DEF Was
<1> QED BY <1>2, <1>3, <1>4 DEF IsRows

LEMMA EncodedInsert ==
  ASSUME NEW rows, NEW tuples, NEW schema, Encoded(rows, tuples, schema),
         NEW values, IsTuple(values, schema), NEW i \in 1 .. Len(rows) + 1
  PROVE  Encoded(InsertAt(rows, i, BuildRow(values)), InsertAt(tuples, i, values), schema)
<1> DEFINE n == Len(tuples)
           row == BuildRow(values)
           r == InsertAt(rows, i, row)
           t == InsertAt(tuples, i, values)
<1>1. IsRows(rows) /\ IsRows(tuples) /\ Len(rows) = n /\ i \in 1 .. n + 1
  BY DEF Encoded
<1>2. /\ IsRows(r) /\ Len(r) = n + 1 /\ n \in Nat /\ r[i] = row
      /\ \A k \in 1 .. n + 1 : k # i => Becomes(i, k) \in 1 .. n /\ r[k] = rows[Becomes(i, k)]
  <2> HIDE DEF row
  <2> QED BY <1>1, RowsInsert
<1>3. /\ IsRows(t) /\ Len(t) = n + 1 /\ t[i] = values
      /\ \A k \in 1 .. n + 1 : k # i => t[k] = tuples[Becomes(i, k)]
  BY <1>1, RowsInsert
<1> HIDE DEF r, t
<1>4. ASSUME NEW k \in 1 .. n + 1 PROVE IsTuple(t[k], schema) /\ r[k] = BuildRow(t[k])
  <2>1. CASE k = i
    BY <1>2, <1>3, <2>1
  <2>2. CASE k # i
    BY <1>2, <1>3, <2>2 DEF Encoded
  <2> QED BY <2>1, <2>2
<1>5. Encoded(r, t, schema)
  BY <1>2, <1>3, <1>4 DEF Encoded
<1> QED BY <1>5 DEF r, t

LEMMA EncodedRemove ==
  ASSUME NEW rows, NEW tuples, NEW schema, Encoded(rows, tuples, schema), NEW i \in 1 .. Len(rows)
  PROVE  Encoded(RemoveAt(rows, i), RemoveAt(tuples, i), schema)
<1> DEFINE n == Len(tuples)
           r == RemoveAt(rows, i)
           t == RemoveAt(tuples, i)
<1>1. IsRows(rows) /\ IsRows(tuples) /\ Len(rows) = n /\ i \in 1 .. n
  BY DEF Encoded
<1>2. /\ IsRows(r) /\ Len(r) = n - 1
      /\ \A k \in 1 .. n - 1 : r[k] = rows[Was(i, k)] /\ Was(i, k) \in 1 .. n
  BY <1>1, RowsRemove
<1>3. /\ IsRows(t) /\ Len(t) = n - 1
      /\ \A k \in 1 .. n - 1 : t[k] = tuples[Was(i, k)]
  BY <1>1, RowsRemove
<1> HIDE DEF r, t
<1>4. ASSUME NEW k \in 1 .. n - 1 PROVE IsTuple(t[k], schema) /\ r[k] = BuildRow(t[k])
  BY <1>2, <1>3 DEF Encoded
<1>5. Encoded(r, t, schema)
  BY <1>2, <1>3, <1>4 DEF Encoded
<1> QED BY <1>5 DEF r, t

\* What clients were told is what the rows read back as.
LEMMA EncodedReadBack ==
  ASSUME NEW rows, NEW tuples, NEW schema, Encoded(rows, tuples, schema)
  PROVE  [i \in DOMAIN rows |-> GetValues(rows[i], schema)] = tuples
<1>1. PICK R, S : rows \in Seq(R) /\ tuples \in Seq(S)
  BY DEF Encoded, IsRows
<1>2. Len(rows) = Len(tuples)
  BY DEF Encoded
<1>3. DOMAIN rows = 1 .. Len(tuples)
  BY <1>1, <1>2
<1>4. tuples = [k \in 1 .. Len(tuples) |-> tuples[k]]
  BY <1>1
<1>5. ASSUME NEW k \in 1 .. Len(tuples) PROVE GetValues(rows[k], schema) = tuples[k]
  BY RowReadBack DEF Encoded
<1> QED BY <1>3, <1>4, <1>5

-----------------------------------------------------------------------------
(* Where the rows of a table are. *)

\* The mapping table has this row.
MappedTo(n, f) == \E i \in 1 .. Len(mapping) : mapping[i].file_name = n /\ mapping[i].file_id = f

\* The schema a load finds.
SchemaOf(n) == Loaded(table_catalog, column_catalog)[n].schema

\* Disk tables and tables in memory hold what clients were told.
FilesEncoded ==
  \A n, f : MappedTo(n, f) /\ n \notin Catalogs => Encoded(files[f], acked[n], SchemaOf(n))
TablesEncoded ==
  \A n \in DOMAIN tables_m :
    IsTable(tables_m[n]) /\ Encoded(Scan(tables_m[n]), acked[n], SchemaOf(n))

KeptInv ==
  /\ acked = [n \in TableNames |-> acked[n]]
  /\ FilesEncoded /\ TablesEncoded

LEMMA MappedToOne ==
  ASSUME StorageInv, NEW n, NEW f, MappedTo(n, f)
  PROVE  /\ GetFileId(n) = f /\ f \in DOMAIN files /\ Mapped(n) /\ n \in TableNames
         /\ \A m, g : MappedTo(m, g) /\ (m = n \/ g = f) => m = n /\ g = f
<1>1. PICK i \in 1 .. Len(mapping) : mapping[i].file_name = n /\ mapping[i].file_id = f
  BY DEF MappedTo
<1>2. GetFileId(n) = f
  BY <1>1, MappingRowOf DEF StorageInv
<1>3. f \in DOMAIN files /\ Mapped(n)
  BY <1>1 DEF StorageInv, FilesMapped, FileMapped, Mapped
<1>4. n \in TableNames
  <2>1. mapping[i] \in MappingRows
    BY ElementOfSeq DEF StorageInv, StorageTypes
  <2> QED BY <1>1, <2>1 DEF MappingRows
<1>5. \A m, g : MappedTo(m, g) /\ (m = n \/ g = f) => m = n /\ g = f
  BY <1>1 DEF MappedTo, StorageInv, MappedOnce
<1> QED BY <1>2, <1>3, <1>4, <1>5

LEMMA FileIdMapped ==
  ASSUME StorageInv, NEW n, GetFileId(n) # None
  PROVE  MappedTo(n, GetFileId(n))
<1>1. Mapped(n)
  BY MappingRowOf DEF StorageInv
<1>2. PICK i \in 1 .. Len(mapping) : mapping[i].file_name = n
  BY <1>1 DEF Mapped
<1>3. GetFileId(n) = mapping[i].file_id
  BY <1>2, MappingRowOf DEF StorageInv
<1> QED BY <1>2, <1>3 DEF MappedTo

\* While the process runs, a disk table is listed so, and its schema cached.
LEMMA MappedCached ==
  ASSUME StorageInv, up, NEW n, NEW f, MappedTo(n, f), n \notin Catalogs
  PROVE  n \in DOMAIN table_info /\ table_info[n].type = "Disk"
<1>1. Mapped(n) /\ n \in TableNames
  BY MappedToOne
<1>2. Listed(n, "Disk")
  BY <1>1 DEF StorageInv, MappingListed
<1> QED BY <1>2, CacheTypes DEF TableTypes

LEMMA RegisteredCached ==
  ASSUME StorageInv, NEW n \in DOMAIN tables_m
  PROVE  up /\ n \in DOMAIN table_info /\ table_info[n].type = "InMemory"
<1>1. up /\ Listed(n, "InMemory")
  BY DEF StorageInv, CacheListed
<1> QED BY <1>1, CacheTypes DEF TableTypes

LEMMA SchemaCached ==
  ASSUME CatalogInv, up, NEW n
  PROVE  SchemaOf(n) = table_info[n].schema
BY DEF CatalogInv, CatalogReloads, SchemaOf

\* A cached schema is a list.
LEMMA SchemaIsList ==
  ASSUME StorageInv, CatalogInv, up, NEW n \in DOMAIN table_info
  PROVE  Len(GetSchema(n)) \in Nat /\ DOMAIN GetSchema(n) = 1 .. Len(GetSchema(n))
<1> DEFINE k == TableInfoRow(table_catalog, n)
           m == table_catalog[k].num_attributes
           schema == [p \in 1 .. m |-> LoadedAttribute(column_catalog, n, p - 1)]
<1>1. table_info = Loaded(table_catalog, column_catalog)
  BY DEF CatalogInv, CatalogReloads
<1>2. n \in DOMAIN Loaded(table_catalog, column_catalog)
  BY <1>1
<1>3. GetSchema(n) = schema
  <2>1. n \in {table_catalog[i].table_name : i \in DOMAIN table_catalog}
    BY <1>2 DEF Loaded
  <2>2. table_info[n] = [type |-> table_catalog[k].type, schema |-> schema]
    BY <1>1, <2>1 DEF Loaded
  <2> HIDE DEF schema
  <2> QED BY <2>2 DEF GetSchema
<1>4. m \in Nat
  <2>1. table_catalog \in Seq(CatalogRows) /\ ListedOnce
    BY DEF StorageInv, StorageTypes
  <2>2. PICK i \in 1 .. Len(table_catalog) : table_catalog[i].table_name = n
    BY <1>2, <2>1, LoadedMap
  <2>3. k = i
    BY <2>1, <2>2, InfoRowOf DEF ListedOnce
  <2>4. table_catalog[i] \in CatalogRows
    BY <2>1, ElementOfSeq
  <2> QED BY <2>3, <2>4 DEF CatalogRows
<1> DEFINE S == {schema[p] : p \in 1 .. m}
<1>5. schema \in [1 .. m -> S]
  OBVIOUS
<1> HIDE DEF schema, m, S
<1>6. Len(schema) = m /\ DOMAIN schema = 1 .. m
  BY <1>4, <1>5, ListOf
<1> QED BY <1>3, <1>4, <1>6

-----------------------------------------------------------------------------
(* Every step keeps the rows. *)

\* A step that touches neither the rows nor the schema of a table keeps them.
LEMMA KeptUnchanged ==
  ASSUME KeptInv, UNCHANGED <<mapping, files, table_catalog, column_catalog, tables_m, acked>>
  PROVE  KeptInv'
<1>1. \A n, f : MappedTo(n, f)' <=> MappedTo(n, f)
  BY DEF MappedTo
<1>2. \A n : SchemaOf(n)' = SchemaOf(n)
  BY DEF SchemaOf
<1>3. FilesEncoded'
  BY <1>1, <1>2 DEF KeptInv, FilesEncoded
<1>4. TablesEncoded'
  BY <1>2 DEF KeptInv, TablesEncoded
<1> QED BY <1>3, <1>4 DEF KeptInv

LEMMA KeptCreate ==
  ASSUME StorageInv, CatalogInv, KeptInv, StorageInv', CatalogInv',
         NEW c \in Creatable, Create(c.name, c.type, c.schema)
  PROVE  KeptInv'
<1> DEFINE n == c.name
           t == c.type
<1>1. /\ up /\ up' /\ n \in TableNames /\ n \notin DOMAIN table_info /\ FactoryCreates(n, t)
      /\ table_info' = Put(table_info, n, [type |-> t, schema |-> c.schema])
      /\ acked' = [acked EXCEPT ![n] = << >>]
  BY ManagerAssumption DEF Create, CreateTable, AddTable, TableExists
<1> HIDE DEF n, t
<1>2. acked' = [m \in TableNames |-> acked'[m]] /\ acked'[n] = << >>
  BY <1>1 DEF KeptInv
<1>3. ASSUME NEW m \in DOMAIN table_info PROVE SchemaOf(m)' = SchemaOf(m) /\ acked'[m] = acked[m]
  <2>1. m # n
    BY <1>1, <1>3
  <2>2. table_info'[m] = table_info[m]
    BY <1>1, <2>1 DEF Put
  <2>3. SchemaOf(m)' = table_info'[m].schema /\ SchemaOf(m) = table_info[m].schema
    BY <1>1 DEF SchemaOf, CatalogInv, CatalogReloads
  <2>4. acked'[m] = acked[m]
    BY <1>1, <2>1 DEF KeptInv
  <2> QED BY <2>2, <2>3, <2>4
<1>4. ASSUME NEW m, NEW f, MappedTo(m, f), m \notin Catalogs
      PROVE  Encoded(files[f], acked'[m], SchemaOf(m)') /\ f \in DOMAIN files
  <2>1. m \in DOMAIN table_info
    BY <1>1, <1>4, MappedCached
  <2> QED BY <1>3, <1>4, <2>1, MappedToOne DEF KeptInv, FilesEncoded
<1>5. ASSUME NEW m \in DOMAIN tables_m
      PROVE  /\ IsTable(tables_m[m])
             /\ Encoded(Scan(tables_m[m]), acked'[m], SchemaOf(m)')
  BY <1>3, <1>5, RegisteredCached DEF KeptInv, TablesEncoded
<1>6. CASE t = "InMemory" /\ tables_m' = Put(tables_m, n, NewTable) /\ UNCHANGED diskVars
  <2>1. FilesEncoded'
    <3>1. \A m, f : MappedTo(m, f)' <=> MappedTo(m, f)
      BY <1>6 DEF MappedTo, diskVars
    <3> QED BY <1>4, <1>6, <3>1 DEF FilesEncoded, diskVars
  <2>2. TablesEncoded'
    <3>1. ASSUME NEW m \in DOMAIN tables_m'
          PROVE  IsTable(tables_m'[m]) /\ Encoded(Scan(tables_m'[m]), acked'[m], SchemaOf(m)')
      <4>1. CASE m = n
        <5>1. tables_m'[m] = NewTable
          BY <1>6, <4>1 DEF Put
        <5> QED BY <1>2, <4>1, <5>1, TableNew, EncodedNone
      <4>2. CASE m # n
        <5>1. m \in DOMAIN tables_m /\ tables_m'[m] = tables_m[m]
          BY <1>6, <4>2 DEF Put
        <5> QED BY <1>5, <5>1
      <4> QED BY <4>1, <4>2
    <3> QED BY <3>1 DEF TablesEncoded
  <2> QED BY <1>2, <2>1, <2>2 DEF KeptInv
<1>7. ASSUME NEW f \in FileIds, CreateTableFile(n, f), UNCHANGED tables_m PROVE KeptInv'
  <2>1. f \notin DOMAIN files /\ files' = Put(files, f, << >>) /\ SaveMapping(n, f)
    BY <1>7 DEF CreateTableFile
  <2>2. ASSUME NEW m, NEW g, MappedTo(m, g)' PROVE MappedTo(m, g) \/ (m = n /\ g = f)
    <3> DEFINE row == [file_name |-> n, file_id |-> f]
    <3>1. mapping \in Seq(MappingRows) /\ row \in MappingRows /\ mapping' = Append(mapping, row)
      BY <1>1, <2>1 DEF StorageInv, StorageTypes, SaveMapping, MappingRows
    <3>2. row.file_name = n /\ row.file_id = f
      OBVIOUS
    <3> HIDE DEF row
    <3>3. PICK i \in 1 .. Len(mapping') : mapping'[i].file_name = m /\ mapping'[i].file_id = g
      BY <2>2 DEF MappedTo
    <3>4. /\ Len(mapping') = Len(mapping) + 1 /\ mapping'[Len(mapping) + 1] = row
          /\ Len(mapping) \in Nat /\ \A j \in 1 .. Len(mapping) : mapping'[j] = mapping[j]
      BY <3>1, AppendProperties
    <3>5. CASE i = Len(mapping) + 1
      BY <3>2, <3>3, <3>4, <3>5
    <3>6. CASE i \in 1 .. Len(mapping)
      BY <3>3, <3>4, <3>6 DEF MappedTo
    <3> QED BY <3>4, <3>5, <3>6
  <2>3. ASSUME NEW m, NEW g, MappedTo(m, g)', m \notin Catalogs
        PROVE  Encoded(files'[g], acked'[m], SchemaOf(m)')
    <3>1. CASE MappedTo(m, g)
      <4>1. Encoded(files[g], acked'[m], SchemaOf(m)') /\ g \in DOMAIN files
        BY <1>4, <2>3, <3>1
      <4>2. files'[g] = files[g]
        BY <2>1, <4>1 DEF Put
      <4> QED BY <4>1, <4>2
    <3>2. CASE m = n /\ g = f
      <4>1. files'[g] = << >>
        BY <2>1, <3>2 DEF Put
      <4> QED BY <1>2, <3>2, <4>1, EncodedNone
    <3> QED BY <2>2, <2>3, <3>1, <3>2
  <2>4. FilesEncoded'
    BY <2>3 DEF FilesEncoded
  <2>5. TablesEncoded'
    BY <1>5, <1>7 DEF TablesEncoded
  <2> QED BY <1>2, <2>4, <2>5 DEF KeptInv
<1> QED BY <1>1, <1>6, <1>7 DEF FactoryCreates

LEMMA KeptDelete ==
  ASSUME StorageInv, CatalogInv, KeptInv, StorageInv', CatalogInv',
         NEW n \in TableNames, DeleteTable(n), UNCHANGED acked
  PROVE  KeptInv'
<1>1. up /\ up' /\ n \in DOMAIN table_info /\ table_info' = Erase(table_info, n)
  BY DEF DeleteTable, RemoveTable, TableExists
<1>2. ASSUME NEW m \in DOMAIN table_info' PROVE SchemaOf(m)' = SchemaOf(m) /\ m # n
  <2>1. m # n /\ table_info'[m] = table_info[m]
    BY <1>1 DEF Erase
  <2>2. SchemaOf(m)' = table_info'[m].schema /\ SchemaOf(m) = table_info[m].schema
    BY <1>1 DEF SchemaOf, CatalogInv, CatalogReloads
  <2> QED BY <2>1, <2>2
<1>3. TablesEncoded'
  <2>1. ASSUME NEW m \in DOMAIN tables_m' PROVE m \in DOMAIN tables_m /\ tables_m'[m] = tables_m[m]
    BY DEF DeleteTable, Erase
  <2>2. ASSUME NEW m \in DOMAIN tables_m' PROVE SchemaOf(m)' = SchemaOf(m)
    <3>1. Listed(m, "InMemory")'
      BY DEF StorageInv, CacheListed
    <3>2. m \in DOMAIN table_info'
      BY <1>1, <3>1 DEF StorageInv, CacheListed, TableTypes
    <3> QED BY <1>2, <3>2
  <2> QED BY <2>1, <2>2 DEF KeptInv, TablesEncoded
<1>4. ASSUME NEW m, NEW g, MappedTo(m, g)', m \notin Catalogs
      PROVE  SchemaOf(m)' = SchemaOf(m)
  <2>1. Mapped(m)' /\ m \in TableNames
    <3>1. PICK i \in 1 .. Len(mapping') : mapping'[i].file_name = m
      BY <1>4 DEF MappedTo
    <3>2. mapping'[i] \in MappingRows
      BY ElementOfSeq DEF StorageInv, StorageTypes
    <3> QED BY <3>1, <3>2 DEF Mapped, MappingRows
  <2>2. Listed(m, "Disk")'
    BY <1>1, <1>4, <2>1 DEF StorageInv, MappingListed
  <2>3. m \in DOMAIN table_info'
    BY <1>1, <2>2 DEF StorageInv, CacheListed, TableTypes
  <2> QED BY <1>2, <2>3
<1>5. ASSUME NEW m, NEW g, MappedTo(m, g)' PROVE MappedTo(m, g) /\ files'[g] = files[g]
  <2>1. CASE UNCHANGED diskVars
    BY <1>5, <2>1 DEF MappedTo, diskVars
  <2>2. CASE Stored(n, "Disk") /\ DeleteTableFile(n)
    <3>1. GetFileId(n) # None
      BY <2>2 DEF Stored
    <3>2. Mapped(n) /\ DeleteMapping(n) /\ files' = Erase(files, GetFileId(n))
      BY <2>2, <3>1, MappingRowOf DEF DeleteTableFile, StorageInv
    <3>3. FileMapped(g)'
      BY <1>5 DEF MappedTo, FileMapped
    <3>4. FileMapped(g) /\ g # GetFileId(n)
      BY <3>2, <3>3, MappingRemoves DEF StorageInv
    <3>5. files'[g] = files[g]
      <4>1. g \in DOMAIN files
        BY <3>4 DEF StorageInv, FilesMapped
      <4> QED BY <3>2, <3>4, <4>1 DEF Erase
    <3>6. PICK i \in 1 .. Len(mapping) : mapping[i].file_name = n
      BY <3>2 DEF Mapped
    <3>7. mapping \in Seq(MappingRows) /\ mapping' = RemoveAt(mapping, i)
      BY <3>2, <3>6, MappingRowOf DEF DeleteMapping, StorageInv, StorageTypes
    <3>8. PICK j \in 1 .. Len(mapping') : mapping'[j].file_name = m /\ mapping'[j].file_id = g
      BY <1>5 DEF MappedTo
    <3>9. Was(i, j) \in 1 .. Len(mapping) /\ mapping'[j] = mapping[Was(i, j)]
      BY <3>7, RemovedElement
    <3> QED BY <3>5, <3>8, <3>9 DEF MappedTo
  <2> QED BY <2>1, <2>2 DEF DeleteTable
<1>6. FilesEncoded'
  BY <1>4, <1>5 DEF KeptInv, FilesEncoded
<1> QED BY <1>3, <1>6 DEF KeptInv

LEMMA KeptFirstStart ==
  ASSUME StorageInv, KeptInv, FirstStart, UNCHANGED acked
  PROVE  KeptInv'
<1>1. ~up /\ mapping = << >>
  <2>1. ~up /\ GetFileId(TableCatalog) = None
    BY DEF FirstStart
  <2>2. ~Mapped(TableCatalog)
    BY <2>1, MappingRowOf DEF StorageInv
  <2> QED BY <2>1, <2>2 DEF StorageInv, MappingListed
<1>2. DOMAIN tables_m = {} /\ tables_m' = tables_m
  BY <1>1 DEF StorageInv, CacheListed, FirstStart
<1>3. ASSUME NEW n, NEW f, MappedTo(n, f)' PROVE n \in Catalogs
  <2>1. PICK f1, f2 : mapping' = mapping \o << [file_name |-> TableCatalog, file_id |-> f1],
                                               [file_name |-> ColumnCatalog, file_id |-> f2] >>
    BY DEF FirstStart
  <2> DEFINE a == [file_name |-> TableCatalog, file_id |-> f1]
             b == [file_name |-> ColumnCatalog, file_id |-> f2]
  <2>2. a.file_name = TableCatalog /\ b.file_name = ColumnCatalog /\ mapping' = << >> \o <<a, b>>
    BY <1>1, <2>1
  <2> HIDE DEF a, b
  <2>3. mapping' = <<a, b>>
    BY <2>2
  <2>4. PICK i \in 1 .. Len(mapping') : mapping'[i].file_name = n
    BY <1>3 DEF MappedTo
  <2>5. i = 1 \/ i = 2
    BY <2>3, <2>4
  <2> QED BY <2>2, <2>3, <2>4, <2>5 DEF Catalogs
<1>4. FilesEncoded'
  BY <1>3 DEF FilesEncoded
<1>5. TablesEncoded'
  BY <1>2 DEF TablesEncoded
<1> QED BY <1>4, <1>5 DEF KeptInv

\* A call on a handle: the rows of its table change, and what clients know of them.
LEMMA KeptStore ==
  ASSUME StorageInv, CatalogInv, KeptInv, NEW n \in TableNames, Opens(n), NEW t, NEW s,
         SetStore(n, t, s), HandleCall, NEW tuples, acked' = [acked EXCEPT ![n] = tuples],
         table_info[n].type = "InMemory" => IsTable(t) /\ Encoded(Scan(t), tuples, GetSchema(n)),
         table_info[n].type = "Disk" => Encoded(s, tuples, GetSchema(n))
  PROVE  KeptInv'
<1>1. up /\ n \in DOMAIN table_info /\ Stored(n, table_info[n].type)
  BY DEF Opens, TableExists
<1>2. UNCHANGED <<mapping, table_catalog, column_catalog, table_info, up>>
  BY DEF HandleCall, catalogVars
<1>3. /\ acked' = [m \in TableNames |-> acked'[m]] /\ acked'[n] = tuples
      /\ \A m \in TableNames : m # n => acked'[m] = acked[m]
  BY DEF KeptInv
<1>4. \A m, f : MappedTo(m, f)' <=> MappedTo(m, f)
  BY <1>2 DEF MappedTo
<1>5. (\A m : SchemaOf(m)' = SchemaOf(m)) /\ SchemaOf(n) = GetSchema(n)
  BY <1>1, <1>2 DEF SchemaOf, CatalogInv, CatalogReloads, GetSchema
<1>6. \A m \in DOMAIN tables_m : m \in TableNames
  <2>1. \A i \in 1 .. Len(table_catalog) : table_catalog[i].table_name \in TableNames
    <3>1. \A i \in 1 .. Len(table_catalog) : table_catalog[i] \in CatalogRows
      BY ElementOfSeq DEF StorageInv, StorageTypes
    <3> QED BY <3>1 DEF CatalogRows
  <2> QED BY <2>1 DEF StorageInv, CacheListed, Listed
<1>7. CASE table_info[n].type = "InMemory" /\ tables_m' = [tables_m EXCEPT ![n] = t] /\ UNCHANGED files
  <2>1. FilesEncoded'
    <3>1. ASSUME NEW m, NEW f, MappedTo(m, f), m \notin Catalogs PROVE m # n /\ m \in TableNames
      <4>1. table_info[m].type = "Disk"
        BY <1>1, <3>1, MappedCached
      <4> QED BY <1>7, <3>1, <4>1, MappedToOne
    <3> QED BY <1>3, <1>4, <1>5, <1>7, <3>1 DEF FilesEncoded, KeptInv
  <2>2. ASSUME NEW m \in DOMAIN tables_m'
        PROVE  IsTable(tables_m'[m]) /\ Encoded(Scan(tables_m'[m]), acked'[m], SchemaOf(m)')
    <3>1. m \in DOMAIN tables_m
      BY <1>7
    <3>2. CASE m = n
      <4>1. tables_m'[m] = t
        BY <1>7, <3>1, <3>2
      <4> QED BY <1>3, <1>5, <1>7, <3>2, <4>1
    <3>3. CASE m # n
      <4>1. tables_m'[m] = tables_m[m]
        BY <1>7, <3>1, <3>3
      <4>2. acked'[m] = acked[m]
        BY <1>3, <1>6, <3>1, <3>3
      <4> QED BY <1>5, <3>1, <4>1, <4>2 DEF KeptInv, TablesEncoded
    <3> QED BY <3>2, <3>3
  <2>3. TablesEncoded'
    BY <2>2 DEF TablesEncoded
  <2> QED BY <1>3, <2>1, <2>3 DEF KeptInv
<1>8. CASE /\ table_info[n].type = "Disk" /\ files' = [files EXCEPT ![GetFileId(n)] = s]
           /\ UNCHANGED tables_m
  <2>1. MappedTo(n, GetFileId(n))
    BY <1>1, <1>8, FileIdMapped DEF Stored
  <2>2. ASSUME NEW m, NEW f, MappedTo(m, f), m \notin Catalogs
        PROVE  Encoded(files'[f], acked'[m], SchemaOf(m)')
    <3>1. f \in DOMAIN files /\ m \in TableNames
      BY <2>2, MappedToOne
    <3>2. CASE m = n
      <4>1. f = GetFileId(n)
        BY <2>1, <2>2, <3>2, MappedToOne
      <4>2. files'[f] = s
        BY <1>8, <3>1, <4>1
      <4> QED BY <1>3, <1>5, <1>8, <3>2, <4>2
    <3>3. CASE m # n
      <4>1. f # GetFileId(n)
        BY <2>1, <2>2, <3>3, MappedToOne
      <4>2. files'[f] = files[f]
        BY <1>8, <3>1, <4>1
      <4> QED BY <1>3, <1>5, <2>2, <3>1, <3>3, <4>2 DEF KeptInv, FilesEncoded
    <3> QED BY <3>2, <3>3
  <2>3. FilesEncoded'
    BY <1>4, <2>2 DEF FilesEncoded
  <2>4. ASSUME NEW m \in DOMAIN tables_m PROVE m # n /\ m \in TableNames
    BY <1>6, <1>8, RegisteredCached
  <2>5. TablesEncoded'
    BY <1>3, <1>5, <1>8, <2>4 DEF KeptInv, TablesEncoded
  <2> QED BY <1>3, <2>3, <2>5 DEF KeptInv
<1> QED BY <1>7, <1>8 DEF SetStore
\* The values of an INSERT are values of the columns' types.
LEMMA InsertedTuple ==
  ASSUME NEW texts \in Texts, NEW schema, Len(schema) \in Nat, DOMAIN schema = 1 .. Len(schema),
         Buildable(Converted(texts, schema), schema),
         \A i \in DOMAIN Converted(texts, schema) : IsValid(Converted(texts, schema)[i])
  PROVE  IsTuple(Converted(texts, schema), schema)
<1> DEFINE values == Converted(texts, schema)
           n == Len(texts)
           V == {values[i] : i \in DOMAIN values}
<1>1. n \in Nat /\ DOMAIN texts = 1 .. n
  <2> DEFINE S == {texts[i] : i \in DOMAIN texts}
  <2>1. texts \in Seq(S)
    BY ExecutorAssumption DEF IsList
  <2> HIDE DEF S
  <2> QED BY <2>1
<1>2. DOMAIN values = 1 .. n /\ \A i \in 1 .. n : values[i] = ValueFromString(schema[i].type, texts[i])
  BY <1>1 DEF Converted
<1>3. values \in [1 .. n -> V]
  <2>1. values = [i \in 1 .. n |-> values[i]]
    BY <1>1 DEF Converted
  <2> HIDE DEF values
  <2> QED BY <1>2, <2>1
<1>4. IsList(values)
  <2> HIDE DEF values
  <2>1. values \in Seq(V)
    <3> HIDE DEF V
    <3> QED BY <1>1, <1>3, ListOf
  <2> QED BY <2>1 DEF IsList
<1>5. ASSUME NEW i \in DOMAIN values PROVE IsValue(values[i])
  <2> DEFINE ty == schema[i].type
             text == texts[i]
  <2>1. values[i] = ValueFromString(ty, text) /\ IsValid(values[i]) /\ i \in DOMAIN texts
    BY <1>1, <1>2, <1>5
  <2>2. text.chars \in Seq(0 .. Base - 1) /\ text.number \in Int \cup {NotANumber}
    BY <2>1, ExecutorAssumption DEF IsText
  <2> HIDE DEF values, ty, text
  <2>3. values[i].type \in TypeIds
    BY <2>1 DEF IsValid
  <2>4. CASE ty = "String"
    <3>1. values[i] = [type |-> "String", value |-> text.chars]
      BY <2>1, <2>3, <2>4 DEF ValueFromString, StringFromString, Invalid, TypeIds
    <3> QED BY <2>2, <3>1 DEF IsValue
  <2>5. CASE ty # "String"
    <3>1. /\ values[i] = [type |-> ty, value |-> text.number]
          /\ text.number # NotANumber /\ InRange(ty, text.number)
      BY <2>1, <2>3, <2>5 DEF ValueFromString, NumberFromString, Invalid, TypeIds
    <3>2. values[i].type = ty /\ values[i].value = text.number
      BY <3>1
    <3>3. ty \in TypeIds \ {"String"} /\ text.number \in Int
      BY <2>2, <2>3, <2>5, <3>1, <3>2
    <3> QED BY <3>1, <3>2, <3>3 DEF IsValue
  <2> QED BY <2>4, <2>5
<1> QED BY <1>4, <1>5 DEF IsTuple

\* A table that opens holds what clients were told.
LEMMA OpenEncoded ==
  ASSUME StorageInv, CatalogInv, KeptInv, NEW n, Opens(n)
  PROVE  /\ Encoded(TableRows(n), acked[n], GetSchema(n))
         /\ Len(GetSchema(n)) \in Nat /\ DOMAIN GetSchema(n) = 1 .. Len(GetSchema(n))
         /\ table_info[n].type = "InMemory" => TableRows(n) = Scan(tables_m[n]) /\ IsTable(tables_m[n])
         /\ table_info[n].type = "Disk" => TableRows(n) = files[GetFileId(n)]
         /\ table_info[n].type \in {"InMemory", "Disk"}
<1>1. up /\ n \in DOMAIN table_info /\ Stored(n, table_info[n].type)
  BY DEF Opens, TableExists
<1>2. Len(GetSchema(n)) \in Nat /\ DOMAIN GetSchema(n) = 1 .. Len(GetSchema(n))
  BY <1>1, SchemaIsList
<1>3. SchemaOf(n) = GetSchema(n)
  BY <1>1, SchemaCached DEF GetSchema
<1>4. table_info[n].type \in {"InMemory", "Disk"}
  <2>1. \E t \in TableTypes : Listed(n, t)
    BY <1>1 DEF StorageInv, CacheListed
  <2> QED BY <1>1, <2>1, CacheTypes DEF TableTypes
<1>5. CASE table_info[n].type = "InMemory"
  <2>1. n \in DOMAIN tables_m /\ TableRows(n) = Scan(tables_m[n])
    BY <1>1, <1>5 DEF Stored, TableRows
  <2> QED BY <1>2, <1>3, <1>4, <1>5, <2>1 DEF KeptInv, TablesEncoded
<1>6. CASE table_info[n].type = "Disk"
  <2>1. GetFileId(n) # None /\ TableRows(n) = files[GetFileId(n)]
    BY <1>1, <1>6 DEF Stored, TableRows
  <2>2. MappedTo(n, GetFileId(n))
    BY <2>1, FileIdMapped
  <2>3. n \notin Catalogs
    <3>1. Listed(n, "Disk")
      BY <1>1, <1>6, CacheTypes DEF TableTypes
    <3> QED BY <3>1 DEF StorageInv, MappingListed
  <2> QED BY <1>2, <1>3, <1>4, <1>6, <2>1, <2>2, <2>3 DEF KeptInv, FilesEncoded
<1> QED BY <1>4, <1>5, <1>6

\* The places a row may come to are places among the others, in memory the last one.
LEMMA PlacesOf ==
  ASSUME NEW n, NEW count \in Nat, NEW place \in NewPlaces(n, count)
  PROVE  /\ place \in 1 .. count + 1
         /\ table_info[n].type = "InMemory" => place = count + 1
  BY DEF NewPlaces

LEMMA KeptInsert ==
  ASSUME StorageInv, CatalogInv, KeptInv, NEW n \in TableNames, NEW texts \in Texts, Insert(n, texts)
  PROVE  KeptInv'
<1> DEFINE schema == GetSchema(n)
           values == Converted(texts, schema)
           row == BuildRow(values)
<1>1. Opens(n) /\ Buildable(values, schema) /\ \A i \in DOMAIN values : IsValid(values[i])
  BY DEF Insert, Insertable
<1>2. PICK place : HandleInsert(n, place, values)
  BY DEF Insert
<1>3. /\ Encoded(TableRows(n), acked[n], schema) /\ Len(schema) \in Nat /\ DOMAIN schema = 1 .. Len(schema)
      /\ table_info[n].type = "InMemory" => TableRows(n) = Scan(tables_m[n]) /\ IsTable(tables_m[n])
      /\ table_info[n].type = "Disk" => TableRows(n) = files[GetFileId(n)]
  BY <1>1, OpenEncoded
<1>4. IsTuple(values, schema)
  BY <1>1, <1>3, InsertedTuple
<1> HIDE DEF values, schema
<1>5. IsRows(TableRows(n)) /\ Len(TableRows(n)) \in Nat
  <2>1. IsRows(TableRows(n))
    BY <1>3 DEF Encoded
  <2>2. PICK S : TableRows(n) \in Seq(S)
    BY <2>1 DEF IsRows
  <2> QED BY <2>1, <2>2
<1>6. /\ place \in 1 .. Len(TableRows(n)) + 1
      /\ table_info[n].type = "InMemory" => place = Len(TableRows(n)) + 1
  BY <1>2, <1>5, PlacesOf DEF HandleInsert, StoreRow
<1>7. Encoded(InsertAt(TableRows(n), place, row), InsertAt(acked[n], place, values), schema)
  BY <1>3, <1>4, <1>6, EncodedInsert
<1> HIDE DEF row
<1> DEFINE t == InsertRow(tables_m[n], row)
           s == InsertAt(files[GetFileId(n)], place, row)
           tuples == InsertAt(acked[n], place, values)
<1>8. SetStore(n, t, s) /\ HandleCall /\ acked' = [acked EXCEPT ![n] = tuples]
  BY <1>2 DEF HandleInsert, StoreRow, row
<1>9. table_info[n].type = "InMemory" => IsTable(t) /\ Encoded(Scan(t), tuples, schema)
  <2> SUFFICES ASSUME table_info[n].type = "InMemory"
               PROVE  IsTable(t) /\ Encoded(Scan(t), tuples, schema)
    OBVIOUS
  <2>1. IsTable(t) /\ Scan(t) = Append(TableRows(n), row)
    BY <1>3, TableInserts
  <2>2. InsertAt(TableRows(n), place, row) = Append(TableRows(n), row)
    BY <1>5, <1>6, RowsInsertLast
  <2> HIDE DEF t, tuples
  <2>3. Scan(t) = InsertAt(TableRows(n), place, row)
    BY <2>1, <2>2
  <2> QED BY <1>7, <2>1, <2>3 DEF tuples
<1>10. table_info[n].type = "Disk" => Encoded(s, tuples, schema)
  BY <1>3, <1>7
<1> HIDE DEF t, s, tuples
<1> QED BY <1>1, <1>8, <1>9, <1>10, KeptStore DEF schema

LEMMA RowPlaces ==
  ASSUME StorageInv, CatalogInv, KeptInv, NEW n, Opens(n)
  PROVE  DOMAIN TableRows(n) = 1 .. Len(TableRows(n))
<1>1. PICK S : TableRows(n) \in Seq(S)
  BY OpenEncoded DEF Encoded, IsRows
<1> QED BY <1>1

LEMMA KeptRowDelete ==
  ASSUME StorageInv, CatalogInv, KeptInv, NEW n \in TableNames, NEW i, HandleDelete(n, i)
  PROVE  KeptInv'
<1> DEFINE schema == GetSchema(n)
           t == DeleteRow(tables_m[n], RowIds(tables_m[n])[i])
           s == RemoveAt(files[GetFileId(n)], i)
           tuples == RemoveAt(acked[n], i)
<1>1. Opens(n) /\ i \in 1 .. Len(TableRows(n))
  BY RowPlaces DEF HandleDelete, RemoveRow
<1>2. SetStore(n, t, s) /\ HandleCall /\ acked' = [acked EXCEPT ![n] = tuples]
  BY DEF HandleDelete, RemoveRow
<1>3. /\ Encoded(TableRows(n), acked[n], schema)
      /\ table_info[n].type = "InMemory" => TableRows(n) = Scan(tables_m[n]) /\ IsTable(tables_m[n])
      /\ table_info[n].type = "Disk" => TableRows(n) = files[GetFileId(n)]
  BY <1>1, OpenEncoded
<1>4. Encoded(RemoveAt(TableRows(n), i), tuples, schema)
  BY <1>1, <1>3, EncodedRemove
<1>5. table_info[n].type = "InMemory" => IsTable(t) /\ Encoded(Scan(t), tuples, schema)
  BY <1>1, <1>3, <1>4, TableDeletes
<1>6. table_info[n].type = "Disk" => Encoded(s, tuples, schema)
  BY <1>3, <1>4
<1> HIDE DEF t, s, tuples
<1> QED BY <1>1, <1>2, <1>5, <1>6, KeptStore

LEMMA KeptUpdate ==
  ASSUME StorageInv, CatalogInv, KeptInv, NEW n \in TableNames, NEW i, NEW values \in Tuples,
         HandleUpdate(n, i, values)
  PROVE  KeptInv'
<1>1. PICK place : /\ ReplaceRow(n, i, place, BuildRow(values))
                   /\ acked' = [acked EXCEPT ![n] = InsertAt(RemoveAt(@, i), place, values)]
  BY DEF HandleUpdate
<1> DEFINE schema == GetSchema(n)
           row == BuildRow(values)
           rest == RemoveAt(TableRows(n), i)
           d == DeleteRow(tables_m[n], RowIds(tables_m[n])[i])
           t == InsertRow(d, row)
           e == RemoveAt(files[GetFileId(n)], i)
           s == InsertAt(e, place, row)
           left == RemoveAt(acked[n], i)
           tuples == InsertAt(left, place, values)
<1>2. Opens(n) /\ Buildable(values, schema) /\ i \in 1 .. Len(TableRows(n))
  BY <1>1, RowPlaces DEF HandleUpdate, ReplaceRow
<1>3. SetStore(n, t, s) /\ HandleCall /\ acked' = [acked EXCEPT ![n] = tuples]
  BY <1>1 DEF ReplaceRow, UpdateRow
<1>4. /\ Encoded(TableRows(n), acked[n], schema) /\ Len(schema) \in Nat /\ DOMAIN schema = 1 .. Len(schema)
      /\ table_info[n].type = "InMemory" => TableRows(n) = Scan(tables_m[n]) /\ IsTable(tables_m[n])
      /\ table_info[n].type = "Disk" => TableRows(n) = files[GetFileId(n)]
  BY <1>2, OpenEncoded
<1>5. IsTuple(values, schema)
  BY <1>2, <1>4, ExecutorAssumption DEF IsTuple
<1>6. Encoded(rest, left, schema)
  BY <1>2, <1>4, EncodedRemove
<1>7. /\ IsRows(rest) /\ Len(rest) \in Nat /\ Len(rest) = Len(TableRows(n)) - 1
  <2>1. IsRows(TableRows(n))
    BY <1>4 DEF Encoded
  <2>2. IsRows(rest) /\ Len(TableRows(n)) \in Nat /\ Len(rest) = Len(TableRows(n)) - 1
    BY <1>2, <2>1, RowsRemove
  <2> QED BY <1>2, <2>2
<1> HIDE DEF rest, left
<1>8. /\ place \in 1 .. Len(rest) + 1
      /\ table_info[n].type = "InMemory" => place = Len(rest) + 1
  <2>1. place \in NewPlaces(n, Len(rest))
    BY <1>1, <1>7 DEF ReplaceRow
  <2> QED BY <1>7, <2>1, PlacesOf
<1>9. Encoded(InsertAt(rest, place, row), tuples, schema)
  BY <1>5, <1>6, <1>8, EncodedInsert
<1> HIDE DEF row
<1>10. table_info[n].type = "InMemory" => IsTable(t) /\ Encoded(Scan(t), tuples, schema)
  <2> SUFFICES ASSUME table_info[n].type = "InMemory"
               PROVE  IsTable(t) /\ Encoded(Scan(t), tuples, schema)
    OBVIOUS
  <2>1. TableRows(n) = Scan(tables_m[n]) /\ IsTable(tables_m[n])
    BY <1>4
  <2>2. IsTable(d) /\ Scan(d) = rest
    BY <1>2, <2>1, TableDeletes DEF rest
  <2> HIDE DEF d, tuples, schema
  <2>3. IsTable(t) /\ Scan(t) = Append(Scan(d), row)
    BY <2>2, TableInserts
  <2>4. InsertAt(rest, place, row) = Append(rest, row)
    BY <1>7, <1>8, RowsInsertLast
  <2> HIDE DEF t
  <2>5. Scan(t) = InsertAt(rest, place, row)
    BY <2>2, <2>3, <2>4
  <2> QED BY <1>9, <2>3, <2>5
<1>11. table_info[n].type = "Disk" => Encoded(s, tuples, schema)
  BY <1>4, <1>9 DEF rest
<1> HIDE DEF t, s, tuples
<1> QED BY <1>2, <1>3, <1>10, <1>11, KeptStore

LEMMA KeptStep ==
  ASSUME StorageInv, CatalogInv, KeptInv, StorageInv', CatalogInv', [ExecutorNext]_executorVars
  PROVE  KeptInv'
<1>1. CASE Managed(FirstStart)
  BY <1>1, KeptFirstStart DEF Managed
<1>2. CASE Managed(Restart)
  BY <1>2, KeptUnchanged DEF Managed, Restart, diskVars
<1>3. CASE Managed(Shutdown)
  <2>1. UNCHANGED <<mapping, files, table_catalog, column_catalog, acked>> /\ tables_m' = << >>
    BY <1>3 DEF Managed, Shutdown, diskVars
  <2>2. \A n, f : MappedTo(n, f)' <=> MappedTo(n, f)
    BY <2>1 DEF MappedTo
  <2>3. \A n : SchemaOf(n)' = SchemaOf(n)
    BY <2>1 DEF SchemaOf
  <2>4. FilesEncoded'
    BY <2>1, <2>2, <2>3 DEF KeptInv, FilesEncoded
  <2>5. TablesEncoded'
    BY <2>1 DEF TablesEncoded
  <2> QED BY <2>1, <2>4, <2>5 DEF KeptInv
<1>4. ASSUME NEW c \in Creatable, Create(c.name, c.type, c.schema) PROVE KeptInv'
  BY <1>4, KeptCreate
\* Calls and statements that fail, SELECT, and stuttering steps.
<1>5. ASSUME UNCHANGED <<diskVars, catalogVars, tables_m, acked>> PROVE KeptInv'
  BY <1>5, KeptUnchanged DEF diskVars, catalogVars
<1>6. ASSUME NEW c \in Creatable, Managed(CreateTableFails(c.name, c.type)) PROVE KeptInv'
  BY <1>5, <1>6 DEF Managed, CreateTableFails
<1>7. ASSUME NEW n \in TableNames, Drop(n) PROVE KeptInv'
  <2>1. CASE DeleteTable(n) /\ UNCHANGED acked
    BY <2>1, KeptDelete
  <2>2. CASE DeleteTableFails(n) /\ UNCHANGED acked
    BY <1>5, <2>2 DEF DeleteTableFails
  <2> QED BY <1>7, <2>1, <2>2 DEF Drop, Managed
<1>8. ASSUME NEW n \in RowTables, NEW texts \in Texts, Insert(n, texts) PROVE KeptInv'
  BY <1>8, KeptInsert, ExecutorAssumption
<1>9. ASSUME NEW n, NEW texts, NEW stmt, InsertFails(n, texts) \/ Select(n, stmt) PROVE KeptInv'
  BY <1>5, <1>9 DEF InsertFails, Select, Returns
<1>10. ASSUME NEW n \in RowTables, NEW i, HandleDelete(n, i) PROVE KeptInv'
  BY <1>10, KeptRowDelete, ExecutorAssumption
<1>11. ASSUME NEW n \in RowTables, NEW i, NEW values \in Tuples, HandleUpdate(n, i, values) PROVE KeptInv'
  BY <1>11, KeptUpdate, ExecutorAssumption
<1>12. CASE DeleteOrUpdate
  BY <1>5, <1>12 DEF DeleteOrUpdate, Returns
<1>13. CASE UNCHANGED executorVars
  BY <1>5, <1>13 DEF executorVars, managerVars
<1> QED BY <1>1, <1>2, <1>3, <1>4, <1>6, <1>7, <1>8, <1>9, <1>10, <1>11, <1>12, <1>13
        DEF ExecutorNext

LEMMA KeptAlways == ExecutorSpec => [](StorageInv /\ CatalogInv /\ KeptInv)
<1>1. ExecutorInit => KeptInv
  <2> SUFFICES ASSUME ExecutorInit PROVE KeptInv
    OBVIOUS
  <2>1. mapping = << >> /\ tables_m = << >> /\ acked = [n \in TableNames |-> << >>]
    BY DEF ExecutorInit, ManagerInit
  <2>2. FilesEncoded
    BY <2>1 DEF FilesEncoded, MappedTo
  <2>3. TablesEncoded
    BY <2>1 DEF TablesEncoded
  <2> QED BY <2>1, <2>2, <2>3 DEF KeptInv
<1>2. ExecutorInit => CatalogInv
  BY CatalogInit
<1>3. StorageInv /\ CatalogInv /\ [ExecutorNext]_executorVars => CatalogInv'
  BY CatalogStep
<1>4. StorageInv /\ CatalogInv /\ KeptInv /\ StorageInv' /\ CatalogInv' /\ [ExecutorNext]_executorVars
        => KeptInv'
  BY KeptStep
<1> QED BY <1>1, <1>2, <1>3, <1>4, StorageAlways, PTL DEF ExecutorSpec

\* No row is lost, changed or added behind the back of the clients, for any tables,
\* schemas, values and widths of the types: what a scan of a table that opens reads
\* back is what clients stored there since it was created.  It takes that every value
\* is read back from its bytes, that row ids grow also where the slot counter wraps
\* (ephemeral_table.cpp:18), that a file belongs to one name (disk_table_factory.cpp),
\* and that the schema the rows were written with is the one a restart loads.
THEOREM RowsStayKept == ExecutorSpec => []RowsKept
<1>1. StorageInv /\ CatalogInv /\ KeptInv => RowsKept
  <2> SUFFICES ASSUME StorageInv, CatalogInv, KeptInv, NEW n \in TableNames, Opens(n)
               PROVE  [i \in DOMAIN TableRows(n) |-> GetValues(TableRows(n)[i], GetSchema(n))] = acked[n]
    BY DEF RowsKept
  <2>1. Encoded(TableRows(n), acked[n], GetSchema(n))
    BY OpenEncoded
  <2> QED BY <2>1, EncodedReadBack
<1> QED BY <1>1, KeptAlways, PTL

-----------------------------------------------------------------------------
(* Conditions are trees. *)

Logical == {"and", "or"}

LEMMA ConditionShape ==
  ASSUME NEW cond \in Conditions
  PROVE  /\ Depth[cond] \in Nat
         /\ cond.kind \in Logical =>
              /\ cond.left \in Conditions /\ Depth[cond.left] < Depth[cond]
              /\ cond.right \in Conditions /\ Depth[cond.right] < Depth[cond]
         /\ cond.kind \notin Logical => cond.kind = "none" \/ cond.kind = "comparison"
  BY QueryAssumption DEF Logical

\* What follows for a condition from its parts holds of all.
LEMMA ConditionInduction ==
  ASSUME NEW T,
         \A cond \in Conditions :
           (cond.kind \in Logical => cond.left \in T /\ cond.right \in T) => cond \in T
  PROVE  \A cond \in Conditions : cond \in T
<1> DEFINE Bad == {cond \in Conditions : cond \notin T}
           Depths == {Depth[cond] : cond \in Bad}
<1> SUFFICES ASSUME Bad # {} PROVE FALSE
  OBVIOUS
<1>1. Depths \in SUBSET Nat /\ Depths # {}
  BY ConditionShape
<1>2. PICK d \in Depths : \A e \in Depths : d <= e
  <2> HIDE DEF Depths
  <2> QED BY <1>1, LeastNumber
<1>3. PICK cond \in Bad : Depth[cond] = d
  OBVIOUS
<1>4. ASSUME NEW part \in Conditions, Depth[part] < Depth[cond] PROVE part \in T
  <2>1. part \notin Bad
    <3> SUFFICES ASSUME part \in Bad PROVE FALSE
      OBVIOUS
    <3>1. d <= Depth[part]
      BY <1>2
    <3>2. Depth[part] \in Nat /\ Depth[cond] \in Nat
      BY ConditionShape
    <3> QED BY <1>3, <1>4, <3>1, <3>2
  <2> QED BY <2>1
<1>5. cond \in Conditions
  BY <1>3
<1>6. cond.kind \in Logical => cond.left \in T /\ cond.right \in T
  BY <1>4, <1>5, ConditionShape
<1> QED BY <1>3, <1>5, <1>6

\* A function on conditions is given by its values on comparisons and by how the values
\* of the parts are joined.
Valued(V, leaf, join, f) ==
  /\ f \in [Conditions -> V]
  /\ \A cond \in Conditions :
       f[cond] = IF cond.kind \in Logical THEN join[<<cond.kind, f[cond.left], f[cond.right]>>]
                                          ELSE leaf[cond]

LEMMA ConditionRecursion ==
  ASSUME NEW V, NEW leaf \in [Conditions -> V], NEW join \in [Logical \X V \X V -> V]
  PROVE  \E f : Valued(V, leaf, join, f)
<1> DEFINE Once(h, cond) ==
             IF cond.kind \in Logical THEN join[<<cond.kind, h[cond.left], h[cond.right]>>]
                                      ELSE leaf[cond]
           W == [Conditions -> V]
           g == [p \in Nat \X W |-> [cond \in Conditions |-> Once(p[2], cond)]]
<1>1. ASSUME NEW h \in W, NEW cond \in Conditions PROVE Once(h, cond) \in V
  <2>1. CASE cond.kind \in Logical
    <3>1. h[cond.left] \in V /\ h[cond.right] \in V
      BY <2>1, ConditionShape
    <3>2. <<cond.kind, h[cond.left], h[cond.right]>> \in Logical \X V \X V
      BY <2>1, <3>1
    <3> QED BY <2>1, <3>2
  <2>2. CASE cond.kind \notin Logical
    BY <2>2
  <2> QED BY <2>1, <2>2
<1> HIDE DEF Once
<1>2. g \in [Nat \X W -> W]
  BY <1>1
<1>3. PICK F \in [Nat -> W] : F[0] = leaf /\ \A n \in Nat : F[n + 1] = g[<<n + 1, F[n]>>]
  <2>1. leaf \in W
    OBVIOUS
  <2> HIDE DEF g, W
  <2>2. PICK F : Endless(W, leaf, g, F)
    BY <1>2, <2>1, EndlessRecursion
  <2> QED BY <2>2 DEF Endless
<1>4. ASSUME NEW n \in Nat, NEW cond \in Conditions PROVE F[n + 1][cond] = Once(F[n], cond)
  <2>1. <<n + 1, F[n]>> \in Nat \X W
    BY <1>3
  <2>2. g[<<n + 1, F[n]>>] = [c \in Conditions |-> Once(F[n], c)]
    BY <2>1
  <2> QED BY <1>3, <2>2
<1> HIDE DEF g
<1> DEFINE f == [cond \in Conditions |-> F[Depth[cond]][cond]]
           Settled(cond) == \A m \in Nat : m >= Depth[cond] => F[m][cond] = f[cond]
           T == {cond \in Conditions : Settled(cond)}
<1>5. ASSUME NEW cond \in Conditions, cond.kind \in Logical,
             Settled(cond.left), Settled(cond.right), NEW m \in Nat, m >= Depth[cond]
      PROVE  F[m][cond] = join[<<cond.kind, f[cond.left], f[cond.right]>>]
  <2>1. /\ cond.left \in Conditions /\ cond.right \in Conditions
        /\ Depth[cond.left] \in Nat /\ Depth[cond.left] < Depth[cond]
        /\ Depth[cond.right] \in Nat /\ Depth[cond.right] < Depth[cond] /\ Depth[cond] \in Nat
    BY <1>5, ConditionShape
  <2>2. PICK k \in Nat : m = k + 1 /\ k >= Depth[cond.left] /\ k >= Depth[cond.right]
    <3>1. m - 1 \in Nat /\ m = (m - 1) + 1 /\ m - 1 >= Depth[cond.left] /\ m - 1 >= Depth[cond.right]
      BY <1>5, <2>1
    <3> QED BY <3>1
  <2>3. F[m][cond] = Once(F[k], cond)
    BY <1>4, <2>2
  <2>4. F[k][cond.left] = f[cond.left] /\ F[k][cond.right] = f[cond.right]
    <3> HIDE DEF f
    <3> QED BY <1>5, <2>2
  <2> HIDE DEF f
  <2> QED BY <1>5, <2>3, <2>4 DEF Once
<1>6. ASSUME NEW cond \in Conditions, cond.kind \notin Logical, NEW m \in Nat
      PROVE  F[m][cond] = leaf[cond]
  <2>1. CASE m = 0
    BY <1>3, <2>1
  <2>2. CASE m # 0
    <3>1. PICK k \in Nat : m = k + 1
      <4>1. m - 1 \in Nat /\ m = (m - 1) + 1
        BY <2>2
      <4> QED BY <4>1
    <3>2. F[m][cond] = Once(F[k], cond)
      BY <1>4, <3>1
    <3> QED BY <1>6, <3>2 DEF Once
  <2> QED BY <2>1, <2>2
<1>7. ASSUME NEW cond \in Conditions PROVE Depth[cond] \in Nat /\ f[cond] = F[Depth[cond]][cond]
  BY ConditionShape
<1> HIDE DEF f
<1>8. \A cond \in Conditions : cond \in T
  <2>1. ASSUME NEW cond \in Conditions, cond.kind \in Logical => cond.left \in T /\ cond.right \in T
        PROVE  cond \in T
    <3>1. CASE cond.kind \in Logical
      <4>1. Settled(cond.left) /\ Settled(cond.right)
        BY <2>1, <3>1
      <4>2. Depth[cond] >= Depth[cond]
        BY <1>7
      <4>3. f[cond] = join[<<cond.kind, f[cond.left], f[cond.right]>>]
        <5> HIDE DEF Settled
        <5> QED BY <1>5, <1>7, <3>1, <4>1, <4>2
      <4>4. ASSUME NEW m \in Nat, m >= Depth[cond] PROVE F[m][cond] = f[cond]
        <5> HIDE DEF Settled
        <5> QED BY <1>5, <3>1, <4>1, <4>3, <4>4
      <4> QED BY <4>4
    <3>2. CASE cond.kind \notin Logical
      BY <1>6, <1>7, <3>2
    <3> QED BY <3>1, <3>2
  <2> HIDE DEF T
  <2> QED BY <2>1, ConditionInduction
<1>9. ASSUME NEW cond \in Conditions
      PROVE  f[cond] = IF cond.kind \in Logical THEN join[<<cond.kind, f[cond.left], f[cond.right]>>]
                                                ELSE leaf[cond]
  <2>1. CASE cond.kind \in Logical
    <3>1. cond.left \in Conditions /\ cond.right \in Conditions
      BY <2>1, ConditionShape
    <3>2. Settled(cond.left) /\ Settled(cond.right)
      BY <1>8, <3>1
    <3>3. Depth[cond] >= Depth[cond]
      BY <1>7
    <3> HIDE DEF Settled
    <3> QED BY <1>5, <1>7, <2>1, <3>2, <3>3
  <2>2. CASE cond.kind \notin Logical
    BY <1>6, <1>7, <2>2
  <2> QED BY <2>1, <2>2
<1>10. f \in [Conditions -> V]
  <2>1. ASSUME NEW cond \in Conditions PROVE F[Depth[cond]][cond] \in V
    BY <1>3, <1>7
  <2> QED BY <2>1 DEF f
<1>11. Valued(V, leaf, join, f)
  BY <1>9, <1>10 DEF Valued
<1> QED BY <1>11

-----------------------------------------------------------------------------
(* Evaluating conditions, and what they mean. *)

Results == {"true", "false", "throws"}

LEMMA EvaluateOf ==
  ASSUME NEW schema, NEW tuple, NEW cond \in Conditions
  PROVE  /\ cond.kind = "none" => evaluate_condition(cond, schema, tuple) = "true"
         /\ cond.kind = "comparison" =>
              evaluate_condition(cond, schema, tuple) = evaluate_comparison(cond, schema, tuple)
         /\ cond.kind \in Logical =>
              evaluate_condition(cond, schema, tuple) =
                evaluate_logical_condition(cond.kind, evaluate_condition(cond.left, schema, tuple),
                                           evaluate_condition(cond.right, schema, tuple))
<1> DEFINE Cmp(c) == evaluate_comparison(c, schema, tuple)
           Is(f) == f = [c \in Conditions |->
             CASE c.kind = "none" -> "true"
               [] c.kind = "comparison" -> evaluate_comparison(c, schema, tuple)
               [] OTHER -> evaluate_logical_condition(c.kind, f[c.left], f[c.right])]
           F == CHOOSE f : Is(f)
           leaf == [c \in Conditions |-> IF c.kind = "none" THEN "true" ELSE Cmp(c)]
           join == [p \in Logical \X Results \X Results |->
                      evaluate_logical_condition(p[1], p[2], p[3])]
<1>1. \A c : evaluate_condition(c, schema, tuple) = F[c]
  BY DEF evaluate_condition
<1>2. ASSUME NEW c PROVE Cmp(c) \in Results
  <2>1. \A a, op, b : compare_values(a, op, b) \in Results
    BY DEF compare_values, Truth, Results
  <2> QED BY <2>1 DEF evaluate_comparison, Results
<1> HIDE DEF Cmp
<1>3. leaf \in [Conditions -> Results]
  BY <1>2 DEF Results
<1>4. join \in [Logical \X Results \X Results -> Results]
  BY DEF evaluate_logical_condition
<1>5. PICK f : Valued(Results, leaf, join, f)
  <2> HIDE DEF leaf, join
  <2> QED BY <1>3, <1>4, ConditionRecursion
<1>6. ASSUME NEW c \in Conditions
      PROVE  f[c] = CASE c.kind = "none" -> "true"
                      [] c.kind = "comparison" -> Cmp(c)
                      [] OTHER -> evaluate_logical_condition(c.kind, f[c.left], f[c.right])
  <2>1. CASE c.kind \in Logical
    <3>1. c.left \in Conditions /\ c.right \in Conditions
      BY <2>1, ConditionShape
    <3>2. f[c.left] \in Results /\ f[c.right] \in Results
      BY <1>5, <3>1 DEF Valued
    <3>3. f[c] = join[<<c.kind, f[c.left], f[c.right]>>]
      <4> HIDE DEF join, leaf
      <4> QED BY <1>5, <2>1 DEF Valued
    <3>4. <<c.kind, f[c.left], f[c.right]>> \in Logical \X Results \X Results
      BY <2>1, <3>2
    <3>5. f[c] = evaluate_logical_condition(c.kind, f[c.left], f[c.right])
      BY <3>3, <3>4
    <3> QED BY <2>1, <3>5 DEF Logical
  <2>2. CASE c.kind \notin Logical
    <3>1. f[c] = leaf[c]
      <4> HIDE DEF join, leaf
      <4> QED BY <1>5, <2>2 DEF Valued
    <3> QED BY <2>2, <3>1, ConditionShape
  <2> QED BY <2>1, <2>2
<1>7. Is(f)
  <2>1. f = [c \in Conditions |-> f[c]]
    <3> HIDE DEF join, leaf
    <3> QED BY <1>5 DEF Valued
  <2> QED BY <1>6, <2>1 DEF Cmp
<1>8. Is(F)
  <2> HIDE DEF Is
  <2> QED BY <1>7
<1> HIDE DEF F, leaf, join
<1>9. F[cond] = CASE cond.kind = "none" -> "true"
                  [] cond.kind = "comparison" -> evaluate_comparison(cond, schema, tuple)
                  [] OTHER -> evaluate_logical_condition(cond.kind, F[cond.left], F[cond.right])
  BY <1>8
<1>10. cond.kind = "none" => F[cond] = "true"
  BY <1>9
<1>11. cond.kind = "comparison" => F[cond] = evaluate_comparison(cond, schema, tuple)
  BY <1>9
<1>12. cond.kind \in Logical =>
         F[cond] = evaluate_logical_condition(cond.kind, F[cond.left], F[cond.right])
  BY <1>9 DEF Logical
<1> HIDE DEF Is
<1> QED BY <1>1, <1>10, <1>11, <1>12

LEMMA SoundOf ==
  ASSUME NEW schema, NEW cond \in Conditions, Sound(cond, schema)
  PROVE  /\ cond.kind = "comparison" => WellTyped(cond, schema)
         /\ cond.kind \in Logical => Sound(cond.left, schema) /\ Sound(cond.right, schema)
<1> DEFINE Typed(c) == WellTyped(c, schema)
           Is(f) == f = [c \in Conditions |->
             CASE c.kind = "none" -> TRUE
               [] c.kind = "comparison" -> WellTyped(c, schema)
               [] OTHER -> f[c.left] /\ f[c.right]]
           F == CHOOSE f : Is(f)
           leaf == [c \in Conditions |-> IF c.kind = "none" THEN TRUE ELSE Typed(c)]
           join == [p \in Logical \X BOOLEAN \X BOOLEAN |-> p[2] /\ p[3]]
<1>1. \A c : Sound(c, schema) = F[c]
  BY DEF Sound
<1>2. ASSUME NEW c PROVE Typed(c) \in BOOLEAN
  BY DEF WellTyped
<1> HIDE DEF Typed
<1>3. leaf \in [Conditions -> BOOLEAN]
  BY <1>2
<1>4. join \in [Logical \X BOOLEAN \X BOOLEAN -> BOOLEAN]
  OBVIOUS
<1>5. PICK f : Valued(BOOLEAN, leaf, join, f)
  <2> HIDE DEF leaf, join
  <2> QED BY <1>3, <1>4, ConditionRecursion
<1>6. ASSUME NEW c \in Conditions
      PROVE  f[c] = CASE c.kind = "none" -> TRUE
                      [] c.kind = "comparison" -> Typed(c)
                      [] OTHER -> f[c.left] /\ f[c.right]
  <2>1. CASE c.kind \in Logical
    <3>1. c.left \in Conditions /\ c.right \in Conditions
      BY <2>1, ConditionShape
    <3>2. f[c.left] \in BOOLEAN /\ f[c.right] \in BOOLEAN
      BY <1>5, <3>1 DEF Valued
    <3>3. f[c] = join[<<c.kind, f[c.left], f[c.right]>>]
      <4> HIDE DEF join, leaf
      <4> QED BY <1>5, <2>1 DEF Valued
    <3>4. <<c.kind, f[c.left], f[c.right]>> \in Logical \X BOOLEAN \X BOOLEAN
      BY <2>1, <3>2
    <3>5. f[c] = (f[c.left] /\ f[c.right])
      BY <3>3, <3>4
    <3> QED BY <2>1, <3>5 DEF Logical
  <2>2. CASE c.kind \notin Logical
    <3>1. f[c] = leaf[c]
      <4> HIDE DEF join, leaf
      <4> QED BY <1>5, <2>2 DEF Valued
    <3> QED BY <2>2, <3>1, ConditionShape
  <2> QED BY <2>1, <2>2
<1>7. Is(f)
  <2>1. f = [c \in Conditions |-> f[c]]
    <3> HIDE DEF join, leaf
    <3> QED BY <1>5 DEF Valued
  <2> QED BY <1>6, <2>1 DEF Typed
<1>8. Is(F)
  <2> HIDE DEF Is
  <2> QED BY <1>7
<1> HIDE DEF F, leaf, join
<1>9. F[cond] = CASE cond.kind = "none" -> TRUE
                  [] cond.kind = "comparison" -> WellTyped(cond, schema)
                  [] OTHER -> F[cond.left] /\ F[cond.right]
  BY <1>8
<1>10. F[cond]
  BY <1>1
<1> HIDE DEF Is
<1>11. cond.kind = "comparison" => WellTyped(cond, schema)
  BY <1>9, <1>10
<1>12. cond.kind \in Logical => F[cond.left] /\ F[cond.right]
  BY <1>9, <1>10 DEF Logical
<1> QED BY <1>1, <1>11, <1>12

LEMMA HoldsOf ==
  ASSUME NEW schema, NEW values, NEW cond \in Conditions
  PROVE  /\ cond.kind = "none" => Holds(cond, schema, values)
         /\ cond.kind = "comparison" =>
              (Holds(cond, schema, values) <=> ComparisonHolds(cond, schema, values))
         /\ cond.kind = "and" =>
              (Holds(cond, schema, values) <=>
                 Holds(cond.left, schema, values) /\ Holds(cond.right, schema, values))
         /\ cond.kind = "or" =>
              (Holds(cond, schema, values) <=>
                 Holds(cond.left, schema, values) \/ Holds(cond.right, schema, values))
         /\ Holds(cond, schema, values) \in BOOLEAN
<1> DEFINE Cmp(c) == ComparisonHolds(c, schema, values)
           Is(f) == f = [c \in Conditions |->
             CASE c.kind = "none" -> TRUE
               [] c.kind = "comparison" -> ComparisonHolds(c, schema, values)
               [] c.kind = "and" -> f[c.left] /\ f[c.right]
               [] OTHER -> f[c.left] \/ f[c.right]]
           F == CHOOSE f : Is(f)
           leaf == [c \in Conditions |-> IF c.kind = "none" THEN TRUE ELSE Cmp(c)]
           join == [p \in Logical \X BOOLEAN \X BOOLEAN |->
                      IF p[1] = "and" THEN p[2] /\ p[3] ELSE p[2] \/ p[3]]
<1>1. ASSUME NEW c PROVE Holds(c, schema, values) = F[c]
  BY DEF Holds
<1>2. ASSUME NEW c PROVE Cmp(c) \in BOOLEAN
  BY DEF ComparisonHolds
<1> HIDE DEF Cmp
<1>3. leaf \in [Conditions -> BOOLEAN]
  BY <1>2
<1>4. join \in [Logical \X BOOLEAN \X BOOLEAN -> BOOLEAN]
  OBVIOUS
<1>5. PICK f : Valued(BOOLEAN, leaf, join, f)
  <2> HIDE DEF leaf, join
  <2> QED BY <1>3, <1>4, ConditionRecursion
<1>6. ASSUME NEW c \in Conditions
      PROVE  f[c] = CASE c.kind = "none" -> TRUE
                      [] c.kind = "comparison" -> Cmp(c)
                      [] c.kind = "and" -> f[c.left] /\ f[c.right]
                      [] OTHER -> f[c.left] \/ f[c.right]
  <2>1. CASE c.kind \in Logical
    <3>1. c.left \in Conditions /\ c.right \in Conditions
      BY <2>1, ConditionShape
    <3>2. f[c.left] \in BOOLEAN /\ f[c.right] \in BOOLEAN
      BY <1>5, <3>1 DEF Valued
    <3>3. f[c] = join[<<c.kind, f[c.left], f[c.right]>>]
      <4> HIDE DEF join, leaf
      <4> QED BY <1>5, <2>1 DEF Valued
    <3>4. <<c.kind, f[c.left], f[c.right]>> \in Logical \X BOOLEAN \X BOOLEAN
      BY <2>1, <3>2
    <3>5. f[c] = IF c.kind = "and" THEN f[c.left] /\ f[c.right] ELSE f[c.left] \/ f[c.right]
      BY <3>3, <3>4
    <3> QED BY <2>1, <3>5 DEF Logical
  <2>2. CASE c.kind \notin Logical
    <3>1. f[c] = leaf[c]
      <4> HIDE DEF join, leaf
      <4> QED BY <1>5, <2>2 DEF Valued
    <3> QED BY <2>2, <3>1, ConditionShape
  <2> QED BY <2>1, <2>2
<1>7. Is(f)
  <2>1. f = [c \in Conditions |-> f[c]]
    <3> HIDE DEF join, leaf
    <3> QED BY <1>5 DEF Valued
  <2> QED BY <1>6, <2>1 DEF Cmp
<1>8. Is(F)
  <2> HIDE DEF Is
  <2> QED BY <1>7
<1> HIDE DEF F, leaf, join
<1>9. ASSUME NEW c \in Conditions
      PROVE  F[c] = CASE c.kind = "none" -> TRUE
                  [] c.kind = "comparison" -> Cmp(c)
                  [] c.kind = "and" -> F[c.left] /\ F[c.right]
                  [] OTHER -> F[c.left] \/ F[c.right]
  BY <1>8 DEF Cmp
<1> HIDE DEF Is
<1>10. /\ cond.kind = "none" => F[cond]
       /\ cond.kind = "comparison" => (F[cond] <=> Cmp(cond))
       /\ cond.kind = "and" => (F[cond] <=> F[cond.left] /\ F[cond.right])
       /\ cond.kind = "or" => (F[cond] <=> F[cond.left] \/ F[cond.right])
       /\ F[cond] \in BOOLEAN
  <2>1. CASE cond.kind = "none"
    BY <1>9, <2>1
  <2>2. CASE cond.kind = "comparison"
    BY <1>2, <1>9, <2>2
  <2>3. CASE cond.kind = "and"
    BY <1>9, <2>3
  <2>4. CASE cond.kind = "or"
    BY <1>9, <2>4
  <2> QED BY <2>1, <2>2, <2>3, <2>4, ConditionShape DEF Logical
<1> QED BY <1>1, <1>10 DEF Cmp

-----------------------------------------------------------------------------
(* Comparisons. *)

\* The first column of a name is one of the columns.
LEMMA ColumnIndexOf ==
  ASSUME NEW schema, Len(schema) \in Nat, NEW name
  PROVE  column_index(schema, name) \in 0 .. Len(schema)
<1> DEFINE I == {i \in 1 .. Len(schema) : schema[i].name = name}
<1>1. column_index(schema, name) = IF I # {} THEN Min(I) ELSE 0
  BY DEF column_index, SelectInSeq
<1>2. CASE I # {}
  <2>1. I \in SUBSET Nat
    OBVIOUS
  <2> DEFINE J == I
  <2>2. \E i \in J : \A j \in J : i <= j
    <3> HIDE DEF I
    <3> QED BY <1>2, <2>1, LeastNumber
  <2>3. Min(I) \in I
    <3> HIDE DEF I
    <3> QED BY <2>2 DEF Min
  <2> QED BY <1>1, <1>2, <2>3
<1>3. CASE I = {}
  BY <1>1, <1>3
<1> QED BY <1>2, <1>3

\* What from_string makes of a text.
LEMMA ValueOfText ==
  ASSUME NEW ty, NEW text, IsText(text), IsValid(ValueFromString(ty, text))
  PROVE  IsValue(ValueFromString(ty, text)) /\ ValueFromString(ty, text).type = ty
<1> DEFINE v == ValueFromString(ty, text)
<1>1. text.chars \in Seq(0 .. Base - 1) /\ text.number \in Int \cup {NotANumber}
  BY DEF IsText
<1>2. v.type \in TypeIds
  BY DEF IsValid
<1>3. CASE ty = "String"
  <2>1. v = [type |-> "String", value |-> text.chars]
    BY <1>2, <1>3 DEF ValueFromString, StringFromString, Invalid, TypeIds
  <2> HIDE DEF v
  <2>2. v.type = "String" /\ v.value = text.chars
    BY <2>1
  <2> QED BY <1>1, <1>3, <2>1, <2>2 DEF IsValue, v
<1>4. CASE ty # "String"
  <2>1. /\ v = [type |-> ty, value |-> text.number]
        /\ text.number # NotANumber /\ InRange(ty, text.number)
    BY <1>2, <1>4 DEF ValueFromString, NumberFromString, Invalid, TypeIds
  <2> HIDE DEF v
  <2>2. v.type = ty /\ v.value = text.number
    BY <2>1
  <2>3. ty \in TypeIds \ {"String"} /\ text.number \in Int
    BY <1>1, <1>2, <1>4, <2>1, <2>2
  <2> QED BY <2>1, <2>2, <2>3 DEF IsValue, v
<1> QED BY <1>3, <1>4

\* The order of strings, by their first difference.
Agree(s, u, n) == \A j \in 1 .. n : s[j] = u[j]
Before(s, u) ==
  \/ Len(s) < Len(u) /\ Agree(s, u, Len(s))
  \/ \E i \in 1 .. Len(s) : i <= Len(u) /\ s[i] < u[i] /\ Agree(s, u, i - 1)

\* The first i elements of two strings.
LEMMA SameStart ==
  ASSUME NEW s \in Seq(Int), NEW u \in Seq(Int), NEW n \in Nat, n <= Len(s), n <= Len(u)
  PROVE  SubSeq(s, 1, n) = SubSeq(u, 1, n) <=> Agree(s, u, n)
<1>1. Len(s) \in Nat /\ Len(u) \in Nat
  OBVIOUS
<1>2. SubSeq(s, 1, n) = [j \in 1 .. n |-> s[j]]
  BY <1>1
<1>3. SubSeq(u, 1, n) = [j \in 1 .. n |-> u[j]]
  BY <1>1
<1>4. ASSUME [j \in 1 .. n |-> s[j]] = [j \in 1 .. n |-> u[j]], NEW j \in 1 .. n PROVE s[j] = u[j]
  <2>1. [k \in 1 .. n |-> s[k]][j] = [k \in 1 .. n |-> u[k]][j]
    BY <1>4
  <2> QED BY <2>1
<1> QED BY <1>2, <1>3, <1>4 DEF Agree

LEMMA StringLessBefore ==
  ASSUME NEW s \in Seq(Int), NEW u \in Seq(Int)
  PROVE  StringLess(s, u) <=> Before(s, u)
<1>1. Len(s) \in Nat /\ Len(u) \in Nat
  OBVIOUS
<1>2. ASSUME NEW i \in 1 .. Len(u), i <= Len(s) + 1, SubSeq(s, 1, i - 1) = SubSeq(u, 1, i - 1),
             i > Len(s) \/ s[i] < u[i]
      PROVE  Before(s, u)
  <2>1. i - 1 \in Nat /\ i - 1 <= Len(s) /\ i - 1 <= Len(u)
    BY <1>1, <1>2
  <2>2. Agree(s, u, i - 1)
    BY <1>2, <2>1, SameStart
  <2>3. CASE i > Len(s)
    <3>1. i - 1 = Len(s) /\ Len(s) < Len(u)
      BY <1>1, <1>2, <2>3
    <3> QED BY <2>2, <3>1 DEF Before
  <2>4. CASE ~(i > Len(s))
    <3>1. i \in 1 .. Len(s) /\ i <= Len(u) /\ s[i] < u[i]
      BY <1>1, <1>2, <2>4
    <3> QED BY <2>2, <3>1 DEF Before
  <2> QED BY <2>3, <2>4
<1>3. ASSUME Len(s) < Len(u), Agree(s, u, Len(s)) PROVE StringLess(s, u)
  <2> DEFINE n == Len(s)
  <2>0. n \in Nat /\ n <= Len(s) /\ n <= Len(u)
    BY <1>1, <1>3
  <2>1. PICK i \in 1 .. Len(u) : i = n + 1 /\ i - 1 = n /\ i > n
    <3>1. n + 1 \in 1 .. Len(u) /\ (n + 1) - 1 = n /\ n + 1 > n
      BY <1>1, <1>3, <2>0
    <3> HIDE DEF n
    <3> QED BY <3>1
  <2>2. SubSeq(s, 1, n) = SubSeq(u, 1, n)
    <3>1. Agree(s, u, n)
      BY <1>3
    <3> HIDE DEF n
    <3> QED BY <2>0, <3>1, SameStart
  <2>3. i <= Len(s) + 1
    BY <1>1, <2>1
  <2>4. SubSeq(s, 1, i - 1) = SubSeq(u, 1, i - 1)
    BY <2>1, <2>2
  <2> QED BY <2>1, <2>3, <2>4 DEF StringLess
<1>4. ASSUME NEW i \in 1 .. Len(s), i <= Len(u), s[i] < u[i], Agree(s, u, i - 1) PROVE StringLess(s, u)
  <2>1. i \in 1 .. Len(u) /\ i <= Len(s) + 1 /\ i - 1 \in Nat /\ i - 1 <= Len(s) /\ i - 1 <= Len(u)
    BY <1>1, <1>4
  <2>2. SubSeq(s, 1, i - 1) = SubSeq(u, 1, i - 1)
    BY <1>4, <2>1, SameStart
  <2> QED BY <1>4, <2>1, <2>2 DEF StringLess
<1>5. StringLess(s, u) => Before(s, u)
  BY <1>2 DEF StringLess
<1>6. Before(s, u) => StringLess(s, u)
  BY <1>3, <1>4 DEF Before
<1> QED BY <1>5, <1>6

LEMMA PrecedesBefore ==
  ASSUME NEW a, NEW b, a.type = "String", a.value \in Seq(Int), b.value \in Seq(Int)
  PROVE  Precedes(a, b) <=> Before(a.value, b.value)
<1> DEFINE s == a.value
           u == b.value
<1>1. Len(s) \in Nat /\ Len(u) \in Nat
  OBVIOUS
<1>5. DOMAIN s = 1 .. Len(s) /\ DOMAIN u = 1 .. Len(u)
  OBVIOUS
<1>2. Precedes(a, b) <=> \/ IsStrictPrefix(s, u)
                         \/ \E i \in DOMAIN s \cap DOMAIN u :
                              s[i] < u[i] /\ \A j \in 1 .. i - 1 : s[j] = u[j]
  BY DEF Precedes
<1>0. s \in Seq(Int) /\ u \in Seq(Int)
  OBVIOUS
<1> HIDE DEF s, u
<1>3. IsStrictPrefix(s, u) <=> Len(s) < Len(u) /\ Agree(s, u, Len(s))
  <2>1. Len(s) <= Len(u) => (SubSeq(s, 1, Len(s)) = SubSeq(u, 1, Len(s)) <=> Agree(s, u, Len(s)))
    <3> DEFINE n == Len(s)
    <3>1. n \in Nat /\ n <= Len(s)
      BY <1>1
    <3>2. n <= Len(u) => (SubSeq(s, 1, n) = SubSeq(u, 1, n) <=> Agree(s, u, n))
      <4> HIDE DEF n
      <4> QED BY <1>0, <3>1, SameStart
    <3> QED BY <3>2
  <2>2. ASSUME Len(s) = Len(u), Agree(s, u, Len(s)) PROVE s = u
    <3>1. s = [j \in 1 .. Len(s) |-> s[j]] /\ u = [j \in 1 .. Len(u) |-> u[j]]
      BY <1>0
    <3> QED BY <2>2, <3>1 DEF Agree
  <2>3. ASSUME s = u PROVE ~(Len(s) < Len(u))
    BY <1>1, <2>3
  <2>4. IsStrictPrefix(s, u) <=>
          Len(s) <= Len(u) /\ SubSeq(s, 1, Len(s)) = SubSeq(u, 1, Len(s)) /\ s # u
    BY DEF IsStrictPrefix, IsPrefix
  <2>5. IsStrictPrefix(s, u) <=> Len(s) <= Len(u) /\ Agree(s, u, Len(s)) /\ s # u
    BY <2>1, <2>4
  <2>6. Len(s) <= Len(u) <=> Len(s) < Len(u) \/ Len(s) = Len(u)
    BY <1>1
  <2> QED BY <2>2, <2>3, <2>5, <2>6
<1>4. (\E i \in DOMAIN s \cap DOMAIN u : s[i] < u[i] /\ \A j \in 1 .. i - 1 : s[j] = u[j])
        <=> \E i \in 1 .. Len(s) : i <= Len(u) /\ s[i] < u[i] /\ Agree(s, u, i - 1)
  <2>1. \A i : i \in DOMAIN s \cap DOMAIN u <=> i \in 1 .. Len(s) /\ i <= Len(u)
    BY <1>1, <1>5
  <2> QED BY <2>1 DEF Agree
<1> QED BY <1>2, <1>3, <1>4 DEF Before, s, u

LEMMA BeforeTotal ==
  ASSUME NEW s \in Seq(Int), NEW u \in Seq(Int)
  PROVE  /\ s # u => Before(s, u) \/ Before(u, s)
         /\ ~(Before(s, u) /\ Before(u, s)) /\ ~Before(s, s)
<1>1. /\ Len(s) \in Nat /\ Len(u) \in Nat
      /\ \A i \in 1 .. Len(s) : s[i] \in Int
      /\ \A i \in 1 .. Len(u) : u[i] \in Int
  OBVIOUS
<1> DEFINE D == {i \in 1 .. Len(s) : i <= Len(u) /\ s[i] # u[i]}
<1>2. ASSUME s # u PROVE Before(s, u) \/ Before(u, s)
  <2>1. CASE D # {}
    <3>1. D \in SUBSET Nat
      OBVIOUS
    <3>2. PICK i \in D : \A j \in D : i <= j
      <4> HIDE DEF D
      <4> QED BY <2>1, <3>1, LeastNumber
    <3>3. i \in 1 .. Len(s) /\ i \in 1 .. Len(u) /\ i <= Len(u) /\ i <= Len(s) /\ s[i] # u[i]
      BY <1>1
    <3>4. ASSUME NEW j \in 1 .. i - 1 PROVE s[j] = u[j]
      <4>1. j \in 1 .. Len(s) /\ j <= Len(u) /\ ~(i <= j)
        BY <1>1, <3>3
      <4>2. j \notin D
        BY <3>2, <4>1
      <4> QED BY <4>1, <4>2
    <3>5. Agree(s, u, i - 1) /\ Agree(u, s, i - 1)
      BY <3>4 DEF Agree
    <3>6. s[i] \in Int /\ u[i] \in Int
      BY <1>1, <3>3
    <3>7. s[i] < u[i] \/ u[i] < s[i]
      BY <3>3, <3>6
    <3> QED BY <3>3, <3>5, <3>7 DEF Before
  <2>2. CASE D = {}
    <3>1. \A j \in 1 .. Len(s) : j <= Len(u) => s[j] = u[j]
      BY <2>2
    <3>2. CASE Len(s) < Len(u)
      <4>1. Agree(s, u, Len(s))
        BY <1>1, <3>1, <3>2 DEF Agree
      <4> QED BY <3>2, <4>1 DEF Before
    <3>3. CASE Len(u) < Len(s)
      <4>1. ASSUME NEW j \in 1 .. Len(u) PROVE u[j] = s[j]
        <5>1. j \in 1 .. Len(s) /\ j <= Len(u)
          BY <1>1, <3>3
        <5> QED BY <3>1, <5>1
      <4> QED BY <3>3, <4>1 DEF Before, Agree
    <3>4. CASE Len(s) = Len(u)
      <4>1. s = [j \in 1 .. Len(s) |-> s[j]] /\ u = [j \in 1 .. Len(u) |-> u[j]]
        OBVIOUS
      <4>2. \A j \in 1 .. Len(s) : s[j] = u[j]
        BY <1>1, <3>1, <3>4
      <4> QED BY <1>2, <3>4, <4>1, <4>2
    <3> QED BY <1>1, <3>2, <3>3, <3>4
  <2> QED BY <2>1, <2>2
<1>3. ASSUME Before(s, u), Before(u, s) PROVE FALSE
  <2>1. ASSUME NEW x \in Seq(Int), NEW y \in Seq(Int), Len(x) < Len(y), Agree(x, y, Len(x)), Before(y, x)
        PROVE  FALSE
    <3>1. Len(x) \in Nat /\ Len(y) \in Nat
      BY <2>1
    <3>2. PICK i \in 1 .. Len(y) : i <= Len(x) /\ y[i] < x[i]
      BY <2>1, <3>1 DEF Before
    <3>3. i \in 1 .. Len(x) /\ y[i] \in Int /\ x[i] \in Int
      BY <3>1, <3>2, <2>1
    <3>4. x[i] = y[i]
      BY <2>1, <3>3 DEF Agree
    <3> QED BY <3>2, <3>3, <3>4
  <2>2. CASE Len(s) < Len(u) /\ Agree(s, u, Len(s))
    BY <1>3, <2>1, <2>2
  <2>3. CASE Len(u) < Len(s) /\ Agree(u, s, Len(u))
    BY <1>3, <2>1, <2>3
  <2>4. ASSUME NEW i \in 1 .. Len(s), i <= Len(u), s[i] < u[i], Agree(s, u, i - 1),
               NEW k \in 1 .. Len(u), k <= Len(s), u[k] < s[k], Agree(u, s, k - 1)
        PROVE  FALSE
    <3>1. i \in 1 .. Len(u) /\ k \in 1 .. Len(s)
      BY <1>1, <2>4
    <3>2. s[i] \in Int /\ u[i] \in Int /\ s[k] \in Int /\ u[k] \in Int
      BY <1>1, <3>1
    <3>3. CASE i < k
      <4>1. i \in 1 .. k - 1
        BY <1>1, <3>1, <3>3
      <4>2. u[i] = s[i]
        BY <2>4, <4>1 DEF Agree
      <4> QED BY <2>4, <3>2, <4>2
    <3>4. CASE k < i
      <4>1. k \in 1 .. i - 1
        BY <1>1, <3>1, <3>4
      <4>2. s[k] = u[k]
        BY <2>4, <4>1 DEF Agree
      <4> QED BY <2>4, <3>2, <4>2
    <3>5. CASE i = k
      BY <2>4, <3>2, <3>5
    <3> QED BY <1>1, <3>1, <3>3, <3>4, <3>5
  <2> QED BY <1>3, <2>2, <2>3, <2>4 DEF Before
<1>4. ASSUME Before(s, s) PROVE FALSE
  BY <1>1, <1>4 DEF Before
<1> QED BY <1>2, <1>3, <1>4

-----------------------------------------------------------------------------
(* What a sound condition comes to. *)

\* The order of values of one type is strict and total, and ValueLess decides it.
LEMMA ValueOrder ==
  ASSUME NEW a, NEW b, IsValue(a), IsValue(b), a.type = b.type
  PROVE  /\ ValueLess(a, b) <=> Precedes(a, b)
         /\ a # b => Precedes(a, b) \/ Precedes(b, a)
         /\ ~(Precedes(a, b) /\ Precedes(b, a))
         /\ a = b => ~Precedes(a, b)
<1> DEFINE s == a.value
           u == b.value
<1>1. a = [type |-> a.type, value |-> s] /\ b = [type |-> b.type, value |-> u]
  BY DEF IsValue
<1>2. s = u => a = b
  <2>1. CASE s = u
    <3> HIDE DEF s, u
    <3> QED BY <1>1, <2>1
  <2> QED BY <2>1
<1>3. CASE a.type = "String"
  <2>1. s \in Seq(0 .. Base - 1) /\ u \in Seq(0 .. Base - 1)
    BY <1>3 DEF IsValue
  <2>2. Base \in Nat /\ \A x \in 0 .. Base - 1 : x \in Int
    BY CodecAssumption
  <2>3. s \in Seq(Int) /\ u \in Seq(Int)
    <3> HIDE DEF s, u
    <3> QED BY <2>1, <2>2
  <2>4. ValueLess(a, b) <=> StringLess(s, u)
    BY <1>3 DEF ValueLess
  <2>5. StringLess(s, u) <=> Before(s, u)
    <3> HIDE DEF s, u
    <3> QED BY <2>3, StringLessBefore
  <2>6. Precedes(a, b) <=> Before(s, u)
    BY <1>3, <2>3, PrecedesBefore
  <2>7. Precedes(b, a) <=> Before(u, s)
    BY <1>3, <2>3, PrecedesBefore
  <2>8. /\ s # u => Before(s, u) \/ Before(u, s)
        /\ ~(Before(s, u) /\ Before(u, s)) /\ ~Before(s, s)
    <3> HIDE DEF s, u
    <3> QED BY <2>3, BeforeTotal
  <2>9. a = b => s = u
    OBVIOUS
  <2> HIDE DEF s, u
  <2> QED BY <1>2, <2>4, <2>5, <2>6, <2>7, <2>8, <2>9
<1>4. CASE a.type # "String"
  <2>1. s \in Int /\ u \in Int
    BY <1>4 DEF IsValue
  <2>2. ValueLess(a, b) <=> s < u
    BY <1>4 DEF ValueLess
  <2>3. Precedes(a, b) <=> s < u
    BY <1>4 DEF Precedes
  <2>4. Precedes(b, a) <=> u < s
    BY <1>4 DEF Precedes
  <2>5. a = b => s = u
    OBVIOUS
  <2> HIDE DEF s, u
  <2> QED BY <1>2, <2>1, <2>2, <2>3, <2>4, <2>5
<1> QED BY <1>3, <1>4

\* compare_values decides what its operator means.
LEMMA ComparesOf ==
  ASSUME NEW a, NEW b, IsValue(a), IsValue(b), a.type = b.type, NEW op \in ComparisonOps
  PROVE  Compares(a, op, b) <=>
           \/ op \in {"EQ", "LE", "GE"} /\ a = b
           \/ op \in {"LT", "LE", "NEQ"} /\ Precedes(a, b)
           \/ op \in {"GT", "GE", "NEQ"} /\ Precedes(b, a)
<1>1. /\ ValueLess(a, b) <=> Precedes(a, b)
      /\ a # b => Precedes(a, b) \/ Precedes(b, a)
      /\ ~(Precedes(a, b) /\ Precedes(b, a))
      /\ a = b => ~Precedes(a, b)
  BY ValueOrder
<1>2. (ValueLess(b, a) <=> Precedes(b, a)) /\ (b = a => ~Precedes(b, a))
  BY ValueOrder
<1>3. CASE op = "EQ"
  BY <1>3 DEF Compares
<1>4. CASE op = "NEQ"
  BY <1>1, <1>2, <1>4 DEF Compares
<1>5. CASE op = "LT"
  BY <1>1, <1>5 DEF Compares
<1>6. CASE op = "GT"
  BY <1>2, <1>6 DEF Compares
<1>7. CASE op = "LE"
  BY <1>1, <1>2, <1>7 DEF Compares
<1>8. CASE op = "GE"
  BY <1>1, <1>2, <1>8 DEF Compares
<1> QED BY <1>3, <1>4, <1>5, <1>6, <1>7, <1>8 DEF ComparisonOps

\* An operand as ComparisonHolds reads it.
OperandValue(o, ty, schema, values) ==
  IF o.kind = "column" THEN values[column_index(schema, o.name)] ELSE ValueFromString(ty, o.text)

\* A sound operand is resolved to its value, which has the type.
LEMMA OperandOf ==
  ASSUME NEW values, NEW schema, IsTuple(values, schema), NEW o, IsOperand(o), NEW ty,
         \/ o.kind = "column" /\ column_index(schema, o.name) # 0
              /\ schema[column_index(schema, o.name)].type = ty
         \/ o.kind = "literal" /\ IsValid(ValueFromString(ty, o.text))
  PROVE  /\ resolve_operand(o, ty, schema, BuildRow(values)) = OperandValue(o, ty, schema, values)
         /\ IsValue(OperandValue(o, ty, schema, values))
         /\ OperandValue(o, ty, schema, values).type = ty /\ ty \in TypeIds
<1>1. CASE o.kind = "column"
  <2> DEFINE i == column_index(schema, o.name)
             row == BuildRow(values)
  <2>1. i # 0 /\ schema[i].type = ty
    BY <1>1
  <2>2. Len(schema) \in Nat /\ DOMAIN schema = 1 .. Len(schema)
    BY DEF IsTuple
  <2>3. i \in DOMAIN schema
    <3>1. i \in 0 .. Len(schema)
      BY <2>2, ColumnIndexOf
    <3> HIDE DEF i
    <3> QED BY <2>1, <2>2, <3>1
  <2>4. GetValue(row, schema, i) = values[i] /\ i \in DOMAIN values
    <3>1. DOMAIN values = DOMAIN schema /\ \A k \in DOMAIN schema : GetValue(row, schema, k) = values[k]
      BY RowReadBack
    <3> HIDE DEF i, row
    <3> QED BY <2>3, <3>1
  <2>5. IsValue(values[i]) /\ values[i].type = ty
    <3> HIDE DEF i
    <3> QED BY <2>1, <2>4 DEF IsTuple, Buildable
  <2>6. resolve_operand(o, ty, schema, row) = IF i = 0 THEN Invalid ELSE GetValue(row, schema, i)
    BY <1>1 DEF resolve_operand
  <2>7. OperandValue(o, ty, schema, values) = values[i]
    BY <1>1 DEF OperandValue
  <2>8. ty \in TypeIds
    <3> HIDE DEF i
    <3> QED BY <2>5 DEF IsValue, TypeIds
  <2> HIDE DEF i, row
  <2>9. resolve_operand(o, ty, schema, row) = OperandValue(o, ty, schema, values)
    BY <2>1, <2>4, <2>6, <2>7
  <2> QED BY <2>5, <2>7, <2>8, <2>9 DEF row
<1>2. CASE o.kind # "column"
  <2>1. o.kind = "literal" /\ IsText(o.text) /\ IsValid(ValueFromString(ty, o.text))
    BY <1>2 DEF IsOperand
  <2>2. IsValue(ValueFromString(ty, o.text)) /\ ValueFromString(ty, o.text).type = ty
    BY <2>1, ValueOfText
  <2>3. ty \in TypeIds
    BY <2>1, <2>2 DEF IsValid
  <2> QED BY <2>1, <2>2, <2>3 DEF resolve_operand, OperandValue
<1> QED BY <1>1, <1>2

\* A sound comparison of a row does not throw, and comes to what it means.
LEMMA ComparisonOf ==
  ASSUME NEW values, NEW schema, IsTuple(values, schema), NEW cmp,
         IsOperand(cmp.left), IsOperand(cmp.right), cmp.op \in ComparisonOps, WellTyped(cmp, schema)
  PROVE  evaluate_comparison(cmp, schema, BuildRow(values)) = Truth(ComparisonHolds(cmp, schema, values))
<1> DEFINE ty == LiteralType(cmp, schema)
           row == BuildRow(values)
           a == OperandValue(cmp.left, ty, schema, values)
           b == OperandValue(cmp.right, ty, schema, values)
           left == resolve_operand(cmp.left, ty, schema, row)
           right == resolve_operand(cmp.right, ty, schema, row)
           Sound1(o) ==
             \/ o.kind = "column" /\ column_index(schema, o.name) # 0
                  /\ schema[column_index(schema, o.name)].type = ty
             \/ o.kind = "literal" /\ IsValid(ValueFromString(ty, o.text))
<1>1. Sound1(cmp.left) /\ Sound1(cmp.right)
  BY DEF WellTyped
<1>2. left = a /\ IsValue(a) /\ a.type = ty /\ ty \in TypeIds
  <2>1. Sound1(cmp.left)
    BY <1>1
  <2> HIDE DEF ty
  <2> QED BY <2>1, OperandOf
<1>3. right = b /\ IsValue(b) /\ b.type = ty
  <2>1. Sound1(cmp.right)
    BY <1>1
  <2> HIDE DEF ty
  <2> QED BY <2>1, OperandOf
<1>4. evaluate_comparison(cmp, schema, row) =
        IF ty # "invalid" /\ IsValid(left) /\ IsValid(right)
        THEN compare_values(left, cmp.op, right) ELSE "throws"
  BY DEF evaluate_comparison
<1>5. ComparisonHolds(cmp, schema, values) <=>
        \/ cmp.op \in {"EQ", "LE", "GE"} /\ a = b
        \/ cmp.op \in {"LT", "LE", "NEQ"} /\ Precedes(a, b)
        \/ cmp.op \in {"GT", "GE", "NEQ"} /\ Precedes(b, a)
  BY DEF ComparisonHolds, OperandValue
<1> HIDE DEF ty, row, a, b, left, right, Sound1
<1>6. Compares(a, cmp.op, b) <=> ComparisonHolds(cmp, schema, values)
  <2>1. Compares(a, cmp.op, b) <=>
          \/ cmp.op \in {"EQ", "LE", "GE"} /\ a = b
          \/ cmp.op \in {"LT", "LE", "NEQ"} /\ Precedes(a, b)
          \/ cmp.op \in {"GT", "GE", "NEQ"} /\ Precedes(b, a)
    BY <1>2, <1>3, ComparesOf
  <2> QED BY <1>5, <2>1
<1>7. ty # "invalid" /\ IsValid(left) /\ IsValid(right)
  BY <1>2, <1>3 DEF IsValid, TypeIds
<1>8. compare_values(left, cmp.op, right) = Truth(Compares(a, cmp.op, b))
  BY <1>2, <1>3 DEF compare_values
<1>9. Truth(Compares(a, cmp.op, b)) = Truth(ComparisonHolds(cmp, schema, values))
  BY <1>6 DEF Truth
<1> QED BY <1>4, <1>7, <1>8, <1>9 DEF row

\* So does a condition: evaluating it stops early only where the rest does not matter.
LEMMA ConditionOf ==
  ASSUME NEW values, NEW schema, IsTuple(values, schema), NEW condition \in Conditions,
         Sound(condition, schema)
  PROVE  evaluate_condition(condition, schema, BuildRow(values)) = Truth(Holds(condition, schema, values))
<1> DEFINE row == BuildRow(values)
           Right(c) == evaluate_condition(c, schema, row) = Truth(Holds(c, schema, values))
           T == {c \in Conditions : Sound(c, schema) => Right(c)}
<1>1. ASSUME NEW c \in Conditions, c.kind \in Logical => c.left \in T /\ c.right \in T, Sound(c, schema)
      PROVE  Right(c)
  <2>1. CASE c.kind \in Logical
    <3>1. Sound(c.left, schema) /\ Sound(c.right, schema)
      BY <1>1, <2>1, SoundOf
    <3>2. Right(c.left) /\ Right(c.right)
      BY <1>1, <2>1, <3>1
    <3>3. c.left \in Conditions /\ c.right \in Conditions
      BY <2>1, ConditionShape
    <3> DEFINE l == Holds(c.left, schema, values)
               r == Holds(c.right, schema, values)
    <3>4. l \in BOOLEAN /\ r \in BOOLEAN
      BY <3>3, HoldsOf
    <3>5. evaluate_condition(c, schema, row) = evaluate_logical_condition(c.kind, Truth(l), Truth(r))
      <4>1. evaluate_condition(c, schema, row) =
              evaluate_logical_condition(c.kind, evaluate_condition(c.left, schema, row),
                                         evaluate_condition(c.right, schema, row))
        BY <2>1, EvaluateOf
      <4> HIDE DEF row
      <4> QED BY <3>2, <4>1
    <3>6. CASE c.kind = "and"
      <4>1. Holds(c, schema, values) <=> l /\ r
        BY <3>6, HoldsOf
      <4>2. evaluate_logical_condition("and", Truth(l), Truth(r)) = Truth(l /\ r)
        <5> HIDE DEF l, r
        <5> QED BY <3>4 DEF evaluate_logical_condition, Truth
      <4>3. Truth(l /\ r) = Truth(Holds(c, schema, values))
        BY <4>1 DEF Truth
      <4> HIDE DEF row
      <4> QED BY <3>5, <3>6, <4>2, <4>3
    <3>7. CASE c.kind = "or"
      <4>1. Holds(c, schema, values) <=> l \/ r
        BY <3>7, HoldsOf
      <4>2. evaluate_logical_condition("or", Truth(l), Truth(r)) = Truth(l \/ r)
        <5> HIDE DEF l, r
        <5> QED BY <3>4 DEF evaluate_logical_condition, Truth
      <4>3. Truth(l \/ r) = Truth(Holds(c, schema, values))
        BY <4>1 DEF Truth
      <4> HIDE DEF row
      <4> QED BY <3>5, <3>7, <4>2, <4>3
    <3> QED BY <2>1, <3>6, <3>7 DEF Logical
  <2>2. CASE c.kind = "none"
    BY <2>2, EvaluateOf, HoldsOf DEF Truth
  <2>3. CASE c.kind = "comparison"
    <3>1. WellTyped(c, schema)
      BY <1>1, <2>3, SoundOf
    <3>2. IsOperand(c.left) /\ IsOperand(c.right) /\ c.op \in ComparisonOps
      BY <2>3, QueryAssumption
    <3>3. evaluate_comparison(c, schema, row) = Truth(ComparisonHolds(c, schema, values))
      BY <3>1, <3>2, ComparisonOf
    <3>4. evaluate_condition(c, schema, row) = evaluate_comparison(c, schema, row)
      BY <2>3, EvaluateOf
    <3>5. Holds(c, schema, values) <=> ComparisonHolds(c, schema, values)
      BY <2>3, HoldsOf
    <3>6. Truth(Holds(c, schema, values)) = Truth(ComparisonHolds(c, schema, values))
      BY <3>5 DEF Truth
    <3> HIDE DEF row
    <3> QED BY <3>3, <3>4, <3>6
  <2> QED BY <2>1, <2>2, <2>3, ConditionShape
<1> HIDE DEF Right
<1>2. \A c \in Conditions : (c.kind \in Logical => c.left \in T /\ c.right \in T) => c \in T
  BY <1>1
<1>3. condition \in T
  <2> HIDE DEF T
  <2> QED BY <1>2, ConditionInduction
<1> QED BY <1>3 DEF Right, row

-----------------------------------------------------------------------------
(* What is selected. *)

\* The selected columns of a tuple and of its schema.
Picked(values, fields) == [j \in DOMAIN fields |-> values[fields[j]]]

\* The fields project copies are a row of their own.
LEMMA Projected ==
  ASSUME NEW values, NEW schema, IsTuple(values, schema),
         NEW m \in Nat, NEW fields \in [1 .. m -> DOMAIN schema]
  PROVE  /\ IsTuple(Picked(values, fields), Picked(schema, fields))
         /\ project(BuildRow(values), schema, fields) = BuildRow(Picked(values, fields))
<1> DEFINE picked == Picked(values, fields)
           result == Picked(schema, fields)
           row == BuildRow(values)
<1>1. /\ DOMAIN values = DOMAIN schema
      /\ \A i \in DOMAIN schema :
           Bytes(row, CalculateOffset(row, schema, i), GetSize(row, schema, i)) = ToBytes(values[i])
  BY RowReadBack
<1>2. \A i \in DOMAIN schema :
        IsValue(values[i]) /\ Encodable(values[i]) /\ values[i].type = schema[i].type
  BY <1>1 DEF IsTuple, Buildable
<1>3. /\ DOMAIN fields = 1 .. m /\ DOMAIN picked = 1 .. m /\ DOMAIN result = 1 .. m
      /\ \A j \in 1 .. m : /\ fields[j] \in DOMAIN schema /\ picked[j] = values[fields[j]]
                           /\ result[j] = schema[fields[j]]
  BY DEF Picked
<1> DEFINE S == {picked[i] : i \in DOMAIN picked}
           R == {result[i] : i \in DOMAIN result}
<1>4. picked \in [1 .. m -> S] /\ result \in [1 .. m -> R]
  BY <1>3 DEF Picked
<1>5. picked \in Seq(S) /\ Len(picked) = m /\ Len(result) = m
  <2> HIDE DEF picked, result, S, R
  <2>1. picked \in Seq(S) /\ Len(picked) = m
    BY <1>4, ListOf
  <2>2. Len(result) = m
    BY <1>4, ListOf
  <2> QED BY <2>1, <2>2
<1>6. IsList(picked)
  BY <1>5 DEF IsList
<1> HIDE DEF picked, result, S, R
<1>7. IsTuple(picked, result)
  <2>1. \A j \in 1 .. m : IsValue(picked[j]) /\ Encodable(picked[j]) /\ picked[j].type = result[j].type
    BY <1>2, <1>3
  <2> QED BY <1>3, <1>5, <1>6, <2>1 DEF IsTuple, Buildable
<1>8. project(row, schema, fields) = BuildRow(picked)
  <2>1. project(row, schema, fields) =
          FlattenSeq([i \in DOMAIN fields |->
            Bytes(row, CalculateOffset(row, schema, fields[i]), GetSize(row, schema, fields[i]))])
    BY DEF project
  <2>2. BuildRow(picked) = FlattenSeq([i \in DOMAIN picked |-> ToBytes(picked[i])])
    BY DEF BuildRow
  <2> HIDE DEF row
  <2>3. ASSUME NEW i \in 1 .. m
        PROVE  Bytes(row, CalculateOffset(row, schema, fields[i]), GetSize(row, schema, fields[i]))
                 = ToBytes(picked[i])
    BY <1>1, <1>3
  <2>4. [i \in DOMAIN fields |->
          Bytes(row, CalculateOffset(row, schema, fields[i]), GetSize(row, schema, fields[i]))]
            = [i \in DOMAIN picked |-> ToBytes(picked[i])]
    BY <1>3, <2>3
  <2> QED BY <2>1, <2>2, <2>4
<1> QED BY <1>7, <1>8 DEF picked, result, row

\* get_execution_iterator has looked up every column.
Found(stmt, schema) ==
  \A i \in DOMAIN SelectedFields(stmt, schema) : SelectedFields(stmt, schema)[i] # 0

LEMMA FieldsFound ==
  ASSUME NEW schema, Len(schema) \in Nat, DOMAIN schema = 1 .. Len(schema),
         NEW stmt \in Selects, Found(stmt, schema)
  PROVE  \E m \in Nat : SelectedFields(stmt, schema) \in [1 .. m -> DOMAIN schema]
<1> DEFINE fields == SelectedFields(stmt, schema)
<1>1. CASE stmt.select_all
  <2>1. fields = [i \in DOMAIN schema |-> i]
    BY <1>1 DEF SelectedFields
  <2>2. fields \in [1 .. Len(schema) -> DOMAIN schema]
    <3> HIDE DEF fields
    <3> QED BY <2>1
  <2> QED BY <2>2
<1>2. CASE ~stmt.select_all
  <2> DEFINE cols == stmt.columns
             R == {cols[i] : i \in DOMAIN cols}
  <2>1. cols \in Seq(R)
    BY ExecutorAssumption DEF IsList
  <2>2. DOMAIN cols = 1 .. Len(cols) /\ Len(cols) \in Nat
    <3> HIDE DEF cols, R
    <3> QED BY <2>1
  <2>3. fields = [i \in DOMAIN cols |-> column_index(schema, cols[i])]
    BY <1>2 DEF SelectedFields
  <2>4. \A i \in DOMAIN fields : fields[i] # 0
    BY DEF Found
  <2> HIDE DEF fields, cols
  <2>5. ASSUME NEW i \in 1 .. Len(cols) PROVE fields[i] \in DOMAIN schema
    <3>1. fields[i] = column_index(schema, cols[i]) /\ fields[i] # 0
      BY <2>2, <2>3, <2>4
    <3>2. column_index(schema, cols[i]) \in 0 .. Len(schema)
      BY ColumnIndexOf
    <3> QED BY <3>1, <3>2
  <2>6. fields \in [1 .. Len(cols) -> DOMAIN schema]
    BY <2>2, <2>3, <2>5
  <2> QED BY <2>2, <2>6 DEF fields
<1> QED BY <1>1, <1>2

\* The row of a statement's result that comes of a row of the table.
ResultRow(stmt, schema, row) ==
  IF stmt.select_all THEN row ELSE project(row, schema, SelectedFields(stmt, schema))

LEMMA RowSelected ==
  ASSUME NEW values, NEW schema, IsTuple(values, schema), NEW stmt \in Selects, Found(stmt, schema)
  PROVE  GetValues(ResultRow(stmt, schema, BuildRow(values)), ResultSchema(stmt, schema))
           = Picked(values, SelectedFields(stmt, schema))
<1> DEFINE fields == SelectedFields(stmt, schema)
           picked == Picked(values, fields)
           result == Picked(schema, fields)
           row == BuildRow(values)
<1>1. PICK m \in Nat : fields \in [1 .. m -> DOMAIN schema]
  BY FieldsFound DEF IsTuple
<1>2. ResultSchema(stmt, schema) = result
  BY DEF ResultSchema, Picked
<1>3. IsTuple(picked, result) /\ project(row, schema, fields) = BuildRow(picked)
  <2> HIDE DEF fields
  <2> QED BY <1>1, Projected
<1>4. GetValues(BuildRow(picked), result) = picked
  <2> HIDE DEF picked, result
  <2> QED BY <1>3, RowReadBack
<1>5. CASE stmt.select_all
  <2>1. fields = [i \in DOMAIN schema |-> i]
    BY <1>5 DEF SelectedFields
  <2>2. values = [i \in DOMAIN schema |-> values[i]]
    <3>1. DOMAIN values = DOMAIN schema
      BY RowReadBack
    <3>2. values \in Seq({values[i] : i \in DOMAIN values})
      BY DEF IsTuple, IsList
    <3> DEFINE R == {values[i] : i \in DOMAIN values}
    <3>3. values \in Seq(R)
      BY <3>2
    <3> HIDE DEF R
    <3>4. values = [i \in DOMAIN values |-> values[i]]
      BY <3>3
    <3> QED BY <3>1, <3>4
  <2>3. picked = values
    <3> HIDE DEF fields
    <3>1. picked = [i \in DOMAIN schema |-> values[i]]
      BY <2>1 DEF Picked
    <3> QED BY <2>2, <3>1
  <2>4. ResultRow(stmt, schema, row) = row
    BY <1>5 DEF ResultRow
  <2> HIDE DEF picked, result, fields
  <2> QED BY <1>2, <1>4, <2>3, <2>4 DEF picked, fields
<1>6. CASE ~stmt.select_all
  <2>1. ResultRow(stmt, schema, row) = project(row, schema, fields)
    BY <1>6 DEF ResultRow
  <2> HIDE DEF picked, result, row
  <2> QED BY <1>2, <1>3, <1>4, <2>1 DEF row, picked
<1> QED BY <1>5, <1>6

\* No sound statement throws on the rows of a table.
LEMMA EncodedRuns ==
  ASSUME NEW rows, NEW tuples, NEW schema, Encoded(rows, tuples, schema),
         NEW stmt \in Selects, Sound(stmt.where, schema), Found(stmt, schema)
  PROVE  Runs(stmt, schema, rows)
<1>1. stmt.where \in Conditions
  BY ExecutorAssumption
<1>2. PICK R : rows \in Seq(R)
  BY DEF Encoded, IsRows
<1>3. DOMAIN rows = 1 .. Len(tuples)
  BY <1>2 DEF Encoded
<1>4. ASSUME NEW i \in DOMAIN rows PROVE evaluate_condition(stmt.where, schema, rows[i]) # "throws"
  <2>1. IsTuple(tuples[i], schema) /\ rows[i] = BuildRow(tuples[i])
    BY <1>3 DEF Encoded
  <2>2. evaluate_condition(stmt.where, schema, rows[i]) = Truth(Holds(stmt.where, schema, tuples[i]))
    BY <1>1, <2>1, ConditionOf
  <2> QED BY <2>2 DEF Truth
<1> QED BY <1>4 DEF Runs, Found

\* What a statement that runs returns is what it means.
LEMMA EncodedSelected ==
  ASSUME NEW rows, NEW tuples, NEW schema, Encoded(rows, tuples, schema),
         NEW stmt \in Selects, Sound(stmt.where, schema), Found(stmt, schema)
  PROVE  [i \in DOMAIN ResultRows(stmt, schema, rows) |->
            GetValues(ResultRows(stmt, schema, rows)[i], ResultSchema(stmt, schema))]
           = Selected(stmt, schema, tuples)
<1> DEFINE m == Len(tuples)
           where == stmt.where
           fields == SelectedFields(stmt, schema)
           I == {i \in DOMAIN rows : evaluate_condition(where, schema, rows[i]) = "true"}
           J == {i \in DOMAIN tuples : Holds(where, schema, tuples[i])}
<1>1. where \in Conditions
  BY ExecutorAssumption
<1>2. m \in Nat /\ DOMAIN rows = 1 .. m /\ DOMAIN tuples = 1 .. m
  <2>1. PICK R, S : rows \in Seq(R) /\ tuples \in Seq(S)
    BY DEF Encoded, IsRows
  <2> QED BY <2>1 DEF Encoded
<1>3. \A i \in 1 .. m : IsTuple(tuples[i], schema) /\ rows[i] = BuildRow(tuples[i])
  BY DEF Encoded
<1>4. I = J
  <2>1. ASSUME NEW i \in 1 .. m
        PROVE  evaluate_condition(where, schema, rows[i]) = "true" <=> Holds(where, schema, tuples[i])
    <3>1. evaluate_condition(where, schema, rows[i]) = Truth(Holds(where, schema, tuples[i]))
      BY <1>1, <1>3, ConditionOf
    <3> QED BY <3>1 DEF Truth
  <2> QED BY <1>2, <2>1
<1>5. I \in SUBSET (1 .. m)
  BY <1>2
<1>6. PICK n, p : Takes(I, n, p)
  <2> HIDE DEF I, m
  <2> QED BY <1>2, <1>5, PlacesTaken
<1>8. n \in Nat /\ p \in [1 .. n -> I] /\ \A s : RowsAt(s, I) = RowsBy(s, n, p)
  BY <1>6 DEF Takes
<1>9. Matches(where, schema, rows) = RowsBy(rows, n, p)
  BY <1>8 DEF Matches
<1>10. RowsAt(tuples, J) = RowsBy(tuples, n, p)
  <2> HIDE DEF I, J
  <2> QED BY <1>4, <1>8
<1>11. \A k \in 1 .. n : p[k] \in 1 .. m
  BY <1>5, <1>8
<1> DEFINE result == ResultRows(stmt, schema, rows)
<1>12. /\ DOMAIN result = 1 .. n
       /\ \A k \in 1 .. n : result[k] = ResultRow(stmt, schema, rows[p[k]])
  <2> HIDE DEF I
  <2>1. CASE stmt.select_all
    <3>1. result = RowsBy(rows, n, p)
      BY <1>9, <2>1 DEF ResultRows
    <3> HIDE DEF result
    <3> QED BY <2>1, <3>1 DEF RowsBy, ResultRow
  <2>2. CASE ~stmt.select_all
    <3> DEFINE matches == RowsBy(rows, n, p)
    <3>1. result = [i \in DOMAIN matches |-> project(matches[i], schema, fields)]
      BY <1>9, <2>2 DEF ResultRows
    <3>2. DOMAIN matches = 1 .. n /\ \A k \in 1 .. n : matches[k] = rows[p[k]]
      BY DEF RowsBy
    <3>3. \A k \in 1 .. n : ResultRow(stmt, schema, rows[p[k]]) = project(rows[p[k]], schema, fields)
      BY <2>2 DEF ResultRow
    <3> HIDE DEF result, matches, fields
    <3> QED BY <3>1, <3>2, <3>3
  <2> QED BY <2>1, <2>2
<1>13. ASSUME NEW k \in 1 .. n
       PROVE  GetValues(result[k], ResultSchema(stmt, schema)) = Picked(tuples[p[k]], fields)
  <2>1. IsTuple(tuples[p[k]], schema) /\ rows[p[k]] = BuildRow(tuples[p[k]])
    BY <1>3, <1>11
  <2>2. result[k] = ResultRow(stmt, schema, BuildRow(tuples[p[k]]))
    <3> HIDE DEF result
    <3> QED BY <1>12, <2>1
  <2> HIDE DEF result
  <2> QED BY <2>1, <2>2, RowSelected
<1>14. Selected(stmt, schema, tuples) = [k \in 1 .. n |-> Picked(tuples[p[k]], fields)]
  <2> DEFINE matches == RowsAt(tuples, J)
  <2>1. Selected(stmt, schema, tuples) =
          [i \in DOMAIN matches |-> [j \in DOMAIN fields |-> matches[i][fields[j]]]]
    BY DEF Selected
  <2>2. DOMAIN matches = 1 .. n /\ \A k \in 1 .. n : matches[k] = tuples[p[k]]
    BY <1>10 DEF RowsBy
  <2> HIDE DEF matches, fields
  <2>3. \A k \in 1 .. n : [j \in DOMAIN fields |-> matches[k][fields[j]]] = Picked(tuples[p[k]], fields)
    BY <2>2 DEF Picked
  <2> QED BY <2>1, <2>2, <2>3
<1> HIDE DEF result, fields
<1>15. [i \in DOMAIN result |-> GetValues(result[i], ResultSchema(stmt, schema))]
         = [k \in 1 .. n |-> Picked(tuples[p[k]], fields)]
  BY <1>12, <1>13
<1> QED BY <1>14, <1>15 DEF result

\* Whatever rows are in a table that opens, a SELECT with columns that the table has and
\* comparisons of one type succeeds: no row ever makes an iterator throw
\* (selection_iterator.cpp), for any tables, schemas, rows, conditions and widths.
THEOREM SelectAlwaysSucceeds == ExecutorSpec => []SelectSucceeds
<1>1. StorageInv /\ CatalogInv /\ KeptInv => SelectSucceeds
  <2> SUFFICES ASSUME StorageInv, CatalogInv, KeptInv, NEW n \in TableNames, NEW stmt \in Selects,
                      Opens(n), Sound(stmt.where, GetSchema(n)), Found(stmt, GetSchema(n))
               PROVE  SelectRuns(n, stmt)
    BY DEF SelectSucceeds, Found
  <2>1. Encoded(TableRows(n), acked[n], GetSchema(n))
    BY OpenEncoded
  <2>2. Runs(stmt, GetSchema(n), TableRows(n))
    BY <2>1, EncodedRuns
  <2> QED BY <2>2 DEF SelectRuns
<1> QED BY <1>1, KeptAlways, PTL

\* A SELECT that succeeds returns the values it means, for any tables, schemas, rows,
\* conditions and selected columns: the rows that satisfy the WHERE clause, whose text
\* is read as the type of the column and compared with it (selection_iterator.cpp),
\* in the order of the table, and of each the selected columns in the order asked for,
\* cut out of the bytes of the row (projection_iterator.cpp) and readable with the
\* schema returned.
THEOREM SelectAlwaysCorrect == ExecutorSpec => []SelectCorrect
<1>1. StorageInv /\ CatalogInv /\ KeptInv => SelectCorrect
  <2> SUFFICES ASSUME StorageInv, CatalogInv, KeptInv, NEW n \in TableNames, NEW stmt \in Selects,
                      Opens(n), Sound(stmt.where, GetSchema(n)), ExecuteSelect(n, stmt).success
               PROVE  [i \in DOMAIN ExecuteSelect(n, stmt).rows |->
                         GetValues(ExecuteSelect(n, stmt).rows[i], ExecuteSelect(n, stmt).schema)]
                        = Selected(stmt, GetSchema(n), acked[n])
    BY DEF SelectCorrect
  <2> DEFINE rows == ResultRows(stmt, GetSchema(n), TableRows(n))
             schema == ResultSchema(stmt, GetSchema(n))
  <2>1. Encoded(TableRows(n), acked[n], GetSchema(n))
    BY OpenEncoded
  <2>2. SelectRuns(n, stmt)
    BY DEF ExecuteSelect
  <2>3. Found(stmt, GetSchema(n))
    BY <2>2 DEF SelectRuns, Runs, Found
  <2>4. [i \in DOMAIN rows |-> GetValues(rows[i], schema)] = Selected(stmt, GetSchema(n), acked[n])
    BY <2>1, <2>3, EncodedSelected
  <2>5. ExecuteSelect(n, stmt) = [success |-> TRUE, rows |-> rows, schema |-> schema]
    BY <2>2 DEF ExecuteSelect
  <2> HIDE DEF rows, schema
  <2>6. ExecuteSelect(n, stmt).rows = rows /\ ExecuteSelect(n, stmt).schema = schema
    BY <2>5
  <2> QED BY <2>4, <2>6
<1> QED BY <1>1, KeptAlways, PTL
=============================================================================
