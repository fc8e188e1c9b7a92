# yadb: a TLA+ verification project

yadb is a small relational database: a SQL shell on top of an optimizer, a
catalog, heap tables in slotted pages, a buffer pool, and a disk manager.  This
directory holds TLA+ models of its code, the TLC configurations that check them
on small instances, and TLAPS proofs of the properties that matter most for
instances of any size.

Paths below are relative to the root of the repository.

## 1. Inventory of the system

| Component | Code | State | Operations |
|---|---|---|---|
| `SharedSpinlock` | `src/core/shared_spinlock.cpp` | one atomic `state_m` | `lock`, `try_lock`, `unlock`, `lock_shared`, `try_lock_shared`, `unlock_shared`, `State` |
| `LRUKReplacer` | `src/storage/on_disk/buffer_manager/lru_k_replacer.cpp` | per frame: flag, access history; `evictable_count_m`, clock, `k_m` | `RegisterFrame`, `RecordAccess`, `SetEvictable`, `EvictFrame`, `GetEvictableCount` |
| `PageBufferManager`, `Frame`, `Page` | `src/storage/on_disk/buffer_manager/` | `page_map_m`, per frame: `fp_id`, `is_dirty`, `pin_count`, bytes; condition variable `available_frame_m` | `GetPage`, `GetPageIfFrameAvailable`, `LoadPage`, `FlushPage`, `RemoveAccessor` (`~Page`), `GetView`, `GetMutView`, `CreateFile`, `DeleteFile`, `AllocatePage`, constructor, destructor |
| `DiskManager` | `src/storage/on_disk/disk/disk_manager.cpp` | `id_map_m`; per handle: stream, mutex, free list | `CreateFile`, `DeleteFile`, `AllocatePage`, `DeletePage`, `ReadPage`, `WritePage` |
| Slotted page | `src/storage/on_disk/page/page_format.cpp` | header, slot directory, record area of one page | `InitPage`, `AllocateSlot`, `AllocateSlotOrReuseSlot`, `DeleteSlot`, `ReadRecord`, `WriteRecord`, `VacuumPage` |
| Heap page, `DiskTable`, its iterator | `src/storage/on_disk/heap/`, `src/storage/on_disk/table/` | list of slotted pages, linked from the root page | `insert_row`, `update_row`, `delete_row`, scan, `seek` |
| `DiskTableFactory` | `src/storage/on_disk/table/disk_table_factory.cpp` | the mapping table: table name to file id | create, open, delete |
| `Catalog`, `TableManager`, `TableHandle` | `src/catalog/`, `src/table/` | two catalog tables, their cache `table_info_m`; a factory per engine | start (create or load the catalogs), `CreateTable`, `GetTable`, `DeleteTable`; rows through a handle |
| Ephemeral tables | `src/storage/ephemeral/` | registry of tables; per table a map from row id to row and two id counters | insert, update, delete, scan, create, drop |
| External sort | `src/optimizer/external_sort.cpp` | the slot directory of one page | `SortPageInPlace`, `ShiftSlotsLeft`, `SwapSlots` |
| Query pipeline, executor | `src/optimizer/`, `src/executor/` | iterator trees | scan, selection, projection; SELECT, INSERT, CREATE, DROP (DELETE and UPDATE always fail) |
| Row codec, data types | `src/core/row_*.cpp`, `src/common/datatypes.cpp` | none | encode, decode, compare |
| SQL parser, shell | `src/sql/`, `src/shell/` | none of their own | parse, print |

How they interact.  The shell calls the executor, which calls the table manager
and the iterators; tables ask the buffer pool for pages and work on their bytes
through a `Page` guard under the frame's `SharedSpinlock`.  The buffer pool asks
the replacer for victims and the disk manager for bytes.  All of this is direct
calls; what makes it concurrent is that the buffer pool, the disk manager and
the spinlock are meant to be shared by threads: one mutex and one condition
variable in the pool, one mutex for the handle map and one per handle in the
disk manager, and a lock per frame.

What is hard here, and the property that makes each part correct:

* **Spinlock.** Compare-and-exchange loops carry values that are stale as soon as
  they are read.  Correct: a writer is alone, the word counts its holders, and
  the loops do not block one another for ever.
* **Replacer.** One pass over an unordered map has to find the victim, while
  histories are trimmed and cleared.  Correct: the pass returns what the
  documented policy says, whatever the iteration order; the count it keeps is the number of frames
  it may give.
* **Buffer pool.** Frames are evicted, written back and reloaded while clients
  hold, share, change and release pages, wait for frames, delete files and shut
  down; calls into the disk manager fail half-way.  Correct: to its callers the
  pool is a plain map from pages to bytes; a page in use stays where it is; who
  waits for a frame gets one.
* **Disk manager.** The handle is looked up under one lock and used under
  another; growing a file takes two system calls; the free list dies with the
  process.  Correct: no page has two owners, and pages in use lie inside their
  file.
* **Slotted page.** Offsets, counters and moves of records in a fixed number of
  bytes.  Correct: slots, header and records never overlap, and a record is read
  back as it was written, also after a vacuum.
* **Tables.** Several clients append to and walk one linked list of pages, each
  page locked on its own.  Correct: every row inserted and not deleted is met by
  a scan, once; nobody waits for a frame while everybody holds one.
* **Catalog.** What tables there are is written down in five places: two catalog
  tables, their cache, the mapping table with its files, and the registry of the
  in-memory engine, of which some survive a restart.  Correct: they agree, and a
  restart loads what was there.
* **Rows and queries.** A row is bytes that mean something only with the right
  schema, and each field's place depends on the lengths in front of it; literals
  get their type from the column they meet.  Correct: a table holds the values
  that were stored, and SELECT returns those that satisfy its condition.
* **Page sort.** Two pointers and a recursion over slot entries, next to deleted
  slots and equal keys.  Correct: it ends, sorted, with the records it began with.

`PROJECT.json` lists every component with its status and, under `hazards`, the
lines where these difficulties sit and the properties that cover them.

## 2. The modules

| Module | Models |
|---|---|
| `SharedSpinlock` | the lock, one step per atomic access |
| `Replacer` | what the buffer pool sees of its replacer: flags and the count |
| `LRUKReplacer` | the replacer as a component: histories, clock, the scan of `EvictFrame` iteration by iteration, and the policy of the header |
| `PageStore` | abstract specification of the pool: a map from pages to bytes, and who holds and who may change a page |
| `PageBufferManager` | the pool, its frames and `Page` guards |
| `MCPageBufferManager` | its instances |
| `DiskManager`, `MCDiskManager` | files, handles, page allocation |
| `SlottedPage`, `MCSlottedPage` | one page: header, slot directory, records, vacuum |
| `DiskTable` | a heap file under inserts, deletes, updates and scans |
| `PageSort`, `MCPageSort` | sorting the slots of a page in place, loop turn by loop turn |
| `RowLists` | the rows at some places of a container, in order: what loops over containers meet |
| `RowCodec` | values from texts, rows from values, values from rows |
| `EphemeralTable` | the in-memory table as a value: row ids, insertion, deletion, scan |
| `TableManager` | catalog, mapping table, files, registry; start, restart, create, open, drop, row changes; extends `EphemeralTable` |
| `Query` | conditions, projection and the iterators of a SELECT on encoded rows, and what the statement means on values; extends `RowCodec` |
| `Executor`, `MCExecutor` | SQL statements and handles over all of these; composes `TableManager` and `Query` |
| `SharedSpinlockProofs`, `LRUKReplacerProofs`, `PageBufferManagerProofs`, `DiskManagerProofs`, `SlottedPageProofs`, `DiskTableProofs`, `PageSortProofs`, `ExecutorProofs` | theorems |

### SharedSpinlock

`state_m` is the atomic, `expected[t]` the local variable of the loop thread `t`
is in, `pc[t]` its place.  `lock()` is `BeginLock` and any number of `CasLock`;
`lock_shared()` and `try_lock_shared()` begin with the load `BeginShared` and go
on with `SpinShared`, `CasShared` and `TryLockSharedFails`.  A spurious failure
of the weak compare-exchange leaves all variables as they are and is a
stuttering step.  Memory order is not modelled: there is one atomic, and its
accesses are totally ordered in any case.  The lock remembers no owner; the C++ rule
that only a holder unlocks is the guard of `Unlock` and `UnlockShared`.

### Replacer and LRUKReplacer

`Replacer` holds `is_evictable` and `evictable_count_m`, the latter modulo
`SizeMod`, which stands for the width of `size_t`: the code's count is unsigned
and is moved once per call of `SetEvictable`, so it can wrap.  To the pool any
evictable frame may be the victim; that this is no over-approximation is the
theorem `NoPolicyWithoutWindow` (in the program `k_m` is never given a value and
is 0).  `LRUKReplacer` adds the histories and gives the frames that the comparisons
of `EvictFrame` select as a set, `Victims`, for windows of any length; `ScanResult`
runs the loop body of the code (`Scan`) over the frames in a given order.
`Documented` is the policy the header states: frames with fewer than k accesses
first, by their oldest one, then those with the least recent k-th access.
`ScanFindsVictims` compares what the scan returns over all orders with both sets.
They are the same as long as some evictable frame has fewer than k accesses, or k is
at most 1 (`~KthAccessDecides`); in the remaining case the code departs from the
header (section 3), and only the comparison with `Victims` is claimed.

### PageBufferManager

A *client* is one `Page` variable of some thread.  Every operation of the
manager runs under `mut_m` from beginning to end, or up to a wait on
`available_frame_m`, and is one action: `GetPage` with the alternatives `Hit`,
`LoadAndPin`, `LoadFindsNoFrame`, `LoadFlushFails`, `LoadReadFails`,
`LoadAborts` or a wait; `ResumeGetPage` after a notification;
`GetPageIfFrameAvailable`; `RemoveAccessor`; `DeleteFile`, its resumption and
its timeout.  `notify_one` wakes any one waiter, of `GetPage` or `DeleteFile`;
`notify_all` wakes all; wakeups may also be spurious.  `GetMutView` and the
stores through it run without `mut_m` and are steps of their own.  The frame's
lock appears as exclusion between writers.  `CreateFile` and `AllocatePage` pass
through to the disk manager.

Bytes are pairs of the page they were written for and a version, or `Garbage`
where the code leaves them undefined: this is enough to tell whose bytes a frame
holds and whether they are the latest.

What goes wrong around the manager is chosen by constants: `ReadFaults`,
`WriteFaults` and `RemoveFaults` are the pages and files whose calls may fail,
`StaleUse` lets clients use a file that is being or has been deleted, `ReuseIds`
lets a deleted file's id be drawn again.  A write that fails, on eviction or in the
destructor, which ignores it, leaves the old bytes, the new ones or torn ones.

Assertions (`YADB_ASSERT`) end the process: the client is then `"aborted"` and
nothing runs any more.  The one place where the build without assertions matters
is a read beyond the end of a file, and both outcomes are there (`LoadAborts`,
`LoadReadFails`).

### DiskManager

A page operation is two steps, or three if it grows the file: `LookUp` (under
`mut_m`), then `AllocateFree`, `ReadSize` and `Grow`, `TransferPage` or
`DeletePage` (under the handle's mutex).  `DeleteFile` takes only `mut_m` and may
come in between: it closes the stream and forgets the handle, and only then tries to
remove the file, which fails for files in `RemoveFaults` (`RemoveFails`) and leaves
them as they are.  Handles are reference-counted in the code; `Unreferenced` says
when one is gone.  `Restart` is the end of the process at any point.

Two variables are history.  `owner` is to whom `AllocatePage` gave a page.
`overtaken` has the files in which a forgotten handle may still allocate: an
allocation was under way when a removal failed, or any call when a file of the same
name was created again.  The calls themselves go on in the model; the properties
are about the files that are not in `overtaken`.  Transfers and page deletions
through a forgotten handle, while others allocate through the new one, are no
exception.

### SlottedPage

Header fields and slot directory are variables; the record area is `bytes`,
where byte `i` of the record a client wrote as `v` is `<<v, i>>`.  One action per
function of `page_format.cpp`; a call that finds no room returns nothing and is a
stutter.  `VacuumPage` runs under the page's lock, so nothing interleaves with
it, but it moves records inside the page: `BeginVacuum`, one `MoveRecord` per
live slot in the order of the code's priority queue, `EndVacuum`, with the
invariants checked in between.  `reserved` is what `heap_page::InitPage` keeps
free at the end of a heap page for the two page pointers; `written` is a history
variable.  `num_tuples` wraps at `CountMod`.  Two conditions on callers are
constants: with `DoubleDelete` a slot may be deleted twice, which breaks
`TuplesCounted`; with `VacuumHeap` a heap page may be vacuumed, which breaks
`PointersKept`, because the moves start at the end of the page.  No code does
either.

The comment above `AllocateSlotOrReuseSlot` says that an old record is reused
when it is at most as large as the new one; the code, and the model, reuse it
when it is at least as large.

### DiskTable

One step is what a thread does under one page lock.  `insert_row` is `InsertRow`,
`ReadPartialHead` (root), any number of `WalkOn`, and then `InsertHere`, or
`NewPage` and `LinkPage` (root or last page); between two of them the thread
holds only page ids.  `update_row` is a deletion followed by an insertion.  A
cursor's constructor is `Begin`; `advance_to_next_valid` is `LeavePage` until
`FindRow` or `ReachEnd`.  Slots are never reused by this code, so a row is its
row id and a page is the sequence of its deleted flags and the room it has left.
`rows`, `due` and `seen` are history variables: the rows of inserts that
returned, the rows a running scan has to return, and those it did.  The pages on
the partial list are the smallest set that has its head and is closed under the
next pointers.  The list of
full pages that `heap_page.h` describes is read by the iterator and written by
nobody; neither are the backward pointers of its "doubly linked lists".

### PageSort

`SkipLive`, `EndSkip`, `FindLive` and `MoveSlot` are the turns of the loops of
`ShiftSlotsLeft`; `BeginPartition` to `PlacePivot` those of the quicksort.  The
recursion is a stack of the ranges still to be sorted, `calls`, the current one
first.  A slot entry is its deleted flag and the record it points to; `original`
is a history variable.  `Init` is any page of up to `MaxCapacity` slots whose
header counts its live slots, which is `TuplesCounted` of `SlottedPage`.

### RowCodec

A byte is a number below `Base`, `LengthBytes` and `Width` are the widths of the
length prefix and of the integer types, so that small bytes reach the boundaries
of the types.  A text is its characters, the number they write, if they all do, and
whether it has a minus sign: `std::from_chars` takes none for an unsigned type, so
"-0" is a number for an I32 and not for a U32.  `ToBytes`, `BuildRow`, `SizeAt`,
`CalculateOffset` and `GetValue` follow the functions of the same names; an `Invalid` value is an error returned
or an assertion that fails.  `IsText` and `IsValue` are what the constants with the
texts and values of an instance have to be.

### TableManager, with EphemeralTable

One thread uses a table manager, so a call is one action.  The maps of the code
are functions on the keys they have.  `mapping` and `files`
are the disk engine, `tables_m` the in-memory one, `table_catalog` and
`column_catalog` the rows of the two catalog tables and `table_info` the cache.
`FirstStart` finds no catalogs, creates them and enters their own rows;
`Restart` finds and loads them; `Shutdown` writes all pages and loses what is in
memory.  The catalogs list themselves as in-memory tables although they are on
disk (`catalog.cpp:177`), so they do not open and DROP takes them out of the
catalog, after which their names can be created: the model has all of this.

A disk table's rows are the sequence a scan returns.  `DiskTable` promises which rows
that sequence has, not where a new one comes in it: `insert_row` takes the first page
with room (`disk_table.cpp:41-50`), so that a small row may come before a larger one
stored earlier.  `StoreRow` and the insertion half of `ReplaceRow` therefore put a
row of a disk table at any place (`NewPlaces`), one of an in-memory table at the end.
The rows of the mapping table and of the catalogs are kept in the order they were
added; the code searches them for the one row with some name or position, so nothing
depends on it.

### Query and Executor

`Query` evaluates a statement the way the iterators do, with `"throws"` as a
third outcome of a condition, on rows of bytes; its second half gives the
statement's meaning on values.  Conditions are evaluated by functions on the set
`Conditions`, which has the parts of its members; a part is less deep than the whole
(`Depth`), because the parser builds a condition from its parts (`QueryAssumption`).
`Executor` has the statements as actions on the
table manager, together with the calls on `TableManager` and `TableHandle` that
make disk tables, updates and deletions possible, as no statement does.  SELECT
changes nothing, so that its properties are stated for every statement in every
state.  `acked` is a history variable: the values stored in a table since it was
created, each at the place the engine chose for its row.  `RowsKept` and
`SelectCorrect` thus say that rows keep the order among themselves that a scan first
met them in, and no more about order.

INSERT may carry a list of columns (`Parser.y:206`), which the executor does not
look at: values go to the columns by position.  The model does the same.

## 3. The runs

| Run | Instance | Shows |
|---|---|---|
| `spinlock` | 3 threads, fair | exclusion, exact state word, truthful `State()`, and somebody always gets in |
| `lruk` | 3 frames, windows 0, 1 and 2, 5 accesses | histories are windows; in every order the scan returns exactly what the code's comparisons select, and the header's victims except under its second rule with a window of 2; without a window any evictable frame may go |
| `pool_safe` | 2 clients, 2 frames, 3 pages, 2 files, 2 versions; deletion, shutdown, restart | pins counted, pinned pages stay, clean pages equal the disk, and the pool implements `PageStore` |
| `pool_wait` | 3 clients with a page each, 2 frames, fair | the count is right, the promised frame is there, no wakeup is lost, and waiting ends with somebody served |
| `pool_faults` | 2 clients, 2 frames, 2 pages, every failure allowed | map and frames agree whatever fails |
| `pool_count` | 2 clients sharing a page | *violated*: the count of evictable frames is moved twice for one frame |
| `pool_read_fault` | 2 clients, 2 frames, 2 pages, one unreadable | *violated*: after a failed load a guard's frame can carry another page |
| `disk` | 2 threads, 1 file, 2 handles, up to 4 pages, removals that fail, restart | unless a forgotten handle still allocates in a file: no page has two owners, owned pages are inside the file, so are free ones |
| `slotted` | plain page of 6 bytes and heap page, header and slot entries of 1 byte, records of 1 and 2 bytes, two values | allocations never overlap, records read back, page pointers survive, the tuple count is right, at every step of a vacuum too |
| `table` | 1 inserting and 1 deleting thread, 1 cursor, 2 pages with room for 2, rows of 1 and 2 | the list holds exactly the rows inserted and not deleted; a scan ends and returns, once, every row that was there throughout |
| `sort` | 5 slots, 5 records, up to 2 with one key, fair | the sort ends, in order, with the records it began with, and stays inside the directory |
| `sql` | 2 tables next to the 2 catalogs, 2 schemas of 2 and 3 columns, 8 INSERTs and 2 handle updates that differ in types and lengths, 9 SELECTs, 3 rows on disk, each at any place, 4 row ids in memory, slot ids that wrap after 2, any number of restarts | the five places where tables are listed agree, tables hold what was stored, SELECT succeeds where it should and returns what it means |

Why these bounds are enough.  Two frames and three pages are the smallest pool
in which a page can be evicted while another is pinned and be reloaded into a
different frame; two clients can share a page or compete for a frame; two
versions tell a lost update from one that was kept; two files let one be deleted
while the other is in use.  Three clients on two frames are the fewest with
somebody waiting while two others hold and release.  Four pages let a file be
doubled twice, from 0 and from a size with a spare page.  Two handles are never too
few for two threads: a lookup is made by a thread that holds none, and the other one
holds one at most.  Three frames are the
fewest for which the order of the replacer's scan matters in more than one way.
A page of 6 bytes has room for two slots with gaps between their records, which a
vacuum closes by an overlapping move; larger pages are the theorems' business.
Two heap pages let a page be linked to the root and to another page, and rows of
two sizes let a small row go to a page a large one has passed.
Five slots give a partition with records on both sides of the pivot and a
recursion two deep, with a deleted slot in front.  For `sql`, bytes of two bits
make 3 the longest string and 15 the largest U32, so that texts at, below and
above each limit fit in a few characters; slot ids modulo 2 wrap while the table
still holds rows from before; two schemas for one name catch a row read with the
wrong one, two disk tables a file or column of the wrong table, three rows on disk let one come
between two others, and three files in
use of four leave an id free for a new table.  A column name that occurs twice, a
string in front of the columns selected and literals on either side are in the
statements, as are columns that do not exist and comparisons of two types.
`SizeMod` 4 or 8 exceeds the number of frames, so that a wrap is visible and the
legal counts do not collide.

`pool_faults` and `pool_read_fault` do not check for deadlock: the process may
abort there.  All other runs do.

Fairness.  `SharedSpinlock`: a thread that is scheduled goes on with its loop
and leaves its critical section, and a weak compare-exchange does not fail
spuriously for ever.  `PageBufferManager`: a notified thread gets the mutex, a
client ends its stores and, sooner or later, drops its guard (strong fairness,
because it may look at the page any number of times in between), and the five
seconds of `DeleteFile` pass.  `DiskTable`: a cursor inside
`advance_to_next_valid` gets its frame and the shared page lock, which others
hold for a bounded time only; nothing is assumed of writers.  `PageSort`: the
thread that sorts goes on.  No fairness is assumed for new calls, for spurious
wakeups or for shutdown.  No property says that a *given* waiter is served:
`notify_one` and the mutex promise no order, and a stream of readers can keep a
writer of the spinlock out for ever.

### What the violated runs say about the code

* **`pool_count`**, `lru_k_replacer.cpp:82`.  `SetEvictable` moves
  `evictable_count_m` on every call, and `PinAndReturnPage` calls it on every
  pin.  After two pins of one page the count is one too low (or wraps), so
  `GetPage` can wait although a frame is free, or be promised one that is not
  there.  `pool_wait` therefore checks `CountAccurate`, `NoLostWakeup`,
  `NoPhantomFrame` and `PoolServes` for clients that do not share pages.
* **`pool_read_fault`**, `page_buffer_manager.cpp:131`.  A failed `ReadPage`
  leaves the frame with the id of a page that is no longer in the map; evicting
  that frame later erases an entry that belongs to another frame.

Other observations that the models make visible:

* `lru_k_replacer.cpp:49` compares full histories by `back()`, the latest access;
  the header (`lru_k_replacer.h:26`) says "remove the frame that had the least recent
  k-th access", which is `front()`.  With k = 2 TLC refutes `Victims = Documented` in
  six states: the accesses f1, f2, f2, f1 leave the histories <<0, 3>> and <<1, 2>>, of
  which the header names f1 and the code takes f2.  `ScanFindsVictims` states the
  header's policy where the code follows it.  The program, where k is 0, does not get
  there.
* `disk_table.cpp:76`: `insert_row` reads the end of the list under one lock and
  links its page under another.  With both writers in `Inserters` TLC refutes
  `RowsReachable`: of two threads that read the same end the second overwrites
  the pointer of the first, whose row id was returned but whose row no scan
  reaches.  The shell runs one statement at a time and does not get there.
* `disk_manager.cpp:123-131`: `DeleteFile` forgets the handle before it knows whether
  the file can be removed.  Without the exception for `overtaken` files TLC refutes
  all three properties of `DiskManager`.  After a removal that failed, a call on the
  forgotten handle and one on a new handle read the same size under two mutexes and
  are given the same page (`NoDoubleAllocation`, 9 states).  A call that read the size
  of a file that is then removed and created again resizes the new file to fewer
  pages than were given out or are free in it (`OwnedInRange`, 12 states;
  `FreeInFile`, 14 states).  File ids are random 32-bit numbers and the shell runs one
  statement at a time, so the program is far from either.
* CREATE TABLE makes in-memory tables, and the catalog on disk lists them.  After
  a restart such a table is listed and does not open, CREATE refuses its name,
  and DROP removes it although it returns false.  `RowsKept` and `StorageListed`
  are therefore about tables that open and about what is stored, not about
  everything that is listed.
* `DiskTableFactory::CreateTable` does not look for the name.  A disk table with
  the name of a dropped catalog would share the catalog's mapping;
  `ManagerAssumption` excludes it, and no statement creates disk tables.

## 4. The proofs

All theorems are for any finite number of threads, frames, pages, files and
clients; the assumptions are the named `ASSUME`s of the modules, which TLC
evaluates for every instance.

| Theorem | States | From |
|---|---|---|
| `SharedSpinlockProofs!CountsHolders`, `Exclusion`, `StateReportsHolders` | `LockCounts`, `MutualExclusion`, `StateFaithful` | `LockCounts` with the types is inductive: the counter determines who is inside, and a compare-exchange that succeeds has seen the current value |
| `LRUKReplacerProofs!HistoriesAreWindows`, `ReplacerTypes` | `HistoryIsWindow`, `TypeOK` | inductive together, once the histories are bounded by the clock |
| `LRUKReplacerProofs!NoPolicyWithoutWindow` | `NoWindowNoPolicy` | a history of at most 0 entries is empty |
| `LRUKReplacerProofs!ScanFollowsPolicy` | `ScanFindsVictims`, for windows of any length, any number of frames and any order | the same, and `Found`, the invariant of the loop |
| `PageBufferManagerProofs!TypesCorrect`, `MapAgreesWithFrames` | `TypeOK`, `MapConsistent` | `BaseInv`, in every environment |
| `PageBufferManagerProofs!PinsCounted`, `PinnedPagesStay`, `FlagsFollowPins`, `CleanPagesOnDisk`, `AssertionsHold` | the pinning discipline | `IInv`, under `SafeEnvironment` |
| `PageBufferManagerProofs!CountIsRight`, `PromisedFramesExist` | `CountAccurate`, `NoPhantomFrame` | `IInv` and `CountInv`, under `SafeEnvironment` and `PrivatePages` |
| `PageBufferManagerProofs!WakeupsArrive` | `NoLostWakeup` | the same, with writes that succeed (`WriteFaults = {}`) |
| `PageBufferManagerProofs!PoolImplementsStore` | `ImplementsPageStore` | `IInv`, under `SafeEnvironment` and `DurableShutdown` |
| `DiskManagerProofs!DiskTypes`, `PagesHaveOneOwner`, `OwnersInRange`, `FreePagesInFile`, `PageAssertionsMet` | `TypeOK`, `NoDoubleAllocation`, `OwnedInRange`, `FreeInFile`, and the assertions on page ids (`AssertionsMet`), for files not in `overtaken` | `DInv` |
| `SlottedPageProofs!PageLayout`, `RecordsKept`, `HeapPointersKept` | `Layout`, `RecordsReadBack`, `PointersKept`, for pages, headers, slot entries and records of any size | `SInv`, for callers that do not vacuum heap pages (`NoHeapVacuum`) |
| `SlottedPageProofs!HeaderCountsTuples` | `TuplesCounted` | `SInv`, for callers that delete a record once (`DeletedOnce`) |
| `DiskTableProofs!TableTypes`, `RowsStayReachable`, `ScansComplete`, `ScansReturnOnce` | `TypeOK`, `RowsReachable`, `ScanComplete`, `ScanOnce`, for any number of pages, deleting threads and cursors | `TableInv`, for one inserting thread (`OneInserter`) |
| `PageSortProofs!SortSorts`, `SortKeepsRecords`, `SortStaysInBounds`, `SortTypes` | `SortedAtEnd`, `RecordsKept`, `PointersInBounds`, `TypeOK`, for pages of any number of slots and any keys | `SortInv` |
| `ExecutorProofs!StorageStaysListed` | `StorageListed`, for any tables, schemas, rows and file ids | `StorageInv` |
| `ExecutorProofs!CatalogStaysLoadable` | `CatalogReloads` | `StorageInv` and `CatalogInv` |
| `ExecutorProofs!RowsStayKept` | `RowsKept`, for any tables, schemas, values, widths of types and slot counters | the same and `KeptInv` |
| `ExecutorProofs!SelectAlwaysSucceeds`, `SelectAlwaysCorrect` | `SelectSucceeds`, `SelectCorrect`, for any statements with conditions of any depth | the same |

After any number of turns the scan of the replacer has (`Found`) no candidate if it
met no evictable frame; else, if it returned early, a frame without history; else the
short history that begins earliest of those it met, or, if all it met are full, the one
used longest ago.  One turn keeps that because `HistoryIsWindow` excludes ties and empty
histories where ends are compared.  All frames met, `Found` is membership in `Victims`.
For the other direction, that each victim is found in some order, an order that has
it first is enough when it has no history; otherwise it is the only victim.  `Victims`
is `Documented` (`VictimsDocumented`) because a history of one access begins and ends
with it, and because the first rule is the same in both.

`BaseInv` adds to `MapConsistent` what a client's call is about in each phase.
It needs no assumption on the environment: every step that enters a page into
the map writes the same page into the frame.

The pinning invariants are not inductive one by one.  A release goes through the
page id the frame carries and the map entry of that id, so `PinAccounting` needs
`HoldersResident`; that in turn needs the victim to be unpinned
(`EvictableIffUnpinned`) *and* the map entry erased with it to be the victim's
own (`StaleFramesHarmless`: a frame whose page the map no longer gives to it is
clean, and its page belongs to a deleted file that nobody can load again).
`FilesAccounted` and `GettersSafe` say why nobody can: cached pages are
allocated, allocated pages belong to existing files, existing files are not
deleted ones, and who waits for a page waits for one nobody is deleting.
`MutatorsDirty` makes `CleanMatchesDisk` survive a store.  `IInv` is their
conjunction.  `SafeEnvironment` is necessary: with a failing read the run
`pool_read_fault` refutes what it would give.  Writes may fail in it.

The refinement maps the store to `StoredBytes` (the frame's bytes for a cached
page, the disk's for any other, nothing for an unallocated one), the guards to
`Held` and the writers to `Mutators`.  Every step of the pool is then an
allocation, an acquisition, an opening, a write, a release, a drop or a stutter
of `PageStore`, which lets a page change only by the hand of the one client that
opened it.  The eviction of a dirty page is a stutter because the flush comes
before the erase, that of a clean one because of `CleanMatchesDisk`; two writers
never meet because holders of a page share its frame, and with it the lock; a
deleted file is unused because its pins are counted.  `DurableShutdown` excludes
the one step that is none of these: a destructor whose flush fails and is ignored.

`CountInv` is about waiting.  With `PrivatePages` (no page has two users, and no
file is deleted) every pin and every release changes the flag of a frame for real,
so a count that moves with every call moves with the flags; without it the run
`pool_count` refutes `CountAccurate`.  `OwnCalls` says that the page a client waits
for is not in the pool: a woken client loads it, and `LoadPage` notifies all, or
there is no frame any more and it waits again.  A load that fails in its
write-back returns and notifies nobody (`page_buffer_manager.cpp:125`), which is
why `WakeupsArrive` assumes that writes succeed; `CountIsRight` and
`PromisedFramesExist` do not.

`DInv` is about the files that exist and are not overtaken (`Sound`).  After a removal
that failed such a file may have several handles, the one in the map and forgotten
ones that calls still hold, but whoever allocates does so through the one in the map
(`AllocatorsCurrent`).  So only one thread at a time is between reading the size and
resizing, and the size is still the one it read (`GrowersExclude`).  The pages are
owned, free in one of the handles, or lost in a restart or with a handle, never two of
these (`PagesPartitioned`): a page deleted through a forgotten handle goes to a list
nobody allocates from.  That a handle is never one of two files (`HandlesOfOneFile`)
comes from `Unreferenced`.

`TableInv` gives the partial list as a chain `ch[1] .. ch[n]` of pages.  Deletions do
not touch it, and with one inserting thread it only grows at its end, because
nobody links a page between that thread's reading of the end and its own link
(`WriterInv`); two inserting threads do get in between.  "Before" and "behind" on
the chain therefore mean the same to a scan from beginning to end, and `CursorInv`
can say: what is due and behind the cursor has been returned, and only what is
behind it has been.  A scan ends behind the chain, so it has returned all that was
due; a slot is passed once, so nothing twice.

`StorageInv` has for each of the five places what it needs of the others: no name
is listed or mapped twice and no file mapped twice, so that the searches for a first
or last row of a name find the only one; files are the mapped ones; once there are
catalogs, a name is mapped iff it is a catalog's or listed as a disk table; the
cache has the names and types of the catalog table, the registry some of those in
memory.  A restart, which takes the types from the catalog table, then finds every
disk table mapped.  `CatalogInv` adds that no column of a table has two rows.
What AddTable appends is then exactly what a load finds of the new table, and
neither it nor RemoveTable changes what is found of another one (`LoadsAlike`).  The
prover knows nothing of `SelectSeq`, so `RowsAt` has the rows kept by
RemoveTable by their ranks, and that these are each of them once
(`PlacesOnce`) is counting.

`KeptInv` says that the rows in the file a name is mapped to, and those of a table in
memory, encode the values clients stored (`Encoded`) with the schema that a load of the
catalog finds for the name, and that row ids in memory lie below the next one.  It
needs `StorageInv`, for a file to belong to one name and a dropped name to lose its
rows, and `CatalogInv`, for the schema to be the same after a restart.  What is left is
that encoded rows are read back:

* a number that fits its width is the sum of its bytes (`FixedToBytes`, `Unsigned`), by
  induction on the width, and a negative one is that sum less the power of the width;
* the concatenation of the fields has each field at the sum of the lengths in front of
  it, and `CalculateOffset`, which takes these lengths from the row itself, computes the
  same sum, by induction on the position; so `GetValues` inverts `BuildRow`
  (`RowReadBack`);
* the in-memory table, a map from row ids to rows, is scanned in the order of insertion
  because `Advance` gives a greater row id also when the slot counter wraps, and a
  deletion shifts the ranks of the rows behind it;
* a row that comes at any place of a disk table has the values that come at the same
  place of `acked` (`EncodedInsert`), and the rows around it keep theirs.

For SELECT, `evaluate_condition` on a row and `Holds` on its values agree for every
sound condition, by induction on `Depth`, with the short circuits of `and` and `or`:
neither side of a sound condition throws.  The selection keeps the rows at the places
where the condition holds (`RowsAt`), and the projection, bytes cut out of the row,
encodes the values selected, so that the same `RowReadBack` reads them with the schema
returned.

The library states induction and recursion for operators, which none of the provers
instantiates.  These inductions are therefore over sets and functions: a property of
numbers that fails somewhere has a least place where it does (`LeastNumber`); a function
whose values come one from the other exists on every interval (`Recursion`) and on all
numbers (`EndlessRecursion`); and the same holds of conditions along their depth
(`ConditionInduction`, `ConditionRecursion`).  A recursive definition of the model is a
choice, and these lemmas say that there is something to choose.

`SortInv` has a half for each phase of the sort.  In the shift, what is left of
`deleted_ptr` is live and what lies between the two pointers is not; that the
header counts the live slots (`Counted`) then gives both that a slot is left to
be found while `deleted_ptr < num_tuples` and that nothing live is left behind
when it is not, by the cardinality of an interval.  In the sort, the ranges on
the stack lie one behind the other, and two slots that no range has together are
in order already (`Ordered`).  A swap inside the current range keeps that,
because every other slot is before or behind the whole range; placing the pivot
does, because it lies between what the partition put on either side.  With the
stack empty, `Ordered` is `SortedAtEnd`.

`SInv` strengthens `Layout` with `VacuumProgress`, what holds between two moves
of a vacuum: records already moved lie above `freespace_end`, those still queued
below it, and deleted slots have no record any more.  A move then writes only
above the end of every queued record, except the one it moves; that it is the
last of them (`Top`) is what makes this an invariant.  `Layout` covers the
allocations of deleted slots as well, because a reused slot takes its old one
back.

Only model-checked: the liveness properties (`DeadlockFreedom`, `PoolServes`,
`AdvanceReturns`, `SortReturns`), as liveness under fairness is beyond the prover.
Every invariant and the refinement of every passing run is proved.

## 5. Not modelled, and why

* Error messages, logging and the checksum (never verified on a read).
* The SQL grammar and the shell: generated code and text.
* F64: its texts, NaN and rounding.  Nothing above the codec treats it otherwise.
* `RowBuilder`'s buffer growth, type names, and how results are printed.
* Cursors of in-memory tables that stay open while rows change: no caller does
  that; `Catalog::RemoveTable` collects row ids first for this reason.
* The in-memory default engine of `TableManager`, which only tests use.
* `SortPages`, which is commented out.
* Partial starts and drops: a call of the table manager is only cut short by an
  assertion, which ends the process before its destructors write anything.
* Crashes of the pool: the code promises no durability before eviction or the
  destructor, so there is nothing to violate.  `DiskManager` has them.
* `Page`'s move assignment: not used on a live guard anywhere.
* Pages that cannot be got, in `DiskTable`: `MustGetPage` ends the process.
* Rows larger than a page: `insert_row` dereferences an empty optional for them.

## 6. Plan

Still to come, in this order:

1. Waiting for frames when write-backs fail, and when pages are shared: what of
   `NoLostWakeup` is left there.
2. A composition of `DiskTable` cursors with the pool's frames, for the cursor
   that holds the root while it waits for the next page.
3. An abstract table, a set of rows with atomic insertion and deletion, that
   `DiskTable` for one client and `EphemeralTable` both implement.
