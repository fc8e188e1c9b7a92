---------------------------- MODULE DiskTable ----------------------------
(***************************************************************************)
(* The rows of one table on disk: DiskTable and its iterator                *)
(* (src/storage/on_disk/table/disk_table.cpp, disk_table_iterator.cpp).     *)
(*                                                                          *)
(* Rows live in slotted pages linked from the root page of the file.        *)
(* Writers and cursors run in threads of their own.  They lock one page at  *)
(* a time, so a step here is what a thread does under one page lock, and    *)
(* page ids carried from one lock to the next may be out of date.           *)
(*                                                                          *)
(* A row is known by its row id <<page, slot>>.  DiskTable never reuses a   *)
(* slot, so a page is the sequence of its slots' deleted flags and the room *)
(* it has left; what a record holds is SlottedPage's subject.  Slots count  *)
(* from 1, slot_id_t from 0.                                                *)
(***************************************************************************)
EXTENDS Integers, Sequences, FiniteSets

CONSTANTS
  Pages,       \* the page ids AllocatePage can return
  Root,        \* ROOT_PAGE_ID
  Null,        \* NULL_PAGE_ID
  Writers,     \* threads that delete rows, and insert them if in Inserters
  Inserters,
  Cursors,     \* threads that scan the table
  PageRoom,    \* bytes of a new heap page for slot entries and records
  RowSizes     \* bytes a row takes, slot entry included

ASSUME TableAssumption ==
  /\ Inserters \subseteq Writers
  /\ PageRoom \in Nat
  /\ Root \notin Pages /\ Null \notin Pages \cup {Root} \cup (0 .. PageRoom)
  /\ RowSizes \subseteq 1 .. PageRoom

VARIABLES
  partial_head,            \* the root's prev pointer: GetPartialPagesHead
  next,                    \* next pointers; the root's is GetFullPagesHead
  room,                    \* room[p]: GetFreeSpaceSize, Null before InitPage
  is_deleted,              \* is_deleted[p][s]: IsSlotDeleted
  pc,                      \* where a writer is in insert_row
  size,                    \* the row it inserts
  next_page_id, last_partial_id, new_page_id,      \* its locals
  cpc,                     \* where a cursor is
  current_page_id, current_slot,                   \* its fields
  partial_pages_head, in_partial_list,
  rows,                    \* row ids of inserts that returned, not deleted since
  due,                     \* due[k]: the rows a scan must return: there when it
                           \* began, not deleted since
  seen                     \* seen[k]: the row ids it returned, in order

pageVars == <<partial_head, next, room, is_deleted>>
writerVars == <<pc, size, next_page_id, last_partial_id, new_page_id>>
cursorVars == <<cpc, current_page_id, current_slot, partial_pages_head, in_partial_list, seen>>
vars == <<pageVars, writerVars, cursorVars, rows, due>>

RowIds == Pages \X (Nat \ {0})

TypeOK ==
  /\ partial_head \in Pages \cup {Null}
  /\ next \in [Pages \cup {Root} -> Pages \cup {Null}]
  /\ room \in [Pages -> (0 .. PageRoom) \cup {Null}]
  /\ is_deleted \in [Pages -> Seq(BOOLEAN)]
  /\ pc \in [Writers -> {"idle", "insert", "walk", "link"}]
  /\ size \in [Writers -> RowSizes \cup {0}]
  /\ next_page_id \in [Writers -> Pages \cup {Null}]
  /\ last_partial_id \in [Writers -> Pages \cup {Null}]
  /\ new_page_id \in [Writers -> Pages \cup {Null}]
  /\ cpc \in [Cursors -> {"advance", "row", "end"}]
  /\ current_page_id \in [Cursors -> Pages \cup {Null}]
  /\ current_slot \in [Cursors -> Nat \ {0}]
  /\ partial_pages_head \in [Cursors -> Pages \cup {Null}]
  /\ in_partial_list \in [Cursors -> BOOLEAN]
  /\ rows \in SUBSET RowIds
  /\ due \in [Cursors -> SUBSET RowIds]
  /\ seen \in [Cursors -> Seq(RowIds)]

\* The file as DiskTableFactory::InitTableRootPage leaves it: a root page only.
Init ==
  /\ partial_head = Null
  /\ next = [p \in Pages \cup {Root} |-> Null]
  /\ room = [p \in Pages |-> Null]
  /\ is_deleted = [p \in Pages |-> <<>>]
  /\ pc = [c \in Writers |-> "idle"]
  /\ size = [c \in Writers |-> 0]
  /\ next_page_id = [c \in Writers |-> Null]
  /\ last_partial_id = [c \in Writers |-> Null]
  /\ new_page_id = [c \in Writers |-> Null]
  /\ cpc = [k \in Cursors |-> "end"]
  /\ current_page_id = [k \in Cursors |-> Null]
  /\ current_slot = [k \in Cursors |-> 1]
  /\ partial_pages_head = [k \in Cursors |-> Null]
  /\ in_partial_list = [k \in Cursors |-> FALSE]
  /\ rows = {}
  /\ due = [k \in Cursors |-> {}]
  /\ seen = [k \in Cursors |-> <<>>]

-----------------------------------------------------------------------------
(* Writers. *)

\* insert_row returns; its locals are gone.
Returns(c) ==
  /\ pc' = [pc EXCEPT ![c] = "idle"]
  /\ size' = [size EXCEPT ![c] = 0]
  /\ next_page_id' = [next_page_id EXCEPT ![c] = Null]
  /\ last_partial_id' = [last_partial_id EXCEPT ![c] = Null]
  /\ new_page_id' = [new_page_id EXCEPT ![c] = Null]

\* insert_row(row), up to the read of the root.
BeginInsert(c, n) ==
  /\ pc' = [pc EXCEPT ![c] = "insert"]
  /\ size' = [size EXCEPT ![c] = n]
  /\ UNCHANGED <<next_page_id, last_partial_id, new_page_id>>

\* insert_row is called.
InsertRow(c, n) ==
  /\ pc[c] = "idle" /\ c \in Inserters
  /\ BeginInsert(c, n)
  /\ UNCHANGED <<pageVars, cursorVars, rows, due>>

\* Under the root's lock: the head of the partial list.
ReadPartialHead(c) ==
  /\ pc[c] = "insert"
  /\ pc' = [pc EXCEPT ![c] = "walk"]
  /\ next_page_id' = [next_page_id EXCEPT ![c] = partial_head]
  /\ UNCHANGED <<pageVars, size, last_partial_id, new_page_id, cursorVars, rows, due>>

\* page::AllocateSlot and WriteRecord on page p.
AllocateSlot(p, n) ==
  /\ room' = [room EXCEPT ![p] = @ - n]
  /\ is_deleted' = [is_deleted EXCEPT ![p] = Append(@, FALSE)]

\* A page with room: the row goes there and insert_row returns.
InsertHere(c) ==
  LET p == next_page_id[c] IN
    /\ pc[c] = "walk" /\ p # Null
    /\ size[c] <= room[p]
    /\ AllocateSlot(p, size[c])
    /\ rows' = rows \cup {<<p, Len(is_deleted[p]) + 1>>}
    /\ Returns(c)
    /\ UNCHANGED <<partial_head, next, cursorVars, due>>

\* A page without: on to the next one.
WalkOn(c) ==
  LET p == next_page_id[c] IN
    /\ pc[c] = "walk" /\ p # Null
    /\ size[c] > room[p]
    /\ last_partial_id' = [last_partial_id EXCEPT ![c] = p]
    /\ next_page_id' = [next_page_id EXCEPT ![c] = next[p]]
    /\ UNCHANGED <<pageVars, pc, size, new_page_id, cursorVars, rows, due>>

\* The end of the list: the row goes to a new page, which no other thread knows
\* of yet.  AllocatePage returns a page it has not returned before.
NewPage(c) ==
  /\ pc[c] = "walk" /\ next_page_id[c] = Null
  /\ \E p \in Pages :
       /\ room[p] = Null
       /\ room' = [room EXCEPT ![p] = PageRoom - size[c]]
       /\ is_deleted' = [is_deleted EXCEPT ![p] = <<FALSE>>]
       /\ new_page_id' = [new_page_id EXCEPT ![c] = p]
  /\ pc' = [pc EXCEPT ![c] = "link"]
  /\ UNCHANGED <<partial_head, next, size, next_page_id, last_partial_id, cursorVars, rows, due>>

\* Mutant: the new page becomes the head whatever was there before.
LinkAsHead(c) ==
  /\ partial_head' = new_page_id[c]
  /\ UNCHANGED next

\* Mutant: the pointer back to the last page is written to the wrong field.
LinkBothWays(c) ==
  LET last == last_partial_id[c]
      new == new_page_id[c] IN
    IF last = Null
    THEN partial_head' = new /\ UNCHANGED next
    ELSE next' = [next EXCEPT ![last] = new, ![new] = last] /\ UNCHANGED partial_head

\* The new page becomes the head of the list if the list was empty when it was
\* read, else the page after the one that was last.
Link(c) ==
  LET last == last_partial_id[c]
      new == new_page_id[c] IN
    IF last = Null
    THEN partial_head' = new /\ UNCHANGED next
    ELSE next' = [next EXCEPT ![last] = new] /\ UNCHANGED partial_head

\* Under the lock of the root or of the last page; then insert_row returns.
LinkPage(c) ==
  /\ pc[c] = "link"
  /\ Link(c)
  /\ rows' = rows \cup {<<new_page_id[c], 1>>}
  /\ Returns(c)
  /\ UNCHANGED <<room, is_deleted, cursorVars, due>>

\* page::DeleteSlot under the page's lock.
DeleteSlot(rid) ==
  /\ is_deleted' = [is_deleted EXCEPT ![rid[1]][rid[2]] = TRUE]
  /\ rows' = rows \ {rid}
  /\ due' = [k \in Cursors |-> due[k] \ {rid}]
  /\ UNCHANGED <<partial_head, next, room>>

\* delete_row of a row some insert_row returned.
DeleteRow(c, rid) ==
  /\ pc[c] = "idle"
  /\ DeleteSlot(rid)
  /\ UNCHANGED <<writerVars, cursorVars>>

\* update_row deletes the row and then inserts the new version.
UpdateRow(c, rid, n) ==
  /\ pc[c] = "idle" /\ c \in Inserters
  /\ DeleteSlot(rid)
  /\ BeginInsert(c, n)
  /\ UNCHANGED cursorVars

-----------------------------------------------------------------------------
(* Cursors. *)

\* Mutant: the constructor forgets that it starts in the partial list.
StartsInPartialForgotten == FALSE

\* There are no full pages, but partial ones.
StartsInPartial == next[Root] = Null /\ partial_head # Null

\* The constructor, up to its call of advance_to_next_valid.
Begin(k) ==
  /\ cpc[k] = "end"
  /\ cpc' = [cpc EXCEPT ![k] = "advance"]
  /\ current_page_id' = [current_page_id EXCEPT ![k] =
                           IF next[Root] # Null THEN next[Root] ELSE partial_head]
  /\ current_slot' = [current_slot EXCEPT ![k] = 1]
  /\ partial_pages_head' = [partial_pages_head EXCEPT ![k] = partial_head]
  /\ in_partial_list' = [in_partial_list EXCEPT ![k] = StartsInPartial]
  /\ due' = [due EXCEPT ![k] = rows]
  /\ seen' = [seen EXCEPT ![k] = <<>>]
  /\ UNCHANGED <<pageVars, writerVars, rows>>

\* The live slots of the current page from the current one on.
Remaining(k) ==
  LET flags == is_deleted[current_page_id[k]] IN
    {s \in current_slot[k] .. Len(flags) : ~flags[s]}

\* advance_to_next_valid finds a row on the current page.
FindRow(k) ==
  /\ cpc[k] = "advance" /\ current_page_id[k] # Null
  /\ \E s \in Remaining(k) :
       /\ \A t \in Remaining(k) : s <= t
       /\ current_slot' = [current_slot EXCEPT ![k] = s]
       /\ seen' = [seen EXCEPT ![k] = Append(@, <<current_page_id[k], s>>)]
  /\ cpc' = [cpc EXCEPT ![k] = "row"]
  /\ UNCHANGED <<pageVars, writerVars, current_page_id, partial_pages_head, in_partial_list,
                 rows, due>>

\* From the end of the full list to the partial one.
ToPartialList(k) ==
  /\ next[current_page_id[k]] = Null
  /\ ~in_partial_list[k] /\ partial_pages_head[k] # Null

\* Mutant: the slot is not reset on the new page.
FirstSlotForgotten(k) == current_slot[k]

FirstSlot(k) == 1

\* It finds none there and goes on to the next page.
LeavePage(k) ==
  /\ cpc[k] = "advance" /\ current_page_id[k] # Null
  /\ Remaining(k) = {}
  /\ current_page_id' = [current_page_id EXCEPT ![k] =
                           IF ToPartialList(k) THEN partial_pages_head[k] ELSE next[@]]
  /\ in_partial_list' = [in_partial_list EXCEPT ![k] = @ \/ ToPartialList(k)]
  /\ current_slot' = [current_slot EXCEPT ![k] = FirstSlot(k)]
  /\ UNCHANGED <<pageVars, writerVars, cpc, partial_pages_head, seen, rows, due>>

\* There is no next page: the cursor equals the end sentinel.
ReachEnd(k) ==
  /\ cpc[k] = "advance" /\ current_page_id[k] = Null
  /\ cpc' = [cpc EXCEPT ![k] = "end"]
  /\ UNCHANGED <<pageVars, writerVars, current_page_id, current_slot, partial_pages_head,
                 in_partial_list, seen, rows, due>>

\* operator++, up to its call of advance_to_next_valid.
Increment(k) ==
  /\ cpc[k] = "row"
  /\ cpc' = [cpc EXCEPT ![k] = "advance"]
  /\ current_slot' = [current_slot EXCEPT ![k] = @ + 1]
  /\ UNCHANGED <<pageVars, writerVars, current_page_id, partial_pages_head, in_partial_list,
                 seen, rows, due>>

\* seek: the cursor moves to a live row; the list it is in stays what it was, and
\* what the scan has to return is no longer known.
Seek(k, rid) ==
  /\ cpc[k] # "advance"
  /\ rid[2] <= Len(is_deleted[rid[1]]) /\ ~is_deleted[rid[1]][rid[2]]
  /\ cpc' = [cpc EXCEPT ![k] = "row"]
  /\ current_page_id' = [current_page_id EXCEPT ![k] = rid[1]]
  /\ current_slot' = [current_slot EXCEPT ![k] = rid[2]]
  /\ due' = [due EXCEPT ![k] = {}]
  /\ seen' = [seen EXCEPT ![k] = <<rid>>]
  /\ UNCHANGED <<pageVars, writerVars, partial_pages_head, in_partial_list, rows>>

-----------------------------------------------------------------------------
WriterStep(c) ==
  \/ \E n \in RowSizes : InsertRow(c, n)
  \/ ReadPartialHead(c)
  \/ InsertHere(c)
  \/ WalkOn(c)
  \/ NewPage(c)
  \/ LinkPage(c)
  \/ \E rid \in rows : DeleteRow(c, rid) \/ \E n \in RowSizes : UpdateRow(c, rid, n)

\* What a cursor does by itself once it is called.
Advance(k) == FindRow(k) \/ LeavePage(k) \/ ReachEnd(k)

CursorStep(k) ==
  \/ Begin(k)
  \/ Advance(k)
  \/ Increment(k)
  \/ \E rid \in rows : Seek(k, rid)

Next == (\E c \in Writers : WriterStep(c)) \/ (\E k \in Cursors : CursorStep(k))

\* A thread inside advance_to_next_valid goes on: it is given a frame, and the
\* shared lock of a page that others hold only for a bounded time.
Spec == Init /\ [][Next]_vars /\ \A k \in Cursors : WF_vars(Advance(k))

-----------------------------------------------------------------------------
(* Properties. *)

\* Following the partial list from its head never leads out of S.
FollowsInto(S) ==
  /\ partial_head # Null => partial_head \in S
  /\ \A p \in S : next[p] # Null => next[p] \in S

\* The pages on the partial list: the smallest such set.
OnList == {p \in Pages : \A S \in SUBSET Pages : FollowsInto(S) => p \in S}

LiveSlots(p) == {s \in 1 .. Len(is_deleted[p]) : ~is_deleted[p][s]}

\* The live rows a scan started now would return.
Reachable == UNION {{p} \X LiveSlots(p) : p \in OnList}

\* "Link the new page into the partial list so later inserts reuse it and the
\* iterator reaches it" (disk_table.cpp:73-75): the rows on the list are the ones
\* whose insert_row returned and that were not deleted.
RowsReachable == rows = Reachable

\* A scan that has ended returned every row that was in the table all the time,
\* whatever was inserted and deleted around it.
ScanComplete ==
  \A k \in Cursors : cpc[k] = "end" =>
    due[k] \subseteq {seen[k][i] : i \in 1 .. Len(seen[k])}

\* And it returned no row twice.
ScanOnce ==
  \A k \in Cursors : \A i, j \in 1 .. Len(seen[k]) : seen[k][i] = seen[k][j] => i = j

\* advance_to_next_valid comes back: the list has no cycle, also when all its rows
\* are deleted, and a cursor on it finds its end.
AdvanceReturns == \A k \in Cursors : cpc[k] = "advance" ~> cpc[k] # "advance"
=============================================================================
