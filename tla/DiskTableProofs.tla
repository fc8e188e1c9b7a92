------------------------- MODULE DiskTableProofs -------------------------
(***************************************************************************)
(* Rows and scans of a table with one inserting thread, any number of       *)
(* deleting threads and cursors, and any number of pages.                   *)
(*                                                                          *)
(* The invariant speaks of the partial list as a chain ch[1], ..., ch[n] of *)
(* pages: it only ever grows at its end, so that "before" and "behind" on   *)
(* it mean the same to a scan from its first to its last step.              *)
(***************************************************************************)
EXTENDS DiskTable, SequenceTheorems, TLAPS

\* What the inserting thread relies on: nobody links pages behind its back.
OneInserter == \A c, d \in Inserters : c = d

Linked(n, ch) == {ch[i] : i \in 1 .. n}
LastPage(n, ch) == IF n = 0 THEN Null ELSE ch[n]
Seen(k) == {seen[k][i] : i \in 1 .. Len(seen[k])}

\* The list is the chain, without a cycle, and nothing else is linked.
ChainInv(n, ch) ==
  /\ \A i, j \in 1 .. n : ch[i] = ch[j] => i = j
  /\ partial_head = IF n = 0 THEN Null ELSE ch[1]
  /\ \A i \in 1 .. n : next[ch[i]] = IF i < n THEN ch[i + 1] ELSE Null
  /\ next[Root] = Null
  /\ \A p \in Pages \ Linked(n, ch) : next[p] = Null
  /\ \A i \in 1 .. n : room[ch[i]] # Null
  /\ \A S \in SUBSET Pages : FollowsInto(S) => Linked(n, ch) \subseteq S

\* The rows are the live slots of the chain.
RowsInv(n, ch) ==
  /\ \A rid \in rows : rid[1] \in Linked(n, ch) /\ rid[2] \in LiveSlots(rid[1])
  /\ \A p \in Linked(n, ch) : \A s \in LiveSlots(p) : <<p, s>> \in rows

\* The inserting thread has walked to the end of the chain before it adds a page,
\* and nobody else knows the page it is about to link.
WriterInv(n, ch, c) ==
  /\ pc[c] # "idle" => c \in Inserters
  /\ pc[c] \in {"idle", "insert"} => last_partial_id[c] = Null
  /\ pc[c] = "walk" => IF next_page_id[c] = Null THEN last_partial_id[c] = LastPage(n, ch)
                       ELSE next_page_id[c] \in Linked(n, ch)
  /\ pc[c] = "link" => /\ last_partial_id[c] = LastPage(n, ch)
                       /\ new_page_id[c] \in Pages \ Linked(n, ch)
                       /\ room[new_page_id[c]] # Null
                       /\ is_deleted[new_page_id[c]] = <<FALSE>>

\* The first slot of its page the cursor has not looked at.
FirstAhead(k) == IF cpc[k] = "row" THEN current_slot[k] + 1 ELSE current_slot[k]

\* Slot s of the chain's j-th page is behind a cursor on its i-th.
Behind(k, i, j, s) == j < i \/ (j = i /\ s < FirstAhead(k))

\* On the chain's i-th page: what is due and behind the cursor has been returned,
\* and only what is behind it has been.
Passed(n, ch, k, i) ==
  \A j \in 1 .. n :
    /\ \A rid \in due[k] : rid[1] = ch[j] /\ Behind(k, i, j, rid[2]) => rid \in Seen(k)
    /\ \A rid \in Seen(k) : rid[1] = ch[j] => Behind(k, i, j, rid[2])

CursorInv(n, ch, k) ==
  /\ due[k] \subseteq rows
  /\ in_partial_list[k] \/ partial_pages_head[k] = Null
  /\ cpc[k] = "end" => current_page_id[k] = Null
  /\ cpc[k] = "row" => current_page_id[k] # Null
  /\ \A rid \in Seen(k) : rid[1] \in Linked(n, ch)
  /\ \A i, j \in 1 .. Len(seen[k]) : seen[k][i] = seen[k][j] => i = j
  /\ current_page_id[k] = Null => due[k] \subseteq Seen(k)
  /\ current_page_id[k] # Null => \E i \in 1 .. n : ch[i] = current_page_id[k] /\ Passed(n, ch, k, i)

ListInv(n, ch) ==
  /\ n \in Nat /\ ch \in [1 .. n -> Pages]
  /\ ChainInv(n, ch)
  /\ RowsInv(n, ch)
  /\ \A c \in Writers : WriterInv(n, ch, c)
  /\ \A k \in Cursors : CursorInv(n, ch, k)

TableInv == TypeOK /\ \E n, ch : ListInv(n, ch)
-----------------------------------------------------------------------------
(* Types. *)

LEMMA ReturnsTypes ==
  ASSUME TypeOK, NEW c \in Writers, Returns(c)
  PROVE  /\ pc' \in [Writers -> {"idle", "insert", "walk", "link"}]
         /\ size' \in [Writers -> RowSizes \cup {0}]
         /\ next_page_id' \in [Writers -> Pages \cup {Null}]
         /\ last_partial_id' \in [Writers -> Pages \cup {Null}]
         /\ new_page_id' \in [Writers -> Pages \cup {Null}]
         /\ pc'[c] = "idle" /\ last_partial_id'[c] = Null
         /\ \A d \in Writers \ {c} : pc'[d] = pc[d] /\ last_partial_id'[d] = last_partial_id[d]
  BY DEF TypeOK, Returns

\* A page of the chain and the room on it, in plain arithmetic.
LEMMA LinkedRoom ==
  ASSUME TypeOK, NEW n, NEW ch, ListInv(n, ch), NEW p \in Linked(n, ch)
  PROVE  p \in Pages /\ room[p] \in 0 .. PageRoom
  BY DEF ListInv, ChainInv, Linked, TypeOK

LEMMA SizesAreNumbers ==
  ASSUME TypeOK, NEW c \in Writers
  PROVE  size[c] \in 0 .. PageRoom
<1>1. size[c] \in RowSizes \/ size[c] = 0
  BY DEF TypeOK
<1>2. PageRoom \in Nat /\ \A x \in RowSizes : x \in 1 .. PageRoom
  BY TableAssumption
<1>3. CASE size[c] = 0
  BY <1>2, <1>3
<1>4. CASE size[c] \in RowSizes
  <2>1. size[c] \in 1 .. PageRoom
    BY <1>2, <1>4
  <2> QED BY <1>2, <2>1
<1> QED BY <1>1, <1>3, <1>4

LEMMA TypesInsertHere ==
  ASSUME TypeOK, NEW n, NEW ch, ListInv(n, ch), NEW c \in Writers, InsertHere(c)
  PROVE  /\ TypeOK'
         /\ next_page_id[c] \in Linked(n, ch)
         /\ room'[next_page_id[c]] \in 0 .. PageRoom
<1> DEFINE p == next_page_id[c]
<1>1. p \in Linked(n, ch)
  BY DEF InsertHere, ListInv, WriterInv
<1>2. p \in Pages /\ room[p] \in 0 .. PageRoom /\ size[c] \in 0 .. PageRoom
  BY <1>1, LinkedRoom, SizesAreNumbers
<1>3. room[p] - size[c] \in 0 .. PageRoom
  BY <1>2, TableAssumption DEF InsertHere
<1>4. room' \in [Pages -> (0 .. PageRoom) \cup {Null}] /\ room'[p] \in 0 .. PageRoom
  BY <1>2, <1>3 DEF InsertHere, AllocateSlot, TypeOK
<1>5. is_deleted[p] \in Seq(BOOLEAN) /\ Append(is_deleted[p], FALSE) \in Seq(BOOLEAN)
  BY <1>2 DEF TypeOK
<1>6. is_deleted' \in [Pages -> Seq(BOOLEAN)]
  BY <1>2, <1>5 DEF InsertHere, AllocateSlot, TypeOK
<1>7. rows' \in SUBSET RowIds
  <2>1. Len(is_deleted[p]) + 1 \in Nat \ {0}
    BY <1>5
  <2> QED BY <1>2, <2>1 DEF InsertHere, TypeOK, RowIds
<1> QED BY <1>1, <1>4, <1>6, <1>7, ReturnsTypes DEF InsertHere, TypeOK, cursorVars

LEMMA TypesNewPage ==
  ASSUME TypeOK, NEW c \in Writers, NEW p \in Pages,
         room' = [room EXCEPT ![p] = PageRoom - size[c]],
         is_deleted' = [is_deleted EXCEPT ![p] = <<FALSE>>],
         new_page_id' = [new_page_id EXCEPT ![c] = p],
         pc' = [pc EXCEPT ![c] = "link"],
         UNCHANGED <<partial_head, next, size, next_page_id, last_partial_id, cursorVars, rows, due>>
  PROVE  TypeOK' /\ room'[p] \in 0 .. PageRoom
<1>1. PageRoom - size[c] \in 0 .. PageRoom
  BY SizesAreNumbers, TableAssumption
<1>2. <<FALSE>> \in Seq(BOOLEAN)
  OBVIOUS
<1> QED BY <1>1, <1>2 DEF TypeOK, cursorVars

LEMMA TypesLinkPage ==
  ASSUME TypeOK, NEW n, NEW ch, ListInv(n, ch), NEW c \in Writers, LinkPage(c)
  PROVE  TypeOK'
<1>1. new_page_id[c] \in Pages /\ last_partial_id[c] \in Pages \cup {Null}
  BY DEF LinkPage, ListInv, WriterInv, TypeOK
<1>2. partial_head' \in Pages \cup {Null} /\ next' \in [Pages \cup {Root} -> Pages \cup {Null}]
  BY <1>1 DEF LinkPage, Link, TypeOK
<1>3. rows' \in SUBSET RowIds
  BY <1>1 DEF LinkPage, TypeOK, RowIds
<1> QED BY <1>2, <1>3, ReturnsTypes DEF LinkPage, TypeOK, cursorVars

LEMMA FunctionIsSequence ==
  ASSUME NEW S, NEW n \in Nat, NEW g \in [1 .. n -> S]
  PROVE  g \in Seq(S) /\ Len(g) = n
  OBVIOUS

LEMMA TypesDeleteSlot ==
  ASSUME TypeOK, NEW n, NEW ch, ListInv(n, ch), NEW rid \in rows, DeleteSlot(rid)
  PROVE  /\ rid \in RowIds /\ rid[1] \in Pages
         /\ is_deleted' \in [Pages -> Seq(BOOLEAN)]
         /\ \A p \in Pages : Len(is_deleted'[p]) = Len(is_deleted[p])
         /\ \A p \in Pages : \A s \in 1 .. Len(is_deleted[p]) :
              is_deleted'[p][s] <=> is_deleted[p][s] \/ rid = <<p, s>>
         /\ due' \in [Cursors -> SUBSET RowIds] /\ rows' \in SUBSET RowIds
<1> DEFINE q == rid[1]
           t == rid[2]
           f == is_deleted[q]
<1>1. rid \in RowIds /\ q \in Pages /\ t \in Nat \ {0} /\ rid = <<q, t>>
  BY DEF TypeOK, RowIds
<1>2. f \in Seq(BOOLEAN) /\ t \in 1 .. Len(f)
  BY <1>1 DEF TypeOK, ListInv, RowsInv, LiveSlots
<1>3. /\ [f EXCEPT ![t] = TRUE] \in Seq(BOOLEAN)
      /\ Len([f EXCEPT ![t] = TRUE]) = Len(f)
      /\ \A s \in 1 .. Len(f) : [f EXCEPT ![t] = TRUE][s] <=> f[s] \/ s = t
  <2>1. Len(f) \in Nat /\ f \in [1 .. Len(f) -> BOOLEAN]
    BY <1>2, LenProperties
  <2>2. [f EXCEPT ![t] = TRUE] \in [1 .. Len(f) -> BOOLEAN]
    BY <2>1
  <2>3. \A s \in 1 .. Len(f) : [f EXCEPT ![t] = TRUE][s] <=> f[s] \/ s = t
    BY <2>1
  <2> QED BY <2>1, <2>2, <2>3, FunctionIsSequence
<1>4. is_deleted' = [is_deleted EXCEPT ![q] = [f EXCEPT ![t] = TRUE]]
  BY DEF DeleteSlot
<1>5. is_deleted' \in [Pages -> Seq(BOOLEAN)]
  BY <1>3, <1>4 DEF TypeOK
<1>6. is_deleted'[q] = [f EXCEPT ![t] = TRUE] /\ \A p \in Pages \ {q} : is_deleted'[p] = is_deleted[p]
  BY <1>1, <1>4 DEF TypeOK
<1>7. \A p \in Pages : Len(is_deleted'[p]) = Len(is_deleted[p])
  BY <1>3, <1>6
<1>8. ASSUME NEW p \in Pages, NEW s \in 1 .. Len(is_deleted[p])
      PROVE  is_deleted'[p][s] <=> is_deleted[p][s] \/ rid = <<p, s>>
  BY <1>1, <1>3, <1>6
<1>9. due' \in [Cursors -> SUBSET RowIds] /\ rows' \in SUBSET RowIds
  BY DEF DeleteSlot, TypeOK
<1> QED BY <1>1, <1>5, <1>7, <1>8, <1>9

LEMMA TypesWalk ==
  ASSUME TypeOK, NEW c \in Writers, ReadPartialHead(c) \/ WalkOn(c)
  PROVE  TypeOK'
<1>1. CASE ReadPartialHead(c)
  BY <1>1 DEF ReadPartialHead, pageVars, cursorVars, TypeOK
<1>2. CASE WalkOn(c)
  <2>1. next_page_id[c] \in Pages
    BY <1>2 DEF WalkOn, TypeOK
  <2> QED BY <1>2, <2>1 DEF WalkOn, pageVars, cursorVars, TypeOK
<1> QED BY <1>1, <1>2

LEMMA TypesCursor ==
  ASSUME TypeOK, NEW k \in Cursors, Begin(k) \/ LeavePage(k) \/ ReachEnd(k) \/ Increment(k)
  PROVE  TypeOK'
<1>1. CASE Begin(k)
  <2>1. (IF next[Root] # Null THEN next[Root] ELSE partial_head) \in Pages \cup {Null}
    BY DEF TypeOK
  <2>2. StartsInPartial \in BOOLEAN /\ <<>> \in Seq(RowIds)
    BY DEF StartsInPartial
  <2> QED BY <1>1, <2>1, <2>2 DEF Begin, pageVars, writerVars, TypeOK
<1>2. CASE LeavePage(k)
  <2>1. current_page_id[k] \in Pages
    BY <1>2 DEF LeavePage, TypeOK
  <2>2. (IF ToPartialList(k) THEN partial_pages_head[k] ELSE next[current_page_id[k]]) \in Pages \cup {Null}
    BY <2>1 DEF TypeOK
  <2>3. (in_partial_list[k] \/ ToPartialList(k)) \in BOOLEAN /\ FirstSlot(k) \in Nat \ {0}
    BY DEF FirstSlot
  <2> QED BY <1>2, <2>2, <2>3 DEF LeavePage, pageVars, writerVars, TypeOK
<1>3. CASE ReachEnd(k) \/ Increment(k)
  <2>1. current_slot[k] + 1 \in Nat \ {0}
    BY DEF TypeOK
  <2> QED BY <1>3, <2>1 DEF ReachEnd, Increment, pageVars, writerVars, TypeOK
<1> QED BY <1>1, <1>2, <1>3

LEMMA TypesFindRow ==
  ASSUME TypeOK, NEW k \in Cursors, FindRow(k)
  PROVE  TypeOK'
<1>1. current_page_id[k] \in Pages
  BY DEF FindRow, TypeOK
<1>2. PICK s \in Remaining(k) :
        /\ current_slot' = [current_slot EXCEPT ![k] = s]
        /\ seen' = [seen EXCEPT ![k] = Append(@, <<current_page_id[k], s>>)]
  BY DEF FindRow
<1>3. is_deleted[current_page_id[k]] \in Seq(BOOLEAN) /\ current_slot[k] \in Nat \ {0}
  BY <1>1 DEF TypeOK
<1>4. s \in Nat \ {0}
  BY <1>2, <1>3 DEF Remaining
<1>5. <<current_page_id[k], s>> \in RowIds
  BY <1>1, <1>4 DEF RowIds
<1>6. seen[k] \in Seq(RowIds)
  BY DEF TypeOK
<1>7. Append(seen[k], <<current_page_id[k], s>>) \in Seq(RowIds)
  BY <1>5, <1>6
<1> QED BY <1>2, <1>4, <1>7 DEF FindRow, pageVars, writerVars, TypeOK

LEMMA TypesSeek ==
  ASSUME TypeOK, NEW k \in Cursors, NEW rid \in rows, Seek(k, rid)
  PROVE  TypeOK'
<1>1. rid \in RowIds /\ rid[1] \in Pages /\ rid[2] \in Nat \ {0}
  BY DEF TypeOK, RowIds
<1>2. <<rid>> \in Seq(RowIds)
  BY <1>1
<1> QED BY <1>1, <1>2 DEF Seek, pageVars, writerVars, TypeOK
-----------------------------------------------------------------------------
(* ListInv, part by part, for steps that leave the chain as it is. *)

LEMMA ChainKept ==
  ASSUME NEW n, NEW ch, ChainInv(n, ch), UNCHANGED <<partial_head, next>>,
         \A p \in Linked(n, ch) : room'[p] # Null
  PROVE  ChainInv(n, ch)'
  BY DEF ChainInv, FollowsInto, Linked

LEMMA RowsKept ==
  ASSUME NEW n, NEW ch, RowsInv(n, ch), rows' = rows,
         \A p \in Linked(n, ch) : is_deleted'[p] = is_deleted[p]
  PROVE  RowsInv(n, ch)'
<1>1. \A p \in Linked(n, ch) : LiveSlots(p)' = LiveSlots(p)
  BY DEF LiveSlots
<1> QED BY <1>1 DEF RowsInv, Linked

\* A cursor that does not move: rows it still has to return may be deleted.
LEMMA CursorKept ==
  ASSUME NEW n, NEW ch, NEW k \in Cursors, CursorInv(n, ch, k), UNCHANGED cursorVars,
         due'[k] \subseteq due[k], due'[k] \subseteq rows'
  PROVE  CursorInv(n, ch, k)'
<1>1. Seen(k)' = Seen(k) /\ FirstAhead(k)' = FirstAhead(k)
  BY DEF Seen, FirstAhead, cursorVars
<1>2. \A i : Passed(n, ch, k, i) => Passed(n, ch, k, i)'
  BY <1>1 DEF Passed, Behind
<1> QED BY <1>1, <1>2 DEF CursorInv, cursorVars, Linked

\* All the cursors, in a step that leaves them alone and takes no row away.
LEMMA CursorsKept ==
  ASSUME NEW n, NEW ch, ListInv(n, ch), UNCHANGED cursorVars, due' = due, rows \subseteq rows'
  PROVE  \A k \in Cursors : CursorInv(n, ch, k)'
<1>1. SUFFICES ASSUME NEW k \in Cursors PROVE CursorInv(n, ch, k)'
  OBVIOUS
<1>2. CursorInv(n, ch, k)
  BY DEF ListInv
<1>3. due[k] \subseteq rows
  BY <1>2 DEF CursorInv
<1>4. due'[k] \subseteq due[k] /\ due'[k] \subseteq rows'
  BY <1>3
<1> QED BY <1>2, <1>4, CursorKept

\* The other writers: a single thread inserts, and nobody touches its new page.
LEMMA OtherWriters ==
  ASSUME OneInserter, NEW n, NEW ch, NEW c \in Inserters, NEW d \in Writers \ {c},
         WriterInv(n, ch, d), pc'[d] = pc[d], last_partial_id'[d] = last_partial_id[d],
         NEW m, NEW dh
  PROVE  WriterInv(m, dh, d)'
<1>1. pc[d] = "idle"
  BY DEF WriterInv, OneInserter
<1> QED BY <1>1 DEF WriterInv

LEMMA WriterKept ==
  ASSUME NEW n, NEW ch, NEW c \in Writers, WriterInv(n, ch, c), UNCHANGED writerVars,
         pc[c] = "link" => /\ room'[new_page_id[c]] = room[new_page_id[c]]
                           /\ is_deleted'[new_page_id[c]] = is_deleted[new_page_id[c]]
  PROVE  WriterInv(n, ch, c)'
  BY DEF WriterInv, writerVars, LastPage, Linked

\* A cursor's step leaves the table alone.
LEMMA TableKept ==
  ASSUME NEW n, NEW ch, ListInv(n, ch), UNCHANGED <<pageVars, writerVars, rows>>
  PROVE  /\ ChainInv(n, ch)' /\ RowsInv(n, ch)'
         /\ \A c \in Writers : WriterInv(n, ch, c)'
<1>1. ChainInv(n, ch)'
  <2>1. \A p \in Linked(n, ch) : room[p] # Null
    BY DEF ListInv, ChainInv, Linked
  <2> QED BY <2>1, ChainKept DEF ListInv, pageVars
<1>2. RowsInv(n, ch)'
  BY RowsKept DEF ListInv, pageVars
<1>3. \A c \in Writers : WriterInv(n, ch, c)'
  BY WriterKept DEF ListInv, pageVars
<1> QED BY <1>1, <1>2, <1>3

-----------------------------------------------------------------------------
(* Writers, one lemma per action. *)

LEMMA ListWalk ==
  ASSUME OneInserter, TypeOK, NEW n, NEW ch, ListInv(n, ch), NEW c \in Writers,
         (\E m \in RowSizes : InsertRow(c, m)) \/ ReadPartialHead(c) \/ WalkOn(c)
  PROVE  ListInv(n, ch)'
<1>1. UNCHANGED <<pageVars, cursorVars, rows, due>>
  BY DEF InsertRow, ReadPartialHead, WalkOn
<1>2. ChainInv(n, ch)' /\ RowsInv(n, ch)'
  <2>1. \A p \in Linked(n, ch) : room[p] # Null
    BY DEF ListInv, ChainInv, Linked
  <2> QED BY <1>1, <2>1, ChainKept, RowsKept DEF ListInv, pageVars
<1>3. \A k \in Cursors : CursorInv(n, ch, k)'
  BY <1>1, CursorsKept
<1>4. c \in Inserters /\ WriterInv(n, ch, c)
  BY DEF InsertRow, ReadPartialHead, WalkOn, ListInv, WriterInv
<1>5. ASSUME NEW d \in Writers \ {c} PROVE WriterInv(n, ch, d)'
  <2>1. pc'[d] = pc[d] /\ last_partial_id'[d] = last_partial_id[d]
    BY DEF InsertRow, BeginInsert, ReadPartialHead, WalkOn, TypeOK
  <2> QED BY <1>4, <2>1, OtherWriters DEF ListInv
<1>6. ASSUME NEW m \in RowSizes, InsertRow(c, m) PROVE ListInv(n, ch)'
  <2>1. WriterInv(n, ch, c)'
    BY <1>4, <1>6 DEF InsertRow, BeginInsert, WriterInv, TypeOK
  <2> QED BY <1>2, <1>3, <1>5, <2>1 DEF ListInv
<1>7. CASE ReadPartialHead(c)
  <2>1. pc'[c] = "walk" /\ next_page_id'[c] = partial_head /\ last_partial_id'[c] = Null
    BY <1>4, <1>7 DEF ReadPartialHead, WriterInv, TypeOK
  <2>2. IF partial_head = Null THEN LastPage(n, ch) = Null ELSE partial_head \in Linked(n, ch)
    BY TableAssumption DEF ListInv, ChainInv, LastPage, Linked
  <2>3. WriterInv(n, ch, c)'
    BY <1>4, <2>1, <2>2 DEF WriterInv, LastPage, Linked
  <2> QED BY <1>2, <1>3, <1>5, <2>3 DEF ListInv
<1>8. CASE WalkOn(c)
  <2> DEFINE p == next_page_id[c]
  <2>1. pc'[c] = "walk" /\ next_page_id'[c] = next[p] /\ last_partial_id'[c] = p
    BY <1>8 DEF WalkOn, TypeOK
  <2>2. PICK i \in 1 .. n : p = ch[i]
    BY <1>4, <1>8 DEF WalkOn, WriterInv, Linked
  <2>3. n \in Nat /\ next[p] = (IF i < n THEN ch[i + 1] ELSE Null)
    BY <2>2 DEF ListInv, ChainInv
  <2>4. CASE i < n
    <3>1. next[p] \in Linked(n, ch) /\ next[p] # Null
      BY <2>2, <2>3, <2>4, TableAssumption DEF ListInv, Linked
    <3>2. WriterInv(n, ch, c)'
      BY <1>4, <2>1, <3>1 DEF WriterInv, Linked
    <3> QED BY <1>2, <1>3, <1>5, <3>2 DEF ListInv
  <2>5. CASE ~(i < n)
    <3>1. next[p] = Null /\ p = LastPage(n, ch)
      BY <2>2, <2>3, <2>5 DEF LastPage
    <3>2. WriterInv(n, ch, c)'
      BY <1>4, <2>1, <3>1 DEF WriterInv, LastPage
    <3> QED BY <1>2, <1>3, <1>5, <3>2 DEF ListInv
  <2> QED BY <2>4, <2>5
<1> QED BY <1>6, <1>7, <1>8

\* A slot is appended to a page of the chain.
LEMMA ListInsertHere ==
  ASSUME OneInserter, TypeOK, NEW n, NEW ch, ListInv(n, ch), NEW c \in Writers, InsertHere(c)
  PROVE  ListInv(n, ch)'
<1>0. PICK p, s : p = next_page_id[c] /\ s = Len(is_deleted[next_page_id[c]]) + 1
  OBVIOUS
<1>1. p \in Linked(n, ch) /\ p \in Pages /\ room'[p] \in 0 .. PageRoom
  BY <1>0, TypesInsertHere, LinkedRoom
<1>2. ChainInv(n, ch)'
  <2>1. \A q \in Linked(n, ch) : q \in Pages /\ room[q] # Null
    BY DEF ListInv, ChainInv, Linked
  <2>2. \A q \in Pages \ {p} : room'[q] = room[q]
    BY <1>0, <1>1 DEF InsertHere, AllocateSlot, TypeOK
  <2> QED BY <1>1, <2>1, <2>2, ChainKept, TableAssumption DEF ListInv, InsertHere
<1>3. /\ is_deleted[p] \in Seq(BOOLEAN)
      /\ is_deleted'[p] = Append(is_deleted[p], FALSE)
      /\ \A q \in Pages \ {p} : is_deleted'[q] = is_deleted[q]
  BY <1>0, <1>1 DEF InsertHere, AllocateSlot, TypeOK
<1>4. LiveSlots(p)' = LiveSlots(p) \cup {s} /\ \A q \in Pages \ {p} : LiveSlots(q)' = LiveSlots(q)
  BY <1>0, <1>1, <1>3 DEF LiveSlots
<1>5. RowsInv(n, ch)'
  <2>1. rows' = rows \cup {<<p, s>>}
    BY <1>0 DEF InsertHere
  <2>2. Linked(n, ch) \subseteq Pages
    BY DEF Linked, ListInv
  <2>3. ASSUME NEW rid \in rows' PROVE rid[1] \in Linked(n, ch) /\ rid[2] \in LiveSlots(rid[1])'
    <3>1. CASE rid \in rows
      <4>1. rid[1] \in Linked(n, ch) /\ rid[2] \in LiveSlots(rid[1])
        BY <3>1 DEF ListInv, RowsInv
      <4> QED BY <4>1, <1>4, <2>2
    <3>2. CASE rid = <<p, s>>
      BY <3>2, <1>1, <1>4
    <3> QED BY <2>1, <3>1, <3>2
  <2>4. ASSUME NEW q \in Linked(n, ch), NEW t \in LiveSlots(q)' PROVE <<q, t>> \in rows'
    BY <2>1, <2>2, <1>4 DEF ListInv, RowsInv
  <2> QED BY <2>3, <2>4 DEF RowsInv, Linked
<1>6. \A k \in Cursors : CursorInv(n, ch, k)'
  <2>1. UNCHANGED cursorVars /\ due' = due /\ rows \subseteq rows'
    BY DEF InsertHere
  <2> QED BY <2>1, CursorsKept
<1>7. c \in Inserters
  BY DEF InsertHere, ListInv, WriterInv
<1>8. pc'[c] = "idle" /\ last_partial_id'[c] = Null
  BY ReturnsTypes DEF InsertHere
<1>9. \A d \in Writers \ {c} : WriterInv(n, ch, d)'
  BY <1>7, ReturnsTypes, OtherWriters DEF InsertHere, ListInv
<1>10. WriterInv(n, ch, c)'
  BY <1>8 DEF WriterInv
<1> QED BY <1>2, <1>5, <1>6, <1>9, <1>10 DEF ListInv

\* A page no one has used: not on the chain, and not yet on it after the step.
LEMMA ListNewPage ==
  ASSUME OneInserter, TypeOK, NEW n, NEW ch, ListInv(n, ch), NEW c \in Writers, NewPage(c)
  PROVE  ListInv(n, ch)' /\ TypeOK'
<1>1. PICK p \in Pages : /\ room[p] = Null
                         /\ room' = [room EXCEPT ![p] = PageRoom - size[c]]
                         /\ is_deleted' = [is_deleted EXCEPT ![p] = <<FALSE>>]
                         /\ new_page_id' = [new_page_id EXCEPT ![c] = p]
  BY DEF NewPage
<1>2. TypeOK' /\ room'[p] \in 0 .. PageRoom
  BY <1>1, TypesNewPage DEF NewPage
<1>3. p \notin Linked(n, ch) /\ Linked(n, ch) \subseteq Pages
  BY <1>1 DEF ListInv, ChainInv, Linked
<1>4. \A q \in Linked(n, ch) : is_deleted'[q] = is_deleted[q] /\ room'[q] = room[q] /\ room[q] # Null
  BY <1>1, <1>3 DEF ListInv, ChainInv, Linked, TypeOK
<1>5. ChainInv(n, ch)'
  BY <1>4, ChainKept DEF ListInv, NewPage
<1>6. RowsInv(n, ch)'
  BY <1>4, RowsKept DEF ListInv, NewPage
<1>7. \A k \in Cursors : CursorInv(n, ch, k)'
  <2>1. UNCHANGED cursorVars /\ due' = due /\ rows \subseteq rows'
    BY DEF NewPage
  <2> QED BY <2>1, CursorsKept
<1>8. c \in Inserters /\ last_partial_id[c] = LastPage(n, ch)
  BY DEF NewPage, ListInv, WriterInv
<1>9. \A d \in Writers \ {c} : WriterInv(n, ch, d)'
  <2>1. \A d \in Writers \ {c} : pc'[d] = pc[d] /\ last_partial_id'[d] = last_partial_id[d]
    BY DEF NewPage, TypeOK
  <2> QED BY <1>8, <2>1, OtherWriters DEF ListInv
<1>10. WriterInv(n, ch, c)'
  <2>1. pc'[c] = "link" /\ new_page_id'[c] = p /\ last_partial_id'[c] = last_partial_id[c]
    BY <1>1 DEF NewPage, TypeOK
  <2>2. room'[p] # Null /\ is_deleted'[p] = <<FALSE>>
    BY <1>1, <1>2, TableAssumption DEF TypeOK
  <2> QED BY <1>3, <1>8, <2>1, <2>2 DEF WriterInv, LastPage, Linked
<1> QED BY <1>2, <1>5, <1>6, <1>7, <1>9, <1>10 DEF ListInv

\* The chain with one more page.
Extended(n, ch, p) == [i \in 1 .. n + 1 |-> IF i = n + 1 THEN p ELSE ch[i]]

LEMMA ExtendedChain ==
  ASSUME NEW n \in Nat, NEW ch \in [1 .. n -> Pages], NEW p \in Pages
  PROVE  /\ Extended(n, ch, p) \in [1 .. n + 1 -> Pages]
         /\ Extended(n, ch, p)[n + 1] = p
         /\ \A i \in 1 .. n : Extended(n, ch, p)[i] = ch[i]
         /\ Linked(n + 1, Extended(n, ch, p)) = Linked(n, ch) \cup {p}
         /\ LastPage(n + 1, Extended(n, ch, p)) = p
<1> DEFINE dh == Extended(n, ch, p)
<1>1. \A i \in 1 .. n + 1 : i = n + 1 \/ i \in 1 .. n
  OBVIOUS
<1>2. \A i \in 1 .. n : i \in 1 .. n + 1 /\ i # n + 1 /\ n + 1 \in 1 .. n + 1
  OBVIOUS
<1>3. /\ dh \in [1 .. n + 1 -> Pages] /\ dh[n + 1] = p
      /\ \A i \in 1 .. n : dh[i] = ch[i]
  BY <1>1, <1>2 DEF Extended
<1>4. Linked(n + 1, dh) = Linked(n, ch) \cup {p}
  <2>1. ASSUME NEW q \in Linked(n + 1, dh) PROVE q \in Linked(n, ch) \cup {p}
    BY <1>1, <1>3 DEF Linked
  <2>2. ASSUME NEW q \in Linked(n, ch) \cup {p} PROVE q \in Linked(n + 1, dh)
    <3>1. n + 1 \in 1 .. n + 1
      OBVIOUS
    <3> QED BY <1>2, <1>3, <3>1 DEF Linked
  <2> QED BY <2>1, <2>2
<1>5. LastPage(n + 1, dh) = p
  BY <1>3 DEF LastPage
<1> QED BY <1>3, <1>4, <1>5

LEMMA ChainLinkPage ==
  ASSUME TypeOK, NEW n, NEW ch, ListInv(n, ch), NEW c \in Writers, LinkPage(c),
         NEW p, p = new_page_id[c]
  PROVE  ChainInv(n + 1, Extended(n, ch, p))'
<1> DEFINE dh == Extended(n, ch, p)
<1>1. /\ n \in Nat /\ ch \in [1 .. n -> Pages] /\ p \in Pages \ Linked(n, ch)
      /\ last_partial_id[c] = LastPage(n, ch) /\ room[p] # Null
  BY DEF LinkPage, ListInv, WriterInv
<1>2. /\ dh \in [1 .. n + 1 -> Pages] /\ dh[n + 1] = p
      /\ \A i \in 1 .. n : dh[i] = ch[i]
      /\ Linked(n + 1, dh) = Linked(n, ch) \cup {p}
  <2>1. n \in Nat /\ ch \in [1 .. n -> Pages] /\ p \in Pages
    BY <1>1
  <2>2. dh \in [1 .. n + 1 -> Pages]
    BY ONLY <2>1, ExtendedChain
  <2>3. dh[n + 1] = p
    BY ONLY <2>1, ExtendedChain
  <2>4. \A i \in 1 .. n : dh[i] = ch[i]
    BY <2>1, ExtendedChain
  <2>5. Linked(n + 1, dh) = Linked(n, ch) \cup {p}
    BY ONLY <2>1, ExtendedChain
  <2> QED BY <2>2, <2>3, <2>4, <2>5
<1>3. \A i, j \in 1 .. n + 1 : dh[i] = dh[j] => i = j
  <2>1. \A i, j \in 1 .. n : ch[i] = ch[j] => i = j
    BY DEF ListInv, ChainInv
  <2>2. \A i \in 1 .. n : ch[i] # p
    BY <1>1 DEF Linked
  <2>3. \A i \in 1 .. n + 1 : i = n + 1 \/ i \in 1 .. n
    BY <1>1
  <2> QED BY <1>2, <2>1, <2>2, <2>3
\* What Link writes: the head of an empty list, else the next pointer of the last page.
<1>4. /\ n = 0 => partial_head' = p /\ next' = next
      /\ n # 0 => partial_head' = partial_head /\ next' = [next EXCEPT ![ch[n]] = p]
  <2>1. n # 0 => ch[n] \in Pages
    BY <1>1
  <2> QED BY <1>1, <2>1, TableAssumption DEF LinkPage, Link, LastPage
<1>5. /\ n # 0 => n \in 1 .. n /\ ch[n] \in Pages /\ next[ch[n]] = Null
      /\ next[p] = Null /\ next[Root] = Null
  BY <1>1 DEF ListInv, ChainInv
<1>6. partial_head' = dh[1]
  <2>1. CASE n = 0
    BY <2>1, <1>2, <1>4
  <2>2. CASE n # 0
    <3>1. 1 \in 1 .. n /\ partial_head = ch[1]
      BY <2>2, <1>1 DEF ListInv, ChainInv
    <3> QED BY <2>2, <3>1, <1>2, <1>4
  <2> QED BY <2>1, <2>2
<1>7. \A q \in Pages \cup {Root} : next'[q] = IF n # 0 /\ q = ch[n] THEN p ELSE next[q]
  BY <1>4, <1>5 DEF TypeOK
<1>8. ASSUME NEW i \in 1 .. n + 1 PROVE next'[dh[i]] = IF i < n + 1 THEN dh[i + 1] ELSE Null
  <2>1. CASE i = n + 1
    <3>1. n # 0 => ch[n] # p
      BY <1>1, <1>5 DEF Linked
    <3> QED BY <2>1, <3>1, <1>1, <1>2, <1>5, <1>7
  <2>2. CASE i = n
    <3>1. n # 0 /\ i \in 1 .. n
      BY <2>2, <1>1
    <3>2. dh[i] = ch[n] /\ ch[n] \in Pages
      BY <2>2, <3>1, <1>2, <1>5
    <3>3. next'[dh[i]] = p
      BY <3>1, <3>2, <1>7
    <3> QED BY <2>2, <3>3, <1>1, <1>2
  <2>3. CASE i < n
    <3>1. i \in 1 .. n /\ i + 1 \in 1 .. n /\ n \in 1 .. n /\ n # 0
      BY <2>3, <1>1
    <3>2. dh[i] = ch[i] /\ dh[i + 1] = ch[i + 1] /\ ch[i] \in Pages
      BY <3>1, <1>1, <1>2
    <3>3. ch[i] # ch[n] /\ next[ch[i]] = ch[i + 1]
      BY <2>3, <3>1 DEF ListInv, ChainInv
    <3> QED BY <2>3, <3>1, <3>2, <3>3, <1>1, <1>7
  <2> QED BY <2>1, <2>2, <2>3, <1>1
<1>9. next'[Root] = Null
  BY <1>5, <1>7, TableAssumption
<1>10. \A q \in Pages \ Linked(n + 1, dh) : next'[q] = Null
  <2>1. n # 0 => ch[n] \in Linked(n, ch)
    BY <1>5 DEF Linked
  <2>2. \A q \in Pages \ Linked(n, ch) : next[q] = Null
    BY DEF ListInv, ChainInv
  <2> QED BY <2>1, <2>2, <1>2, <1>7
<1>11. \A i \in 1 .. n + 1 : room'[dh[i]] # Null
  <2>1. \A i \in 1 .. n + 1 : i = n + 1 \/ i \in 1 .. n
    BY <1>1
  <2> QED BY <2>1, <1>1, <1>2 DEF LinkPage, ListInv, ChainInv
<1>12. ASSUME NEW S \in SUBSET Pages, FollowsInto(S)' PROVE Linked(n + 1, dh) \subseteq S
  <2>1. /\ partial_head' # Null => partial_head' \in S
        /\ \A q \in S : next'[q] # Null => next'[q] \in S
    BY <1>12 DEF FollowsInto
  <2>2. FollowsInto(S)
    <3>1. partial_head # Null => partial_head \in S
      <4>1. n = 0 => partial_head = Null
        BY DEF ListInv, ChainInv
      <4> QED BY <2>1, <4>1, <1>4
    <3>2. ASSUME NEW q \in S, next[q] # Null PROVE next[q] \in S
      <4>1. next'[q] = next[q]
        BY <3>2, <1>5, <1>7
      <4> QED BY <2>1, <3>2, <4>1
    <3> QED BY <3>1, <3>2 DEF FollowsInto
  <2>3. Linked(n, ch) \subseteq S
    BY <2>2 DEF ListInv, ChainInv
  <2>4. p \in S
    <3>1. CASE n = 0
      BY <3>1, <2>1, <1>1, <1>4, TableAssumption
    <3>2. CASE n # 0
      <4>1. ch[n] \in S /\ next'[ch[n]] = p
        BY <3>2, <2>3, <1>5, <1>7 DEF Linked
      <4> QED BY <4>1, <2>1, <1>1, TableAssumption
    <3> QED BY <3>1, <3>2
  <2> QED BY <2>3, <2>4, <1>2
<1>13. n + 1 # 0
  BY <1>1
<1> QED BY <1>3, <1>6, <1>8, <1>9, <1>10, <1>11, <1>12, <1>13 DEF ChainInv, Linked

LEMMA CursorLinkPage ==
  ASSUME NEW n, NEW ch, ListInv(n, ch), NEW p, p \in Pages \ Linked(n, ch), NEW k \in Cursors,
         UNCHANGED <<cursorVars, due>>, rows \subseteq rows'
  PROVE  CursorInv(n + 1, Extended(n, ch, p), k)'
<1> DEFINE dh == Extended(n, ch, p)
<1>0. n \in Nat /\ ch \in [1 .. n -> Pages] /\ p \in Pages
  BY DEF ListInv
<1>1. /\ dh \in [1 .. n + 1 -> Pages] /\ dh[n + 1] = p
      /\ \A i \in 1 .. n : dh[i] = ch[i]
      /\ Linked(n + 1, dh) = Linked(n, ch) \cup {p}
  <2>1. \A i \in 1 .. n : i \in 1 .. n + 1 /\ i # n + 1
    BY <1>0
  <2>2. \A i \in 1 .. n : dh[i] = ch[i]
    BY <2>1 DEF Extended
  <2> QED BY <1>0, <2>2, ExtendedChain
<1>2. Seen(k)' = Seen(k) /\ FirstAhead(k)' = FirstAhead(k) /\ due'[k] = due[k]
  BY DEF Seen, FirstAhead, cursorVars
<1>3. CursorInv(n, ch, k)
  BY DEF ListInv
\* Nothing that is due or was returned is on the new page.
<1>4. \A rid \in due[k] \cup Seen(k) : rid[1] # p
  BY <1>3 DEF CursorInv, ListInv, RowsInv
<1>5. ASSUME NEW i \in 1 .. n, Passed(n, ch, k, i) PROVE Passed(n + 1, dh, k, i)'
  <2> SUFFICES ASSUME NEW j \in 1 .. n + 1
               PROVE  /\ \A rid \in due[k] : rid[1] = dh[j] /\ Behind(k, i, j, rid[2])' => rid \in Seen(k)
                      /\ \A rid \in Seen(k) : rid[1] = dh[j] => Behind(k, i, j, rid[2])'
    BY <1>2 DEF Passed
  <2>1. CASE j = n + 1
    BY <2>1, <1>1, <1>4
  <2>2. CASE j \in 1 .. n
    BY <2>2, <1>1, <1>2, <1>5 DEF Passed, Behind
  <2> QED BY <2>1, <2>2, <1>0
<1>6. ASSUME current_page_id'[k] # Null
      PROVE  \E i \in 1 .. n + 1 : dh[i] = current_page_id'[k] /\ Passed(n + 1, dh, k, i)'
  <2>1. PICK i \in 1 .. n : ch[i] = current_page_id[k] /\ Passed(n, ch, k, i)
    BY <1>3, <1>6 DEF CursorInv, cursorVars
  <2>2. i \in 1 .. n + 1 /\ dh[i] = current_page_id'[k] /\ Passed(n + 1, dh, k, i)'
    BY <2>1, <1>0, <1>1, <1>5 DEF cursorVars
  <2> QED BY <2>2
<1>7. \A rid \in Seen(k) : rid[1] \in Linked(n + 1, dh)
  BY <1>1, <1>3 DEF CursorInv
<1> QED BY <1>2, <1>3, <1>6, <1>7 DEF CursorInv, cursorVars, Linked

LEMMA ListLinkPage ==
  ASSUME OneInserter, TypeOK, NEW n, NEW ch, ListInv(n, ch), NEW c \in Writers, LinkPage(c)
  PROVE  \E m, dh : ListInv(m, dh)'
<1>1. PICK p : p = new_page_id[c]
  OBVIOUS
<1> DEFINE m == n + 1
           dh == Extended(n, ch, p)
<1>2. /\ n \in Nat /\ ch \in [1 .. n -> Pages]
      /\ p \in Pages \ Linked(n, ch) /\ is_deleted[p] = <<FALSE>> /\ c \in Inserters
  BY <1>1 DEF LinkPage, ListInv, WriterInv
<1>3. m \in Nat /\ dh \in [1 .. m -> Pages] /\ Linked(m, dh) = Linked(n, ch) \cup {p}
  <2>1. n \in Nat /\ ch \in [1 .. n -> Pages] /\ p \in Pages
    BY <1>2
  <2>2. dh \in [1 .. n + 1 -> Pages] /\ Linked(n + 1, dh) = Linked(n, ch) \cup {p}
    BY <2>1, ExtendedChain
  <2> HIDE DEF dh
  <2> QED BY <2>1, <2>2
<1>4. ChainInv(m, dh)'
  BY <1>1, ChainLinkPage
<1>5. RowsInv(m, dh)'
  <2>1. \A q \in Pages : LiveSlots(q)' = LiveSlots(q)
    BY DEF LinkPage, LiveSlots
  <2>2. LiveSlots(p) = {1}
    <3>1. Len(<<FALSE>>) = 1 /\ <<FALSE>>[1] = FALSE
      OBVIOUS
    <3>2. LiveSlots(p) = {s \in 1 .. 1 : ~is_deleted[p][s]} /\ ~is_deleted[p][1]
      BY <3>1, <1>2 DEF LiveSlots
    <3>3. \A s \in 1 .. 1 : s = 1
      OBVIOUS
    <3> QED BY <3>2, <3>3
  <2>3. rows' = rows \cup {<<p, 1>>}
    BY <1>1 DEF LinkPage
  <2>4. ASSUME NEW rid \in rows' PROVE rid[1] \in Linked(m, dh) /\ rid[2] \in LiveSlots(rid[1])'
    <3>1. CASE rid = <<p, 1>>
      BY <3>1, <2>1, <2>2, <1>2, <1>3
    <3>2. CASE rid \in rows
      <4>1. rid[1] \in Linked(n, ch) /\ rid[2] \in LiveSlots(rid[1])
        BY <3>2 DEF ListInv, RowsInv
      <4>2. rid[1] \in Pages
        BY <4>1, <1>2 DEF Linked
      <4> QED BY <4>1, <4>2, <2>1, <1>3
    <3> QED BY <2>3, <3>1, <3>2
  <2>5. ASSUME NEW q \in Linked(m, dh), NEW t \in LiveSlots(q)' PROVE <<q, t>> \in rows'
    <3>1. q \in Pages
      BY <1>2, <1>3 DEF Linked
    <3>2. t \in LiveSlots(q)
      BY <3>1, <2>1
    <3>3. CASE q = p
      BY <3>2, <3>3, <2>2, <2>3
    <3>4. CASE q \in Linked(n, ch)
      BY <3>2, <3>4, <2>3 DEF ListInv, RowsInv
    <3> QED BY <1>3, <3>3, <3>4
  <2> QED BY <2>4, <2>5 DEF RowsInv, Linked
<1>6. ASSUME NEW k \in Cursors PROVE CursorInv(m, dh, k)'
  BY <1>2, CursorLinkPage DEF LinkPage
<1>7. \A d \in Writers \ {c} : WriterInv(m, dh, d)'
  BY <1>2, ReturnsTypes, OtherWriters DEF LinkPage, ListInv
<1>8. WriterInv(m, dh, c)'
  BY ReturnsTypes DEF LinkPage, WriterInv
<1>9. ListInv(m, dh)'
  BY <1>3, <1>4, <1>5, <1>6, <1>7, <1>8 DEF ListInv
<1> QED BY <1>9

\* A live row is deleted, and, in update_row, a new version about to be inserted.
LEMMA ListDelete ==
  ASSUME OneInserter, TypeOK, NEW n, NEW ch, ListInv(n, ch), NEW c \in Writers, NEW rid \in rows,
         DeleteSlot(rid), UNCHANGED cursorVars, pc[c] = "idle",
         \/ UNCHANGED writerVars
         \/ c \in Inserters /\ \E m \in RowSizes : BeginInsert(c, m)
  PROVE  ListInv(n, ch)' /\ TypeOK'
<1> DEFINE q == rid[1]
<1>1. /\ q \in Linked(n, ch) /\ Linked(n, ch) \subseteq Pages /\ q \in Pages /\ rid \in RowIds
      /\ rid = <<rid[1], rid[2]>>
  BY DEF ListInv, RowsInv, Linked, TypeOK, RowIds
<1>2. /\ is_deleted' \in [Pages -> Seq(BOOLEAN)]
      /\ \A p \in Pages : Len(is_deleted'[p]) = Len(is_deleted[p])
      /\ \A p \in Pages : \A s \in 1 .. Len(is_deleted[p]) :
           is_deleted'[p][s] <=> is_deleted[p][s] \/ rid = <<p, s>>
      /\ due' \in [Cursors -> SUBSET RowIds] /\ rows' \in SUBSET RowIds
  BY TypesDeleteSlot
<1>3. TypeOK'
  <2>1. CASE UNCHANGED writerVars
    BY <1>2, <2>1 DEF DeleteSlot, cursorVars, writerVars, TypeOK
  <2>2. ASSUME NEW m \in RowSizes, BeginInsert(c, m) PROVE TypeOK'
    BY <1>2, <2>2 DEF DeleteSlot, BeginInsert, cursorVars, TypeOK
  <2> QED BY <2>1, <2>2
<1>4. ChainInv(n, ch)'
  <2>1. \A p \in Linked(n, ch) : room[p] # Null
    BY DEF ListInv, ChainInv, Linked
  <2> QED BY <2>1, ChainKept DEF ListInv, DeleteSlot
<1>5. \A p \in Pages : \A s : s \in LiveSlots(p)' <=> s \in LiveSlots(p) /\ rid # <<p, s>>
  BY <1>2 DEF LiveSlots
<1>6. RowsInv(n, ch)'
  <2>1. rows' = rows \ {rid}
    BY DEF DeleteSlot
  <2>2. ASSUME NEW r \in rows' PROVE r[1] \in Linked(n, ch) /\ r[2] \in LiveSlots(r[1])'
    <3>1. r \in rows /\ r # rid /\ r[1] \in Linked(n, ch) /\ r[2] \in LiveSlots(r[1])
      BY <2>1 DEF ListInv, RowsInv
    <3>2. r = <<r[1], r[2]>>
      BY <3>1 DEF TypeOK, RowIds
    <3> QED BY <3>1, <3>2, <1>1, <1>5
  <2>3. ASSUME NEW p \in Linked(n, ch), NEW s \in LiveSlots(p)' PROVE <<p, s>> \in rows'
    BY <2>1, <1>1, <1>5 DEF ListInv, RowsInv
  <2> QED BY <2>2, <2>3 DEF RowsInv, Linked
<1>7. ASSUME NEW k \in Cursors PROVE CursorInv(n, ch, k)'
  <2>1. due'[k] = due[k] \ {rid} /\ rows' = rows \ {rid} /\ due[k] \subseteq rows
    BY DEF DeleteSlot, ListInv, CursorInv
  <2> QED BY <2>1, CursorKept DEF ListInv
<1>8. ASSUME NEW d \in Writers PROVE WriterInv(n, ch, d)'
  <2>1. CASE UNCHANGED writerVars
    <3>1. ASSUME pc[d] = "link"
          PROVE  is_deleted'[new_page_id[d]] = is_deleted[new_page_id[d]]
      <4>1. new_page_id[d] \in Pages \ Linked(n, ch)
        BY <3>1 DEF ListInv, WriterInv
      <4> QED BY <4>1, <1>1 DEF DeleteSlot, TypeOK
    <3> QED BY <2>1, <3>1, WriterKept DEF ListInv, DeleteSlot
  <2>2. ASSUME c \in Inserters, NEW m \in RowSizes, BeginInsert(c, m) PROVE WriterInv(n, ch, d)'
    <3>1. CASE d = c
      BY <2>2, <3>1 DEF BeginInsert, WriterInv, ListInv, TypeOK
    <3>2. CASE d # c
      <4>1. pc'[d] = pc[d] /\ last_partial_id'[d] = last_partial_id[d]
        BY <2>2, <3>2 DEF BeginInsert, TypeOK
      <4> QED BY <2>2, <3>2, <4>1, OtherWriters DEF ListInv
    <3> QED BY <3>1, <3>2
  <2> QED BY <2>1, <2>2
<1> QED BY <1>3, <1>4, <1>6, <1>7, <1>8 DEF ListInv
-----------------------------------------------------------------------------
(* Cursors, one lemma per action. *)

\* A cursor that moves leaves the table and the other cursors alone.
LEMMA CursorMoves ==
  ASSUME NEW n, NEW ch, ListInv(n, ch), NEW k \in Cursors, UNCHANGED <<pageVars, writerVars, rows>>,
         \A d \in Cursors \ {k} :
           /\ cpc'[d] = cpc[d] /\ current_page_id'[d] = current_page_id[d]
           /\ current_slot'[d] = current_slot[d] /\ seen'[d] = seen[d] /\ due'[d] = due[d]
           /\ partial_pages_head'[d] = partial_pages_head[d]
           /\ in_partial_list'[d] = in_partial_list[d],
         CursorInv(n, ch, k)'
  PROVE  ListInv(n, ch)'
<1>1. ASSUME NEW d \in Cursors \ {k} PROVE CursorInv(n, ch, d)'
  <2>1. CursorInv(n, ch, d)
    BY DEF ListInv
  <2>2. Seen(d)' = Seen(d) /\ FirstAhead(d)' = FirstAhead(d)
    BY DEF Seen, FirstAhead
  <2>3. \A i : Passed(n, ch, d, i) => Passed(n, ch, d, i)'
    BY <2>2 DEF Passed, Behind
  <2> QED BY <2>1, <2>2, <2>3 DEF CursorInv, Linked
<1>2. \A d \in Cursors : CursorInv(n, ch, d)'
  BY <1>1
<1> QED BY <1>2, TableKept DEF ListInv

\* What a cursor has to know of a row: where it is, and that it is live.
LEMMA RowPlace ==
  ASSUME TypeOK, NEW n, NEW ch, ListInv(n, ch), NEW rid \in rows
  PROVE  /\ rid = <<rid[1], rid[2]>> /\ rid[1] \in Pages /\ rid[2] \in Nat \ {0}
         /\ \E j \in 1 .. n : rid[1] = ch[j]
         /\ rid[2] \in 1 .. Len(is_deleted[rid[1]]) /\ ~is_deleted[rid[1]][rid[2]]
  BY DEF TypeOK, RowIds, ListInv, RowsInv, LiveSlots, Linked

LEMMA ListBegin ==
  ASSUME TypeOK, NEW n, NEW ch, ListInv(n, ch), NEW k \in Cursors, Begin(k)
  PROVE  ListInv(n, ch)'
<1>1. /\ cpc'[k] = "advance" /\ current_page_id'[k] = partial_head /\ current_slot'[k] = 1
      /\ partial_pages_head'[k] = partial_head /\ in_partial_list'[k] = (partial_head # Null)
      /\ due'[k] = rows /\ seen'[k] = <<>> /\ rows' = rows
  BY DEF Begin, StartsInPartial, ListInv, ChainInv, TypeOK
<1>2. n \in Nat /\ ch \in [1 .. n -> Pages] /\ partial_head = IF n = 0 THEN Null ELSE ch[1]
  BY DEF ListInv, ChainInv
<1>3. Seen(k)' = {} /\ FirstAhead(k)' = 1
  BY <1>1 DEF Seen, FirstAhead
<1>4. CASE n = 0
  <2>1. partial_head = Null /\ \A rid \in rows : FALSE
    BY <1>2, <1>4, RowPlace
  <2>2. CursorInv(n, ch, k)'
    <3>1. Len(<<>>) = 0 /\ \A x \in 1 .. 0 : FALSE
      OBVIOUS
    <3> QED BY <2>1, <3>1, <1>1, <1>3 DEF CursorInv
  <2> QED BY <2>2, CursorMoves DEF Begin, TypeOK
<1>5. CASE n # 0
  <2>1. 1 \in 1 .. n /\ partial_head = ch[1] /\ partial_head # Null
    BY <1>2, <1>5, TableAssumption
  <2>2. \A rid \in rows : rid[2] \in Nat \ {0}
    BY RowPlace
  <2>3. Passed(n, ch, k, 1)'
    BY <1>1, <1>2, <1>3, <2>2 DEF Passed, Behind
  <2>4. CursorInv(n, ch, k)'
    <3>1. Len(<<>>) = 0 /\ \A x \in 1 .. 0 : FALSE
      OBVIOUS
    <3> QED BY <1>1, <1>3, <2>1, <2>3, <3>1 DEF CursorInv
  <2> QED BY <2>4, CursorMoves DEF Begin, TypeOK
<1> QED BY <1>4, <1>5

LEMMA ListIncrement ==
  ASSUME TypeOK, NEW n, NEW ch, ListInv(n, ch), NEW k \in Cursors, Increment(k)
  PROVE  ListInv(n, ch)'
<1>1. /\ cpc[k] = "row" /\ cpc'[k] = "advance" /\ current_slot'[k] = current_slot[k] + 1
      /\ UNCHANGED <<current_page_id, partial_pages_head, in_partial_list, seen, rows, due>>
  BY DEF Increment, TypeOK
<1>2. Seen(k)' = Seen(k) /\ FirstAhead(k)' = FirstAhead(k)
  BY <1>1 DEF Seen, FirstAhead
<1>3. \A i : Passed(n, ch, k, i) => Passed(n, ch, k, i)'
  BY <1>1, <1>2 DEF Passed, Behind
<1>4. CursorInv(n, ch, k)'
  BY <1>1, <1>2, <1>3 DEF ListInv, CursorInv, Linked
<1> QED BY <1>4, CursorMoves DEF Increment, TypeOK

LEMMA ListReachEnd ==
  ASSUME TypeOK, NEW n, NEW ch, ListInv(n, ch), NEW k \in Cursors, ReachEnd(k)
  PROVE  ListInv(n, ch)'
<1>1. /\ cpc'[k] = "end" /\ current_page_id[k] = Null
      /\ UNCHANGED <<current_page_id, partial_pages_head, in_partial_list, seen, rows, due>>
  BY DEF ReachEnd, TypeOK
<1>2. Seen(k)' = Seen(k)
  BY <1>1 DEF Seen
<1>3. CursorInv(n, ch, k)'
  BY <1>1, <1>2 DEF ListInv, CursorInv, Linked
<1> QED BY <1>3, CursorMoves DEF ReachEnd, TypeOK

LEMMA ListSeek ==
  ASSUME TypeOK, NEW n, NEW ch, ListInv(n, ch), NEW k \in Cursors, NEW rid \in rows, Seek(k, rid)
  PROVE  ListInv(n, ch)'
<1>1. /\ cpc'[k] = "row" /\ current_page_id'[k] = rid[1] /\ current_slot'[k] = rid[2]
      /\ due'[k] = {} /\ seen'[k] = <<rid>>
      /\ UNCHANGED <<partial_pages_head, in_partial_list, rows>>
  BY DEF Seek, TypeOK
<1>2. PICK i \in 1 .. n : rid[1] = ch[i] /\ rid[1] \in Pages /\ rid[2] \in Nat \ {0}
  BY RowPlace
<1>3. Len(<<rid>>) = 1 /\ <<rid>>[1] = rid /\ \A x \in 1 .. 1 : x = 1
  OBVIOUS
<1>4. Seen(k)' = {rid} /\ FirstAhead(k)' = rid[2] + 1
  BY <1>1, <1>3 DEF Seen, FirstAhead
<1>5. \A j \in 1 .. n : ch[j] = ch[i] => j = i
  BY DEF ListInv, ChainInv
<1>6. Passed(n, ch, k, i)'
  BY <1>1, <1>2, <1>4, <1>5 DEF Passed, Behind
<1>7. CursorInv(n, ch, k)'
  <2>1. rid[1] # Null /\ rid[1] \in Linked(n, ch)
    BY <1>2, TableAssumption DEF Linked
  <2>2. \A x, y \in 1 .. Len(seen'[k]) : x = y
    BY <1>1, <1>3
  <2> QED BY <1>1, <1>2, <1>4, <1>6, <2>1, <2>2 DEF ListInv, CursorInv, Linked
<1> QED BY <1>7, CursorMoves DEF Seek, TypeOK
\* A due row the cursor has reached is behind it or among the slots that remain.
LEMMA DueAhead ==
  ASSUME TypeOK, NEW n, NEW ch, ListInv(n, ch), NEW k \in Cursors, cpc[k] = "advance",
         NEW i \in 1 .. n, ch[i] = current_page_id[k], Passed(n, ch, k, i),
         NEW rid \in due[k], NEW j \in 1 .. n, rid[1] = ch[j], j <= i
  PROVE  rid \in Seen(k) \/ (j = i /\ rid[2] \in Remaining(k))
<1>1. rid \in rows /\ n \in Nat
  BY DEF ListInv, CursorInv
<1>2. /\ rid[2] \in Nat \ {0} /\ rid[2] \in 1 .. Len(is_deleted[rid[1]])
      /\ ~is_deleted[rid[1]][rid[2]] /\ rid[1] \in Pages
  BY <1>1, RowPlace
<1>3. current_slot[k] \in Nat /\ FirstAhead(k) = current_slot[k] /\ Len(is_deleted[rid[1]]) \in Nat
  BY <1>2 DEF TypeOK, FirstAhead
<1>4. CASE j < i \/ rid[2] < current_slot[k]
  <2>1. Behind(k, i, j, rid[2])
    BY <1>1, <1>3, <1>4 DEF Behind
  <2> QED BY <2>1 DEF Passed
<1>5. CASE j = i /\ rid[2] >= current_slot[k]
  <2>1. rid[1] = current_page_id[k]
    BY <1>5
  <2> QED BY <2>1, <1>2, <1>3, <1>5 DEF Remaining
<1>6. (j < i \/ rid[2] < current_slot[k]) \/ (j = i /\ rid[2] >= current_slot[k])
  BY <1>1, <1>2, <1>3
<1> QED BY <1>4, <1>5, <1>6

LEMMA ListFindRow ==
  ASSUME TypeOK, NEW n, NEW ch, ListInv(n, ch), NEW k \in Cursors, FindRow(k)
  PROVE  ListInv(n, ch)'
<1>1. PICK s \in Remaining(k), p \in {current_page_id[k]} :
        /\ p = current_page_id[k] /\ \A t \in Remaining(k) : s <= t
        /\ current_slot' = [current_slot EXCEPT ![k] = s]
        /\ seen' = [seen EXCEPT ![k] = Append(@, <<p, s>>)]
  BY DEF FindRow
<1>2. CursorInv(n, ch, k) /\ cpc[k] = "advance" /\ p # Null /\ p \in Pages
  BY <1>1 DEF FindRow, ListInv, TypeOK
<1>3. PICK i \in 1 .. n : ch[i] = p /\ Passed(n, ch, k, i)
  BY <1>1, <1>2 DEF CursorInv
<1>4. /\ cpc'[k] = "row" /\ current_slot'[k] = s /\ seen'[k] = Append(seen[k], <<p, s>>)
      /\ UNCHANGED <<current_page_id, partial_pages_head, in_partial_list, rows, due>>
  BY <1>1 DEF FindRow, TypeOK
<1>5. current_slot[k] \in Nat /\ s \in Nat /\ current_slot[k] <= s /\ FirstAhead(k) = current_slot[k]
  <2>1. is_deleted[p] \in Seq(BOOLEAN) /\ current_slot[k] \in Nat
    BY <1>2 DEF TypeOK
  <2> QED BY <1>1, <1>2, <2>1 DEF Remaining, FirstAhead
<1>6. n \in Nat /\ \A j \in 1 .. n : ch[j] = p => j = i
  BY <1>3 DEF ListInv, ChainInv
<1>7. seen[k] \in Seq(RowIds)
  BY DEF TypeOK
<1>8. Seen(k)' = Seen(k) \cup {<<p, s>>} /\ FirstAhead(k)' = s + 1
  <2>1. /\ Len(Append(seen[k], <<p, s>>)) = Len(seen[k]) + 1
        /\ Append(seen[k], <<p, s>>)[Len(seen[k]) + 1] = <<p, s>>
        /\ \A x \in 1 .. Len(seen[k]) : Append(seen[k], <<p, s>>)[x] = seen[k][x]
        /\ Len(seen[k]) \in Nat
    BY <1>7
  <2>2. \A x : x \in 1 .. Len(seen[k]) + 1 <=> x \in 1 .. Len(seen[k]) \/ x = Len(seen[k]) + 1
    BY <2>1
  <2>3. Seen(k)' = {Append(seen[k], <<p, s>>)[x] : x \in 1 .. Len(seen[k]) + 1}
    BY <1>4, <2>1 DEF Seen
  <2>4. \A r : r \in Seen(k)' <=> r \in Seen(k) \cup {<<p, s>>}
    BY <2>1, <2>2, <2>3 DEF Seen
  <2> QED BY <2>4, <1>4 DEF FirstAhead
\* Rows returned from this page lie before the current slot: this one is new.
<1>9. <<p, s>> \notin Seen(k)
  <2>1. SUFFICES ASSUME <<p, s>> \in Seen(k) PROVE FALSE
    OBVIOUS
  <2>2. PICK r \in Seen(k) : r[1] = p /\ r[2] = s
    BY <2>1
  <2>3. Behind(k, i, i, s)
    BY <2>2, <1>3 DEF Passed
  <2> QED BY <2>3, <1>3, <1>5, <1>6 DEF Behind
<1>10. \A x, y \in 1 .. Len(seen'[k]) : seen'[k][x] = seen'[k][y] => x = y
  <2>1. \A x \in 1 .. Len(seen[k]) : seen[k][x] # <<p, s>>
    BY <1>9 DEF Seen
  <2>2. \A x, y \in 1 .. Len(seen[k]) : seen[k][x] = seen[k][y] => x = y
    BY <1>2 DEF CursorInv
  <2> QED BY <2>1, <2>2, <1>4, <1>7
<1>11. Passed(n, ch, k, i)'
  <2> SUFFICES ASSUME NEW j \in 1 .. n
               PROVE  /\ \A r \in due[k] : r[1] = ch[j] /\ Behind(k, i, j, r[2])' => r \in Seen(k)'
                      /\ \A r \in Seen(k)' : r[1] = ch[j] => Behind(k, i, j, r[2])'
    BY <1>4 DEF Passed
  <2>1. ASSUME NEW r \in due[k], r[1] = ch[j], Behind(k, i, j, r[2])' PROVE r \in Seen(k)'
    <3>1. j < i \/ (j = i /\ r[2] < s + 1)
      BY <2>1, <1>8 DEF Behind
    <3>2. r \in rows /\ r = <<r[1], r[2]>> /\ r[2] \in Nat
      BY <1>2, RowPlace DEF CursorInv
    <3>3. CASE r \in Seen(k)
      BY <3>3, <1>8
    <3>4. CASE j = i /\ r[2] \in Remaining(k)
      <4>1. s <= r[2] /\ r[2] < s + 1
        BY <1>1, <1>6, <3>1, <3>4
      <4>2. r = <<p, s>>
        BY <2>1, <1>3, <1>5, <3>2, <3>4, <4>1
      <4> QED BY <4>2, <1>8
    <3>5. j <= i
      BY <1>6, <3>1
    <3> QED BY <2>1, <1>1, <1>2, <1>3, <3>3, <3>4, <3>5, DueAhead
  <2>2. ASSUME NEW r \in Seen(k)', r[1] = ch[j] PROVE Behind(k, i, j, r[2])'
    <3>1. CASE r \in Seen(k)
      <4>1. Behind(k, i, j, r[2])
        BY <2>2, <3>1, <1>3 DEF Passed
      <4>2. r[2] \in Nat
        BY <3>1, <1>7 DEF Seen, RowIds
      <4> QED BY <4>1, <4>2, <1>5, <1>8 DEF Behind
    <3>2. CASE r = <<p, s>>
      <4>1. j = i /\ r[2] = s /\ s < s + 1
        BY <2>2, <3>2, <1>5, <1>6
      <4> QED BY <4>1, <1>8 DEF Behind
    <3> QED BY <3>1, <3>2, <1>8
  <2> QED BY <2>1, <2>2
<1>12. CursorInv(n, ch, k)'
  <2>1. \A r \in Seen(k)' : r[1] \in Linked(n, ch)
    BY <1>2, <1>3, <1>8 DEF CursorInv, Linked
  <2> QED BY <1>1, <1>2, <1>3, <1>4, <1>10, <1>11, <2>1 DEF CursorInv, Linked
<1> QED BY <1>1, <1>12, CursorMoves DEF FindRow, TypeOK

LEMMA ListLeavePage ==
  ASSUME TypeOK, NEW n, NEW ch, ListInv(n, ch), NEW k \in Cursors, LeavePage(k)
  PROVE  ListInv(n, ch)'
<1>1. CursorInv(n, ch, k) /\ cpc[k] = "advance" /\ current_page_id[k] # Null /\ Remaining(k) = {}
  BY DEF LeavePage, ListInv
<1>2. ~ToPartialList(k)
  BY <1>1 DEF CursorInv, ToPartialList
<1>3. /\ cpc' = cpc /\ current_slot'[k] = 1 /\ current_page_id'[k] = next[current_page_id[k]]
      /\ UNCHANGED <<partial_pages_head, seen, rows, due>>
      /\ in_partial_list'[k] = in_partial_list[k]
  BY <1>2 DEF LeavePage, FirstSlot, TypeOK
<1>4. PICK i \in 1 .. n : ch[i] = current_page_id[k] /\ Passed(n, ch, k, i)
  BY <1>1 DEF CursorInv
<1>5. /\ n \in Nat /\ ch \in [1 .. n -> Pages]
      /\ current_page_id'[k] = IF i < n THEN ch[i + 1] ELSE Null
  BY <1>3, <1>4 DEF ListInv, ChainInv
<1>6. Seen(k)' = Seen(k) /\ FirstAhead(k)' = 1
  BY <1>1, <1>3 DEF Seen, FirstAhead
\* The page is done with: what is due up to it has been returned.
<1>7. \A rid \in due[k], j \in 1 .. n : rid[1] = ch[j] /\ j <= i => rid \in Seen(k)
  BY <1>1, <1>4, DueAhead
<1>8. CASE i < n
  <2>1. i + 1 \in 1 .. n /\ current_page_id'[k] = ch[i + 1]
    BY <1>5, <1>8
  <2>2. ASSUME NEW j \in 1 .. n, NEW rid \in due[k], rid[1] = ch[j], Behind(k, i + 1, j, rid[2])'
        PROVE  rid \in Seen(k)
    <3>1. rid[2] \in Nat \ {0}
      BY <1>1, RowPlace DEF CursorInv
    <3>2. j <= i
      BY <2>2, <3>1, <1>5, <1>6 DEF Behind
    <3> QED BY <2>2, <3>2, <1>7
  <2>3. ASSUME NEW j \in 1 .. n, NEW rid \in Seen(k), rid[1] = ch[j]
        PROVE  Behind(k, i + 1, j, rid[2])'
    <3>1. Behind(k, i, j, rid[2])
      BY <2>3, <1>4 DEF Passed
    <3> QED BY <3>1, <1>5 DEF Behind
  <2>4. Passed(n, ch, k, i + 1)'
    BY <2>2, <2>3, <1>3, <1>6 DEF Passed
  <2>5. CursorInv(n, ch, k)'
    <3>1. ch[i + 1] # Null
      BY <2>1, <1>5, TableAssumption
    <3> QED BY <2>1, <2>4, <3>1, <1>1, <1>3, <1>6 DEF CursorInv, Linked
  <2> QED BY <2>5, CursorMoves DEF LeavePage, TypeOK
<1>9. CASE ~(i < n)
  <2>1. i = n /\ current_page_id'[k] = Null
    BY <1>5, <1>9
  <2>2. due[k] \subseteq Seen(k)
    <3>1. ASSUME NEW rid \in due[k] PROVE rid \in Seen(k)
      <4>1. PICK j \in 1 .. n : rid[1] = ch[j]
        BY <1>1, RowPlace DEF CursorInv
      <4>2. j <= i
        BY <2>1, <1>5
      <4> QED BY <4>1, <4>2, <1>7
    <3> QED BY <3>1
  <2>3. CursorInv(n, ch, k)'
    BY <2>1, <2>2, <1>1, <1>3, <1>6 DEF CursorInv, Linked
  <2> QED BY <2>3, CursorMoves DEF LeavePage, TypeOK
<1> QED BY <1>8, <1>9
-----------------------------------------------------------------------------
(* TableInv is an invariant. *)

LEMMA TableInit ==
  ASSUME Init
  PROVE  TableInv
<1> DEFINE ch == [i \in 1 .. 0 |-> Null]
<1>0. \A x \in 1 .. 0 : FALSE
  OBVIOUS
<1>1. <<>> \in Seq(BOOLEAN) /\ <<>> \in Seq(RowIds) /\ 1 \in Nat \ {0} /\ Len(<<>>) = 0
  OBVIOUS
<1>2. TypeOK
  <2>1. /\ pc \in [Writers -> {"idle", "insert", "walk", "link"}]
        /\ size \in [Writers -> RowSizes \cup {0}]
        /\ next_page_id \in [Writers -> Pages \cup {Null}]
        /\ last_partial_id \in [Writers -> Pages \cup {Null}]
        /\ new_page_id \in [Writers -> Pages \cup {Null}]
    BY DEF Init
  <2>2. /\ cpc \in [Cursors -> {"advance", "row", "end"}]
        /\ current_page_id \in [Cursors -> Pages \cup {Null}]
        /\ current_slot \in [Cursors -> Nat \ {0}]
        /\ partial_pages_head \in [Cursors -> Pages \cup {Null}]
        /\ in_partial_list \in [Cursors -> BOOLEAN]
    BY <1>1 DEF Init
  <2> QED BY <1>1, <2>1, <2>2 DEF Init, TypeOK
<1>3. 0 \in Nat /\ ch \in [1 .. 0 -> Pages] /\ Linked(0, ch) = {}
  BY <1>0 DEF Linked
<1>4. ChainInv(0, ch)
  BY <1>0, <1>3 DEF Init, ChainInv
<1>5. RowsInv(0, ch)
  BY <1>3 DEF Init, RowsInv
<1>6. \A c \in Writers : WriterInv(0, ch, c)
  BY DEF Init, WriterInv
<1>7. ASSUME NEW k \in Cursors PROVE CursorInv(0, ch, k)
  <2>1. seen[k] = <<>> /\ Seen(k) = {}
    BY <1>0, <1>1 DEF Init, Seen
  <2> QED BY <1>0, <1>1, <2>1 DEF Init, CursorInv
<1>8. ListInv(0, ch)
  BY <1>3, <1>4, <1>5, <1>6, <1>7 DEF ListInv
<1> QED BY <1>2, <1>8 DEF TableInv

LEMMA WriterTableStep ==
  ASSUME OneInserter, TableInv, NEW c \in Writers, WriterStep(c)
  PROVE  TableInv'
<1>1. TypeOK
  BY DEF TableInv
<1>2. PICK n, ch : ListInv(n, ch)
  BY DEF TableInv
<1>3. ASSUME NEW m \in RowSizes, InsertRow(c, m) PROVE TableInv'
  <2>1. TypeOK'
    BY <1>1, <1>3 DEF InsertRow, BeginInsert, pageVars, cursorVars, TypeOK
  <2> QED BY <2>1, <1>1, <1>2, <1>3, ListWalk DEF TableInv
<1>4. CASE ReadPartialHead(c)
  <2>1. TypeOK' /\ ListInv(n, ch)'
    BY <1>1, <1>2, <1>4, TypesWalk, ListWalk
  <2> QED BY <2>1 DEF TableInv
<1>5. CASE InsertHere(c)
  <2>1. TypeOK' /\ ListInv(n, ch)'
    BY <1>1, <1>2, <1>5, TypesInsertHere, ListInsertHere
  <2> QED BY <2>1 DEF TableInv
<1>6. CASE WalkOn(c)
  <2>1. TypeOK' /\ ListInv(n, ch)'
    BY <1>1, <1>2, <1>6, TypesWalk, ListWalk
  <2> QED BY <2>1 DEF TableInv
<1>7. CASE NewPage(c)
  <2>1. TypeOK' /\ ListInv(n, ch)'
    BY <1>1, <1>2, <1>7, ListNewPage
  <2> QED BY <2>1 DEF TableInv
<1>8. CASE LinkPage(c)
  <2>1. TypeOK' /\ \E m, dh : ListInv(m, dh)'
    BY <1>1, <1>2, <1>8, TypesLinkPage, ListLinkPage
  <2> QED BY <2>1 DEF TableInv
<1>9. ASSUME NEW rid \in rows, DeleteRow(c, rid) PROVE TableInv'
  <2>1. TypeOK' /\ ListInv(n, ch)'
    BY <1>1, <1>2, <1>9, ListDelete DEF DeleteRow
  <2> QED BY <2>1 DEF TableInv
<1>10. ASSUME NEW rid \in rows, NEW m \in RowSizes, UpdateRow(c, rid, m) PROVE TableInv'
  <2>1. TypeOK' /\ ListInv(n, ch)'
    BY <1>1, <1>2, <1>10, ListDelete DEF UpdateRow
  <2> QED BY <2>1 DEF TableInv
<1> QED BY <1>3, <1>4, <1>5, <1>6, <1>7, <1>8, <1>9, <1>10 DEF WriterStep

LEMMA CursorTableStep ==
  ASSUME TableInv, NEW k \in Cursors, CursorStep(k)
  PROVE  TableInv'
<1>1. TypeOK
  BY DEF TableInv
<1>2. PICK n, ch : ListInv(n, ch)
  BY DEF TableInv
<1>3. CASE Begin(k) \/ LeavePage(k) \/ ReachEnd(k) \/ Increment(k)
  <2>1. TypeOK' /\ ListInv(n, ch)'
    BY <1>1, <1>2, <1>3, TypesCursor, ListBegin, ListLeavePage, ListReachEnd, ListIncrement
  <2> QED BY <2>1 DEF TableInv
<1>4. CASE FindRow(k)
  <2>1. TypeOK' /\ ListInv(n, ch)'
    BY <1>1, <1>2, <1>4, TypesFindRow, ListFindRow
  <2> QED BY <2>1 DEF TableInv
<1>5. ASSUME NEW rid \in rows, Seek(k, rid) PROVE TableInv'
  <2>1. TypeOK' /\ ListInv(n, ch)'
    BY <1>1, <1>2, <1>5, TypesSeek, ListSeek
  <2> QED BY <2>1 DEF TableInv
<1> QED BY <1>3, <1>4, <1>5 DEF CursorStep, Advance

LEMMA TableStays ==
  ASSUME TableInv, UNCHANGED vars
  PROVE  TableInv'
<1>1. TypeOK
  BY DEF TableInv
<1>2. PICK n, ch : ListInv(n, ch)
  BY DEF TableInv
<1>3. UNCHANGED <<pageVars, writerVars, cursorVars, rows, due>>
  BY DEF vars
<1>4. TypeOK'
  BY <1>1, <1>3 DEF pageVars, writerVars, cursorVars, TypeOK
<1>5. \A k \in Cursors : CursorInv(n, ch, k)'
  BY <1>2, <1>3, CursorsKept
<1>6. ListInv(n, ch)'
  BY <1>2, <1>3, <1>5, TableKept DEF ListInv
<1> QED BY <1>4, <1>6 DEF TableInv

LEMMA TableAlways ==
  ASSUME OneInserter
  PROVE  Spec => []TableInv
<1>1. Init => TableInv
  BY TableInit
<1>2. TableInv /\ [Next]_vars => TableInv'
  BY WriterTableStep, CursorTableStep, TableStays DEF Next
<1> QED BY <1>1, <1>2, PTL DEF Spec
-----------------------------------------------------------------------------

\* Every page, room, slot and cursor position stays in range: a page is never
\* filled beyond its room, and no thread follows a pointer to nowhere
\* (disk_table.cpp, disk_table_iterator.cpp).
THEOREM TableTypes ==
  ASSUME OneInserter
  PROVE  Spec => []TypeOK
<1>1. TableInv => TypeOK
  BY DEF TableInv
<1> QED BY <1>1, TableAlways, PTL

\* Whatever threads delete and scan, with one thread inserting the live slots on
\* the partial list are exactly the rows whose insert_row returned and that were
\* not deleted: a page is linked behind the last one and never cut off
\* (disk_table.cpp:73-88).
THEOREM RowsStayReachable ==
  ASSUME OneInserter
  PROVE  Spec => []RowsReachable
<1>1. ASSUME TableInv PROVE RowsReachable
  <2>1. TypeOK
    BY <1>1 DEF TableInv
  <2>2. PICK n, ch : ListInv(n, ch)
    BY <1>1 DEF TableInv
  <2>3. /\ n \in Nat /\ ch \in [1 .. n -> Pages] /\ Linked(n, ch) \subseteq Pages
        /\ Linked(n, ch) \in SUBSET Pages
    BY <2>2 DEF ListInv, Linked
  <2>4. FollowsInto(Linked(n, ch))
    <3>1. partial_head # Null => partial_head \in Linked(n, ch)
      BY <2>2, <2>3 DEF ListInv, ChainInv, Linked
    <3>2. ASSUME NEW p \in Linked(n, ch), next[p] # Null PROVE next[p] \in Linked(n, ch)
      <4>1. PICK i \in 1 .. n : p = ch[i]
        BY DEF Linked
      <4>2. i < n /\ next[p] = ch[i + 1]
        BY <2>2, <3>2, <4>1 DEF ListInv, ChainInv
      <4>3. i + 1 \in 1 .. n
        BY <2>3, <4>2
      <4> QED BY <4>2, <4>3 DEF Linked
    <3> QED BY <3>1, <3>2 DEF FollowsInto
  <2>5. \A S \in SUBSET Pages : FollowsInto(S) => Linked(n, ch) \subseteq S
    BY <2>2 DEF ListInv, ChainInv
  <2>6. OnList = Linked(n, ch)
    BY <2>3, <2>4, <2>5 DEF OnList
  <2>7. ASSUME NEW rid \in rows PROVE rid \in Reachable
    <3>1. rid[1] \in OnList /\ rid[2] \in LiveSlots(rid[1]) /\ rid = <<rid[1], rid[2]>>
      BY <2>1, <2>2, <2>6 DEF ListInv, RowsInv, TypeOK, RowIds
    <3>2. rid \in {rid[1]} \X LiveSlots(rid[1])
      BY <3>1
    <3> QED BY <3>1, <3>2 DEF Reachable
  <2>8. ASSUME NEW rid \in Reachable PROVE rid \in rows
    <3>1. PICK p \in OnList : rid \in {p} \X LiveSlots(p)
      BY DEF Reachable
    <3>2. PICK s \in LiveSlots(p) : rid = <<p, s>>
      BY <3>1
    <3> QED BY <3>2, <2>2, <2>6 DEF ListInv, RowsInv
  <2> QED BY <2>7, <2>8 DEF RowsReachable
<1>2. TableInv => RowsReachable
  BY <1>1
<1> QED BY <1>2, TableAlways, PTL

\* A scan that reaches the end sentinel has returned every row that was in the
\* table when the iterator was made and was not deleted since, however pages were
\* filled, linked and emptied around it (disk_table_iterator.cpp).
THEOREM ScansComplete ==
  ASSUME OneInserter
  PROVE  Spec => []ScanComplete
<1>1. TableInv => ScanComplete
  BY DEF TableInv, ListInv, CursorInv, ScanComplete, Seen
<1> QED BY <1>1, TableAlways, PTL

\* And it has returned no row twice: a cursor never comes back to a page
\* (disk_table_iterator.cpp).
THEOREM ScansReturnOnce ==
  ASSUME OneInserter
  PROVE  Spec => []ScanOnce
<1>1. TableInv => ScanOnce
  BY DEF TableInv, ListInv, CursorInv, ScanOnce
<1> QED BY <1>1, TableAlways, PTL
=============================================================================
