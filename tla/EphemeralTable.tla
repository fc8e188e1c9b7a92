-------------------------- MODULE EphemeralTable --------------------------
(***************************************************************************)
(* The in-memory table (src/storage/ephemeral/ephemeral_table.cpp): a map   *)
(* from row ids to rows that its iterator walks in the order of the ids,    *)
(* and the two counters row ids are made of.  next_slot_id_m is a uint16_t  *)
(* and carries into next_page_id_m.                                         *)
(***************************************************************************)
EXTENDS RowLists, Sequences, SequencesExt

CONSTANT SlotMod   \* 2^16

ASSUME SlotAssumption == SlotMod \in Nat \ {0}

\* EphemeralTable().
NewTable == [table_data |-> <<>>, next_page_id |-> 0, next_slot_id |-> 0]

\* MakeRowId: the page id in the upper bits, the slot id in the lower ones.
MakeRowId(page_id, slot_id) == page_id * SlotMod + slot_id

\* The row id the next insertion gets.
NextRowId(t) == MakeRowId(t.next_page_id, t.next_slot_id)

\* Mutant: the slot counter wraps without a carry.
AdvanceNoCarry(t) == [t EXCEPT !.next_slot_id = (t.next_slot_id + 1) % SlotMod]

\* GenerateRowId moves the counters on.
Advance(t) ==
  LET slot == (t.next_slot_id + 1) % SlotMod IN
    [t EXCEPT !.next_slot_id = slot,
              !.next_page_id = IF slot = 0 THEN t.next_page_id + 1 ELSE t.next_page_id]

\* insert_row; std::map::insert leaves an id that is there already as it is.
InsertRow(t, row) ==
  LET ids == DOMAIN t.table_data IN
    [Advance(t) EXCEPT !.table_data =
       [r \in ids \cup {NextRowId(t)} |-> IF r \in ids THEN t.table_data[r] ELSE row]]

\* delete_row of an id that is there; it throws for any other.
DeleteRow(t, rid) ==
  [t EXCEPT !.table_data = [r \in DOMAIN t.table_data \ {rid} |-> t.table_data[r]]]

\* update_row is both.
UpdateRow(t, rid, row) == InsertRow(DeleteRow(t, rid), row)

\* The row ids in the order EphemeralTableIterator meets them.
RowIds(t) == RowsAt([r \in DOMAIN t.table_data |-> r], DOMAIN t.table_data)

\* The rows in that order.
Scan(t) == RowsAt(t.table_data, DOMAIN t.table_data)
=============================================================================
