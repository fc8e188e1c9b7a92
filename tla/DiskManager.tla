--------------------------- MODULE DiskManager ---------------------------
(***************************************************************************)
(* The disk manager (src/storage/on_disk/disk/disk_manager.cpp): files,     *)
(* the map of open handles, and page allocation.                            *)
(*                                                                          *)
(* A page operation looks its handle up under mut_m, lets go of mut_m, and  *)
(* then works under the handle's own mutex; between the two, and while it   *)
(* works, DeleteFile (which takes only mut_m) may close and remove the      *)
(* file.  Growing a file reads its size and resizes it in two system calls. *)
(* Free pages live in the handle's memory only.                             *)
(*                                                                          *)
(* DeleteFile forgets the handle before it tries to remove the file, and    *)
(* the removal may fail.  Calls that found the forgotten handle and calls   *)
(* that find a new one then work on one file under two mutexes.  The        *)
(* history variable `overtaken` tells the files to which this happened (or  *)
(* the same through a file created again) while it could matter; they are   *)
(* the exact exception of the properties.                                   *)
(*                                                                          *)
(* Page contents are left out: see PageBufferManager.                       *)
(***************************************************************************)
EXTENDS Integers, FiniteSets

CONSTANTS
  Threads, Files, Handles,
  RemoveFaults,  \* the files whose removal may fail
  MaxPages,      \* bound on the capacity explored
  NoHandle, NoThread

PageIds == 0 .. MaxPages - 1

ASSUME DiskAssumption ==
  /\ Files # {}
  /\ MaxPages \in Nat \ {0}
  /\ RemoveFaults \subseteq Files
  /\ NoHandle \notin Handles /\ NoThread \notin Threads

VARIABLES
  exists,      \* the files in the directory
  capacity,    \* capacity[f]: file size in pages
  id_map_m,    \* id_map_m[f]: the open handle of f, or NoHandle
  free_pages,  \* free_pages[h]: the pages handle h may hand out again
  stream,      \* stream[h]: "good", "failed" (sticky) or "closed"
  mut,         \* mut[h]: the thread inside h's mutex, or NoThread
  pc,          \* "idle", "looked" (handle found), "growing" (size read)
  op,          \* op[t]: the call t is in
  (* History variables: what the callers were given, and in which file a   *)
  (* forgotten handle is still at work.                                     *)
  owner,       \* owner[f][p]: the threads AllocatePage gave page p of f to
  overtaken    \* the files that are there again while calls of an earlier
               \* handle could still allocate in them

diskVars == <<exists, capacity>>
handleVars == <<id_map_m, free_pages, stream, mut>>
historyVars == <<owner, overtaken>>
vars == <<diskVars, handleVars, pc, op, historyVars>>

\* "transfer" stands for ReadPage and WritePage, which differ in direction only.
Calls == {"none", "allocate", "transfer", "delete"}

TypeOK ==
  /\ exists \in SUBSET Files
  /\ capacity \in [Files -> 0 .. MaxPages]
  /\ id_map_m \in [Files -> Handles \cup {NoHandle}]
  /\ free_pages \in [Handles -> SUBSET PageIds]
  /\ stream \in [Handles -> {"good", "failed", "closed"}]
  /\ mut \in [Handles -> Threads \cup {NoThread}]
  /\ pc \in [Threads -> {"idle", "looked", "growing"}]
  /\ op \in [Threads -> [call : Calls, file : Files, page : 0 .. MaxPages,
                         handle : Handles \cup {NoHandle}]]
  /\ owner \in [Files -> [PageIds -> SUBSET Threads]]
  /\ overtaken \in SUBSET Files

NoCall == [call |-> "none", file |-> CHOOSE f \in Files : TRUE, page |-> 0,
           handle |-> NoHandle]

Init ==
  /\ exists = {}
  /\ capacity = [f \in Files |-> 0]
  /\ id_map_m = [f \in Files |-> NoHandle]
  /\ free_pages = [h \in Handles |-> {}]
  /\ stream = [h \in Handles |-> "closed"]
  /\ mut = [h \in Handles |-> NoThread]
  /\ pc = [t \in Threads |-> "idle"]
  /\ op = [t \in Threads |-> NoCall]
  /\ owner = [f \in Files |-> [p \in PageIds |-> {}]]
  /\ overtaken = {}

\* t's call returns; its reference to the handle is dropped.
Return(t) ==
  /\ pc' = [pc EXCEPT ![t] = "idle"]
  /\ op' = [op EXCEPT ![t] = NoCall]

-----------------------------------------------------------------------------
(* Files: one step each, under mut_m. *)

\* A call on f is under way; one that may grow it or hand out its pages.
Busy(f) == \E t \in Threads : pc[t] # "idle" /\ op[t].file = f
Allocating(f) == \E t \in Threads :
  pc[t] # "idle" /\ op[t].file = f /\ op[t].call = "allocate"

\* CreateFile() and CreateFile(id): an empty file under a name not in use.  Calls
\* still under way on an earlier file of that name are on the new one from now on.
CreateFile(f) ==
  /\ f \notin exists
  /\ exists' = exists \cup {f}
  /\ capacity' = [capacity EXCEPT ![f] = 0]
  /\ overtaken' = IF Busy(f) THEN overtaken \cup {f} ELSE overtaken \ {f}
  /\ UNCHANGED <<handleVars, pc, op, owner>>

\* The file and what was given out of it are gone.
RemoveFile(f) ==
  /\ exists' = exists \ {f}
  /\ capacity' = [capacity EXCEPT ![f] = 0]
  /\ owner' = [owner EXCEPT ![f] = [p \in PageIds |-> {}]]
  /\ UNCHANGED overtaken

\* The removal fails and the error is returned; the file stays as it is.
RemoveFails(f) ==
  /\ f \in RemoveFaults
  /\ overtaken' = IF Allocating(f) THEN overtaken \cup {f} ELSE overtaken
  /\ UNCHANGED <<diskVars, owner>>

\* Mutant: DeleteFile leaves the handle of the removed file in the map.
DeleteFileKeepsHandle(f) ==
  /\ f \in exists
  /\ RemoveFile(f) \/ RemoveFails(f)
  /\ UNCHANGED <<handleVars, pc, op>>

\* DeleteFile: the stream is closed and the handle forgotten without waiting
\* for the handle's mutex; only then is the file removed, if it can be.
DeleteFile(f) ==
  /\ f \in exists
  /\ IF id_map_m[f] = NoHandle
     THEN UNCHANGED <<id_map_m, stream>>
     ELSE /\ stream' = [stream EXCEPT ![id_map_m[f]] = "closed"]
          /\ id_map_m' = [id_map_m EXCEPT ![f] = NoHandle]
  /\ RemoveFile(f) \/ RemoveFails(f)
  /\ UNCHANGED <<free_pages, mut, pc, op>>

-----------------------------------------------------------------------------
(* First step of a page operation: GetFileHandle under mut_m. *)

\* Nobody refers to h any more, so its memory can be a new DatabaseFile.
Unreferenced(h) ==
  /\ \A f \in Files : id_map_m[f] # h
  /\ \A t \in Threads : op[t].handle # h

\* The calls made on pages are made by the thread that was given the page.
MayCall(t, call, f, p) ==
  IF call = "allocate" THEN p = 0 ELSE p \in PageIds /\ t \in owner[f][p]

\* GetFileHandle(f) answers h: the one in the map, or a new one for a file that
\* can be opened, with nothing free.
GetFileHandle(f, h) ==
  \/ /\ id_map_m[f] = h
     /\ UNCHANGED handleVars
  \/ /\ id_map_m[f] = NoHandle
     /\ f \in exists
     /\ Unreferenced(h)
     /\ id_map_m' = [id_map_m EXCEPT ![f] = h]
     /\ free_pages' = [free_pages EXCEPT ![h] = {}]
     /\ stream' = [stream EXCEPT ![h] = "good"]
     /\ mut' = [mut EXCEPT ![h] = NoThread]

LookUp(t, call, f, p) ==
  /\ pc[t] = "idle"
  /\ MayCall(t, call, f, p)
  /\ \E h \in Handles :
       /\ GetFileHandle(f, h)
       /\ op' = [op EXCEPT ![t] = [call |-> call, file |-> f, page |-> p, handle |-> h]]
  /\ pc' = [pc EXCEPT ![t] = "looked"]
  /\ UNCHANGED <<diskVars, historyVars>>

\* t, past its lookup, gets the handle's mutex for `call`.
Enters(t, call) ==
  /\ pc[t] = "looked"
  /\ op[t].call = call
  /\ mut[op[t].handle] = NoThread

-----------------------------------------------------------------------------
(* AllocatePage. *)

\* A free page is handed out.
AllocateFree(t) ==
  /\ Enters(t, "allocate")
  /\ LET h == op[t].handle
         f == op[t].file
     IN \E p \in free_pages[h] :
          /\ free_pages' = [free_pages EXCEPT ![h] = @ \ {p}]
          /\ owner' = IF f \in exists THEN [owner EXCEPT ![f][p] = @ \cup {t}] ELSE owner
  /\ Return(t)
  /\ UNCHANGED <<diskVars, id_map_m, stream, mut, overtaken>>

\* No free page: the size is read (an error for a removed file), the mutex kept.
ReadSize(t) ==
  /\ Enters(t, "allocate")
  /\ free_pages[op[t].handle] = {}
  /\ IF op[t].file \in exists
     THEN /\ mut' = [mut EXCEPT ![op[t].handle] = t]
          /\ op' = [op EXCEPT ![t].page = capacity[op[t].file]]
          /\ pc' = [pc EXCEPT ![t] = "growing"]
     ELSE Return(t) /\ UNCHANGED mut
  /\ UNCHANGED <<diskVars, id_map_m, free_pages, stream, historyVars>>

NewCapacity(current) == IF current = 0 THEN 1 ELSE 2 * current

\* Mutant: the page just handed out is put on the free list as well.
SparePagesFromFirst(page) == page .. NewCapacity(page) - 1

\* Mutant: the loop over the new pages runs one page too far.
SparePagesInclusive(page) == (page + 1) .. NewCapacity(page)

\* The pages of a grown file that are not handed out at once.
SparePages(page) == (page + 1) .. NewCapacity(page) - 1

\* The file is doubled; the first new page is handed out, the others are free.
\* The resize fails when the file is gone or the device refuses.
Grow(t) ==
  /\ pc[t] = "growing"
  /\ LET f == op[t].file
         h == op[t].handle
         page == op[t].page
     IN /\ NewCapacity(page) <= MaxPages
        /\ \/ /\ f \in exists
              /\ capacity' = [capacity EXCEPT ![f] = NewCapacity(page)]
              /\ free_pages' = [free_pages EXCEPT ![h] = @ \cup SparePages(page)]
              /\ owner' = [owner EXCEPT ![f][page] = @ \cup {t}]
           \/ UNCHANGED <<capacity, free_pages, owner>>
        /\ mut' = [mut EXCEPT ![h] = NoThread]
  /\ Return(t)
  /\ UNCHANGED <<exists, id_map_m, stream, overtaken>>

-----------------------------------------------------------------------------
(* ReadPage, WritePage and DeletePage. *)

\* The assertion all three make: the page is inside the file and not free.
\* (On a removed file PageCapacity throws; the call then fails as well.)
InRange(t) ==
  /\ op[t].page < capacity[op[t].file]
  /\ op[t].page \notin free_pages[op[t].handle]

\* The transfer succeeds on a good stream or fails; a stream that failed once
\* is never cleared, so every later transfer on the handle fails too.
TransferPage(t) ==
  /\ Enters(t, "transfer")
  /\ op[t].file \in exists => InRange(t)
  /\ \/ UNCHANGED stream
     \/ /\ stream[op[t].handle] = "good"
        /\ stream' = [stream EXCEPT ![op[t].handle] = "failed"]
  /\ Return(t)
  /\ UNCHANGED <<diskVars, id_map_m, free_pages, mut, historyVars>>

\* DeletePage only puts the page on the handle's free list.
DeletePage(t) ==
  /\ Enters(t, "delete")
  /\ op[t].file \in exists => InRange(t)
  /\ IF op[t].file \in exists
     THEN /\ free_pages' = [free_pages EXCEPT ![op[t].handle] = @ \cup {op[t].page}]
          /\ owner' = [owner EXCEPT ![op[t].file][op[t].page] = @ \ {t}]
     ELSE UNCHANGED <<free_pages, owner>>
  /\ Return(t)
  /\ UNCHANGED <<diskVars, id_map_m, stream, mut, overtaken>>

-----------------------------------------------------------------------------
\* The process ends, cleanly or not, at any point: handles, free lists and
\* calls under way are gone, the files stay.  The next process starts.
Restart ==
  /\ id_map_m' = [f \in Files |-> NoHandle]
  /\ free_pages' = [h \in Handles |-> {}]
  /\ stream' = [h \in Handles |-> "closed"]
  /\ mut' = [h \in Handles |-> NoThread]
  /\ pc' = [t \in Threads |-> "idle"]
  /\ op' = [t \in Threads |-> NoCall]
  /\ UNCHANGED <<diskVars, historyVars>>

Next ==
  \/ \E f \in Files : CreateFile(f) \/ DeleteFile(f)
  \/ \E t \in Threads, f \in Files :
       \/ LookUp(t, "allocate", f, 0)
       \/ \E p \in PageIds, call \in {"transfer", "delete"} : LookUp(t, call, f, p)
  \/ \E t \in Threads :
       \/ AllocateFree(t) \/ ReadSize(t) \/ Grow(t)
       \/ TransferPage(t) \/ DeletePage(t)
  \/ Restart

Spec == Init /\ [][Next]_vars

-----------------------------------------------------------------------------
(* The properties leave out the files in `overtaken`, and only those: calls *)
(* through a forgotten handle that only transfer or delete pages, failed     *)
(* removals with no allocation under way, and restarts are all included.     *)

\* A page is never given to two owners: not by two threads growing the file at
\* once, not from the free list of a handle another thread still holds, not
\* after a restart that forgot which pages were free, and not after a removal
\* that failed and left two handles on the file.
NoDoubleAllocation ==
  \A f \in Files \ overtaken, p \in PageIds : Cardinality(owner[f][p]) <= 1

\* The assertion "Out of index page" (disk_manager.cpp:35, 55, 74) holds for
\* every owner of a page of an existing file, whenever its call gets to it.
OwnedInRange ==
  \A f \in exists \ overtaken, p \in PageIds : owner[f][p] # {} =>
    /\ p < capacity[f]
    /\ id_map_m[f] # NoHandle => p \notin free_pages[id_map_m[f]]

\* What a handle offers as free is inside its file.
FreeInFile ==
  \A f \in exists \ overtaken : id_map_m[f] # NoHandle =>
    \A p \in free_pages[id_map_m[f]] : p < capacity[f]
=============================================================================
